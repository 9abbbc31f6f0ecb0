--------------------------- MODULE TestcaseProofs ---------------------------
(***************************************************************************)
(* Whatever document the parser delivers, and whatever is left over in the *)
(* structure that is filled, the test case that is executed is the one     *)
(* that is written.                                                        *)
(***************************************************************************)
EXTENDS JsonTestcases, ProofLemmas

(* Numbers up to a bound have a greatest one.                              *)
LEMMA Greatest ==
    ASSUME NEW N \in Nat, NEW S \in SUBSET (0..N), S # {}
    PROVE  Max(S) \in S /\ \A n \in S : n <= Max(S)
<1> DEFINE D == {N - n : n \in S}
<1>1. D \in SUBSET Nat /\ D # {}
  OBVIOUS
<1>2. PICK d \in D : \A e \in D : d <= e
  <2> HIDE DEF D
  <2> QED
    BY <1>1, Least
<1>3. N - d \in S /\ \A n \in S : N - d >= n
  <2>1. \A n \in S : d <= N - n /\ n \in 0..N
    BY <1>2
  <2>2. PICK n \in S : d = N - n
    OBVIOUS
  <2> QED
    BY <2>1, <2>2
<1>4. Max(S) = CHOOSE x \in S : \A y \in S : x >= y
  BY DEF Max
<1>5. Max(S) \in S /\ \A y \in S : Max(S) >= y
  <2>1. \E x \in S : \A y \in S : x >= y
    BY <1>3
  <2> QED
    BY <1>4, <2>1
<1> QED
  BY <1>5

(* The last write to an address, among the first n.                        *)
IsLastWrite(cells, n, address, k) ==
    /\ k \in 1..n
    /\ cells[k].child[1].valueint = address
    /\ \A j \in 1..n : cells[j].child[1].valueint = address => j <= k

LEMMA LastWrite ==
    ASSUME NEW cells, NEW n \in Nat, NEW address,
           \E k \in 1..n : cells[k].child[1].valueint = address
    PROVE  \E k : IsLastWrite(cells, n, address, k)
<1> DEFINE W == {k \in 1..n : cells[k].child[1].valueint = address}
<1>1. W \in SUBSET (0..n) /\ W # {}
  OBVIOUS
<1>2. Max(W) \in W /\ \A k \in W : k <= Max(W)
  <2> HIDE DEF W
  <2> QED
    BY <1>1, Greatest
<1> QED
  BY <1>2 DEF IsLastWrite

(* The memory after n assignments, in one piece.                           *)
Written(cells, n) == {cells[k].child[1].valueint : k \in 1..n}
After(cells, n) ==
    [address \in Written(cells, n) |->
        cells[CHOOSE k : IsLastWrite(cells, n, address, k)].child[2].valueint]

LEMMA AfterReads ==
    ASSUME NEW cells, NEW n \in Nat, NEW k, NEW address, IsLastWrite(cells, n, address, k)
    PROVE  address \in Written(cells, n) /\ After(cells, n)[address] = cells[k].child[2].valueint
<1>1. address \in Written(cells, n)
  BY DEF IsLastWrite, Written
<1>2. \A j : IsLastWrite(cells, n, address, j) => j = k
  BY DEF IsLastWrite
<1>3. (CHOOSE j : IsLastWrite(cells, n, address, j)) = k
  BY <1>2
<1> QED
  BY <1>1, <1>3 DEF After

LEMMA OneAssignmentMore ==
    ASSUME NEW cells, NEW n \in Nat \ {0}
    PROVE  After(cells, n) = Assign(After(cells, n - 1), cells[n])
<1> DEFINE last == cells[n].child[1].valueint
<1>0. n - 1 \in Nat /\ \A k : k \in 1..n <=> k \in 1..n-1 \/ k = n
  OBVIOUS
<1>1. Written(cells, n) = Written(cells, n - 1) \cup {last}
  BY <1>0 DEF Written
<1>2. After(cells, n)[last] = cells[n].child[2].valueint
  <2>1. IsLastWrite(cells, n, last, n)
    BY DEF IsLastWrite
  <2> QED
    BY <2>1, AfterReads
<1>3. ASSUME NEW address \in Written(cells, n - 1), address # last
      PROVE  After(cells, n)[address] = After(cells, n - 1)[address]
  <2>1. PICK k : IsLastWrite(cells, n - 1, address, k)
    BY <1>0, <1>3, LastWrite DEF Written
  <2>2. IsLastWrite(cells, n, address, k)
    BY <1>0, <1>3, <2>1 DEF IsLastWrite
  <2> QED
    BY <1>0, <2>1, <2>2, AfterReads
<1>4. /\ DOMAIN After(cells, n) = Written(cells, n)
      /\ DOMAIN After(cells, n - 1) = Written(cells, n - 1)
      /\ After(cells, n) = [a \in Written(cells, n) |-> After(cells, n)[a]]
  BY DEF After
<1> QED
  BY <1>1, <1>2, <1>3, <1>4 DEF Assign

(* The loop over the assignments leaves the last byte written to each      *)
(* address, and nothing else.                                              *)
LEMMA AssignedIsAfter ==
    ASSUME NEW T, NEW cells \in Seq(T)
    PROVE  Assigned(<<>>, cells) = After(cells, Len(cells))
<1> DEFINE N == Len(cells)
           after == CHOOSE f : f = [n \in 0..N |-> IF n = 0 THEN <<>> ELSE Assign(f[n - 1], cells[n])]
           F == [n \in 0..N |-> After(cells, n)]
<1>1. N \in Nat
  OBVIOUS
<1>2. Assigned(<<>>, cells) = after[N]
  BY DEF Assigned
<1>3. After(cells, 0) = <<>>
  <2>1. Written(cells, 0) = {}
    BY DEF Written
  <2> QED
    BY <2>1 DEF After
<1> HIDE DEF N
<1>4. F = [n \in 0..N |-> IF n = 0 THEN <<>> ELSE Assign(F[n - 1], cells[n])]
  <2>1. ASSUME NEW n \in 0..N
        PROVE  F[n] = IF n = 0 THEN <<>> ELSE Assign(F[n - 1], cells[n])
    <3>1. n # 0 => n \in Nat \ {0} /\ n - 1 \in 0..N
      BY <1>1
    <3> QED
      BY <1>3, <3>1, OneAssignmentMore
  <2> QED
    BY <2>1
<1>5. after = [n \in 0..N |-> IF n = 0 THEN <<>> ELSE Assign(after[n - 1], cells[n])]
  <2> HIDE DEF F
  <2> QED
    BY <1>4, Zenon
<1> DEFINE S == {n \in Nat : n <= N => after[n] = After(cells, n)}
<1> HIDE DEF after
<1>6. 0 \in S
  <2>1. after[0] = <<>>
    BY <1>1, <1>5
  <2> QED
    BY <1>3, <2>1
<1>7. ASSUME NEW n \in Nat, n \in S
      PROVE  n + 1 \in S
  <2> SUFFICES ASSUME n + 1 <= N
               PROVE  after[n + 1] = After(cells, n + 1)
    OBVIOUS
  <2>1. n + 1 \in 0..N /\ n + 1 # 0 /\ (n + 1) - 1 = n /\ after[n] = After(cells, n) /\ n + 1 \in Nat \ {0}
    BY <1>1, <1>7
  <2>2. after[n + 1] = Assign(after[n], cells[n + 1])
    BY <1>5, <2>1
  <2>3. After(cells, n + 1) = Assign(After(cells, n), cells[n + 1])
    <3>1. After(cells, n + 1) = Assign(After(cells, (n + 1) - 1), cells[n + 1])
      BY <2>1, OneAssignmentMore, Zenon
    <3> QED
      BY <2>1, <3>1
  <2> QED
    BY <2>1, <2>2, <2>3
<1>8. N \in S
  <2> HIDE DEF S
  <2> QED
    BY <1>1, <1>6, <1>7, Induction
<1> QED
  BY <1>1, <1>2, <1>8 DEF N

-----------------------------------------------------------------------------
(* Looking up *)

(* The code looks a member up in a list and stops at an element without a  *)
(* name; in what the parser makes this finds the member of an object.      *)
LEMMA Lookup ==
    ASSUME NEW item, IsItem(item), NEW name, name # NoName
    PROVE  get_object_item(item, name) = Member(item, name)
<1> DEFINE hits == {n \in DOMAIN item.child :
                      /\ item.child[n].string = name
                      /\ \A k \in 1..n-1 : item.child[k].string # NoName}
<1>0. \A n \in DOMAIN item.child :
          /\ item.child[n].string # NoName <=> item.type = "Object"
          /\ \A k \in 1..n-1 : k \in DOMAIN item.child
  <2>1. \A n \in DOMAIN item.child : item.child[n] \in Range(item.child)
    BY DEF Range
  <2>2. DOMAIN item.child = 1..Len(item.child) /\ Len(item.child) \in Nat
    BY DEF IsItem
  <2> QED
    BY <2>1, <2>2 DEF IsItem
<1>1. CASE item.type = "Object"
  <2>1. hits = Members(item, name)
    BY <1>0, <1>1 DEF Members
  <2> QED
    BY <1>1, <2>1 DEF get_object_item, Member, IsDict
<1>2. CASE item.type # "Object"
  <2>1. hits = {}
    BY <1>0, <1>2
  <2> QED
    BY <1>2, <2>1 DEF get_object_item, Member, IsDict
<1> QED
  BY <1>1, <1>2

(* What is found is a child, or stands for none.                           *)
LEMMA MemberIsChild ==
    ASSUME NEW item, IsItem(item), NEW name
    PROVE  Member(item, name) = NoItem \/ Member(item, name) \in Range(item.child)
<1> SUFFICES ASSUME Members(item, name) # {}
             PROVE  item.child[Min(Members(item, name))] \in Range(item.child)
  BY DEF Member
<1>1. Members(item, name) \in SUBSET Nat
  BY DEF Members, IsItem
<1>2. Min(Members(item, name)) \in Members(item, name)
  <2>1. \E n \in Members(item, name) : \A m \in Members(item, name) : n <= m
    BY <1>1, Least
  <2> QED
    BY <2>1 DEF Min
<1> QED
  BY <1>2 DEF Members, Range

LEMMA NothingIsAnItem == IsItem(NoItem)
<1>1. NoItem.child = <<>> /\ Range(<<>>) = {}
  BY DEF NoItem, Range
<1>2. <<>> \in Seq(Range(<<>>))
  OBVIOUS
<1> QED
  BY <1>1, <1>2 DEF IsItem

(* The part in front of the first bad element.                             *)
IsPrefixIn(part, s, good, n) ==
    /\ part = SubSeq(s, 1, n)
    /\ \A k \in 1..n : s[k] \in good
    /\ (\A k \in 1..Len(s) : s[k] \in good) => n = Len(s)

LEMMA InitialPart ==
    ASSUME NEW T, NEW s \in Seq(T), NEW n \in 0..Len(s)
    PROVE  /\ SubSeq(s, 1, n) \in Seq(T)
           /\ Len(SubSeq(s, 1, n)) = n
           /\ DOMAIN SubSeq(s, 1, n) = 1..n
           /\ \A k \in 1..n : SubSeq(s, 1, n)[k] = s[k]
  OBVIOUS

LEMMA PassingIsPrefix ==
    ASSUME NEW T, NEW s \in Seq(T), NEW good
    PROVE  \E n \in 0..Len(s) : IsPrefixIn(Passing(s, good), s, good, n)
<1> DEFINE P == {n \in 0..Len(s) : Range(SubSeq(s, 1, n)) \subseteq good}
<1>1. \A n \in 0..Len(s) : n \in P <=> \A k \in 1..n : s[k] \in good
  <2> SUFFICES ASSUME NEW n \in 0..Len(s)
               PROVE  Range(SubSeq(s, 1, n)) \subseteq good <=> \A k \in 1..n : s[k] \in good
    OBVIOUS
  <2>1. DOMAIN SubSeq(s, 1, n) = 1..n /\ \A k \in 1..n : SubSeq(s, 1, n)[k] = s[k]
    OBVIOUS
  <2> QED
    BY <2>1 DEF Range
<1>2. Len(s) \in Nat /\ 0 \in P /\ P \in SUBSET (0..Len(s))
  BY <1>1
<1>3. Passing(s, good) = SubSeq(s, 1, Max(P))
  BY DEF Passing
<1> HIDE DEF P
<1>4. Max(P) \in P /\ \A n \in P : n <= Max(P)
  BY <1>2, Greatest
<1>5. ASSUME \A j \in 1..Len(s) : s[j] \in good
      PROVE  Max(P) = Len(s)
  <2>1. PICK m : m = Max(P) /\ m \in 0..Len(s) /\ \A n \in P : n <= m
    BY <1>2, <1>4
  <2>2. Len(s) \in P
    BY <1>1, <1>2, <1>5
  <2>3. Len(s) <= m
    BY <2>1, <2>2
  <2> QED
    BY <1>2, <2>1, <2>3
<1> QED
  BY <1>1, <1>2, <1>3, <1>4, <1>5 DEF IsPrefixIn

-----------------------------------------------------------------------------
(* A machine state *)

Names == {"pc", "s", "a", "x", "y", "p"}

(* The fields that are parsed are those that are numbers in range.         *)
LEMMA FieldsParse ==
    ASSUME NEW item, IsItem(item)
    PROVE  \A name \in Range(Fields) :
               /\ get_object_item(item, name) = Member(item, name)
               /\ FieldParses(item, name) <=> IsInt(Member(item, name), Width[name])
<1>1. \A name \in Range(Fields) : name # NoName
  BY DEF Range, Fields, NoName
<1> QED
  BY <1>1, Lookup DEF FieldParses, IsInt

(* An address has the byte that was written there last.                    *)
LEMMA AfterIsByteAt ==
    ASSUME NEW T, NEW cells \in Seq(T), NEW address \in Written(cells, Len(cells))
    PROVE  After(cells, Len(cells))[address] = ByteAt(cells, address)
<1> DEFINE writes == {n \in DOMAIN cells : cells[n].child[1].valueint = address}
<1>1. Len(cells) \in Nat /\ DOMAIN cells = 1..Len(cells)
  OBVIOUS
<1>2. writes # {} /\ writes \in SUBSET (0..Len(cells))
  BY <1>1 DEF Written
<1>3. Max(writes) \in writes /\ \A n \in writes : n <= Max(writes)
  <2> HIDE DEF writes
  <2> QED
    BY <1>1, <1>2, Greatest
<1>4. IsLastWrite(cells, Len(cells), address, Max(writes))
  BY <1>1, <1>3 DEF IsLastWrite
<1>5. ByteAt(cells, address) = cells[Max(writes)].child[2].valueint
  BY <1>2 DEF ByteAt
<1> QED
  BY <1>1, <1>4, <1>5, AfterReads

(* A machine state without an error means what it says; and memory is      *)
(* either left alone or all from this one, under registers that are.       *)
MadeOf(state, item) ==
    LET cells == Member(item, "ram").child
    IN  /\ \A a \in DOMAIN state.ram : \E n \in DOMAIN cells :
              cells[n].child[1].valueint = a /\ cells[n].child[2].valueint = state.ram[a]
        /\ \A f \in Range(Fields) : state.regs[f] = Member(item, f).valueint

LEMMA MachineStateIsParsed ==
    ASSUME NEW item, IsItem(item),
           \A child \in Range(item.child) :
               IsItem(child) /\ \A value \in Range(child.child) : IsItem(value),
           NEW which \in {"initial", "final"}, NEW old,
           NEW new, new = parse_json_machine_state_field(item, which, old)
    PROVE  /\ IsState(Member(item, which)) => Matches(new, Member(item, which))
           /\ new.ram = old.ram \/ MadeOf(new, Member(item, which))
<1> DEFINE field    == Member(item, which)
           ramspec  == Member(field, "ram")
           cells    == ramspec.child
           fits     == {name \in Range(Fields) : FieldParses(field, name)}
           cellsFit == {a \in Range(cells) : AssignmentParses(a)}
           parsed   == Passing(Fields, fits)
           assigned == Passing(cells, cellsFit)
           reaches  == Len(parsed) = Len(Fields) /\ ramspec.type = "Array"
<1>1. IsItem(field) /\ \A value \in Range(field.child) : IsItem(value)
  <2>1. Range(NoItem.child) = {}
    BY DEF NoItem, Range
  <2> QED
    BY <2>1, MemberIsChild, NothingIsAnItem
<1>2. IsItem(ramspec)
  <2> HIDE DEF field
  <2> QED
    BY <1>1, MemberIsChild, NothingIsAnItem
<1>3. get_object_item(item, which) = field /\ get_object_item(field, "ram") = ramspec
  <2>1. which # NoName /\ "ram" # NoName
    BY DEF NoName
  <2> HIDE DEF field
  <2>2. get_object_item(field, "ram") = Member(field, "ram")
    BY <1>1, <2>1, Lookup
  <2> QED
    BY <2>1, <2>2, Lookup DEF field
<1>4. /\ new.regs = [name \in Range(Fields) |->
                        IF name \in Range(parsed) THEN get_object_item(field, name).valueint
                        ELSE old.regs[name]]
      /\ new.ram = IF reaches THEN Assigned(<<>>, assigned) ELSE old.ram
  BY <1>3 DEF parse_json_machine_state_field
<1> HIDE DEF field, ramspec
<1>5. Fields \in Seq(Names) /\ Len(Fields) = 6 /\ Range(Fields) = {Fields[k] : k \in 1..6}
  <2>1. Fields \in Seq(Names) /\ Len(Fields) = 6
    BY DEF Fields, Names
  <2>2. DOMAIN Fields = 1..6
    BY <2>1
  <2> QED
    BY <2>1, <2>2 DEF Range
<1>6. cells \in Seq(Range(cells)) /\ DOMAIN cells = 1..Len(cells) /\ Len(cells) \in Nat
  BY <1>2 DEF IsItem
<1> HIDE DEF cells
<1>7. PICK n \in 0..6 : IsPrefixIn(parsed, Fields, fits, n)
  <2> HIDE DEF fits
  <2>1. \E n \in 0..Len(Fields) : IsPrefixIn(Passing(Fields, fits), Fields, fits, n)
    BY <1>5, PassingIsPrefix, Zenon
  <2> QED
    BY <1>5, <2>1
<1>8. PICK m \in 0..Len(cells) : IsPrefixIn(assigned, cells, cellsFit, m)
  <2> HIDE DEF cellsFit
  <2> QED
    BY <1>6, PassingIsPrefix, Zenon
<1> HIDE DEF fits, cellsFit, parsed, assigned
<1>9. Len(parsed) = n /\ (n = 6 => Range(parsed) = Range(Fields))
  <2>1. DOMAIN parsed = 1..n /\ Len(parsed) = n /\ \A k \in 1..n : parsed[k] = Fields[k]
    <3>1. parsed = SubSeq(Fields, 1, n) /\ n \in 0..Len(Fields)
      BY <1>5, <1>7 DEF IsPrefixIn
    <3> QED
      BY <1>5, <3>1, InitialPart
  <2> QED
    BY <1>5, <2>1 DEF Range
<1>10. /\ assigned \in Seq(Range(cells)) /\ Len(assigned) = m /\ DOMAIN assigned = 1..m
       /\ \A k \in 1..m : assigned[k] = cells[k]
  BY <1>6, <1>8, InitialPart DEF IsPrefixIn
<1>11. Assigned(<<>>, assigned) = After(assigned, m)
  BY <1>10, AssignedIsAfter
<1>12. ASSUME reaches
       PROVE  \A name \in Range(Fields) : new.regs[name] = Member(field, name).valueint
  <2>1. Range(parsed) = Range(Fields)
    BY <1>5, <1>9, <1>12
  <2>2. \A name \in Range(Fields) : get_object_item(field, name) = Member(field, name)
    BY <1>1, FieldsParse
  <2> QED
    BY <1>4, <2>1, <2>2
<1>13. ASSUME reaches
       PROVE  MadeOf(new, field)
  <2>1. new.ram = After(assigned, m)
    BY <1>4, <1>11, <1>13
  <2>2. ASSUME NEW a \in DOMAIN new.ram
        PROVE  \E k \in DOMAIN cells :
                  cells[k].child[1].valueint = a /\ cells[k].child[2].valueint = new.ram[a]
    <3>1. a \in Written(assigned, m) /\ m \in Nat
      BY <1>8, <2>1, <2>2 DEF After
    <3>2. PICK k : IsLastWrite(assigned, m, a, k)
      BY <3>1, LastWrite DEF Written
    <3>3. new.ram[a] = assigned[k].child[2].valueint
      BY <2>1, <3>1, <3>2, AfterReads
    <3>4. k \in 1..m /\ assigned[k].child[1].valueint = a
      BY <3>2 DEF IsLastWrite
    <3>5. k \in DOMAIN cells /\ assigned[k] = cells[k]
      BY <1>6, <1>8, <1>10, <3>4
    <3> QED
      BY <3>3, <3>4, <3>5
  <2> QED
    BY <1>12, <1>13, <2>2 DEF MadeOf, ramspec, cells
<1>14. ASSUME IsState(field)
       PROVE  Matches(new, field)
  <2>1. \A name \in Range(Fields) : name \in fits
    <3>1. \A name \in Range(Fields) : IsInt(Member(field, name), Width[name])
      BY <1>14 DEF IsState, Range, Fields, Width
    <3> QED
      BY <1>1, <3>1, FieldsParse DEF fits
  <2>2. n = 6
    BY <1>5, <1>7, <2>1 DEF IsPrefixIn
  <2>3. m = Len(cells)
    <3>1. \A k \in 1..Len(cells) : IsCell(cells[k])
      BY <1>6, <1>14 DEF IsState, ramspec, cells
    <3>2. \A k \in 1..Len(cells) : AssignmentParses(cells[k])
      BY <3>1 DEF IsCell, IsInt, AssignmentParses
    <3>3. \A k \in 1..Len(cells) : cells[k] \in Range(cells)
      BY <1>6 DEF Range
    <3>4. \A k \in 1..Len(cells) : cells[k] \in cellsFit
      BY <3>2, <3>3 DEF cellsFit
    <3> QED
      BY <1>8, <3>4 DEF IsPrefixIn
  <2>4. reaches
    BY <1>5, <1>9, <1>14, <2>2 DEF IsState, ramspec
  <2>5. assigned = cells /\ new.ram = After(cells, Len(cells))
    <3>1. assigned = cells
      BY <1>6, <1>10, <2>3
    <3> QED
      BY <1>4, <1>11, <2>3, <2>4, <3>1
  <2>6. ASSUME NEW a \in DOMAIN new.ram \cup {cells[k].child[1].valueint : k \in DOMAIN cells}
        PROVE  Shown(new.ram, a) = ByteAt(cells, a)
    <3>1. a \in Written(cells, Len(cells)) /\ DOMAIN new.ram = Written(cells, Len(cells))
      BY <1>6, <2>5, <2>6 DEF After, Written
    <3> QED
      BY <1>6, <2>5, <3>1, AfterIsByteAt DEF Shown
  <2> QED
    BY <1>12, <2>4, <2>6 DEF Matches, ramspec, cells
<1> QED
  BY <1>4, <1>13, <1>14 DEF field

-----------------------------------------------------------------------------
(* A test case *)

Parts == {"name", "initial", "final", "cycles"}

(* An item, and what its two upper levels are made of.                     *)
IsParsed(item) ==
    /\ IsItem(item)
    /\ \A field \in Range(item.child) :
          IsItem(field) /\ \A value \in Range(field.child) : IsItem(value)

Accepts(item, new) ==
    /\ new.result = 0 <=> WellFormed(item)
    /\ new.result = 0 =>
          /\ \A which \in {"initial", "final"} \ Malformed(item) :
                Matches(new.structure[which], Member(item, which))
          /\ new.structure.cycles = Len(Member(item, "cycles").child)
          /\ new.structure.name = Member(item, "name").valuestring

KeepsApart(item, old, new) ==
    \A which \in {"initial", "final"} :
        \/ new.structure[which].ram = old[which].ram
        \/ MadeOf(new.structure[which], Member(item, which))

(* What parse_json_testcase returns and fills in.                          *)
LEMMA TestcaseIsParsed ==
    ASSUME NEW item, IsParsed(item), NEW old, old = [part \in Parts |-> old[part]]
    PROVE  LET new == parse_json_testcase(item, old)
           IN  /\ new.structure = [part \in Parts |-> new.structure[part]]
               /\ Accepts(item, new)
               /\ KeepsApart(item, old, new)
<1> DEFINE new       == parse_json_testcase(item, old)
           name      == Member(item, "name")
           cycles    == Member(item, "cycles")
           State(which) == parse_json_machine_state_field(item, which, old[which])
           filled    == [part \in Parts |-> IF part = "name" THEN name.valuestring
                                            ELSE IF part = "cycles" THEN old.cycles
                                            ELSE State(part)]
           whole     == [filled EXCEPT !.cycles = Len(cycles.child)]
<1>1. /\ get_object_item(item, "name") = name
      /\ get_object_item(item, "cycles") = cycles
  <2>1. "name" # NoName /\ "cycles" # NoName
    BY DEF NoName
  <2> QED
    BY <2>1, Lookup DEF IsParsed
<1>2. filled = [old EXCEPT !.name    = name.valuestring,
                          !.initial = parse_json_machine_state_field(item, "initial", @),
                          !.final   = parse_json_machine_state_field(item, "final", @)]
  <2> HIDE DEF name
  <2> DEFINE initial == State("initial")
             final   == State("final")
  <2>1. filled = [part \in Parts |-> IF part = "name" THEN name.valuestring
                                     ELSE IF part = "cycles" THEN old.cycles
                                     ELSE IF part = "initial" THEN initial ELSE final]
    BY DEF Parts
  <2>2. [old EXCEPT !.name = name.valuestring, !.initial = initial, !.final = final]
        = [part \in Parts |-> IF part = "name" THEN name.valuestring
                             ELSE IF part = "cycles" THEN old.cycles
                             ELSE IF part = "initial" THEN initial ELSE final]
    <3> HIDE DEF initial, final
    <3> QED
      BY DEF Parts
  <2> QED
    BY <2>1, <2>2
<1>3. new = IF item.type # "Object" \/ name.type # "String"
            THEN [result |-> -1, structure |-> old]
            ELSE IF cycles.type # "Array"
            THEN [result |-> -1, structure |-> filled]
            ELSE [result |-> 0, structure |-> whole]
  BY <1>1, <1>2 DEF parse_json_testcase
<1>4. \A which \in {"initial", "final"} :
          /\ IsState(Member(item, which)) => Matches(State(which), Member(item, which))
          /\ State(which).ram = old[which].ram \/ MadeOf(State(which), Member(item, which))
  BY MachineStateIsParsed DEF IsParsed
<1>5. \A which \in {"initial", "final"} : filled[which] = State(which) /\ whole[which] = State(which)
  <2> HIDE DEF State, name, cycles
  <2> QED
    BY DEF Parts
<1>6. whole.name = name.valuestring /\ whole.cycles = Len(cycles.child)
  <2> HIDE DEF State, name, cycles
  <2> QED
    BY DEF Parts
<1>7. filled = [part \in Parts |-> filled[part]] /\ whole = [part \in Parts |-> whole[part]]
  <2> HIDE DEF State, name, cycles
  <2> QED
    OBVIOUS
<1> HIDE DEF State, filled, whole, new
<1>8. CASE item.type # "Object" \/ name.type # "String"
  <2>1. new.result = -1 /\ new.structure = old
    BY <1>3, <1>8
  <2>2. ~WellFormed(item)
    BY <1>8 DEF WellFormed, IsDict
  <2> QED
    BY <2>1, <2>2 DEF Accepts, KeepsApart, new
<1>9. CASE item.type = "Object" /\ name.type = "String" /\ cycles.type # "Array"
  <2>1. new.result = -1 /\ new.structure = filled
    BY <1>3, <1>9
  <2>2. ~WellFormed(item)
    BY <1>9 DEF WellFormed
  <2> QED
    BY <1>4, <1>5, <1>7, <2>1, <2>2 DEF Accepts, KeepsApart, new
<1>10. CASE item.type = "Object" /\ name.type = "String" /\ cycles.type = "Array"
  <2>1. new.result = 0 /\ new.structure = whole
    BY <1>3, <1>10
  <2>2. WellFormed(item)
    BY <1>10 DEF WellFormed, IsDict
  <2>3. Accepts(item, new)
    BY <1>4, <1>5, <1>6, <2>1, <2>2 DEF Accepts, Malformed
  <2>4. KeepsApart(item, old, new)
    BY <1>4, <1>5, <2>1 DEF KeepsApart
  <2> QED
    BY <1>7, <2>1, <2>3, <2>4 DEF new
<1> QED
  BY <1>8, <1>9, <1>10

-----------------------------------------------------------------------------
(* Every test case of a document *)

IsFilled(filling) == filling = [part \in Parts |-> filling[part]]

TestcaseInv ==
    /\ document \in Documents
    /\ index \in 0..Len(document)
    /\ IsFilled(structure) /\ IsFilled(before)
    /\ index > 0 => /\ result = parse_json_testcase(document[index], before).result
                    /\ structure = parse_json_testcase(document[index], before).structure

LEMMA ItemsAreParsed ==
    ASSUME NEW doc \in Documents
    PROVE  Len(doc) \in Nat /\ \A n \in 1..Len(doc) : IsParsed(doc[n])
<1>1. \A n \in 1..Len(doc) : doc[n] \in Range(doc)
  BY DocumentsAssumption DEF Range
<1> QED
  BY <1>1, DocumentsAssumption DEF IsParsed

LEMMA TestcaseInvInitially == ParseInit => TestcaseInv
<1> SUFFICES ASSUME ParseInit
             PROVE  TestcaseInv
  OBVIOUS
<1>1. document \in Documents /\ Len(document) \in Nat /\ index = 0
  BY ItemsAreParsed DEF ParseInit
<1>2. IsFilled(structure) /\ IsFilled(before)
  BY GarbageAssumption DEF ParseInit, IsFilled, Parts
<1> QED
  BY <1>1, <1>2 DEF TestcaseInv

LEMMA TestcaseInvInductive == TestcaseInv /\ [ParseNext]_testcaseVars => TestcaseInv'
<1> SUFFICES ASSUME TestcaseInv, [ParseNext]_testcaseVars
             PROVE  TestcaseInv'
  OBVIOUS
<1>1. CASE ParseNext
  <2>1. document' = document /\ index' = index + 1 /\ index' \in 1..Len(document) /\ document \in Documents
    BY <1>1, ItemsAreParsed DEF ParseNext, TestcaseInv
  <2>2. IsFilled(before')
    BY <1>1, GarbageAssumption DEF ParseNext, TestcaseInv, IsFilled, Parts
  <2>3. /\ result' = parse_json_testcase(document[index'], before').result
        /\ structure' = parse_json_testcase(document[index'], before').structure
    BY <1>1 DEF ParseNext
  <2>4. IsFilled(structure')
    <3>1. IsParsed(document[index'])
      BY <2>1, ItemsAreParsed
    <3> QED
      BY <2>2, <2>3, <3>1, TestcaseIsParsed DEF IsFilled
  <2> QED
    BY <2>1, <2>2, <2>3, <2>4 DEF TestcaseInv
<1>2. CASE UNCHANGED testcaseVars
  BY <1>2 DEF testcaseVars, TestcaseInv
<1> QED
  BY <1>1, <1>2

LEMMA WhatTheInvariantSays == TestcaseInv => AsTheHarnessAssumes /\ MemoryIsNotMixed
<1> SUFFICES ASSUME TestcaseInv, index > 0
             PROVE  AsTheHarnessAssumes /\ MemoryIsNotMixed
  BY DEF AsTheHarnessAssumes, MemoryIsNotMixed
<1> DEFINE new == parse_json_testcase(document[index], before)
<1>1. IsParsed(document[index])
  BY ItemsAreParsed DEF TestcaseInv
<1>2. Accepts(document[index], new) /\ KeepsApart(document[index], before, new)
  BY <1>1, TestcaseIsParsed DEF TestcaseInv, IsFilled
<1>3. result = new.result /\ structure = new.structure
  BY DEF TestcaseInv
<1> HIDE DEF new
<1>4. AsTheHarnessAssumes
  BY <1>2, <1>3 DEF Accepts, AsTheHarnessAssumes
<1>5. MemoryIsNotMixed
  <2>1. \A which \in {"initial", "final"} :
            \/ structure[which].ram = before[which].ram
            \/ MadeOf(structure[which], Member(document[index], which))
    BY <1>2, <1>3 DEF KeepsApart
  <2> QED
    BY <2>1, Zenon DEF MadeOf, MemoryIsNotMixed
<1> QED
  BY <1>4, <1>5

(* For every document the parser delivers, and whatever was left over in   *)
(* the structure that parse_json_testcase fills: exactly the well-formed    *)
(* test cases are accepted, and what is executed is what is written.       *)
THEOREM TestcaseIsTheOneWritten == ParseSpec => []AsTheHarnessAssumes
<1> QED
  BY TestcaseInvInitially, TestcaseInvInductive, WhatTheInvariantSays, PTL DEF ParseSpec

(* And no memory ever holds bytes of two test cases: it is the one that    *)
(* was there, or all of it and of its registers is of this test case.      *)
THEOREM MemoriesAreNotMixed == ParseSpec => []MemoryIsNotMixed
<1> QED
  BY TestcaseInvInitially, TestcaseInvInductive, WhatTheInvariantSays, PTL DEF ParseSpec
=============================================================================
