--------------------------- MODULE JsonTestcases ----------------------------
(***************************************************************************)
(* From parsed JSON to test cases (parse_json_testcase and the functions   *)
(* under it in sim65-test.c, on the lookup functions of cJSON.c).  An item *)
(* is a record with the sequence of its children.  The test case is filled *)
(* in place, in a structure that nobody initialises: what a test case does *)
(* not set is what was there.                                              *)
(***************************************************************************)
EXTENDS Bytes, SequencesExt

CONSTANTS
    Documents,   \* the arrays of test cases to try: sequences of items
    Garbage      \* what an uninitialised test case may hold besides the one before

(* In the order in which they are parsed.                                  *)
Fields == <<"pc", "s", "a", "x", "y", "p">>
Width  == [field \in Range(Fields) |-> IF field = "pc" THEN Word ELSE Byte]

NoName == "NULL"
NoItem == [type |-> "none", string |-> NoName, valueint |-> 0, valuestring |-> NoName, child |-> <<>>]

(* What the parser makes: children are a sequence, members of objects have  *)
(* names, and the children of nothing else have.                           *)
IsItem(item) ==
    /\ item.child \in Seq(Range(item.child))
    /\ \A child \in Range(item.child) : child.string # NoName <=> item.type = "Object"

ASSUME DocumentsAssumption ==
    \A doc \in Documents :
        /\ Len(doc) \in Nat
        /\ DOMAIN doc = 1..Len(doc)
        /\ \A testcase_item \in Range(doc) :
              /\ IsItem(testcase_item)
              /\ \A field \in Range(testcase_item.child) :
                    IsItem(field) /\ \A value \in Range(field.child) : IsItem(value)

ASSUME GarbageAssumption ==
    \A old \in Garbage : old = [part \in {"name", "initial", "final", "cycles"} |-> old[part]]

VARIABLES
    document,    \* the test cases of a file
    index,       \* of the test case parsed last, 0 before the first
    before,      \* history: what the structure held before that
    structure,   \* the test case: [name, initial, final, cycles], states as [regs, ram]
    result       \* what parse_json_testcase returned

testcaseVars == <<document, index, before, structure, result>>

-----------------------------------------------------------------------------
(* cJSON_GetObjectItemCaseSensitive: the first child of that name, unless  *)
(* a child without a name, as those of an array are, comes first.          *)
get_object_item(object, name) ==
    LET hits == {n \in DOMAIN object.child :
                    /\ object.child[n].string = name
                    /\ \A k \in 1..n-1 : object.child[k].string # NoName}
    IN  IF hits = {} THEN NoItem ELSE object.child[Min(hits)]

(* parse_json_u8_field, parse_json_u16_field                               *)
FieldParses(object, name) ==
    LET field == get_object_item(object, name)
    IN  field.type = "Number" /\ field.valueint \in Width[name]

(* Neither type of the two numbers is looked at.                           *)
AssignmentParses(assignment) ==
    /\ assignment.type = "Array"
    /\ Len(assignment.child) = 2
    /\ assignment.child[1].valueint \in Word
    /\ assignment.child[2].valueint \in Byte

(* What comes before the first element that is not in good.                *)
Passing(s, good) == SubSeq(s, 1, Max({n \in 0..Len(s) : Range(SubSeq(s, 1, n)) \subseteq good}))

Assign(ram, assignment) ==
    [a \in DOMAIN ram \cup {assignment.child[1].valueint} |->
        IF a = assignment.child[1].valueint THEN assignment.child[2].valueint ELSE ram[a]]

(* The memory after all of them.                                           *)
Assigned(ram, assignments) ==
    LET after[n \in 0..Len(assignments)] ==
            IF n = 0 THEN ram ELSE Assign(after[n - 1], assignments[n])
    IN  after[Len(assignments)]

parse_json_machine_state_field_Fault(json_testcase, field_name, state) ==
    LET field    == get_object_item(json_testcase, field_name)
        parsed   == Passing(Fields, {name \in Range(Fields) : FieldParses(field, name)})
        ramspec  == get_object_item(field, "ram")
        reaches  == Len(parsed) = Len(Fields) /\ ramspec.type = "Array"
        assigned == Passing(ramspec.child, {a \in Range(ramspec.child) : AssignmentParses(a)})
    IN  [regs |-> [name \in Range(Fields) |->
                      IF name \in Range(parsed) THEN get_object_item(field, name).valueint
                      ELSE state.regs[name]],
         ram  |-> IF reaches THEN Assigned(state.ram, assigned) ELSE state.ram]

parse_json_machine_state_field_Early(json_testcase, field_name, state) ==
    LET field    == get_object_item(json_testcase, field_name)
        parsed   == SelectSeq(Fields, LAMBDA name : FieldParses(field, name))
        ramspec  == get_object_item(field, "ram")
        assigned == Passing(ramspec.child, {a \in Range(ramspec.child) : AssignmentParses(a)})
    IN  [regs |-> [name \in Range(Fields) |->
                      IF name \in Range(parsed) THEN get_object_item(field, name).valueint
                      ELSE state.regs[name]],
         ram  |-> IF ramspec.type = "Array" THEN Assigned(<<>>, assigned) ELSE state.ram]

(* Memory is a function on the addresses that are not zero by memset.      *)
parse_json_machine_state_field(json_testcase, field_name, state) ==
    LET field    == get_object_item(json_testcase, field_name)
        parsed   == Passing(Fields, {name \in Range(Fields) : FieldParses(field, name)})
        ramspec  == get_object_item(field, "ram")
        reaches  == Len(parsed) = Len(Fields) /\ ramspec.type = "Array"
        assigned == Passing(ramspec.child, {a \in Range(ramspec.child) : AssignmentParses(a)})
    IN  [regs |-> [name \in Range(Fields) |->
                      IF name \in Range(parsed) THEN get_object_item(field, name).valueint
                      ELSE state.regs[name]],
         ram  |-> IF reaches THEN Assigned(<<>>, assigned) ELSE state.ram]

(* What is filled in when it returns, and whether it succeeds.  Whether    *)
(* the machine states parse is not looked at.                              *)
parse_json_testcase(json_testcase, old) ==
    LET name   == get_object_item(json_testcase, "name")
        cycles == get_object_item(json_testcase, "cycles")
        filled == [old EXCEPT
                      !.name    = name.valuestring,
                      !.initial = parse_json_machine_state_field(json_testcase, "initial", @),
                      !.final   = parse_json_machine_state_field(json_testcase, "final", @)]
    IN  IF json_testcase.type # "Object" \/ name.type # "String"
        THEN [result |-> -1, structure |-> old]
        ELSE IF cycles.type # "Array"
        THEN [result |-> -1, structure |-> filled]
        ELSE [result |-> 0, structure |-> [filled EXCEPT !.cycles = Len(cycles.child)]]

-----------------------------------------------------------------------------
ParseInit ==
    /\ document \in Documents
    /\ index = 0
    /\ structure \in Garbage
    /\ before = structure
    /\ result = 0

(* The loop of process_json_testcase_array.                                *)
ParseNext ==
    /\ index < Len(document)
    /\ index' = index + 1
    /\ before' \in {structure} \cup Garbage
    /\ LET parsed == parse_json_testcase(document[index'], before')
       IN  result' = parsed.result /\ structure' = parsed.structure
    /\ UNCHANGED document

ParseSpec == ParseInit /\ [][ParseNext]_testcaseVars

-----------------------------------------------------------------------------
(* Reference: what a test case is, and what it means *)

Members(item, name) == {n \in DOMAIN item.child : item.child[n].string = name}
IsDict(item) == item.type = "Object"
Member(item, name) ==
    IF IsDict(item) /\ Members(item, name) # {} THEN item.child[Min(Members(item, name))] ELSE NoItem

IsInt(item, numbers) == item.type = "Number" /\ item.valueint \in numbers

IsCell(item) ==
    /\ item.type = "Array" /\ Len(item.child) = 2
    /\ IsInt(item.child[1], Word) /\ IsInt(item.child[2], Byte)

IsState(item) ==
    /\ \A f \in {"s", "a", "x", "y", "p"} : IsInt(Member(item, f), Byte)
    /\ IsInt(Member(item, "pc"), Word)
    /\ Member(item, "ram").type = "Array"
    /\ \A n \in DOMAIN Member(item, "ram").child : IsCell(Member(item, "ram").child[n])

(* The byte at an address: the last one written there, or zero.            *)
ByteAt(cells, address) ==
    LET writes == {n \in DOMAIN cells : cells[n].child[1].valueint = address}
    IN  IF writes = {} THEN 0 ELSE cells[Max(writes)].child[2].valueint

Shown(ram, address) == IF address \in DOMAIN ram THEN ram[address] ELSE 0

Matches(state, item) ==
    LET cells == Member(item, "ram").child
    IN  /\ \A f \in Range(Fields) : state.regs[f] = Member(item, f).valueint
        /\ \A a \in DOMAIN state.ram \cup {cells[n].child[1].valueint : n \in DOMAIN cells} :
              Shown(state.ram, a) = ByteAt(cells, a)

WellFormed(item) ==
    IsDict(item) /\ Member(item, "name").type = "String" /\ Member(item, "cycles").type = "Array"

Malformed(item) == {which \in {"initial", "final"} : ~IsState(Member(item, which))}

-----------------------------------------------------------------------------
(* The test case that is executed is the one that is written: exactly the   *)
(* items with a name and cycles are accepted, a machine state without an    *)
(* error means what it says, whatever was in the structure, and the test    *)
(* program sees the rest as TestHarness has it (parse_json_testcase).       *)
AsTheHarnessAssumes ==
    index > 0 =>
        LET item == document[index]
        IN  /\ result = 0 <=> WellFormed(item)
            /\ result = 0 =>
                  /\ \A which \in {"initial", "final"} \ Malformed(item) :
                        Matches(structure[which], Member(item, which))
                  /\ structure.cycles = Len(Member(item, "cycles").child)
                  /\ structure.name = Member(item, "name").valuestring

(* Bytes of two test cases are never mixed in one memory: it is the old     *)
(* one, or every byte of it is zero or assigned by this test case; and it   *)
(* is this one only under registers that are all of this test case          *)
(* (parse_json_machine_state_field returns before it touches memory).       *)
MemoryIsNotMixed ==
    index > 0 =>
        \A which \in {"initial", "final"} :
            LET item  == Member(document[index], which)
                old   == before[which]
                state == structure[which]
                cells == Member(item, "ram").child
            IN  \/ state.ram = old.ram
                \/ /\ \A a \in DOMAIN state.ram : \E n \in DOMAIN cells :
                         cells[n].child[1].valueint = a /\ cells[n].child[2].valueint = state.ram[a]
                   /\ \A f \in Range(Fields) : state.regs[f] = Member(item, f).valueint
=============================================================================
