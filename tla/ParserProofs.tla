---------------------------- MODULE ParserProofs ----------------------------
(***************************************************************************)
(* For texts of any length and content the JSON parser reads inside the    *)
(* text and gets on in it, nests no deeper than its limit, reports errors  *)
(* at a character, gives back all it allocated, each block once, and hands *)
(* over lists that are linked both ways.                                   *)
(* The loops of the leaves are functions defined by recursion, or by the   *)
(* first offset with a property, so that there is induction to do first.   *)
(***************************************************************************)
EXTENDS JsonParser, ProofLemmas, FiniteSetTheorems

-----------------------------------------------------------------------------
(* White space and numbers *)

LEMMA PastAllInside ==
    ASSUME NEW t \in Seq(Nat), NEW i \in 0..Len(t), NEW chars
    PROVE  PastAll(t, i, chars) \in i..Len(t)
<1> DEFINE Stops(j) == j = Len(t) \/ At(t, j) \notin chars
           First(j) == (\A k \in i..(j - 1) : At(t, k) \in chars) /\ (j = Len(t) \/ At(t, j) \notin chars)
<1>1. Len(t) \in Nat /\ i \in Nat /\ Len(t) \in i..Len(t)
  OBVIOUS
<1>2. PICK j \in {k \in i..Len(t) : Stops(k)} : \A m \in {k \in i..Len(t) : Stops(k)} : j <= m
  <2>1. {k \in i..Len(t) : Stops(k)} \in SUBSET Nat /\ Len(t) \in {k \in i..Len(t) : Stops(k)}
    BY <1>1
  <2> QED
    BY <2>1, Least
<1>3. First(j)
  <2>1. \A k \in i..(j - 1) : k \in i..Len(t) /\ ~(j <= k)
    BY <1>1, <1>2
  <2>2. \A k \in i..(j - 1) : ~Stops(k)
    BY <1>2, <2>1
  <2> QED
    BY <1>2, <2>2
<1>4. \E k \in i..Len(t) : First(k)
  BY <1>2, <1>3
<1>5. (CHOOSE k \in i..Len(t) : First(k)) \in i..Len(t)
  BY <1>4
<1> QED
  BY <1>5 DEF PastAll

(* White space at the end of the text is not passed altogether, so what    *)
(* stood inside the text still does (buffer_skip_whitespace).              *)
LEMMA SkipStaysInside ==
    ASSUME NEW t \in Seq(Nat), NEW i \in Nat
    PROVE  /\ i < Len(t) => buffer_skip_whitespace(t, i) \in i..(Len(t) - 1)
           /\ ~(i < Len(t)) => buffer_skip_whitespace(t, i) = i
<1>1. CASE i < Len(t)
  <2>1. Len(t) \in Nat /\ PastAll(t, i, Blanks) \in i..Len(t)
    BY <1>1, PastAllInside
  <2> QED
    BY <1>1, <2>1 DEF buffer_skip_whitespace, can_access
<1>2. CASE ~(i < Len(t))
  BY <1>2 DEF buffer_skip_whitespace, can_access
<1> QED
  BY <1>1, <1>2

LEMMA SliceLength ==
    ASSUME NEW t \in Seq(Nat), NEW i \in Nat, NEW j \in i..Len(t)
    PROVE  Slice(t, i, j) \in Seq(Nat) /\ Len(Slice(t, i, j)) = j - i
  BY DEF Slice

LEMMA PastInside ==
    ASSUME NEW s \in Seq(Nat), NEW i \in 0..Len(s), NEW chars
    PROVE  Past(s, i, chars) \in i..Len(s)
<1>1. Len(s) \in Nat
  OBVIOUS
<1> QED
  BY <1>1 DEF Past, can_access

LEMMA StrtodInside ==
    ASSUME NEW s \in Seq(Nat)
    PROVE  StrtodParts(s).end \in 0..Len(s)
<1> DEFINE sign  == Past(s, 0, Sign)
           whole == PastAll(s, sign, Digit)
           dot   == Past(s, whole, {Dot})
           frac  == PastAll(s, dot, Digit)
           none  == whole = sign /\ frac = dot
           e     == Past(s, frac, Exponent)
           esign == Past(s, e, IF e > frac THEN Sign ELSE {})
           exp   == PastAll(s, esign, Digit)
<1>1. Len(s) \in Nat /\ sign \in 0..Len(s)
  <2>1. Len(s) \in Nat /\ 0 \in 0..Len(s)
    OBVIOUS
  <2> QED
    BY <2>1, PastInside
<1>2. whole \in 0..Len(s)
  <2>1. whole \in sign..Len(s)
    BY <1>1, PastAllInside
  <2> QED
    BY <1>1, <2>1
<1>3. dot \in 0..Len(s)
  <2>1. dot \in whole..Len(s)
    BY <1>2, PastInside
  <2> QED
    BY <1>1, <1>2, <2>1
<1>4. frac \in 0..Len(s)
  <2>1. frac \in dot..Len(s)
    BY <1>3, PastAllInside
  <2> QED
    BY <1>1, <1>3, <2>1
<1>5. e \in 0..Len(s)
  <2>1. e \in frac..Len(s)
    BY <1>4, PastInside
  <2> QED
    BY <1>1, <1>4, <2>1
<1>6. esign \in 0..Len(s)
  <2>1. esign \in e..Len(s)
    BY <1>5, PastInside
  <2> QED
    BY <1>1, <1>5, <2>1
<1>7. exp \in 0..Len(s)
  <2>1. exp \in esign..Len(s)
    BY <1>6, PastAllInside
  <2> QED
    BY <1>1, <1>6, <2>1
<1>8. StrtodParts(s).end = IF none THEN 0 ELSE IF e > frac /\ exp > esign THEN exp ELSE frac
  BY DEF StrtodParts
<1> HIDE DEF sign, whole, dot, frac, none, e, esign, exp
<1> QED
  BY <1>1, <1>4, <1>7, <1>8

(* What strtod makes use of was copied from the text (parse_number).       *)
LEMMA NumberEndsInside ==
    ASSUME NEW t \in Seq(Nat), NEW i \in Nat, i < Len(t)
    PROVE  /\ parse_number(t, i).offset \in i..Len(t)
           /\ parse_number(t, i).ok => parse_number(t, i).offset > i
<1> DEFINE room == IF i + NumberBuffer - 1 < Len(t) THEN i + NumberBuffer - 1 ELSE Len(t)
           fits == Slice(t, 0, room)
           stop == PastAll(fits, i, NumberChar)
<1>1. Len(t) \in Nat /\ room \in i..Len(t) /\ room \in 0..Len(t)
  BY NumberBufferAssumption
<1>2. fits \in Seq(Nat) /\ Len(fits) = room
  <2> HIDE DEF room
  <2>1. fits \in Seq(Nat) /\ Len(fits) = room - 0
    BY <1>1, SliceLength
  <2> QED
    BY <1>1, <2>1
<1>3. stop \in i..Len(t)
  <2> HIDE DEF fits, room
  <2>1. stop \in i..room
    BY <1>1, <1>2, PastAllInside
  <2> QED
    BY <1>1, <2>1
<1>4. NumberChars(t, i) = Slice(t, i, stop)
  BY DEF NumberChars
<1>5. NumberChars(t, i) \in Seq(Nat) /\ Len(NumberChars(t, i)) = stop - i
  <2> HIDE DEF stop
  <2> QED
    BY <1>3, <1>4, SliceLength
<1>6. Strtod(NumberChars(t, i)).length \in 0..(stop - i)
  <2> HIDE DEF stop
  <2>1. StrtodParts(NumberChars(t, i)).end \in 0..(stop - i)
    BY <1>5, StrtodInside
  <2> QED
    BY <2>1 DEF Strtod, ValueOfParts
<1>7. /\ parse_number(t, i).offset = i + Strtod(NumberChars(t, i)).length
      /\ parse_number(t, i).ok => Strtod(NumberChars(t, i)).length > 0
  BY DEF parse_number, NumberAt
<1> HIDE DEF stop
<1> QED
  BY <1>1, <1>3, <1>6, <1>7

-----------------------------------------------------------------------------
(* Strings.  Both passes are functions that look up themselves further on  *)
(* in the text: defined from the end backwards, one offset at a time.      *)

ScanStep(t, f, k) ==
    IF ~can_access(t, k) THEN [end |-> Len(t), skipped |-> 0]
    ELSE IF At(t, k) = Quote THEN [end |-> k, skipped |-> 0]
    ELSE IF At(t, k) # Backslash THEN f[k + 1]
    ELSE [f[k + 2] EXCEPT !.skipped = @ + 1]

IsScan(t, f, first) == f = [k \in first..(Len(t) + 1) |-> ScanStep(t, f, k)]

LEMMA ScanExists ==
    ASSUME NEW t \in Seq(Nat), NEW i \in Nat, i < Len(t)
    PROVE  \E f : IsScan(t, f, i + 1)
<1> DEFINE S == {n \in Nat : n <= Len(t) - i => \E f : IsScan(t, f, Len(t) + 1 - n)}
<1>0. Len(t) \in Nat
  OBVIOUS
<1>1. 0 \in S
  <2> DEFINE f == [k \in (Len(t) + 1)..(Len(t) + 1) |-> [end |-> Len(t), skipped |-> 0]]
  <2>1. \A k \in (Len(t) + 1)..(Len(t) + 1) : ~can_access(t, k)
    BY <1>0 DEF can_access
  <2>2. IsScan(t, f, Len(t) + 1)
    BY <2>1 DEF IsScan, ScanStep
  <2> QED
    BY <1>0, <2>2
<1>2. ASSUME NEW n \in Nat, n \in S
      PROVE  n + 1 \in S
  <2> SUFFICES ASSUME n + 1 <= Len(t) - i
               PROVE  \E g : IsScan(t, g, Len(t) + 1 - (n + 1))
    OBVIOUS
  <2> DEFINE first == Len(t) - n
             last  == Len(t) + 1
  <2>1. first \in Nat /\ last \in Nat /\ Len(t) + 1 - n = first + 1 /\ Len(t) + 1 - (n + 1) = first
    BY <1>0
  <2>2. PICK f : IsScan(t, f, first + 1)
    <3>1. n <= Len(t) - i
      BY <1>0
    <3> QED
      BY <1>2, <2>1, <3>1
  <2> HIDE DEF first
  <2> DEFINE g == [k \in first..last |-> IF k = first THEN ScanStep(t, f, k) ELSE f[k]]
  <2>3. \A k \in first..last : k + 1 <= last => g[k + 1] = f[k + 1]
    BY <2>1
  <2>4. \A k \in first..last : k + 2 <= last => g[k + 2] = f[k + 2]
    BY <2>1
  <2>5. \A k \in first..last : can_access(t, k) => k + 2 <= last /\ k + 1 <= last
    BY <1>0, <2>1 DEF can_access
  <2>6. \A k \in first..last : ScanStep(t, g, k) = ScanStep(t, f, k)
    <3> HIDE DEF g, last
    <3> QED
      BY <2>3, <2>4, <2>5 DEF ScanStep
  <2>7. \A k \in first..last : g[k] = ScanStep(t, f, k)
    <3>1. \A k \in (first + 1)..last : f[k] = ScanStep(t, f, k)
      BY <2>2 DEF IsScan
    <3>2. \A k \in first..last : k = first \/ k \in (first + 1)..last
      BY <2>1
    <3> QED
      BY <3>1, <3>2
  <2>8. IsScan(t, g, first)
    <3>1. g = [k \in first..last |-> ScanStep(t, g, k)]
      BY <2>6, <2>7
    <3> QED
      BY <3>1 DEF IsScan
  <2> QED
    BY <2>1, <2>8
<1>3. Len(t) - i \in S
  <2> HIDE DEF S
  <2>1. Nat \subseteq S
    BY <1>1, <1>2, Induction
  <2> QED
    BY <1>0, <2>1
<1> QED
  BY <1>0, <1>3

LEMMA OneMoreSkipped ==
    ASSUME NEW r \in [end : Nat, skipped : Nat], NEW q, q = [r EXCEPT !.skipped = @ + 1]
    PROVE  q.end = r.end /\ q \in [end : Nat, skipped : Nat]
  OBVIOUS

(* What the first pass finds from k on.                                     *)
ScannedFrom(t, f, k) ==
    /\ f[k] \in [end : Nat, skipped : Nat]
    /\ f[k].end <= Len(t) /\ (k <= Len(t) => k <= f[k].end)
    /\ k = Len(t) + 1 => f[k].end = Len(t)

LEMMA ScannedInside ==
    ASSUME NEW t \in Seq(Nat), NEW i \in Nat, i < Len(t), NEW f, IsScan(t, f, i + 1)
    PROVE  \A k \in (i + 1)..(Len(t) + 1) : ScannedFrom(t, f, k)
<1>0. Len(t) \in Nat
  OBVIOUS
<1>2. f = [k \in (i + 1)..(Len(t) + 1) |-> ScanStep(t, f, k)]
  BY DEF IsScan
<1> DEFINE Good(k) == /\ f[k] \in [end : Nat, skipped : Nat]
                      /\ f[k].end <= Len(t) /\ (k <= Len(t) => k <= f[k].end)
                      /\ k = Len(t) + 1 => f[k].end = Len(t)
           S == {n \in Nat : \A k \in (i + 1)..(Len(t) + 1) : Len(t) + 1 - n <= k => Good(k)}
<1>3. 0 \in S
  <2>1. \A k \in (i + 1)..(Len(t) + 1) : Len(t) + 1 - 0 <= k => ~can_access(t, k) /\ ~(k <= Len(t))
    BY <1>0 DEF can_access
  <2>2. \A k \in (i + 1)..(Len(t) + 1) : Len(t) + 1 - 0 <= k => f[k] = [end |-> Len(t), skipped |-> 0]
    BY <1>2, <2>1 DEF ScanStep
  <2> QED
    BY <1>0, <2>1, <2>2
<1>4. ASSUME NEW n \in Nat, n \in S
      PROVE  n + 1 \in S
  <2> SUFFICES ASSUME NEW k \in (i + 1)..(Len(t) + 1), Len(t) + 1 - (n + 1) <= k
               PROVE  Good(k)
    OBVIOUS
  <2>1. \A m \in (i + 1)..(Len(t) + 1) : k < m => Good(m)
    <3>1. \A m \in (i + 1)..(Len(t) + 1) : k < m => Len(t) + 1 - n <= m
      BY <1>0
    <3> HIDE DEF Good
    <3> QED
      BY <1>4, <3>1
  <2>2. f[k] = ScanStep(t, f, k)
    BY <1>2
  <2>3. CASE ~can_access(t, k)
    <3>1. f[k] = [end |-> Len(t), skipped |-> 0]
      BY <2>2, <2>3 DEF ScanStep
    <3> QED
      BY <1>0, <2>3, <3>1 DEF can_access
  <2>4. CASE can_access(t, k) /\ At(t, k) = Quote
    <3>1. f[k] = [end |-> k, skipped |-> 0] /\ k <= Len(t) /\ k \in Nat
      BY <1>0, <2>2, <2>4 DEF ScanStep, can_access
    <3> QED
      BY <3>1
  <2>5. CASE can_access(t, k) /\ At(t, k) # Quote
    <3>1. /\ k + 1 \in (i + 1)..(Len(t) + 1) /\ k + 2 \in (i + 1)..(Len(t) + 1)
          /\ k + 1 <= Len(t)
      BY <1>0, <2>5 DEF can_access
    <3>2. Good(k + 1) /\ Good(k + 2)
      <4>1. k < k + 1 /\ k < k + 2
        BY <1>0
      <4> HIDE DEF Good
      <4> QED
        BY <2>1, <3>1, <4>1
    <3>3. f[k] = f[k + 1] \/ f[k] = [f[k + 2] EXCEPT !.skipped = @ + 1]
      BY <2>2, <2>5 DEF ScanStep
    <3>4. CASE f[k] = f[k + 1]
      <4> DEFINE r == f[k + 1]
      <4>1. r \in [end : Nat, skipped : Nat] /\ r.end \in Nat /\ r.end <= Len(t) /\ k + 1 <= r.end
        BY <3>1, <3>2
      <4>2. ~(k = Len(t) + 1) /\ f[k] = r
        BY <1>0, <3>1, <3>4
      <4> HIDE DEF r
      <4> QED
        BY <4>1, <4>2
    <3>5. CASE f[k] = [f[k + 2] EXCEPT !.skipped = @ + 1]
      <4>1. f[k].end = f[k + 2].end /\ f[k] \in [end : Nat, skipped : Nat]
        BY <3>2, <3>5, OneMoreSkipped
      <4>2. f[k + 2].end \in Nat /\ f[k + 2].end <= Len(t)
        BY <3>2
      <4>3. k + 2 <= Len(t) \/ k + 2 = Len(t) + 1
        BY <1>0, <3>1
      <4>4. k <= f[k + 2].end
        <5>1. CASE k + 2 <= Len(t)
          BY <3>1, <3>2, <4>2, <5>1
        <5>2. CASE k + 2 = Len(t) + 1
          BY <1>0, <3>1, <3>2, <5>2
        <5> QED
          BY <4>3, <5>1, <5>2
      <4>5. ~(k = Len(t) + 1)
        BY <1>0, <3>1
      <4> QED
        BY <4>1, <4>2, <4>4, <4>5
    <3> QED
      BY <3>3, <3>4, <3>5
  <2> QED
    BY <2>3, <2>4, <2>5
<1>5. Len(t) - i \in S
  <2> HIDE DEF S
  <2>1. Nat \subseteq S
    BY <1>3, <1>4, Induction
  <2> QED
    BY <1>0, <2>1
<1>6. ASSUME NEW k \in (i + 1)..(Len(t) + 1)
      PROVE  Good(k)
  <2>1. Len(t) + 1 - (Len(t) - i) <= k
    BY <1>0
  <2> QED
    BY <1>5, <2>1
<1> QED
  BY <1>6 DEF ScannedFrom

(* The quote that closes a literal is behind the one that opens it.        *)
LEMMA ScanInside ==
    ASSUME NEW t \in Seq(Nat), NEW i \in Nat, i < Len(t)
    PROVE  /\ Scan(t, i).end \in (i + 1)..Len(t)
           /\ \E f : IsScan(t, f, i + 1) /\ Scan(t, i) = f[i + 1]
<1> DEFINE f == CHOOSE g : IsScan(t, g, i + 1)
<1>1. Scan(t, i) = f[i + 1]
  BY DEF Scan, IsScan, ScanStep
<1>2. IsScan(t, f, i + 1)
  BY ScanExists
<1> HIDE DEF f
<1>3. Len(t) \in Nat /\ i + 1 \in (i + 1)..(Len(t) + 1)
  OBVIOUS
<1>4. ScannedFrom(t, f, i + 1)
  BY <1>2, <1>3, ScannedInside
<1>5. f[i + 1].end \in (i + 1)..Len(t)
  BY <1>3, <1>4 DEF ScannedFrom
<1> QED
  BY <1>1, <1>2, <1>5

LEMMA CharLength ==
    ASSUME NEW t, NEW k, NEW end
    PROVE  CharAt(t, k, end).length \in {0, 1, 2, 6, 12}
<1>1. \A n, bytes : Unit(n, bytes).length = n
  BY DEF Unit
<1>2. Refused.length = 0
  BY <1>1 DEF Refused
<1>3. utf16_literal_to_utf8(t, k, end).length \in {0, 6, 12}
  BY <1>1, <1>2 DEF utf16_literal_to_utf8, Utf16Pair
<1> QED
  BY <1>1, <1>2, <1>3 DEF CharAt

Behind(c, rest) == [rest EXCEPT !.bytes = c.bytes \o @]

DecodeStep(t, end, f, k) ==
    IF k >= end THEN [ok |-> TRUE, at |-> end, bytes |-> <<>>]
    ELSE IF CharAt(t, k, end).length = 0 THEN [ok |-> FALSE, at |-> k, bytes |-> <<>>]
    ELSE Behind(CharAt(t, k, end), f[k + CharAt(t, k, end).length])

IsDecode(t, end, f, first) == f = [k \in first..(end + 12) |-> DecodeStep(t, end, f, k)]

LEMMA DecodeLooksAhead ==
    ASSUME NEW t, NEW end \in Nat, NEW f, NEW g, NEW k \in Nat,
           \A m \in (k + 1)..(end + 12) : g[m] = f[m]
    PROVE  DecodeStep(t, end, g, k) = DecodeStep(t, end, f, k)
<1> DEFINE n == CharAt(t, k, end).length
<1>1. n \in {0, 1, 2, 6, 12}
  BY CharLength
<1> HIDE DEF n
<1>2. n # 0 /\ ~(k >= end) => k + n \in (k + 1)..(end + 12)
  BY <1>1
<1>3. n # 0 /\ ~(k >= end) => g[k + n] = f[k + n]
  BY <1>2
<1> QED
  BY <1>3 DEF DecodeStep, n

LEMMA DecodeExists ==
    ASSUME NEW t, NEW i \in Nat, NEW end \in Nat, i <= end
    PROVE  \E f : IsDecode(t, end, f, i)
<1> DEFINE last == end + 12
           S == {n \in Nat : n <= last - i => \E f : IsDecode(t, end, f, last - n)}
<1>1. 0 \in S
  <2> DEFINE f == [k \in last..last |-> [ok |-> TRUE, at |-> end, bytes |-> <<>>]]
  <2>1. \A k \in last..last : k >= end
    OBVIOUS
  <2>2. IsDecode(t, end, f, last)
    BY <2>1 DEF IsDecode, DecodeStep
  <2>3. last - 0 = last
    OBVIOUS
  <2> QED
    BY <2>2, <2>3
<1>2. ASSUME NEW n \in Nat, n \in S
      PROVE  n + 1 \in S
  <2> SUFFICES ASSUME n + 1 <= last - i
               PROVE  \E g : IsDecode(t, end, g, last - (n + 1))
    OBVIOUS
  <2> DEFINE first == last - (n + 1)
  <2>1. first \in Nat /\ last \in Nat /\ last - n = first + 1 /\ n <= last - i
    OBVIOUS
  <2>2. PICK f : IsDecode(t, end, f, first + 1)
    BY <1>2, <2>1
  <2> HIDE DEF first
  <2> DEFINE g == [k \in first..last |-> IF k = first THEN DecodeStep(t, end, f, k) ELSE f[k]]
  <2>3. \A k \in first..last : \A m \in (k + 1)..last : g[m] = f[m]
    BY <2>1
  <2>4. \A k \in first..last : DecodeStep(t, end, g, k) = DecodeStep(t, end, f, k)
    <3> HIDE DEF g
    <3>1. \A k \in first..last : k \in Nat
      BY <2>1
    <3> QED
      BY <2>3, <3>1, DecodeLooksAhead
  <2>5. \A k \in first..last : g[k] = DecodeStep(t, end, f, k)
    <3>1. \A k \in (first + 1)..last : f[k] = DecodeStep(t, end, f, k)
      BY <2>2 DEF IsDecode
    <3>2. \A k \in first..last : k = first \/ k \in (first + 1)..last
      BY <2>1
    <3> QED
      BY <3>1, <3>2
  <2>6. IsDecode(t, end, g, first)
    <3>1. g = [k \in first..last |-> DecodeStep(t, end, g, k)]
      BY <2>4, <2>5
    <3> QED
      BY <3>1 DEF IsDecode
  <2> QED
    BY <2>6 DEF first
<1>3. last - i \in S
  <2> HIDE DEF S
  <2>1. Nat \subseteq S
    BY <1>1, <1>2, Induction
  <2> QED
    BY <2>1
<1>4. last - (last - i) = i
  OBVIOUS
<1> QED
  BY <1>3, <1>4

LEMMA BehindKeepsPlace ==
    ASSUME NEW c, NEW ok, NEW at, NEW bytes
    PROVE  Behind(c, [ok |-> ok, at |-> at, bytes |-> bytes]) = [ok |-> ok, at |-> at, bytes |-> c.bytes \o bytes]
<1> DEFINE q == Behind(c, [ok |-> ok, at |-> at, bytes |-> bytes])
<1>1. q = [[ok |-> ok, at |-> at, bytes |-> bytes] EXCEPT !.bytes = c.bytes \o @]
  BY DEF Behind
<1> HIDE DEF q
<1>2. q = [ok |-> ok, at |-> at, bytes |-> c.bytes \o bytes]
  BY <1>1
<1> QED
  BY <1>2 DEF q

(* The second pass stops in front of the closing quote or at it.           *)
LEMMA DecodeInside ==
    ASSUME NEW t, NEW i \in Nat, NEW end \in Nat, i <= end
    PROVE  Decode(t, i, end).at \in 0..end
<1> DEFINE f == CHOOSE g : IsDecode(t, end, g, i)
           last == end + 12
<1>1. Decode(t, i, end) = f[i]
  BY DEF Decode, IsDecode, DecodeStep, Behind
<1>2. f = [k \in i..last |-> DecodeStep(t, end, f, k)]
  <2>1. IsDecode(t, end, f, i)
    BY DecodeExists
  <2> QED
    BY <2>1 DEF IsDecode
<1> HIDE DEF f
<1> DEFINE Good(k) == \E ok, at, bytes : f[k] = [ok |-> ok, at |-> at, bytes |-> bytes] /\ at \in 0..end
           S == {n \in Nat : \A k \in i..last : last - n <= k => Good(k)}
<1>3. ASSUME NEW k \in i..last, \A m \in (k + 1)..last : Good(m)
      PROVE  Good(k)
  <2> DEFINE c == CharAt(t, k, end)
  <2>1. f[k] = DecodeStep(t, end, f, k)
    BY <1>2
  <2>2. CASE k >= end
    <3>1. f[k] = [ok |-> TRUE, at |-> end, bytes |-> <<>>] /\ end \in 0..end
      BY <2>1, <2>2 DEF DecodeStep
    <3> QED
      BY <3>1
  <2>3. CASE ~(k >= end) /\ c.length = 0
    <3>1. f[k] = [ok |-> FALSE, at |-> k, bytes |-> <<>>] /\ k \in 0..end
      BY <2>1, <2>3 DEF DecodeStep
    <3> QED
      BY <3>1
  <2>4. CASE ~(k >= end) /\ c.length # 0
    <3>1. c.length \in {1, 2, 6, 12}
      BY <2>4, CharLength
    <3>2. f[k] = Behind(c, f[k + c.length])
      BY <2>1, <2>4 DEF DecodeStep
    <3> HIDE DEF c
    <3>3. k + c.length \in (k + 1)..last
      BY <2>4, <3>1
    <3>4. PICK ok, at, bytes : f[k + c.length] = [ok |-> ok, at |-> at, bytes |-> bytes] /\ at \in 0..end
      BY <1>3, <3>3
    <3>5. f[k] = [ok |-> ok, at |-> at, bytes |-> c.bytes \o bytes]
      <4>1. f[k] = Behind(c, [ok |-> ok, at |-> at, bytes |-> bytes])
        BY <3>2, <3>4, Zenon
      <4> QED
        BY <4>1, BehindKeepsPlace
    <3> QED
      BY <3>4, <3>5
  <2> QED
    BY <2>2, <2>3, <2>4
<1>4. 0 \in S
  <2> SUFFICES ASSUME NEW k \in i..last, last - 0 <= k
               PROVE  Good(k)
    OBVIOUS
  <2>1. (k + 1)..last = {}
    OBVIOUS
  <2> HIDE DEF Good
  <2> QED
    BY <1>3, <2>1
<1>5. ASSUME NEW n \in Nat, n \in S
      PROVE  n + 1 \in S
  <2> HIDE DEF Good
  <2> SUFFICES ASSUME NEW k \in i..last, last - (n + 1) <= k
               PROVE  Good(k)
    OBVIOUS
  <2>1. \A m \in (k + 1)..last : m \in i..last /\ last - n <= m
    OBVIOUS
  <2>2. \A m \in (k + 1)..last : Good(m)
    BY <1>5, <2>1
  <2> QED
    BY <1>3, <2>2
<1>6. last - i \in S
  <2> HIDE DEF S
  <2>1. Nat \subseteq S
    BY <1>4, <1>5, Induction
  <2> QED
    BY <2>1
<1>7. Good(i)
  <2>1. i \in i..last /\ last - (last - i) <= i
    OBVIOUS
  <2> HIDE DEF Good
  <2> QED
    BY <1>6, <2>1
<1>8. PICK ok, at, bytes : f[i] = [ok |-> ok, at |-> at, bytes |-> bytes] /\ at \in 0..end
  BY <1>7
<1> QED
  BY <1>1, <1>8

(* parse_string, where it is called inside the text: it goes on, or fails, *)
(* inside the text or right behind it.                                     *)
LEMMA StringEndsInside ==
    ASSUME NEW t \in Seq(Nat), NEW i \in Nat, i < Len(t)
    PROVE  parse_string(t, i).offset \in 0..Len(t)
<1> DEFINE end == Scan(t, i).end
<1>1. Len(t) \in Nat /\ end \in (i + 1)..Len(t)
  BY ScanInside
<1>2. Decode(t, i + 1, end).at \in 0..end
  <2> HIDE DEF end
  <2>1. i + 1 \in Nat /\ end \in Nat /\ i + 1 <= end
    BY <1>1
  <2> QED
    BY <2>1, DecodeInside
<1>3. \/ parse_string(t, i).offset = i + 1
      \/ can_access(t, end) /\ parse_string(t, i).offset = end + 1
      \/ parse_string(t, i).offset = Decode(t, i + 1, end).at
  BY DEF parse_string, LiteralRead
<1> HIDE DEF end
<1> QED
  BY <1>1, <1>2, <1>3 DEF can_access

-----------------------------------------------------------------------------
(* The bytes of a string.  The first pass jumps over what is escaped and   *)
(* the second one over what an escape takes up, so that they may be out of *)
(* step: what the first has counted is followed from both offsets.         *)

(* The first pass from k on, if it stops at end, finds n escapes.          *)
Finds(f, end, k, n) == f[k].end = end /\ f[k].skipped = n

(* It passes k, or the middle of an escape at k, and finds n escapes behind.*)
Passes(f, end, k, n) == Finds(f, end, k, n) \/ (k < end /\ Finds(f, end, k + 1, n))

LEMMA SkippedStep ==
    ASSUME NEW r \in [end : Nat, skipped : Nat], NEW q, q = [r EXCEPT !.skipped = @ + 1]
    PROVE  q.end = r.end /\ q.skipped = r.skipped + 1
  OBVIOUS

LEMMA FindsGoesOn ==
    ASSUME NEW t \in Seq(Nat), NEW first \in Nat, NEW f, IsScan(t, f, first),
           \A k \in first..(Len(t) + 1) : ScannedFrom(t, f, k),
           NEW end \in first..(Len(t) - 1), NEW k \in first..(end - 1), NEW n, Finds(f, end, k, n)
    PROVE  /\ n \in Nat
           /\ \/ Finds(f, end, k + 1, n)
              \/ At(t, k) = Backslash /\ n >= 1 /\ k + 2 <= end /\ Finds(f, end, k + 2, n - 1)
<1>1. Len(t) \in Nat /\ end \in Nat /\ k \in Nat /\ k < end /\ end < Len(t)
  OBVIOUS
<1>2. k \in first..(Len(t) + 1) /\ k + 1 \in first..(Len(t) + 1) /\ k + 2 \in first..(Len(t) + 1)
  BY <1>1
<1>3. f[k] = ScanStep(t, f, k)
  BY <1>2 DEF IsScan
<1>4. can_access(t, k)
  BY <1>1 DEF can_access
<1>5. f[k].end = end /\ f[k].skipped = n /\ f[k] \in [end : Nat, skipped : Nat]
  BY <1>2 DEF Finds, ScannedFrom
<1>6. n \in Nat
  BY <1>5
<1>7. At(t, k) # Quote
  <2> SUFFICES ASSUME At(t, k) = Quote
               PROVE  FALSE
    OBVIOUS
  <2>1. f[k] = [end |-> k, skipped |-> 0]
    BY <1>3, <1>4 DEF ScanStep
  <2> QED
    BY <1>1, <1>5, <2>1
<1>8. CASE At(t, k) # Backslash
  <2>1. f[k] = f[k + 1]
    BY <1>3, <1>4, <1>7, <1>8 DEF ScanStep
  <2> QED
    BY <1>5, <1>6, <2>1 DEF Finds
<1>9. CASE At(t, k) = Backslash
  <2>1. f[k] = [f[k + 2] EXCEPT !.skipped = @ + 1]
    BY <1>3, <1>4, <1>7, <1>9 DEF ScanStep
  <2>2. f[k + 2] \in [end : Nat, skipped : Nat] /\ f[k + 2].skipped \in Nat
    BY <1>2 DEF ScannedFrom
  <2>3. f[k].end = f[k + 2].end /\ f[k].skipped = f[k + 2].skipped + 1
    BY <2>1, <2>2, SkippedStep
  <2>4. f[k + 2].end = end /\ f[k + 2].skipped = n - 1 /\ n >= 1
    <3>1. PICK r \in Nat : f[k + 2].skipped = r
      BY <2>2
    <3>2. n = r + 1 /\ f[k + 2].end = end
      BY <1>5, <2>3, <3>1, Zenon
    <3> QED
      BY <3>1, <3>2
  <2>5. k + 2 <= end
    <3>1. /\ k + 2 <= Len(t) => k + 2 <= f[k + 2].end
          /\ k + 2 = Len(t) + 1 => f[k + 2].end = Len(t)
      BY <1>2 DEF ScannedFrom
    <3> QED
      BY <1>1, <2>4, <3>1
  <2> QED
    BY <1>6, <1>9, <2>4, <2>5 DEF Finds
<1> QED
  BY <1>8, <1>9

(* Two characters further there is one escape less at most.                *)
LEMMA PassesTwo ==
    ASSUME NEW t \in Seq(Nat), NEW first \in Nat, NEW f, IsScan(t, f, first),
           \A k \in first..(Len(t) + 1) : ScannedFrom(t, f, k),
           NEW end \in first..(Len(t) - 1), NEW k \in first..(end - 2),
           NEW n, Passes(f, end, k, n)
    PROVE  n \in Nat /\ \E m \in Nat : n <= m + 1 /\ Passes(f, end, k + 2, m)
<1>1. Len(t) \in Nat /\ end \in Nat /\ k \in Nat /\ k + 2 <= end /\ end < Len(t)
  OBVIOUS
<1>2. k \in first..(end - 1) /\ k + 1 \in first..(end - 1) /\ (k + 1) + 1 = k + 2 /\ (k + 1) + 2 = (k + 2) + 1
  BY <1>1
<1>3. ASSUME NEW m, Finds(f, end, k + 1, m)
      PROVE  m \in Nat /\ \E r \in Nat : m <= r + 1 /\ Passes(f, end, k + 2, r)
  <2>1. /\ m \in Nat
        /\ \/ Finds(f, end, k + 2, m)
           \/ m >= 1 /\ (k + 1) + 2 <= end /\ Finds(f, end, (k + 2) + 1, m - 1)
    BY <1>2, <1>3, FindsGoesOn
  <2>2. CASE Finds(f, end, k + 2, m)
    <3>1. Passes(f, end, k + 2, m) /\ m <= m + 1
      BY <2>1, <2>2 DEF Passes
    <3> QED
      BY <2>1, <3>1
  <2>3. CASE m >= 1 /\ (k + 1) + 2 <= end /\ Finds(f, end, (k + 2) + 1, m - 1)
    <3>1. m - 1 \in Nat /\ m <= (m - 1) + 1 /\ k + 2 < end
      BY <1>1, <2>1, <2>3
    <3>2. Passes(f, end, k + 2, m - 1)
      BY <2>3, <3>1 DEF Passes
    <3> QED
      BY <2>1, <3>1, <3>2
  <2> QED
    BY <2>1, <2>2, <2>3
<1>4. CASE Finds(f, end, k + 1, n)
  BY <1>3, <1>4
<1>5. CASE Finds(f, end, k, n) /\ ~Finds(f, end, k + 1, n)
  <2>1. n \in Nat /\ n >= 1 /\ Finds(f, end, k + 2, n - 1)
    BY <1>2, <1>5, FindsGoesOn
  <2>2. n - 1 \in Nat /\ n <= (n - 1) + 1 /\ Passes(f, end, k + 2, n - 1)
    BY <2>1 DEF Passes
  <2> QED
    BY <2>1, <2>2
<1> QED
  BY <1>4, <1>5 DEF Passes

LEMMA HexDigit ==
    ASSUME NEW c
    PROVE  HexValue(c) \in Int /\ HexValue(c) < 16
<1>1. HexValue(c) = IF c \in 48..57 THEN c - 48 ELSE IF c \in 65..70 THEN c - 55
                    ELSE IF c \in 97..102 THEN c - 87 ELSE -1
  BY Zenon DEF HexValue, Digit
<1> QED
  BY <1>1

(* What four hexadecimal digits can say.                                   *)
CodeUnit(n) == n \in Nat /\ n < 65536

LEMMA HexIsSmall ==
    ASSUME NEW t, NEW k
    PROVE  CodeUnit(parse_hex4(t, k))
<1> DEFINE h == [n \in 0..3 |-> HexValue(At(t, k + n))]
<1>1. \A n \in 0..3 : h[n] \in Int /\ h[n] < 16
  BY HexDigit
<1>2. parse_hex4(t, k) = IF \E n \in 0..3 : h[n] < 0 THEN 0
                         ELSE 4096 * h[0] + 256 * h[1] + 16 * h[2] + h[3]
  BY DEF parse_hex4
<1> HIDE DEF h
<1>3. CASE \E n \in 0..3 : h[n] < 0
  <2>1. parse_hex4(t, k) = 0
    BY <1>2, <1>3
  <2> QED
    BY <2>1 DEF CodeUnit
<1>4. CASE ~\E n \in 0..3 : h[n] < 0
  <2>1. /\ h[0] \in Int /\ ~(h[0] < 0) /\ h[0] < 16
        /\ h[1] \in Int /\ ~(h[1] < 0) /\ h[1] < 16
        /\ h[2] \in Int /\ ~(h[2] < 0) /\ h[2] < 16
        /\ h[3] \in Int /\ ~(h[3] < 0) /\ h[3] < 16
    BY <1>1, <1>4
  <2>2. CodeUnit(4096 * h[0] + 256 * h[1] + 16 * h[2] + h[3])
    BY <2>1 DEF CodeUnit
  <2> QED
    BY <1>2, <1>4, <2>2
<1> QED
  BY <1>3, <1>4

(* The bytes of a code point are at most four, and three below 65536.      *)
LEMMA Utf8Length ==
    ASSUME NEW c \in Nat
    PROVE  /\ Utf8(c) \in Seq(Int) /\ Len(Utf8(c)) \in 1..4
           /\ c < 65536 => Len(Utf8(c)) <= 3
<1>1. \A n \in Nat : Continuation(n) \in Int
  BY DEF Continuation
<1>2. /\ c \div 64 \in Nat /\ c \div 4096 \in Nat /\ c \div 262144 \in Nat
  OBVIOUS
<1>3. Continuation(c) \in Int /\ Continuation(c \div 64) \in Int /\ Continuation(c \div 4096) \in Int
  BY <1>1, <1>2
<1> DEFINE x == Continuation(c)  y == Continuation(c \div 64)  z == Continuation(c \div 4096)
           p == 192 + (c \div 64)  q == 224 + (c \div 4096)  r == 240 + (c \div 262144)
<1>4. x \in Int /\ y \in Int /\ z \in Int /\ p \in Int /\ q \in Int /\ r \in Int
  BY <1>2, <1>3
<1>5. Utf8(c) = IF c < 128 THEN <<c>> ELSE IF c < 2048 THEN <<p, x>>
                ELSE IF c < 65536 THEN <<q, y, x>> ELSE <<r, z, y, x>>
  BY DEF Utf8
<1> HIDE DEF x, y, z, p, q, r
<1>6. /\ <<c>> \in Seq(Int) /\ Len(<<c>>) = 1
      /\ <<p, x>> \in Seq(Int) /\ Len(<<p, x>>) = 2
      /\ <<q, y, x>> \in Seq(Int) /\ Len(<<q, y, x>>) = 3
      /\ <<r, z, y, x>> \in Seq(Int) /\ Len(<<r, z, y, x>>) = 4
  BY <1>4
<1> HIDE DEF Utf8
<1> QED
  BY <1>5, <1>6

(* An escape of n characters gives at most half as many bytes, and is in   *)
(* front of the end unless it is the quote that is taken for escaped.      *)
FewBytes(n, bytes, k, end) ==
    \/ n = 0
    \/ n = 1 /\ bytes = 1
    \/ n = 2 /\ bytes = 1
    \/ n = 6 /\ bytes \in 0..3 /\ k + 6 <= end
    \/ n = 12 /\ bytes \in 0..4 /\ k + 12 <= end

CharFits(c, k, end) == c.bytes \in Seq(Int) /\ FewBytes(c.length, Len(c.bytes), k, end)

LEMMA UnitFits ==
    ASSUME NEW n, NEW bytes \in Seq(Int), NEW k, NEW end, FewBytes(n, Len(bytes), k, end)
    PROVE  CharFits(Unit(n, bytes), k, end)
<1>1. Unit(n, bytes).length = n /\ Unit(n, bytes).bytes = bytes
  BY DEF Unit
<1> QED
  BY <1>1, Zenon DEF CharFits

LEMMA OneByte ==
    ASSUME NEW n \in {1, 2}, NEW c \in Int, NEW k, NEW end
    PROVE  CharFits(Unit(n, <<c>>), k, end)
<1>1. <<c>> \in Seq(Int) /\ Len(<<c>>) = 1
  OBVIOUS
<1>2. FewBytes(n, Len(<<c>>), k, end)
  BY <1>1 DEF FewBytes
<1> QED
  BY <1>1, <1>2, UnitFits

LEMMA RefusedFits ==
    ASSUME NEW k, NEW end
    PROVE  CharFits(Refused, k, end)
<1>1. <<>> \in Seq(Int)
  OBVIOUS
<1>2. FewBytes(0, Len(<<>>), k, end)
  BY Zenon DEF FewBytes
<1> QED
  BY <1>1, <1>2, UnitFits, Zenon DEF Refused

LEMMA UnitOfSix ==
    ASSUME NEW first, CodeUnit(first), NEW k \in Nat, NEW end \in Nat, ~(end - k < 6)
    PROVE  CharFits(Unit(6, Utf8(first)), k, end)
<1>1. Utf8(first) \in Seq(Int) /\ Len(Utf8(first)) \in 1..4 /\ Len(Utf8(first)) <= 3
  BY Utf8Length DEF CodeUnit
<1>2. Len(Utf8(first)) \in 0..3 /\ k + 6 <= end
  <2>1. PICK n \in 1..4 : n = Len(Utf8(first)) /\ n <= 3
    BY <1>1, Zenon
  <2>2. n \in 0..3 /\ k + 6 <= end
    BY <2>1
  <2> QED
    BY <2>1, <2>2, Zenon
<1>3. FewBytes(6, Len(Utf8(first)), k, end)
  BY <1>2 DEF FewBytes
<1> QED
  BY <1>1, <1>3, UnitFits

LEMMA UnitOfTwelve ==
    ASSUME NEW point \in Nat, NEW k \in Nat, NEW end \in Nat, ~(end - k < 12)
    PROVE  CharFits(Unit(12, Utf8(point)), k, end)
<1>1. Utf8(point) \in Seq(Int) /\ Len(Utf8(point)) \in 1..4
  BY Utf8Length
<1>2. Len(Utf8(point)) \in 0..4 /\ k + 12 <= end
  BY <1>1
<1>3. FewBytes(12, Len(Utf8(point)), k, end)
  BY <1>2 DEF FewBytes
<1> QED
  BY <1>1, <1>3, UnitFits

LEMMA PairFits ==
    ASSUME NEW t, NEW k \in Nat, NEW end \in Nat, NEW first, CodeUnit(first), NEW second, CodeUnit(second)
    PROVE  CharFits(Utf16Pair(t, k, end, first, second), k, end)
<1> DEFINE point == 65536 + 1024 * (first % 1024) + (second % 1024)
           pair  == Utf16Pair(t, k, end, first, second)
<1>1. point \in Nat
  BY DEF CodeUnit
<1>2. \/ pair = Refused
      \/ ~(end - k < 6) /\ pair = Unit(6, Utf8(first))
      \/ ~(end - k < 12) /\ pair = Unit(12, Utf8(point))
  BY DEF Utf16Pair
<1> HIDE DEF point, pair
<1>3. CASE pair = Refused
  BY <1>3, RefusedFits DEF pair
<1>4. CASE ~(end - k < 6) /\ pair = Unit(6, Utf8(first))
  BY <1>4, UnitOfSix DEF pair
<1>5. CASE ~(end - k < 12) /\ pair = Unit(12, Utf8(point))
  BY <1>1, <1>5, UnitOfTwelve DEF pair
<1> QED
  BY <1>2, <1>3, <1>4, <1>5 DEF pair

LEMMA CharIsSmall ==
    ASSUME NEW t \in Seq(Nat), NEW end \in Nat, end < Len(t), NEW k \in 0..(end - 1)
    PROVE  CharFits(CharAt(t, k, end), k, end)
<1>1. At(t, k) \in Int
  BY DEF At
<1>2. \A c \in DOMAIN SimpleEscape : SimpleEscape[c] \in Int
  BY DEF SimpleEscape
<1>3. CASE At(t, k) # Backslash
  <2>1. CharAt(t, k, end) = Unit(1, <<At(t, k)>>)
    BY <1>3, Zenon DEF CharAt
  <2>2. CharFits(Unit(1, <<At(t, k)>>), k, end)
    BY <1>1, OneByte
  <2> QED
    BY <2>1, <2>2, Zenon
<1>4. CASE At(t, k) = Backslash /\ At(t, k + 1) \in DOMAIN SimpleEscape
  <2> DEFINE c == SimpleEscape[At(t, k + 1)]
  <2>1. CharAt(t, k, end) = Unit(2, <<c>>)
    BY <1>4, Zenon DEF CharAt
  <2>2. c \in Int
    BY <1>2, <1>4, Zenon
  <2> HIDE DEF c
  <2>3. CharFits(Unit(2, <<c>>), k, end)
    BY <2>2, OneByte
  <2> QED
    BY <2>1, <2>3, Zenon
<1>5. CASE At(t, k) = Backslash /\ At(t, k + 1) \notin DOMAIN SimpleEscape
  <2>1. CharAt(t, k, end) = utf16_literal_to_utf8(t, k, end) \/ CharAt(t, k, end) = Refused
    BY <1>5, Zenon DEF CharAt
  <2>2. CharFits(utf16_literal_to_utf8(t, k, end), k, end)
    <3>1. k \in Nat
      OBVIOUS
    <3> QED
      BY <3>1, HexIsSmall, PairFits, Zenon DEF utf16_literal_to_utf8
  <2> QED
    BY <2>1, <2>2, RefusedFits, Zenon
<1> QED
  BY <1>3, <1>4, <1>5

(* What the lemmas below are about: the first pass as a function s.        *)
Scanned(t, s, first, end) ==
    /\ IsScan(t, s, first)
    /\ \A k \in first..(Len(t) + 1) : ScannedFrom(t, s, k)
    /\ end \in first..(Len(t) - 1)

LEMMA NoneAtTheEnd ==
    ASSUME NEW t \in Seq(Nat), NEW first \in Nat, NEW s, NEW end, Scanned(t, s, first, end),
           NEW n, Finds(s, end, end, n)
    PROVE  n = 0
<1>1. Len(t) \in Nat /\ end \in Nat /\ end < Len(t) /\ end \in first..(Len(t) + 1)
      /\ end + 1 \in first..(Len(t) + 1) /\ end + 2 \in first..(Len(t) + 1)
  BY DEF Scanned
<1>2. s[end] = ScanStep(t, s, end)
  BY <1>1 DEF IsScan, Scanned
<1>3. can_access(t, end)
  BY <1>1 DEF can_access
<1>4. ScannedFrom(t, s, end + 1) /\ ScannedFrom(t, s, end + 2)
  BY <1>1 DEF Scanned
<1>5. s[end].end = end /\ s[end].skipped = n
  BY DEF Finds
<1>6. CASE At(t, end) = Quote
  <2>1. s[end] = [end |-> end, skipped |-> 0]
    BY <1>2, <1>3, <1>6 DEF ScanStep
  <2> QED
    BY <1>5, <2>1
<1>7. CASE At(t, end) # Quote /\ At(t, end) # Backslash
  <2>1. s[end] = s[end + 1]
    BY <1>2, <1>3, <1>7 DEF ScanStep
  <2>2. s[end + 1].end = end /\ end + 1 <= s[end + 1].end
    BY <1>1, <1>4, <1>5, <2>1 DEF ScannedFrom
  <2> QED
    BY <1>1, <2>2
<1>8. CASE At(t, end) = Backslash /\ At(t, end) # Quote
  <2>1. s[end] = [s[end + 2] EXCEPT !.skipped = @ + 1]
    BY <1>2, <1>3, <1>8 DEF ScanStep
  <2>2. s[end + 2] \in [end : Nat, skipped : Nat]
    BY <1>4 DEF ScannedFrom
  <2>3. s[end + 2].end = end
    BY <1>5, <2>1, <2>2, SkippedStep
  <2>4. end + 1 <= s[end + 2].end
    BY <1>1, <1>4 DEF ScannedFrom
  <2> QED
    BY <1>1, <2>3, <2>4
<1> QED
  BY <1>6, <1>7, <1>8

LEMMA PassesSix ==
    ASSUME NEW t \in Seq(Nat), NEW first \in Nat, NEW s, NEW end, Scanned(t, s, first, end),
           NEW k \in Nat, first <= k, k + 6 <= end, NEW n, Passes(s, end, k, n)
    PROVE  n \in Nat /\ \E m \in Nat : n <= m + 3 /\ Passes(s, end, k + 6, m)
<1>0. end \in Nat /\ Len(t) \in Nat
  BY DEF Scanned
<1>1. ASSUME NEW j \in Nat, first <= j, j + 2 <= end, NEW r, Passes(s, end, j, r)
      PROVE  r \in Nat /\ \E m \in Nat : r <= m + 1 /\ Passes(s, end, j + 2, m)
  <2>1. j \in first..(end - 2)
    BY <1>0, <1>1
  <2> QED
    BY <1>1, <2>1, PassesTwo DEF Scanned
<1>2. PICK p \in Nat : n <= p + 1 /\ Passes(s, end, k + 2, p) /\ n \in Nat
  <2>1. k + 2 <= end
    BY <1>0
  <2> QED
    BY <1>1, <2>1
<1>3. PICK q \in Nat : p <= q + 1 /\ Passes(s, end, k + 4, q)
  <2>1. k + 2 \in Nat /\ first <= k + 2 /\ (k + 2) + 2 <= end /\ (k + 2) + 2 = k + 4
    BY <1>0
  <2>2. \E m \in Nat : p <= m + 1 /\ Passes(s, end, (k + 2) + 2, m)
    BY <1>1, <1>2, <2>1
  <2> QED
    BY <2>1, <2>2
<1>4. PICK r \in Nat : q <= r + 1 /\ Passes(s, end, k + 6, r)
  <2>1. k + 4 \in Nat /\ first <= k + 4 /\ (k + 4) + 2 <= end /\ (k + 4) + 2 = k + 6
    BY <1>0
  <2>2. \E m \in Nat : q <= m + 1 /\ Passes(s, end, (k + 4) + 2, m)
    BY <1>1, <1>3, <2>1
  <2> QED
    BY <2>1, <2>2
<1>5. n <= r + 3
  BY <1>2, <1>3, <1>4
<1> QED
  BY <1>2, <1>4, <1>5

LEMMA NoEscapeIsOne ==
    ASSUME NEW t, NEW k, NEW end, CharAt(t, k, end).length = 1
    PROVE  At(t, k) # Backslash
<1>1. \A n, bytes : Unit(n, bytes).length = n
  BY DEF Unit
<1>2. Refused.length = 0
  BY <1>1 DEF Refused
<1>3. utf16_literal_to_utf8(t, k, end).length \in {0, 6, 12}
  BY <1>1, <1>2 DEF utf16_literal_to_utf8, Utf16Pair
<1> QED
  BY <1>1, <1>2, <1>3 DEF CharAt

(* There is room for what is decoded from k on, and for as many bytes more  *)
(* as escapes are found.                                                   *)
HasRoom(s, end, k, m) == k <= end => \A n : Passes(s, end, k, n) => m + n <= end - k

LEMMA RoomForChar ==
    ASSUME NEW t \in Seq(Nat), NEW first \in Nat, NEW s, NEW end, Scanned(t, s, first, end),
           NEW k \in Nat, first <= k, k < end,
           NEW c, c = CharAt(t, k, end), c.length # 0,
           NEW m \in Nat, k + c.length >= end => m = 0, HasRoom(s, end, k + c.length, m)
    PROVE  HasRoom(s, end, k, Len(c.bytes) + m)
<1>0. end \in Nat /\ Len(t) \in Nat /\ end < Len(t)
  BY DEF Scanned
<1> SUFFICES ASSUME NEW n, Passes(s, end, k, n)
             PROVE  Len(c.bytes) + m + n <= end - k
  BY DEF HasRoom
<1>1. CharFits(c, k, end)
  BY <1>0, CharIsSmall
<1>2. c.bytes \in Seq(Int) /\ FewBytes(c.length, Len(c.bytes), k, end)
  BY <1>1 DEF CharFits
<1>3. CASE c.length = 1 /\ Len(c.bytes) = 1
  <2>1. At(t, k) # Backslash
    BY <1>3, NoEscapeIsOne
  <2>2. Finds(s, end, k + 1, n) /\ n \in Nat
    <3>1. CASE Finds(s, end, k, n)
      <4>1. k \in first..(end - 1)
        BY <1>0
      <4> QED
        BY <2>1, <3>1, <4>1, FindsGoesOn DEF Scanned
    <3>2. CASE Finds(s, end, k + 1, n)
      <4>1. k + 1 \in first..(Len(t) + 1)
        BY <1>0
      <4> QED
        BY <3>2, <4>1 DEF Finds, Scanned, ScannedFrom
    <3> QED
      BY <3>1, <3>2 DEF Passes
  <2>3. Passes(s, end, k + 1, n)
    BY <2>2 DEF Passes
  <2>4. m + n <= end - (k + 1)
    BY <1>0, <1>3, <2>3 DEF HasRoom
  <2> QED
    BY <1>0, <1>3, <2>2, <2>4
<1>4. CASE c.length = 2 /\ Len(c.bytes) = 1 /\ k + 2 <= end
  <2>1. k \in first..(end - 2)
    BY <1>0, <1>4
  <2>2. PICK r \in Nat : n <= r + 1 /\ Passes(s, end, k + 2, r) /\ n \in Nat
    BY <2>1, PassesTwo DEF Scanned
  <2>3. m + r <= end - (k + 2)
    BY <1>4, <2>2 DEF HasRoom
  <2> QED
    BY <1>0, <1>4, <2>2, <2>3
<1>5. CASE c.length = 2 /\ Len(c.bytes) = 1 /\ ~(k + 2 <= end)
  <2>1. k + 1 = end /\ m = 0 /\ k \in first..(end - 1)
    BY <1>0, <1>5
  <2>2. Finds(s, end, end, n)
    <3>1. CASE Finds(s, end, k, n)
      <4>1. Finds(s, end, k + 1, n)
        BY <1>5, <2>1, <3>1, FindsGoesOn DEF Scanned
      <4> QED
        BY <2>1, <4>1
    <3>2. CASE Finds(s, end, k + 1, n)
      BY <2>1, <3>2
    <3> QED
      BY <3>1, <3>2 DEF Passes
  <2>3. n = 0
    BY <2>2, NoneAtTheEnd
  <2> QED
    BY <1>0, <1>5, <2>1, <2>3
<1>6. CASE c.length = 6 /\ Len(c.bytes) \in 0..3 /\ k + 6 <= end
  <2>1. PICK r \in Nat : n <= r + 3 /\ Passes(s, end, k + 6, r) /\ n \in Nat
    BY <1>6, PassesSix
  <2>2. m + r <= end - (k + 6)
    BY <1>6, <2>1 DEF HasRoom
  <2>3. PICK b \in 0..3 : b = Len(c.bytes)
    BY <1>6
  <2>4. b + m + n <= end - k
    BY <1>0, <2>1, <2>2
  <2> QED
    BY <2>3, <2>4
<1>7. CASE c.length = 12 /\ Len(c.bytes) \in 0..4 /\ k + 12 <= end
  <2>1. PICK q \in Nat : n <= q + 3 /\ Passes(s, end, k + 6, q) /\ n \in Nat
    <3>1. k + 6 <= end
      BY <1>0, <1>7
    <3> QED
      BY <3>1, PassesSix
  <2>2. PICK r \in Nat : q <= r + 3 /\ Passes(s, end, k + 12, r)
    <3>1. k + 6 \in Nat /\ first <= k + 6 /\ (k + 6) + 6 <= end /\ (k + 6) + 6 = k + 12
      BY <1>0, <1>7
    <3>2. \E r \in Nat : q <= r + 3 /\ Passes(s, end, (k + 6) + 6, r)
      BY <2>1, <3>1, PassesSix
    <3> QED
      BY <3>1, <3>2
  <2>3. m + r <= end - (k + 12)
    BY <1>7, <2>2 DEF HasRoom
  <2>4. PICK b \in 0..4 : b = Len(c.bytes)
    BY <1>7
  <2>5. b + m + n <= end - k
    BY <1>0, <2>1, <2>2, <2>3
  <2> QED
    BY <2>4, <2>5
<1> QED
  BY <1>2, <1>3, <1>4, <1>5, <1>6, <1>7, Zenon DEF FewBytes

JoinedFits(x, y) == x \o y \in Seq(Int) /\ Len(x \o y) = Len(x) + Len(y)

LEMMA BytesJoined ==
    ASSUME NEW x \in Seq(Int), NEW y \in Seq(Int)
    PROVE  JoinedFits(x, y)
  BY DEF JoinedFits

(* Fewer escapes are found than there are characters.                      *)
LEMMA RoomForNothing ==
    ASSUME NEW t \in Seq(Nat), NEW first \in Nat, NEW s, NEW end, Scanned(t, s, first, end),
           NEW k \in Nat, first <= k, k <= end,
           NEW m \in Nat, k + 1 <= end => HasRoom(s, end, k + 1, m),
           NEW r \in Nat, k + 2 <= end => HasRoom(s, end, k + 2, r)
    PROVE  HasRoom(s, end, k, 0)
<1>0. end \in Nat /\ Len(t) \in Nat /\ end < Len(t)
  BY DEF Scanned
<1> SUFFICES ASSUME NEW n, Passes(s, end, k, n)
             PROVE  0 + n <= end - k
  BY DEF HasRoom
<1>1. CASE k = end
  <2>1. Finds(s, end, end, n)
    BY <1>0, <1>1 DEF Passes
  <2>2. n = 0
    BY <2>1, NoneAtTheEnd
  <2> QED
    BY <1>0, <1>1, <2>2
<1>2. CASE k < end /\ Finds(s, end, k + 1, n)
  <2>1. k + 1 \in first..(Len(t) + 1) /\ k + 1 <= end
    BY <1>0, <1>2
  <2>2. n \in Nat
    BY <1>2, <2>1 DEF Finds, Scanned, ScannedFrom
  <2>3. m + n <= end - (k + 1)
    BY <1>2, <2>1 DEF HasRoom, Passes
  <2> QED
    BY <1>0, <2>2, <2>3
<1>3. CASE k < end /\ Finds(s, end, k, n) /\ ~Finds(s, end, k + 1, n)
  <2>1. k \in first..(end - 1)
    BY <1>0, <1>3
  <2>2. n \in Nat /\ n >= 1 /\ k + 2 <= end /\ Finds(s, end, k + 2, n - 1)
    BY <1>3, <2>1, FindsGoesOn DEF Scanned
  <2>3. r + (n - 1) <= end - (k + 2)
    BY <2>2 DEF HasRoom, Passes
  <2> QED
    BY <1>0, <2>2, <2>3
<1> QED
  BY <1>0, <1>1, <1>2, <1>3 DEF Passes

(* What the second pass gives from k on.                                   *)
DecodedFrom(d, s, end, k) ==
    \E ok, at, bytes :
        /\ d[k] = [ok |-> ok, at |-> at, bytes |-> bytes]
        /\ bytes \in Seq(Int)
        /\ k >= end => Len(bytes) = 0
        /\ HasRoom(s, end, k, Len(bytes))

LEMMA DecodedOneMore ==
    ASSUME NEW t \in Seq(Nat), NEW first \in Nat, NEW s, NEW end, Scanned(t, s, first, end),
           NEW d, IsDecode(t, end, d, first),
           NEW k \in first..(end + 12),
           \A j \in (k + 1)..(end + 12) : DecodedFrom(d, s, end, j)
    PROVE  DecodedFrom(d, s, end, k)
<1>0. end \in Nat /\ Len(t) \in Nat /\ end < Len(t) /\ k \in Nat /\ first <= k
  BY DEF Scanned
<1>1. d[k] = DecodeStep(t, end, d, k)
  BY DEF IsDecode
<1>2. <<>> \in Seq(Int) /\ Len(<<>>) = 0
  OBVIOUS
<1> DEFINE c == CharAt(t, k, end)
<1>3. CASE k >= end
  <2>1. d[k] = [ok |-> TRUE, at |-> end, bytes |-> <<>>]
    BY <1>1, <1>3 DEF DecodeStep
  <2>2. HasRoom(s, end, k, 0)
    <3>1. CASE k = end
      BY <1>0, <3>1, RoomForNothing
    <3>2. CASE k # end
      <4>1. ~(k <= end)
        BY <1>0, <1>3, <3>2
      <4> QED
        BY <4>1 DEF HasRoom
    <3> QED
      BY <3>1, <3>2
  <2> QED
    BY <1>2, <2>1, <2>2 DEF DecodedFrom
<1>4. CASE ~(k >= end) /\ c.length = 0
  <2>1. d[k] = [ok |-> FALSE, at |-> k, bytes |-> <<>>]
    BY <1>1, <1>4 DEF DecodeStep
  <2>2. k + 1 \in (k + 1)..(end + 12) /\ k + 2 \in (k + 1)..(end + 12) /\ k <= end
    BY <1>0, <1>4
  <2>3. \A j \in (k + 1)..(end + 12) : \E m \in Nat : HasRoom(s, end, j, m)
    <3> TAKE j \in (k + 1)..(end + 12)
    <3>1. PICK bytes : bytes \in Seq(Int) /\ HasRoom(s, end, j, Len(bytes))
      BY DEF DecodedFrom
    <3>2. Len(bytes) \in Nat
      BY <3>1
    <3> QED
      BY <3>1, <3>2
  <2>4. PICK m \in Nat : HasRoom(s, end, k + 1, m)
    BY <2>2, <2>3
  <2>5. PICK r \in Nat : HasRoom(s, end, k + 2, r)
    BY <2>2, <2>3
  <2>6. HasRoom(s, end, k, 0)
    BY <1>0, <2>2, <2>4, <2>5, RoomForNothing
  <2> QED
    BY <1>2, <1>4, <2>1, <2>6, Zenon DEF DecodedFrom
<1>5. CASE ~(k >= end) /\ c.length # 0
  <2>1. c.length \in {1, 2, 6, 12}
    BY <1>5, CharLength
  <2>2. d[k] = Behind(c, d[k + c.length])
    BY <1>1, <1>5 DEF DecodeStep
  <2>3. k + c.length \in (k + 1)..(end + 12) /\ k < end
    <3> HIDE DEF c
    <3> QED
      BY <1>0, <1>5, <2>1
  <2>4. PICK ok, at, bytes :
           /\ d[k + c.length] = [ok |-> ok, at |-> at, bytes |-> bytes]
           /\ bytes \in Seq(Int)
           /\ k + c.length >= end => Len(bytes) = 0
           /\ HasRoom(s, end, k + c.length, Len(bytes))
    BY <2>3 DEF DecodedFrom
  <2>5. d[k] = [ok |-> ok, at |-> at, bytes |-> c.bytes \o bytes]
    <3>1. d[k] = Behind(c, [ok |-> ok, at |-> at, bytes |-> bytes])
      BY <2>2, <2>4, Zenon
    <3> QED
      BY <3>1, BehindKeepsPlace
  <2>6. c.bytes \in Seq(Int)
    <3>1. k \in 0..(end - 1)
      BY <1>0, <2>3
    <3> QED
      BY <1>0, <3>1, CharIsSmall DEF CharFits
  <2>7. JoinedFits(c.bytes, bytes)
    BY <2>4, <2>6, BytesJoined
  <2>8. HasRoom(s, end, k, Len(c.bytes) + Len(bytes))
    <3>1. Len(bytes) \in Nat
      BY <2>4
    <3> HIDE DEF c
    <3>2. c = CharAt(t, k, end)
      BY DEF c
    <3> QED
      BY <1>0, <1>5, <2>3, <2>4, <3>1, <3>2, RoomForChar
  <2> QED
    BY <1>5, <2>5, <2>7, <2>8, Zenon DEF DecodedFrom, JoinedFits
<1> QED
  BY <1>3, <1>4, <1>5

(* What parse_string decodes fits, with its terminator, in the block whose  *)
(* size the first pass has counted.                                        *)
LEMMA DecodeFits ==
    ASSUME NEW t \in Seq(Nat), NEW i \in Nat, i < Len(t), Scan(t, i).end < Len(t)
    PROVE  Len(Decode(t, i + 1, Scan(t, i).end).bytes) + 1 <= Allocated(i, Scan(t, i))
<1> DEFINE end == Scan(t, i).end
           n == Scan(t, i).skipped
           first == i + 1
           d == CHOOSE g : IsDecode(t, end, g, first)
           last == end + 12
<1>1. PICK s : IsScan(t, s, first) /\ Scan(t, i) = s[first]
  BY ScanInside
<1>2. end \in first..Len(t)
  BY ScanInside
<1>3. Scanned(t, s, first, end)
  <2>1. \A k \in first..(Len(t) + 1) : ScannedFrom(t, s, k)
    BY <1>1, ScannedInside
  <2>2. end \in first..(Len(t) - 1)
    BY <1>2
  <2> HIDE DEF end, first
  <2> QED
    BY <1>1, <2>1, <2>2 DEF Scanned
<1>4. end \in Nat /\ first \in Nat /\ first <= end
  BY <1>2
<1>5. n \in Nat /\ Passes(s, end, first, n)
  <2>1. Len(t) \in Nat /\ first \in first..(Len(t) + 1)
    OBVIOUS
  <2>2. ScannedFrom(t, s, first)
    BY <1>1, ScannedInside, <2>1
  <2> QED
    BY <1>1, <2>2 DEF ScannedFrom, Passes, Finds
<1>6. Decode(t, first, end) = d[first]
  BY DEF Decode, IsDecode, DecodeStep, Behind
<1>7. IsDecode(t, end, d, first)
  <2> HIDE DEF end, first
  <2> QED
    BY <1>4, DecodeExists
<1>8. Allocated(i, Scan(t, i)) = (end - i) - n + 1
  BY DEF Allocated
<1> HIDE DEF d, end, n
<1> DEFINE S == {m \in Nat : \A k \in first..last : last - m <= k => DecodedFrom(d, s, end, k)}
<1>9. 0 \in S
  <2> SUFFICES ASSUME NEW k \in first..last, last - 0 <= k
               PROVE  DecodedFrom(d, s, end, k)
    OBVIOUS
  <2>1. (k + 1)..last = {}
    BY <1>4
  <2> QED
    BY <1>3, <1>4, <1>7, <2>1, DecodedOneMore
<1>10. ASSUME NEW m \in Nat, m \in S
       PROVE  m + 1 \in S
  <2> SUFFICES ASSUME NEW k \in first..last, last - (m + 1) <= k
               PROVE  DecodedFrom(d, s, end, k)
    OBVIOUS
  <2>1. \A j \in (k + 1)..last : j \in first..last /\ last - m <= j
    BY <1>4
  <2>2. \A j \in (k + 1)..last : DecodedFrom(d, s, end, j)
    BY <1>10, <2>1
  <2> QED
    BY <1>3, <1>4, <1>7, <2>2, DecodedOneMore
<1>11. last - first \in S
  <2> HIDE DEF S
  <2>1. Nat \subseteq S
    BY <1>9, <1>10, Induction
  <2> QED
    BY <1>4, <2>1
<1>12. DecodedFrom(d, s, end, first)
  <2>1. first \in first..last /\ last - (last - first) <= first
    BY <1>4
  <2> QED
    BY <1>11, <2>1
<1>13. PICK ok, at, bytes : /\ d[first] = [ok |-> ok, at |-> at, bytes |-> bytes]
                            /\ bytes \in Seq(Int) /\ HasRoom(s, end, first, Len(bytes))
  BY <1>12 DEF DecodedFrom
<1>14. Decode(t, first, end).bytes = bytes
  BY <1>6, <1>13
<1>15. Len(bytes) \in Nat /\ Len(bytes) + n <= end - first
  BY <1>4, <1>5, <1>13 DEF HasRoom
<1>16. Len(bytes) + 1 <= (end - i) - n + 1
  BY <1>4, <1>5, <1>15
<1> QED
  BY <1>8, <1>14, <1>16 DEF end

(* Wherever a string starts.                                               *)
LEMMA EveryStringFits ==
    ASSUME NEW t \in Seq(Nat), NEW i \in 0..(Len(t) - 1), parse_string(t, i).allocates
    PROVE  Len(parse_string(t, i).bytes) + 1 <= parse_string(t, i).room
<1> DEFINE s == Scan(t, i)
           d == Decode(t, i + 1, s.end)
           r == parse_string(t, i)
<1>1. r = LiteralRead(t, i, s, d)
  BY DEF parse_string
<1>2. IsAt(t, i, Quote) /\ can_access(t, s.end)
  <2> HIDE DEF s, d
  <2> QED
    BY <1>1 DEF LiteralRead
<1>3. r.room = Allocated(i, s) /\ r.bytes = d.bytes
  <2> HIDE DEF s, d
  <2> QED
    BY <1>1, <1>2 DEF LiteralRead
<1>4. Len(d.bytes) + 1 <= Allocated(i, s)
  <2>1. i \in Nat /\ i < Len(t) /\ s.end < Len(t)
    BY <1>2 DEF can_access
  <2> QED
    BY <2>1, DecodeFits
<1> HIDE DEF s, d, r
<1> QED
  BY <1>3, <1>4, Zenon DEF r

-----------------------------------------------------------------------------
(* The stack of calls: nothing is said of what is on it *)

IsSequence(s) == s \in Seq({s[n] : n \in DOMAIN s})

LEMMA SequencesAre ==
    ASSUME NEW T, NEW s \in Seq(T)
    PROVE  IsSequence(s)
<1>1. s \in [1..Len(s) -> T] /\ Len(s) \in Nat
  OBVIOUS
<1>2. s \in [1..Len(s) -> {s[n] : n \in DOMAIN s}]
  BY <1>1
<1> QED
  BY <1>1, <1>2 DEF IsSequence

LEMMA PushedAndPopped ==
    ASSUME IsSequence(frames)
    PROVE  /\ Len(frames) \in Nat
           /\ \A x : IsSequence(Append(frames, x)) /\ Len(Append(frames, x)) = Len(frames) + 1
           /\ frames # <<>> => IsSequence(Pop) /\ Len(Pop) = Len(frames) - 1
           /\ frames # <<>> =>
                 \A x : LET s == [frames EXCEPT ![Len(frames)] = x]
                        IN  IsSequence(s) /\ Len(s) = Len(frames) /\ s # <<>>
<1> DEFINE T == {frames[n] : n \in DOMAIN frames}
<1>1. frames \in Seq(T) /\ Len(frames) \in Nat
  BY DEF IsSequence
<1> HIDE DEF T
<1>2. ASSUME NEW x
      PROVE  IsSequence(Append(frames, x)) /\ Len(Append(frames, x)) = Len(frames) + 1
  <2> DEFINE U == T \cup {x}
  <2>1. frames \in Seq(U) /\ x \in U
    BY <1>1
  <2> HIDE DEF U
  <2>2. Append(frames, x) \in Seq(U) /\ Len(Append(frames, x)) = Len(frames) + 1
    BY <2>1
  <2>3. IsSequence(Append(frames, x))
    BY <2>2, SequencesAre
  <2> QED
    BY <2>2, <2>3
<1>3. ASSUME frames # <<>>
      PROVE  IsSequence(Pop) /\ Len(Pop) = Len(frames) - 1
  <2>0. Len(frames) - 1 \in 0..Len(frames)
    BY <1>1, <1>3
  <2>1. \A m \in 0..Len(frames) : SubSeq(frames, 1, m) \in Seq(T) /\ Len(SubSeq(frames, 1, m)) = m
    BY <1>1
  <2>2. Pop \in Seq(T) /\ Len(Pop) = Len(frames) - 1
    BY <2>0, <2>1 DEF Pop
  <2> QED
    BY <2>2, SequencesAre
<1>4. ASSUME frames # <<>>, NEW x
      PROVE  LET s == [frames EXCEPT ![Len(frames)] = x]
             IN  IsSequence(s) /\ Len(s) = Len(frames) /\ s # <<>>
  <2> DEFINE s == [frames EXCEPT ![Len(frames)] = x]
  <2>1. frames \in Seq(T \cup {x}) /\ Len(frames) # 0
    BY <1>1, <1>4
  <2>2. s \in Seq(T \cup {x}) /\ Len(s) = Len(frames)
    BY <2>1
  <2>3. IsSequence(s)
    <3> HIDE DEF s
    <3> QED
      BY <2>2, SequencesAre
  <2>4. s # <<>>
    <3> HIDE DEF s
    <3> QED
      BY <2>1, <2>2
  <2> QED
    BY <2>2, <2>3, <2>4
<1> QED
  BY <1>1, <1>2, <1>3, <1>4

-----------------------------------------------------------------------------
(* The parser.  After a failure the counter of depth is left as it is, and *)
(* only the calls are given up.                                            *)

Inside ==
    /\ text \in Seq(Nat)
    /\ offset \in 0..Len(text)
    /\ ~overread

Calls ==
    /\ IsSequence(frames)
    /\ Len(frames) <= NestingLimit
    /\ pc \in {"start", "value", "element", "more", "failed", "accepted", "rejected"}
    /\ pc \notin {"failed", "rejected"} => depth = Len(frames)
    /\ pc \in {"element", "more"} => frames # <<>>

AtElement == pc = "element" => offset < Len(text)

ParserInv == Inside /\ AtElement /\ Calls /\ ErrorIsInsideText

LEMMA InitHolds == Init => ParserInv
<1> SUFFICES ASSUME Init
             PROVE  ParserInv
  OBVIOUS
<1>1. frames = <<>> /\ <<>> \in Seq({}) /\ Len(<<>>) = 0
  BY DEF Init
<1>2. IsSequence(frames) /\ Len(frames) = 0
  BY <1>1, SequencesAre
<1>3. text \in Seq(Nat)
  <2>1. text \in Seq(Char)
    BY DEF Init
  <2>2. /\ Len(text) \in Nat /\ text = [i \in 1..Len(text) |-> text[i]]
        /\ \A i \in 1..Len(text) : text[i] \in Char
    BY <2>1
  <2>3. \A i \in 1..Len(text) : text[i] \in Nat
    BY <2>2, CharAssumption
  <2>4. [i \in 1..Len(text) |-> text[i]] \in Seq(Nat)
    BY <2>2, <2>3
  <2> QED
    BY <2>2, <2>4
<1> QED
  BY <1>2, <1>3, NestingLimitAssumption DEF Init, ParserInv, Inside, AtElement, Calls, ErrorIsInsideText

(* The offset a step ends at.                                              *)
LEMMA InsideStep ==
    ASSUME ParserInv, Next
    PROVE  Inside'
<1> DEFINE white(i) == buffer_skip_whitespace(text, i)
<1>0. text \in Seq(Nat) /\ Len(text) \in Nat /\ offset \in 0..Len(text) /\ ~overread
  BY DEF ParserInv, Inside
<1>1. \A i \in Nat : /\ i < Len(text) => white(i) \in i..(Len(text) - 1)
                     /\ ~(i < Len(text)) => white(i) = i
  BY <1>0, SkipStaysInside
<1>2. \A i \in 0..Len(text) : white(i) \in 0..Len(text)
  BY <1>0, <1>1
<1> HIDE DEF white
<1>3. ASSUME text' = text, offset' \in 0..Len(text), UNCHANGED overread
      PROVE  Inside'
  BY <1>0, <1>3 DEF Inside
<1>4. CASE Begin
  <2>1. skip_utf8_bom(text) \in 0..Len(text)
    BY <1>0 DEF skip_utf8_bom, can_access
  <2> QED
    BY <1>0, <1>2, <1>3, <1>4, <2>1 DEF Begin, Fail, white
<1>5. CASE NoText \/ Reject \/ NoValue \/ NoMemoryForElement \/ Abandon \/ Returned
  BY <1>0, <1>3, <1>5 DEF NoText, Reject, NoValue, NoMemoryForElement, Abandon, Returned, Fail, history, parserVars
<1>6. ASSUME NEW word \in {Null, False, True}, NEW type, ParseLiteral(word, type)
      PROVE  Inside'
  <2>1. Len(word) \in Nat /\ offset + Len(word) <= Len(text)
    BY <1>6 DEF ParseLiteral, Spells, Null, False, True
  <2> QED
    BY <1>0, <1>3, <1>6, <2>1 DEF ParseLiteral, history
<1>7. CASE ParseNumber
  <2>1. parse_number(text, offset).offset \in offset..Len(text)
    BY <1>0, <1>7, NumberEndsInside DEF ParseNumber, can_access
  <2> QED
    BY <1>0, <1>3, <1>7, <2>1 DEF ParseNumber, Fail, history
<1>8. CASE ParseString
  <2>1. offset < Len(text) /\ parse_string(text, offset).offset \in 0..Len(text)
    BY <1>0, <1>8, StringEndsInside DEF ParseString, IsAt, can_access
  <2> QED
    BY <1>0, <1>3, <1>8, <2>1 DEF ParseString, Fail
<1>9. ASSUME NEW kind \in Containers, TooDeep(kind) \/ Empty(kind) \/ Enter(kind)
      PROVE  Inside'
  <2>1. offset < Len(text)
    BY <1>9 DEF TooDeep, Empty, Enter, IsAt, can_access
  <2>2. white(offset + 1) \in (offset + 1)..Len(text)
    BY <1>0, <1>1, <2>1
  <2>3. CASE TooDeep(kind)
    BY <1>0, <1>3, <2>3 DEF TooDeep, Fail, history
  <2>4. CASE Empty(kind)
    <3>1. offset' = white(offset + 1) + 1 /\ white(offset + 1) < Len(text)
      BY <2>4 DEF Empty, IsAt, can_access, white
    <3> QED
      BY <1>0, <1>3, <2>2, <2>4, <3>1 DEF Empty, history
  <2>5. CASE Enter(kind)
    <3>1. offset' = white(offset + 1) - 1
      BY <2>5 DEF Enter, white
    <3> QED
      BY <1>0, <1>3, <2>2, <2>5, <3>1 DEF Enter, history
  <2> QED
    BY <1>9, <2>3, <2>4, <2>5
<1>10. CASE Element
  <2>1. offset' = white(offset + 1) /\ text' = text /\ UNCHANGED overread
    BY <1>10 DEF Element, white, history
  <2>2. offset + 1 \in 0..Len(text)
    BY <1>0, <1>10 DEF Element, ParserInv, AtElement
  <2> QED
    BY <1>2, <1>3, <2>1, <2>2
<1>11. CASE Member
  <2> DEFINE at  == white(offset + 1)
             s   == parse_string(text, at)
             sep == white(s.offset)
  <2>1. text' = text /\ \/ ~can_access(text, offset + 1) /\ offset' = offset /\ UNCHANGED overread
                        \/ /\ can_access(text, offset + 1)
                           /\ overread' = (overread \/ ~can_access(text, at))
                           /\ \/ offset' \in {s.offset, at + 1, sep}
                              \/ IsAt(text, sep, Colon) /\ offset' = white(sep + 1)
    BY <1>11 DEF Member, Fail, white, history
  <2>2. CASE ~can_access(text, offset + 1) /\ offset' = offset /\ UNCHANGED overread
    BY <1>0, <1>3, <2>1, <2>2
  <2>3. CASE can_access(text, offset + 1)
    <3>1. at \in 0..(Len(text) - 1)
      BY <1>0, <1>1, <2>3 DEF can_access
    <3>2. s.offset \in 0..Len(text)
      <4> HIDE DEF at
      <4>1. at \in Nat /\ at < Len(text)
        BY <1>0, <3>1
      <4> QED
        BY <1>0, <4>1, StringEndsInside
    <3> HIDE DEF at, s
    <3>3. sep \in 0..Len(text)
      BY <1>2, <3>2
    <3> HIDE DEF sep
    <3>4. IsAt(text, sep, Colon) => white(sep + 1) \in 0..Len(text)
      BY <1>0, <1>2, <3>3 DEF IsAt, can_access
    <3>5. at + 1 \in 0..Len(text) /\ can_access(text, at)
      BY <1>0, <3>1 DEF can_access
    <3>6. \/ offset' \in {s.offset, at + 1, sep}
          \/ IsAt(text, sep, Colon) /\ offset' = white(sep + 1)
      BY <2>1, <2>3, Zenon
    <3>7. offset' \in 0..Len(text)
      BY <3>2, <3>3, <3>4, <3>5, <3>6
    <3>8. ~overread'
      BY <1>0, <2>1, <2>3, <3>5, Zenon
    <3> QED
      BY <1>0, <2>1, <3>7, <3>8 DEF Inside
  <2> QED
    BY <2>1, <2>2, <2>3
<1>12. CASE NextElement \/ NeitherCommaNorEnd \/ EndOfContainer
  <2>1. text' = text /\ UNCHANGED overread
        /\ \/ offset' = white(offset)
           \/ offset' = white(offset) + 1 /\ IsAt(text, white(offset), Closing[Top.kind])
    BY <1>12 DEF NextElement, NeitherCommaNorEnd, EndOfContainer, Close, Fail, white, history
  <2> QED
    BY <1>0, <1>2, <1>3, <2>1 DEF IsAt, can_access
<1> QED
  BY <1>4, <1>5, <1>6, <1>7, <1>8, <1>9, <1>10, <1>11, <1>12 DEF Next

(* The step back in front of the first element leaves something to look at,*)
(* and so does a comma.                                                    *)
LEMMA ElementStep ==
    ASSUME ParserInv, Next
    PROVE  AtElement'
<1> SUFFICES ASSUME pc' = "element"
             PROVE  text' = text /\ offset' < Len(text)
  BY DEF AtElement
<1>0. text \in Seq(Nat) /\ Len(text) \in Nat /\ offset \in 0..Len(text) /\ AtElement
  BY DEF ParserInv, Inside
<1>1. CASE NextElement
  BY <1>1 DEF NextElement, IsAt, can_access
<1>2. ASSUME NEW kind \in Containers, Enter(kind)
      PROVE  text' = text /\ offset' < Len(text)
  <2> DEFINE at == buffer_skip_whitespace(text, offset + 1)
  <2>1. text' = text /\ offset' = at - 1 /\ can_access(text, at) /\ offset < Len(text)
    BY <1>2 DEF Enter, IsAt, can_access
  <2>2. at \in Int
    BY <1>0, <2>1, SkipStaysInside
  <2> HIDE DEF at
  <2> QED
    BY <1>0, <2>1, <2>2 DEF can_access
<1>3. \A s : Return(s) => pc' \in {"accepted", "more"}
  BY DEF Return
<1>4. \A i : Fail(i) => pc' = "failed"
  BY DEF Fail
<1>5. NextElement \/ (\E kind \in Containers : Enter(kind)) \/ UNCHANGED <<pc, text, offset>>
  BY <1>3, <1>4 DEF Next, Begin, NoText, Reject, ParseLiteral, ParseNumber, ParseString, NoValue, TooDeep, Empty,
     NoMemoryForElement, Element, Member, EndOfContainer, NeitherCommaNorEnd, Abandon, Returned, parserVars
<1>6. CASE UNCHANGED <<pc, text, offset>>
  BY <1>0, <1>6 DEF AtElement
<1> QED
  BY <1>1, <1>2, <1>5, <1>6

(* Where an error is reported.                                             *)
LEMMA ErrorStep ==
    ASSUME ParserInv, Next
    PROVE  ErrorIsInsideText'
<1>0. text \in Seq(Nat) /\ Len(text) \in Nat /\ offset \in 0..Len(text) /\ ErrorIsInsideText
  BY DEF ParserInv, Inside
<1>1. CASE Reject
  <2>1. position' \in {0} \cup 0..(Len(text) - 1) /\ text' = text
    BY <1>0, <1>1 DEF Reject, ErrorPosition
  <2> QED
    BY <2>1 DEF ErrorIsInsideText
<1>2. CASE Returned
  BY <1>0, <1>2 DEF Returned, parserVars, ErrorIsInsideText
<1>3. CASE pc' # "rejected"
  BY <1>3 DEF ErrorIsInsideText
<1>4. \A s : Return(s) => pc' # "rejected"
  BY DEF Return
<1>5. \A i : Fail(i) => pc' # "rejected"
  BY DEF Fail
<1>6. Reject \/ Returned \/ pc' # "rejected"
  BY <1>4, <1>5 DEF Next, Begin, NoText, ParseLiteral, ParseNumber, ParseString, NoValue, TooDeep, Empty, Enter,
     NoMemoryForElement, Element, Member, NextElement, EndOfContainer, NeitherCommaNorEnd, Abandon
<1> QED
  BY <1>1, <1>2, <1>3, <1>6

(* Calls are entered below the limit, and depth goes along until one fails.*)
LEMMA CallsStep ==
    ASSUME ParserInv, Next
    PROVE  Calls'
<1>0. /\ IsSequence(frames) /\ Len(frames) \in Nat /\ Len(frames) <= NestingLimit /\ NestingLimit \in Nat
      /\ pc \notin {"failed", "rejected"} => depth = Len(frames)
      /\ pc \in {"element", "more"} => frames # <<>>
  BY NestingLimitAssumption, PushedAndPopped DEF ParserInv, Calls
<1>1. ASSUME UNCHANGED <<frames, depth>>, pc' \in {"failed", "rejected"}
      PROVE  Calls'
  BY <1>0, <1>1 DEF Calls
<1>2. ASSUME UNCHANGED <<frames, depth>>, pc \notin {"failed", "rejected"}, Return(frames)
      PROVE  Calls'
  BY <1>0, <1>2 DEF Calls, Return
<1>3. \A i : Fail(i) => pc' = "failed"
  BY DEF Fail
<1>4. CASE NoText \/ Reject \/ NoValue \/ NoMemoryForElement \/ NeitherCommaNorEnd
  BY <1>1, <1>3, <1>4 DEF NoText, Reject, NoValue, NoMemoryForElement, NeitherCommaNorEnd
<1>5. CASE Begin
  BY <1>0, <1>1, <1>3, <1>5 DEF Begin, Calls
<1>6. ASSUME NEW word, NEW type, ParseLiteral(word, type)
      PROVE  Calls'
  BY <1>2, <1>6 DEF ParseLiteral
<1>7. CASE ParseNumber \/ ParseString
  BY <1>1, <1>2, <1>3, <1>7 DEF ParseNumber, ParseString
<1>8. ASSUME NEW kind \in Containers, TooDeep(kind) \/ Empty(kind)
      PROVE  Calls'
  BY <1>1, <1>2, <1>3, <1>8 DEF TooDeep, Empty
<1>9. ASSUME NEW kind \in Containers, Enter(kind)
      PROVE  Calls'
  <2>1. PICK x : frames' = Append(frames, x)
    BY <1>9 DEF Enter
  <2>2. IsSequence(frames)' /\ Len(frames') = Len(frames) + 1
    BY <1>0, <2>1, PushedAndPopped
  <2>3. depth = Len(frames) /\ depth < NestingLimit /\ depth' = depth + 1 /\ pc' \in {"element", "failed"}
    BY <1>0, <1>9 DEF Enter
  <2>4. frames' # <<>>
    BY <1>0, <2>2
  <2> QED
    BY <1>0, <2>2, <2>3, <2>4 DEF Calls
<1>10. CASE Element \/ Member
  <2>1. pc = "element" /\ frames # <<>> /\ depth = Len(frames)
    BY <1>0, <1>10 DEF Element, Member
  <2>2. frames' = AttachedFrames /\ depth' = depth /\ pc' \in {"value", "failed"}
    BY <1>3, <1>10 DEF Element, Member
  <2>3. PICK x : frames' = [frames EXCEPT ![Len(frames)] = x]
    BY <2>2 DEF AttachedFrames
  <2>4. IsSequence(frames)' /\ Len(frames') = Len(frames)
    BY <1>0, <2>1, <2>3, PushedAndPopped
  <2> QED
    BY <1>0, <2>1, <2>2, <2>4 DEF Calls
<1>11. CASE NextElement
  BY <1>0, <1>11 DEF NextElement, Calls
<1>12. CASE EndOfContainer
  <2>1. pc = "more" /\ frames # <<>> /\ depth = Len(frames) /\ frames' = Pop /\ depth' = depth - 1
        /\ pc' \in {"accepted", "more"} /\ (pc' = "more" => frames' # <<>>)
    BY <1>0, <1>12 DEF EndOfContainer, Close, Return
  <2>2. IsSequence(frames)' /\ Len(frames') = Len(frames) - 1
    BY <1>0, <2>1, PushedAndPopped
  <2> QED
    BY <1>0, <2>1, <2>2 DEF Calls
<1>13. CASE Abandon
  <2>1. frames # <<>> /\ frames' = Pop /\ pc' = "failed"
    BY <1>13 DEF Abandon
  <2>2. IsSequence(frames)' /\ Len(frames') = Len(frames) - 1
    BY <1>0, <2>1, PushedAndPopped
  <2> QED
    BY <1>0, <2>1, <2>2 DEF Calls
<1>14. CASE Returned
  BY <1>14 DEF Returned, parserVars, ParserInv, Calls, IsSequence
<1> QED
  BY <1>4, <1>5, <1>6, <1>7, <1>8, <1>9, <1>10, <1>11, <1>12, <1>13, <1>14 DEF Next

LEMMA StepHolds == ParserInv /\ [Next]_parserVars => ParserInv'
<1>1. CASE ParserInv /\ UNCHANGED parserVars
  BY <1>1 DEF ParserInv, Inside, AtElement, Calls, IsSequence, ErrorIsInsideText, parserVars
<1> QED
  BY <1>1, InsideStep, ElementStep, CallsStep, ErrorStep DEF ParserInv

(* However deep a text nests, calls stop at the limit, and the counter that *)
(* stops them counts them (parse_array, parse_object).                      *)
THEOREM DepthIsLimited == ParserSpec => []DepthIsNesting
<1>1. ParserInv => DepthIsNesting
  BY DEF ParserInv, Calls, DepthIsNesting
<1> QED
  BY <1>1, InitHolds, StepHolds, PTL DEF ParserSpec

(* No text makes the parser read behind its end where the code does not    *)
(* look (parse_object calls parse_string behind buffer_skip_whitespace);   *)
(* its error is at one of the text's characters (cJSON_ParseWithLengthOpts);*)
(* and no string is longer decoded than the block counted out for it       *)
(* (parse_string).                                                         *)
THEOREM ParserStaysInside == ParserSpec => []OffsetsStayInside
<1>1. ParserInv => OffsetsStayInside
  <2> SUFFICES ASSUME ParserInv
               PROVE  OffsetsStayInside
    OBVIOUS
  <2>1. text \in Seq(Nat) /\ ReadsStayInside /\ ErrorIsInsideText
    BY DEF ParserInv, Inside, ReadsStayInside
  <2>2. StringsFit
    BY <2>1, EveryStringFits DEF StringsFit
  <2> QED
    BY <2>1, <2>2 DEF OffsetsStayInside
<1> QED
  BY <1>1, InitHolds, StepHolds, PTL DEF ParserSpec

(* An accepted string is not empty text.                                   *)
LEMMA StringGoesOn ==
    ASSUME NEW t \in Seq(Nat), NEW i \in Nat, i < Len(t), parse_string(t, i).ok
    PROVE  parse_string(t, i).offset > i
<1> DEFINE end == Scan(t, i).end
<1>1. Len(t) \in Nat /\ end \in (i + 1)..Len(t)
  BY ScanInside
<1>2. parse_string(t, i).offset = end + 1
  BY DEF parse_string, LiteralRead
<1> HIDE DEF end
<1> QED
  BY <1>1, <1>2

LEMMA AdvancesStep ==
    ASSUME ParserInv, Next
    PROVE  Advances
<1> DEFINE white(i) == buffer_skip_whitespace(text, i)
<1>0. text \in Seq(Nat) /\ Len(text) \in Nat /\ offset \in 0..Len(text) /\ AtElement
  BY DEF ParserInv, Inside
<1>1. \A i \in Nat : white(i) \in Nat /\ i <= white(i)
  <2> SUFFICES ASSUME NEW i \in Nat
               PROVE  white(i) \in Nat /\ i <= white(i)
    OBVIOUS
  <2>1. /\ i < Len(text) => white(i) \in i..(Len(text) - 1)
        /\ ~(i < Len(text)) => white(i) = i
    BY <1>0, SkipStaysInside
  <2> HIDE DEF white
  <2> QED
    BY <1>0, <2>1
<1> HIDE DEF white
<1>2. CASE Begin \/ NoText \/ Reject \/ Returned
  BY <1>2 DEF Begin, NoText, Reject, Returned, parserVars, Advances
<1>3. CASE NoValue \/ NoMemoryForElement \/ NeitherCommaNorEnd \/ \E kind \in Containers : TooDeep(kind)
  BY <1>3 DEF NoValue, NoMemoryForElement, NeitherCommaNorEnd, TooDeep, Fail, Advances
<1>4. ASSUME NEW word \in {Null, False, True}, NEW type, ParseLiteral(word, type)
      PROVE  Advances
  <2>1. Len(word) \in Nat /\ Len(word) > 0
    BY DEF Null, False, True
  <2> QED
    BY <1>0, <1>4, <2>1 DEF ParseLiteral, Advances
<1>5. CASE ParseNumber
  <2>1. offset < Len(text)
    BY <1>5 DEF ParseNumber, can_access
  <2>2. parse_number(text, offset).ok => parse_number(text, offset).offset > offset
    BY <1>0, <2>1, NumberEndsInside
  <2> QED
    BY <1>5, <2>2 DEF ParseNumber, Fail, Advances
<1>6. CASE ParseString
  <2>1. offset < Len(text)
    BY <1>6 DEF ParseString, IsAt, can_access
  <2>2. parse_string(text, offset).ok => parse_string(text, offset).offset > offset
    BY <1>0, <2>1, StringGoesOn
  <2> QED
    BY <1>6, <2>2 DEF ParseString, Fail, Advances
<1>7. ASSUME NEW kind \in Containers, Empty(kind) \/ Enter(kind)
      PROVE  Advances
  <2>1. offset + 1 \in Nat /\ white(offset + 1) \in Nat /\ offset + 1 <= white(offset + 1)
    BY <1>0, <1>1
  <2>2. CASE Empty(kind)
    <3>1. offset' = white(offset + 1) + 1 /\ pc = "value"
      BY <2>2 DEF Empty, white
    <3>2. offset' > offset
      BY <1>0, <2>1, <3>1
    <3> QED
      BY <3>1, <3>2 DEF Advances
  <2>3. CASE Enter(kind)
    <3>1. offset' = white(offset + 1) - 1 /\ pc = "value" /\ pc' \in {"element", "failed"}
      BY <2>3 DEF Enter, white
    <3>2. offset' > offset \/ offset' = offset
      BY <1>0, <2>1, <3>1
    <3> QED
      BY <3>1, <3>2 DEF Advances
  <2> QED
    BY <1>7, <2>2, <2>3
<1>8. CASE Element
  <2>1. offset' = white(offset + 1) /\ pc = "element"
    BY <1>8 DEF Element, white
  <2>2. offset + 1 \in Nat /\ white(offset + 1) \in Nat /\ offset + 1 <= white(offset + 1)
    BY <1>0, <1>1
  <2>3. offset' > offset
    BY <1>0, <2>1, <2>2
  <2> QED
    BY <2>1, <2>3 DEF Advances
<1>9. CASE Member
  <2> DEFINE at  == white(offset + 1)
             s   == parse_string(text, at)
             sep == white(s.offset)
  <2>1. pc = "element" /\ \/ pc' = "failed"
                          \/ /\ can_access(text, offset + 1) /\ s.ok
                             /\ IsAt(text, sep, Colon) /\ offset' = white(sep + 1)
    BY <1>9 DEF Member, Fail, white
  <2>2. CASE pc' = "failed"
    BY <2>1, <2>2 DEF Advances
  <2>3. CASE /\ can_access(text, offset + 1) /\ s.ok
             /\ IsAt(text, sep, Colon) /\ offset' = white(sep + 1)
    <3>1. at \in Nat /\ offset + 1 <= at /\ at < Len(text)
      <4>1. offset + 1 \in Nat /\ offset + 1 < Len(text)
        BY <1>0, <2>3 DEF can_access
      <4>2. white(offset + 1) \in (offset + 1)..(Len(text) - 1)
        BY <1>0, <4>1, SkipStaysInside DEF white
      <4> QED
        BY <1>0, <4>1, <4>2
    <3> HIDE DEF at
    <3>2. s.offset \in Nat /\ s.offset > at
      <4>1. parse_string(text, at).offset \in 0..Len(text)
        BY <1>0, <3>1, StringEndsInside
      <4>2. parse_string(text, at).ok
        BY <2>3
      <4>3. parse_string(text, at).offset > at
        BY <1>0, <3>1, <4>2, StringGoesOn
      <4> QED
        BY <1>0, <4>1, <4>3
    <3> HIDE DEF s
    <3>3. sep \in Nat /\ s.offset <= sep
      BY <1>1, <3>2
    <3> HIDE DEF sep
    <3>4. white(sep + 1) \in Nat /\ sep + 1 <= white(sep + 1)
      BY <1>1, <3>3
    <3>5. offset' = white(sep + 1)
      BY <2>3
    <3>6. offset' > offset
      BY <1>0, <3>1, <3>2, <3>3, <3>4, <3>5
    <3> QED
      BY <2>1, <3>6 DEF Advances
  <2> QED
    BY <2>1, <2>2, <2>3
<1>10. CASE NextElement \/ EndOfContainer
  <2>1. white(offset) \in Nat /\ offset <= white(offset)
    BY <1>0, <1>1
  <2>2. CASE NextElement
    <3>1. offset' = white(offset) /\ pc = "more" /\ pc' = "element"
      BY <2>2 DEF NextElement, white
    <3>2. offset' > offset \/ offset' = offset
      BY <1>0, <2>1, <3>1
    <3> QED
      BY <3>1, <3>2 DEF Advances
  <2>3. CASE EndOfContainer
    <3>1. offset' = white(offset) + 1 /\ pc = "more"
      BY <2>3 DEF EndOfContainer, Close, white
    <3>2. offset' > offset
      BY <1>0, <2>1, <3>1
    <3> QED
      BY <3>1, <3>2 DEF Advances
  <2> QED
    BY <1>10, <2>2, <2>3
<1>11. CASE Abandon
  <2>1. frames # <<>> /\ frames' = Pop /\ pc' = "failed" /\ IsSequence(frames)
    BY <1>11 DEF Abandon, ParserInv, Calls
  <2>2. Len(frames') < Len(frames)
    BY <2>1, PushedAndPopped
  <2> QED
    BY <2>1, <2>2 DEF Advances
<1> QED
  BY <1>2, <1>3, <1>4, <1>5, <1>6, <1>7, <1>8, <1>9, <1>10, <1>11 DEF Next

(* Whatever the text, the parser comes to an end: what it does brings it   *)
(* nearer to the end of the text or, after a failure, takes a call off the *)
(* stack, and the one step from a value to the next element that may stay  *)
(* where it is is followed by one that does not (the do-while loops of     *)
(* parse_array and parse_object).                                          *)
THEOREM ParsingAdvances == ParserSpec => [][Advances]_parserVars
<1>1. ParserInv /\ [Next]_parserVars => [Advances]_parserVars
  BY AdvancesStep
<1> QED
  BY <1>1, InitHolds, StepHolds, PTL DEF ParserSpec

-----------------------------------------------------------------------------
(* Blocks *)

(* The fields that refer to items, and to strings.                         *)
Links == {"next", "child"}
Texts == {"valuestring", "string"}
Fields == Links \cup Texts \cup {"type", "prev", "valueint", "reference", "constant"}

(* No two of these fields refer to the same block.                         *)
Exclusive(items, fields) ==
    \A a, b \in DOMAIN items : \A f, g \in fields :
        items[a][f] # NULL /\ items[a][f] = items[b][g] => a = b /\ f = g

(* The parser makes no references and no constant names.                   *)
Whole(item) == DOMAIN item = Fields /\ ~item.reference /\ ~item.constant

(* Items were allocated in ascending order, and links go up.               *)
Chained(items) ==
    /\ \E N \in Nat : DOMAIN items = 1..N
    /\ \A a \in DOMAIN items :
          /\ Whole(items[a])
          /\ \A f \in Links : items[a][f] # NULL => items[a][f] \in DOMAIN items /\ a < items[a][f]
    /\ Exclusive(items, Links)

(* Every string is of one item, in one place, and there are no others.     *)
Owned(items, strings) ==
    /\ IsFiniteSet(DOMAIN strings) /\ DOMAIN strings \subseteq Nat \ {0}
    /\ \A a \in DOMAIN items : \A f \in Texts : items[a][f] # NULL => items[a][f] \in DOMAIN strings
    /\ \A b \in DOMAIN strings : \E a \in DOMAIN items : \E f \in Texts : items[a][f] = b
    /\ Exclusive(items, Texts)

(* A call: the item it fills in has no children yet, its list ends with    *)
(* current, and both are not before what the calls around it work on.      *)
Filling(items, calls) ==
    /\ \A k \in DOMAIN calls :
          /\ DOMAIN calls[k] = {"kind", "item", "head", "current"}
          /\ calls[k].item \in DOMAIN items /\ items[calls[k].item].child = NULL
          /\ calls[k].head = NULL => calls[k].current = NULL
          /\ calls[k].head # NULL =>
                /\ calls[k].head \in DOMAIN items /\ calls[k].current \in DOMAIN items
                /\ calls[k].item < calls[k].head /\ calls[k].head <= calls[k].current
                /\ items[calls[k].current].next = NULL
    /\ \A j, k \in DOMAIN calls : j < k => calls[j].head # NULL /\ calls[j].current <= calls[k].item

Heads(calls) == {calls[k].head : k \in DOMAIN calls} \ {NULL}

(* The lists the calls build are linked to from nowhere, everything else   *)
(* is, and an item behind such a head not from in front of it.             *)
Reached(items, heads) ==
    /\ \A b \in DOMAIN items :
          b = Root \/ b \in heads \/ \E a \in DOMAIN items : \E f \in Links : items[a][f] = b
    /\ \A a \in DOMAIN items : \A f \in Links :
          items[a][f] # NULL => \A h \in heads : items[a][f] # h /\ (h < items[a][f] => h <= a)

ForestOf(m, calls) ==
    /\ DOMAIN m = {"items", "strings", "faults"} /\ m.faults = {}
    /\ Chained(m.items)
    /\ Owned(m.items, m.strings)
    /\ Filling(m.items, calls)
    /\ Reached(m.items, Heads(calls))

Forest == ForestOf(mem, frames)

(* What the place in the program says of the tree: the value about to be   *)
(* parsed has nothing yet, and without a root there is nothing at all.     *)
Stage ==
    /\ pc = "value" =>
          /\ Target \in DOMAIN mem.items /\ Item.child = NULL /\ Item.valuestring = NULL
    /\ pc \in {"value", "element", "more", "accepted"} => Root \in DOMAIN mem.items
    /\ pc \in {"start", "rejected"} \/ Root \notin DOMAIN mem.items =>
          frames = <<>> /\ mem = EmptyMemory
    /\ pc = "accepted" => frames = <<>>

LeakInv == Forest /\ Stage

-----------------------------------------------------------------------------
(* What cJSON_Delete visits *)

LEMMA ImageOfJoin ==
    ASSUME NEW s \in Seq(Nat), NEW t \in Seq(Nat)
    PROVE  /\ s \o t \in Seq(Nat)
           /\ Image(s \o t) = Image(s) \cup Image(t)
           /\ AllDifferent(s) /\ AllDifferent(t) /\ Image(s) \cap Image(t) = {} => AllDifferent(s \o t)
<1> DEFINE r == s \o t
           S == Len(s)
           T == Len(t)
<1>1. /\ r \in Seq(Nat) /\ DOMAIN r = 1..(S + T) /\ DOMAIN s = 1..S /\ DOMAIN t = 1..T
      /\ S \in Nat /\ T \in Nat
      /\ \A j \in 1..S : r[j] = s[j]
      /\ \A j \in 1..T : r[S + j] = t[j]
  BY Joined
<1> HIDE DEF r, S, T
<1>2. \A j \in 1..(S + T) : j \in 1..S \/ (j - S \in 1..T /\ j = S + (j - S))
  BY <1>1
<1>3. \A j \in 1..S : j \in 1..(S + T)
  BY <1>1
<1>4. \A j \in 1..T : S + j \in 1..(S + T)
  BY <1>1
<1>5. \A j \in 1..(S + T) : (r[j] = s[j] /\ j \in 1..S) \/ (j - S \in 1..T /\ r[j] = t[j - S])
  <2> SUFFICES ASSUME NEW j \in 1..(S + T)
               PROVE  (r[j] = s[j] /\ j \in 1..S) \/ (j - S \in 1..T /\ r[j] = t[j - S])
    OBVIOUS
  <2>1. CASE j \in 1..S
    <3>1. \A k \in 1..S : r[k] = s[k]
      BY <1>1
    <3> QED
      BY <2>1, <3>1
  <2>2. CASE j - S \in 1..T /\ j = S + (j - S)
    <3>1. r[S + (j - S)] = t[j - S]
      BY <1>1, <2>2
    <3> QED
      BY <2>2, <3>1
  <2> QED
    BY <1>2, <2>1, <2>2
<1>6. Image(r) = Image(s) \cup Image(t)
  <2>1. ASSUME NEW x \in Image(r)
        PROVE  x \in Image(s) \cup Image(t)
    BY <1>1, <1>5, <2>1 DEF Image
  <2>2. ASSUME NEW x \in Image(s)
        PROVE  x \in Image(r)
    BY <1>1, <1>3, <2>2 DEF Image
  <2>3. ASSUME NEW x \in Image(t)
        PROVE  x \in Image(r)
    <3>1. PICK j \in 1..T : x = t[j]
      BY <1>1, <2>3 DEF Image
    <3>2. S + j \in DOMAIN r /\ r[S + j] = x
      BY <1>1, <1>4, <3>1
    <3> QED
      BY <3>2 DEF Image
  <2> QED
    BY <2>1, <2>2, <2>3
<1>7. ASSUME AllDifferent(s), AllDifferent(t), Image(s) \cap Image(t) = {}
      PROVE  AllDifferent(r)
  <2> SUFFICES ASSUME NEW j \in 1..(S + T), NEW k \in 1..(S + T), r[j] = r[k], j # k
               PROVE  FALSE
    BY <1>1 DEF AllDifferent
  <2>1. \A n \in 1..S : s[n] \in Image(s)
    BY <1>1 DEF Image
  <2>2. \A n \in 1..T : t[n] \in Image(t)
    BY <1>1 DEF Image
  <2>3. CASE j \in 1..S /\ r[j] = s[j]
    <3>1. CASE k \in 1..S /\ r[k] = s[k]
      BY <1>1, <1>7, <2>3, <3>1 DEF AllDifferent
    <3>2. CASE k - S \in 1..T /\ r[k] = t[k - S]
      BY <1>7, <2>1, <2>2, <2>3, <3>2
    <3> QED
      BY <1>5, <3>1, <3>2
  <2>4. CASE j - S \in 1..T /\ r[j] = t[j - S]
    <3>1. CASE k \in 1..S /\ r[k] = s[k]
      BY <1>7, <2>1, <2>2, <2>4, <3>1
    <3>2. CASE k - S \in 1..T /\ r[k] = t[k - S]
      <4>1. j - S = k - S
        BY <1>1, <1>7, <2>4, <3>2 DEF AllDifferent
      <4> QED
        BY <1>1, <4>1
    <3> QED
      BY <1>5, <3>1, <3>2
  <2> QED
    BY <1>5, <2>3, <2>4
<1> QED
  BY <1>1, <1>6, <1>7 DEF r

(* What a deletion beginning at item a visits: s lists a and what is linked*)
(* to from there on, every item once.                                      *)
Visits(items, s, a) ==
    /\ s \in Seq(Nat) /\ AllDifferent(s)
    /\ a \in Image(s)
    /\ \A x \in Image(s) : x \in DOMAIN items /\ a <= x
    /\ \A x \in Image(s) : \A f \in Links : items[x][f] = NULL \/ items[x][f] \in Image(s)
    /\ \A x \in Image(s) : x = a \/ \E y \in Image(s) : \E f \in Links : items[y][f] = x

VisitsAll(items, s, a) == IF a = NULL THEN s = <<>> ELSE Visits(items, s, a)

(* As no two links lead to the same item, the children of an item and what *)
(* follows it have nothing in common.                                      *)
LEMMA NothingVisitedTwice ==
    ASSUME NEW items, Chained(items), NEW a \in DOMAIN items,
           NEW s, NEW t, NEW c, NEW n, c = items[a].child, n = items[a].next,
           VisitsAll(items, s, c), VisitsAll(items, t, n)
    PROVE  Image(s) \cap Image(t) = {} /\ a \notin Image(s) /\ a \notin Image(t)
<1> DEFINE A == Image(s)
           B == Image(t)
<1>0. DOMAIN items \subseteq Nat \ {0} /\ 0 \notin DOMAIN items
  BY DEF Chained
<1>1. Image(<<>>) = {}
  BY DEF Image
<1>2. (c = NULL => A = {}) /\ (n = NULL => B = {})
  BY <1>1 DEF VisitsAll
<1>3. /\ c # NULL => Visits(items, s, c) /\ a < c /\ c \in Nat
      /\ n # NULL => Visits(items, t, n) /\ a < n /\ n \in Nat
  BY <1>0 DEF VisitsAll, Chained, Links
<1> HIDE DEF A, B
<1>4. A \in SUBSET Nat /\ B \in SUBSET Nat /\ a \in Nat /\ (\A x \in A : c <= x) /\ \A x \in B : n <= x
  <2>1. c # NULL => A \in SUBSET Nat /\ \A x \in A : c <= x
    BY <1>0, <1>3 DEF Visits, A
  <2>2. n # NULL => B \in SUBSET Nat /\ \A x \in B : n <= x
    BY <1>0, <1>3 DEF Visits, B
  <2> QED
    BY <1>0, <1>2, <2>1, <2>2
<1>5. a \notin A /\ a \notin B
  BY <1>2, <1>3, <1>4
<1>6. ASSUME A \cap B # {}
      PROVE  FALSE
  <2>1. PICK x \in A \cap B : \A y \in A \cap B : x <= y
    BY <1>4, <1>6, Least
  <2>2. c # NULL /\ n # NULL
    BY <1>2, <2>1
  <2>3. x = c \/ \E y \in A : \E f \in Links : items[y][f] = x
    BY <1>3, <2>1, <2>2 DEF Visits, A
  <2>4. x = n \/ \E y \in B : \E f \in Links : items[y][f] = x
    BY <1>3, <2>1, <2>2 DEF Visits, B
  <2>5. x # NULL /\ x \in Nat /\ A \subseteq DOMAIN items /\ B \subseteq DOMAIN items
    BY <1>0, <1>3, <2>1, <2>2 DEF Visits, A, B, NULL
  <2>6. \A y, z \in DOMAIN items : \A f, g \in Links : items[y][f] = x /\ items[z][g] = x => y = z /\ f = g
    BY <2>5 DEF Chained, Exclusive
  <2>7. \A y \in DOMAIN items : \A f \in Links : items[y][f] = x => y < x
    BY <2>5 DEF Chained
  <2>8. x # c
    <3> SUFFICES ASSUME x = c
                 PROVE  FALSE
      OBVIOUS
    <3>1. items[a]["child"] = x /\ "child" \in Links
      BY DEF Links
    <3>2. CASE x = n
      <4>1. items[a]["next"] = x /\ "next" \in Links
        BY <3>2 DEF Links
      <4> QED
        BY <2>6, <3>1, <4>1
    <3>3. CASE \E y \in B : \E f \in Links : items[y][f] = x
      BY <1>5, <2>5, <2>6, <3>1, <3>3
    <3> QED
      BY <2>4, <3>2, <3>3
  <2>9. x # n
    <3> SUFFICES ASSUME x = n
                 PROVE  FALSE
      OBVIOUS
    <3>1. items[a]["next"] = x /\ "next" \in Links
      BY DEF Links
    <3>3. CASE \E y \in A : \E f \in Links : items[y][f] = x
      BY <1>5, <2>5, <2>6, <3>1, <3>3
    <3> QED
      BY <2>3, <2>8, <3>3
  <2>10. PICK y \in A, f \in Links : items[y][f] = x
    BY <2>3, <2>8
  <2>11. PICK z \in B, g \in Links : items[z][g] = x
    BY <2>4, <2>9
  <2>12. y = z /\ y < x
    BY <2>5, <2>6, <2>7, <2>10, <2>11
  <2> QED
    BY <1>4, <2>1, <2>12
<1> QED
  BY <1>5, <1>6 DEF A, B

LEMMA VisitsOnwards ==
    ASSUME NEW items, Chained(items), NEW a \in DOMAIN items, NEW s, NEW t,
           VisitsAll(items, s, items[a].child), VisitsAll(items, t, items[a].next)
    PROVE  Visits(items, s \o <<a>> \o t, a)
<1> DEFINE c == items[a].child
           n == items[a].next
           r == s \o <<a>> \o t
<1>0. DOMAIN items \subseteq Nat \ {0} /\ 0 \notin DOMAIN items
  BY DEF Chained
<1>1. /\ items[a]["child"] = c /\ items[a]["next"] = n /\ a \in Nat
      /\ c # NULL => c \in DOMAIN items /\ a < c
      /\ n # NULL => n \in DOMAIN items /\ a < n
      /\ Links = {"child", "next"}
  BY <1>0 DEF Chained, Links
<1>2. VisitsAll(items, s, c) /\ VisitsAll(items, t, n)
  OBVIOUS
<1>3. Image(<<>>) = {} /\ Image(<<a>>) = {a} /\ AllDifferent(<<a>>) /\ AllDifferent(<<>>)
  <2>1. DOMAIN <<a>> = {1} /\ <<a>>[1] = a /\ DOMAIN <<>> = {}
    OBVIOUS
  <2> QED
    BY <2>1 DEF Image, AllDifferent
<1>4. Image(s) \cap Image(t) = {} /\ a \notin Image(s) /\ a \notin Image(t)
  BY <1>2, NothingVisitedTwice
<1> HIDE DEF c, n
<1>5. s \in Seq(Nat) /\ t \in Seq(Nat) /\ <<a>> \in Seq(Nat) /\ AllDifferent(s) /\ AllDifferent(t)
  <2>1. <<>> \in Seq(Nat) /\ <<a>> \in Seq(Nat)
    BY <1>1
  <2>2. s \in Seq(Nat) /\ AllDifferent(s)
    BY <1>2, <1>3, <2>1 DEF VisitsAll, Visits
  <2>3. t \in Seq(Nat) /\ AllDifferent(t)
    BY <1>2, <1>3, <2>1 DEF VisitsAll, Visits
  <2> QED
    BY <2>1, <2>2, <2>3
<1> DEFINE u == <<a>>
           v == s \o u
<1>55. u \in Seq(Nat) /\ AllDifferent(u) /\ Image(u) = {a} /\ r = v \o t
  BY <1>3, <1>5
<1> HIDE DEF u, r
<1>6. v \in Seq(Nat) /\ Image(v) = Image(s) \cup {a} /\ AllDifferent(v)
  <2>1. Image(s) \cap Image(u) = {}
    BY <1>4, <1>55
  <2> QED
    BY <1>5, <1>55, <2>1, ImageOfJoin
<1> HIDE DEF v
<1>7. r \in Seq(Nat) /\ Image(r) = Image(s) \cup {a} \cup Image(t) /\ AllDifferent(r)
  <2>1. Image(v) \cap Image(t) = {}
    BY <1>4, <1>6
  <2> QED
    BY <1>5, <1>55, <1>6, <2>1, ImageOfJoin
<1>8. /\ c = NULL => Image(s) = {}
      /\ n = NULL => Image(t) = {}
      /\ c # NULL => Visits(items, s, c)
      /\ n # NULL => Visits(items, t, n)
  BY <1>2, <1>3 DEF VisitsAll
<1>9. \A x \in Image(r) : x \in DOMAIN items /\ a <= x
  <2>1. \A x \in Image(s) : x \in DOMAIN items /\ a <= x
    BY <1>0, <1>1, <1>8 DEF Visits
  <2>2. \A x \in Image(t) : x \in DOMAIN items /\ a <= x
    BY <1>0, <1>1, <1>8 DEF Visits
  <2> QED
    BY <1>1, <1>7, <2>1, <2>2
<1>10. \A x \in Image(r) : \A f \in Links : items[x][f] = NULL \/ items[x][f] \in Image(r)
  <2>1. \A x \in Image(s) : \A f \in Links : items[x][f] = NULL \/ items[x][f] \in Image(s)
    BY <1>8 DEF Visits
  <2>2. \A x \in Image(t) : \A f \in Links : items[x][f] = NULL \/ items[x][f] \in Image(t)
    BY <1>8 DEF Visits
  <2>3. c = NULL \/ c \in Image(s)
    BY <1>8 DEF Visits
  <2>4. n = NULL \/ n \in Image(t)
    BY <1>8 DEF Visits
  <2>5. \A f \in Links : items[a][f] = NULL \/ items[a][f] \in Image(r)
    BY <1>1, <1>7, <2>3, <2>4
  <2> QED
    BY <1>7, <2>1, <2>2, <2>5
<1>11. \A x \in Image(r) : x = a \/ \E y \in Image(r) : \E f \in Links : items[y][f] = x
  <2>0. a \in Image(r) /\ "child" \in Links /\ "next" \in Links
    BY <1>1, <1>7
  <2>1. \A x \in Image(s) : x = c \/ \E y \in Image(s) : \E f \in Links : items[y][f] = x
    BY <1>8 DEF Visits
  <2>2. \A x \in Image(t) : x = n \/ \E y \in Image(t) : \E f \in Links : items[y][f] = x
    BY <1>8 DEF Visits
  <2>3. \A x \in Image(s) : \E y \in Image(r) : \E f \in Links : items[y][f] = x
    BY <1>1, <1>7, <2>0, <2>1
  <2>4. \A x \in Image(t) : \E y \in Image(r) : \E f \in Links : items[y][f] = x
    BY <1>1, <1>7, <2>0, <2>2
  <2> QED
    BY <1>7, <2>3, <2>4
<1> QED
  BY <1>7, <1>9, <1>10, <1>11 DEF Visits, r

(* Links go up, so induction over items goes down from the last.           *)
LEMMA Downwards ==
    ASSUME NEW N \in Nat, NEW S,
           \A a \in 1..N : (\A b \in 1..N : a < b => b \in S) => a \in S
    PROVE  \A a \in 1..N : a \in S
<1> DEFINE T == {n \in 0..N : N - n \in 1..N /\ N - n \notin S}
<1> SUFFICES ASSUME NEW a \in 1..N, a \notin S
             PROVE  FALSE
  OBVIOUS
<1>1. N - a \in T /\ T \in SUBSET Nat
  <2>1. N - a \in 0..N /\ N - (N - a) = a
    OBVIOUS
  <2> QED
    BY <2>1
<1>2. PICK n \in T : \A m \in T : n <= m
  BY <1>1, Least
<1>3. n \in 0..N /\ N - n \in 1..N /\ N - n \notin S
  BY <1>2
<1>4. ASSUME NEW b \in 1..N, N - n < b
      PROVE  b \in S
  <2>1. N - b \in 0..N /\ N - (N - b) = b /\ ~(n <= N - b)
    BY <1>3, <1>4
  <2>2. N - b \notin T
    BY <1>2, <2>1
  <2> QED
    BY <2>1, <2>2
<1> QED
  BY <1>3, <1>4

(* One turn of the loop of cJSON_Delete, and the order of all its turns as *)
(* the value of the recursive function of Doomed.                          *)
DeleteStep(m, f, a) ==
    IF a = NULL THEN <<>>
    ELSE IF a \notin DOMAIN m.items THEN <<a>>
    ELSE (IF m.items[a].reference THEN <<>> ELSE f[m.items[a].child])
           \o <<a>> \o f[m.items[a].next]

IsDeletion(m, f, S) == f = [a \in S |-> DeleteStep(m, f, a)]

LEMMA DeleteLooksAhead ==
    ASSUME NEW m, NEW f, NEW g, NEW a,
           a # NULL /\ a \in DOMAIN m.items =>
               f[m.items[a].child] = g[m.items[a].child] /\ f[m.items[a].next] = g[m.items[a].next]
    PROVE  DeleteStep(m, f, a) = DeleteStep(m, g, a)
  BY DEF DeleteStep

LEMMA DeletionExists ==
    ASSUME NEW m, NEW N \in Nat, Chained(m.items), DOMAIN m.items = 1..N
    PROVE  \E f : IsDeletion(m, f, 0..N)
<1> DEFINE V(a) == {0} \cup a..N
           S == {a \in 1..N : \E f : IsDeletion(m, f, V(a))}
<1>0. \A a \in 1..N : /\ m.items[a].child = 0 \/ m.items[a].child \in (a + 1)..N
                      /\ m.items[a].next = 0 \/ m.items[a].next \in (a + 1)..N
  BY DEF Chained, Links, NULL
<1>1. ASSUME NEW a \in 1..N, \A b \in 1..N : a < b => b \in S
      PROVE  a \in S
  <2>1. PICK f : IsDeletion(m, f, V(a + 1))
    <3>1. CASE a = N
      <4> DEFINE f == [k \in {0} |-> <<>>]
      <4>1. V(a + 1) = {0}
        BY <3>1
      <4>2. IsDeletion(m, f, {0})
        BY DEF IsDeletion, DeleteStep, NULL
      <4> QED
        BY <4>1, <4>2
    <3>2. CASE a # N
      BY <1>1, <3>2
    <3> QED
      BY <3>1, <3>2
  <2> DEFINE g == [k \in V(a) |-> IF k = a THEN DeleteStep(m, f, k) ELSE f[k]]
  <2>2. \A k \in V(a) : k = a \/ k \in V(a + 1)
    OBVIOUS
  <2>3. \A k \in V(a + 1) : g[k] = f[k]
    OBVIOUS
  <2>4. \A k \in V(a) : k # 0 => k \in 1..N /\ m.items[k].child \in V(a + 1) /\ m.items[k].next \in V(a + 1)
    BY <1>0
  <2>5. \A k \in V(a + 1) : f[k] = DeleteStep(m, f, k)
    <3> HIDE DEF V
    <3> QED
      BY <2>1 DEF IsDeletion
  <2>6. \A k \in V(a) : g[k] = DeleteStep(m, f, k)
    <3>1. \A k \in V(a) : g[k] = IF k = a THEN DeleteStep(m, f, k) ELSE f[k]
      OBVIOUS
    <3> HIDE DEF g, V
    <3> QED
      BY <2>2, <2>5, <3>1
  <2>7. \A k \in V(a) : DeleteStep(m, g, k) = DeleteStep(m, f, k)
    <3> HIDE DEF g, V
    <3> QED
      BY <2>3, <2>4, DeleteLooksAhead DEF NULL
  <2>8. IsDeletion(m, g, V(a))
    <3>1. g = [k \in V(a) |-> g[k]]
      OBVIOUS
    <3> HIDE DEF g, V
    <3>2. g = [k \in V(a) |-> DeleteStep(m, g, k)]
      BY <2>6, <2>7, <3>1
    <3> QED
      BY <3>2 DEF IsDeletion
  <2> QED
    BY <2>8
<1>2. CASE N = 0
  <2> DEFINE f == [k \in {0} |-> <<>>]
  <2>1. 0..N = {0}
    BY <1>2
  <2>2. IsDeletion(m, f, {0})
    BY DEF IsDeletion, DeleteStep, NULL
  <2> QED
    BY <2>1, <2>2
<1>3. CASE N # 0
  <2>1. 1 \in S
    <3> HIDE DEF S
    <3>1. \A a \in 1..N : a \in S
      BY <1>1, Downwards
    <3> QED
      BY <1>3, <3>1
  <2>2. V(1) = 0..N
    OBVIOUS
  <2> QED
    BY <2>1, <2>2
<1> QED
  BY <1>2, <1>3

LEMMA DoomedAreVisited ==
    ASSUME NEW m, Chained(m.items), NEW i \in DOMAIN m.items
    PROVE  Visits(m.items, Doomed(m, i), i)
<1> DEFINE links == {m.items[a].child : a \in DOMAIN m.items} \cup {m.items[a].next : a \in DOMAIN m.items}
           D == links \cup {NULL, i}
           f == CHOOSE g : IsDeletion(m, g, D)
<1>1. PICK N \in Nat : DOMAIN m.items = 1..N
  BY DEF Chained
<1>2. \A a \in 1..N : /\ m.items[a].child = 0 \/ m.items[a].child \in (a + 1)..N
                      /\ m.items[a].next = 0 \/ m.items[a].next \in (a + 1)..N
                      /\ ~m.items[a].reference
  BY <1>1 DEF Chained, Whole, Links, NULL
<1>3. D \subseteq 0..N /\ i \in 1..N /\ i \in D
  BY <1>1, <1>2 DEF NULL
<1>4. \A a \in 1..N : m.items[a].child \in D /\ m.items[a].next \in D
  BY <1>1
<1>5. Doomed(m, i) = f[i]
  BY DEF Doomed, IsDeletion, DeleteStep
<1> HIDE DEF D
<1>6. IsDeletion(m, f, D)
  <2>1. PICK h : IsDeletion(m, h, 0..N)
    BY <1>1, DeletionExists
  <2> DEFINE g == [a \in D |-> h[a]]
  <2>2. \A a \in D : g[a] = h[a]
    OBVIOUS
  <2>3. \A a \in 0..N : h[a] = DeleteStep(m, h, a)
    BY <2>1 DEF IsDeletion
  <2>4. g = [a \in D |-> g[a]]
    OBVIOUS
  <2> HIDE DEF g
  <2>5. \A a \in D : DeleteStep(m, g, a) = DeleteStep(m, h, a)
    <3>1. \A a \in D : a \in DOMAIN m.items => m.items[a].child \in D /\ m.items[a].next \in D
      BY <1>1, <1>4
    <3> QED
      BY <2>2, <3>1, DeleteLooksAhead
  <2>6. \A a \in D : g[a] = DeleteStep(m, g, a)
    BY <1>3, <2>2, <2>3, <2>5
  <2>7. g = [a \in D |-> DeleteStep(m, g, a)]
    BY <2>4, <2>6
  <2>8. IsDeletion(m, g, D)
    BY <2>7 DEF IsDeletion
  <2> QED
    BY <2>8
<1> HIDE DEF f
<1>7. \A a \in D : f[a] = DeleteStep(m, f, a)
  BY <1>6 DEF IsDeletion
<1> DEFINE S == {a \in 1..N : a \in D => Visits(m.items, f[a], a)}
<1>8. NULL \in D /\ f[NULL] = <<>>
  <2>1. NULL \in D
    BY DEF D
  <2> QED
    BY <1>7, <2>1 DEF DeleteStep
<1>9. ASSUME NEW a \in 1..N, \A b \in 1..N : a < b => b \in S
      PROVE  a \in S
  <2> SUFFICES ASSUME a \in D
               PROVE  Visits(m.items, f[a], a)
    OBVIOUS
  <2> DEFINE c == m.items[a].child
             n == m.items[a].next
  <2>1. c \in D /\ n \in D /\ (c = 0 \/ c \in (a + 1)..N) /\ (n = 0 \/ n \in (a + 1)..N)
    BY <1>2, <1>4
  <2>2. f[a] = f[c] \o <<a>> \o f[n]
    <3>1. a # NULL /\ a \in DOMAIN m.items /\ ~m.items[a].reference /\ f[a] = DeleteStep(m, f, a)
      BY <1>1, <1>2, <1>7 DEF NULL
    <3> QED
      BY <3>1 DEF DeleteStep
  <2> HIDE DEF c, n
  <2>3. \A b \in (a + 1)..N : b \in S
    BY <1>9
  <2>4. VisitsAll(m.items, f[c], c) /\ VisitsAll(m.items, f[n], n)
    BY <1>8, <2>1, <2>3 DEF VisitsAll, NULL
  <2> QED
    BY <1>1, <2>2, <2>4, VisitsOnwards DEF c, n
<1>10. i \in S
  <2> HIDE DEF S
  <2>1. \A a \in 1..N : a \in S
    BY <1>9, Downwards
  <2> QED
    BY <1>3, <2>1
<1> QED
  BY <1>3, <1>5, <1>10

(* What is linked to from an item on is all deleted, and nothing else: when*)
(* nothing behind it is linked to from in front of it, that is the rest.   *)
LEMMA DoomedIsTheRest ==
    ASSUME NEW m, Chained(m.items), NEW i \in DOMAIN m.items,
           \A b \in DOMAIN m.items : i < b =>
               \E a \in DOMAIN m.items : i <= a /\ \E f \in Links : m.items[a][f] = b
    PROVE  /\ AllDifferent(Doomed(m, i))
           /\ Image(Doomed(m, i)) = {b \in DOMAIN m.items : i <= b}
<1> DEFINE X == Image(Doomed(m, i))
<1>1. PICK N \in Nat : DOMAIN m.items = 1..N
  BY DEF Chained
<1>2. /\ AllDifferent(Doomed(m, i))
      /\ i \in X
      /\ \A x \in X : x \in DOMAIN m.items /\ i <= x
      /\ \A x \in X : \A f \in Links : m.items[x][f] = NULL \/ m.items[x][f] \in X
  BY DoomedAreVisited DEF Visits
<1> HIDE DEF X
<1>3. ASSUME NEW b \in 1..N, i <= b, b \notin X
      PROVE  FALSE
  <2> DEFINE T == {n \in 1..N : i <= n /\ n \notin X}
  <2>1. PICK n \in T : \A o \in T : n <= o
    <3>1. b \in T /\ T \in SUBSET Nat
      BY <1>3
    <3> QED
      BY <3>1, Least
  <2>2. n \in 1..N /\ i \in 1..N /\ i < n
    BY <1>1, <1>2, <2>1
  <2>3. PICK a \in 1..N, f \in Links : i <= a /\ m.items[a][f] = n
    BY <1>1, <2>2
  <2>4. a < n
    BY <1>1, <2>2, <2>3 DEF Chained, NULL
  <2>5. a \in X
    BY <2>1, <2>2, <2>3, <2>4
  <2>6. n \in X
    BY <1>2, <2>2, <2>3, <2>5 DEF NULL
  <2> QED
    BY <2>1, <2>6
<1>4. X = {b \in DOMAIN m.items : i <= b}
  BY <1>1, <1>2, <1>3
<1> QED
  BY <1>2, <1>4 DEF X

-----------------------------------------------------------------------------
(* What cJSON_Delete gives back *)

(* A new block is none of those there are, and the next when none was freed.*)
LEMMA FreeIsFree ==
    ASSUME NEW f, IsFiniteSet(DOMAIN f)
    PROVE  /\ Free(f) \in Nat \ {0}
           /\ Free(f) \notin DOMAIN f
           /\ \A b \in 1..(Free(f) - 1) : b \in DOMAIN f
<1> DEFINE D == DOMAIN f
           n == Cardinality(D)
           T == {a \in 1..(n + 1) : a \notin D}
<1>1. n \in Nat
  BY FS_CardinalityType
<1>2. T # {}
  <2> SUFFICES ASSUME 1..(n + 1) \subseteq D
               PROVE  FALSE
    OBVIOUS
  <2> HIDE DEF n, D
  <2>1. Cardinality(1..(n + 1)) = n + 1
    <3>1. Cardinality(1..(n + 1)) = IF 1 > n + 1 THEN 0 ELSE (n + 1) - 1 + 1
      BY <1>1, FS_Interval
    <3> QED
      BY <1>1, <3>1
  <2>2. Cardinality(1..(n + 1)) <= Cardinality(D)
    BY FS_Subset DEF D
  <2> QED
    BY <1>1, <2>1, <2>2 DEF n
<1>3. PICK a \in T : \A b \in T : a <= b
  <2>1. T \in SUBSET Nat
    BY <1>1
  <2> HIDE DEF T
  <2> QED
    BY <1>2, <2>1, Least
<1> HIDE DEF n
<1>4. a \in 1..(n + 1) /\ a \notin D /\ \A b \in 1..(a - 1) : b \in D
  <2>1. a \in 1..(n + 1) /\ a \notin D
    BY <1>3
  <2>2. \A b \in 1..(a - 1) : b \in 1..(n + 1) /\ ~(a <= b)
    BY <1>1, <2>1
  <2> QED
    BY <1>3, <2>1, <2>2
<1>5. /\ Free(f) \in 1..(n + 1)
      /\ Free(f) \notin D
      /\ \A b \in 1..(Free(f) - 1) : b \in D
  <2>1. Free(f) = CHOOSE x \in 1..(n + 1) : x \notin D /\ \A b \in 1..(x - 1) : b \in D
    BY DEF Free, n
  <2> HIDE DEF D
  <2> QED
    BY <1>4, <2>1
<1> QED
  BY <1>1, <1>5

LEMMA FreeIsNext ==
    ASSUME NEW f, NEW N \in Nat, DOMAIN f = 1..N
    PROVE  Free(f) = N + 1
<1>1. IsFiniteSet(1..N)
  BY FS_Interval
<1>2. /\ Free(f) \in Nat \ {0}
      /\ Free(f) \notin 1..N
      /\ \A b \in 1..(Free(f) - 1) : b \in 1..N
  BY <1>1, FreeIsFree
<1>3. Free(f) > N
  BY <1>2
<1>4. ~(Free(f) > N + 1)
  <2> SUFFICES ASSUME Free(f) > N + 1
               PROVE  FALSE
    OBVIOUS
  <2>1. N + 1 \in 1..(Free(f) - 1)
    BY <1>2
  <2>2. N + 1 \in 1..N
    BY <1>2, <2>1
  <2> QED
    BY <2>2
<1> QED
  BY <1>2, <1>3, <1>4

-----------------------------------------------------------------------------
(* What is in front of item i, and the strings of those items.             *)
Kept(m, i) == {b \in DOMAIN m.items : ~(i <= b)}
KeptTexts(m, i) ==
    {b \in DOMAIN m.strings : \A a \in DOMAIN m.items : \A f \in Texts : m.items[a][f] = b => ~(i <= a)}

(* Deleting a list gives back the items from its head on and their strings,*)
(* and no block twice.                                                     *)
LEMMA DeletesTheRest ==
    ASSUME NEW m, Chained(m.items), Owned(m.items, m.strings), m.faults = {},
           NEW i \in DOMAIN m.items,
           \A b \in DOMAIN m.items : i < b =>
               \E a \in DOMAIN m.items : i <= a /\ \E f \in Links : m.items[a][f] = b
    PROVE  cJSON_Delete(m, i) = [items   |-> [b \in Kept(m, i) |-> m.items[b]],
                                 strings |-> [b \in KeptTexts(m, i) |-> m.strings[b]],
                                 faults  |-> {}]
<1> DEFINE doomed == Doomed(m, i)
           strings == DoomedStrings(m, doomed)
<1>1. AllDifferent(doomed) /\ Image(doomed) = {b \in DOMAIN m.items : i <= b}
  BY DoomedIsTheRest
<1> HIDE DEF doomed
<1>2. \A n \in DOMAIN doomed : doomed[n] \in DOMAIN m.items /\ i <= doomed[n]
  <2>1. \A n \in DOMAIN doomed : doomed[n] \in Image(doomed)
    BY DEF Image
  <2> QED
    BY <1>1, <2>1
<1>3. Freed(m.items, doomed)
  BY <1>1, <1>2 DEF Freed, AllDifferent
<1>4. \A a \in DOMAIN m.items : \A f \in Texts : StringOf(m.items[a], f) = m.items[a][f]
  BY DEF Chained, Whole, Texts, StringOf, NULL
<1>5. /\ DOMAIN strings = (DOMAIN doomed) \X Texts
      /\ \A n \in DOMAIN doomed : \A f \in Texts : strings[<<n, f>>] = m.items[doomed[n]][f]
  <2>1. strings = [spot \in (DOMAIN doomed) \X Texts |->
                      IF doomed[spot[1]] \in DOMAIN m.items
                      THEN StringOf(m.items[doomed[spot[1]]], spot[2]) ELSE NULL]
    BY DEF DoomedStrings, Texts
  <2> HIDE DEF strings
  <2>2. \A n \in DOMAIN doomed : \A f \in Texts :
            strings[<<n, f>>] = IF doomed[n] \in DOMAIN m.items THEN StringOf(m.items[doomed[n]], f) ELSE NULL
    BY <2>1
  <2> QED
    BY <1>2, <1>4, <2>1, <2>2
<1> HIDE DEF strings
<1>6. \A b : b \in Image(strings) <=> \E a \in DOMAIN m.items : i <= a /\ \E f \in Texts : m.items[a][f] = b
  <2>1. ASSUME NEW b, b \in Image(strings)
        PROVE  \E a \in DOMAIN m.items : i <= a /\ \E f \in Texts : m.items[a][f] = b
    <3>1. PICK spot \in (DOMAIN doomed) \X Texts : strings[spot] = b
      BY <1>5, <2>1 DEF Image
    <3>2. PICK n \in DOMAIN doomed, f \in Texts : spot = <<n, f>>
      OBVIOUS
    <3> QED
      BY <1>2, <1>5, <3>1, <3>2
  <2>2. ASSUME NEW b, NEW a \in DOMAIN m.items, i <= a, NEW f \in Texts, m.items[a][f] = b
        PROVE  b \in Image(strings)
    <3>1. PICK n \in DOMAIN doomed : doomed[n] = a
      <4>1. a \in Image(doomed)
        BY <1>1, <2>2
      <4> QED
        BY <4>1 DEF Image
    <3>2. <<n, f>> \in DOMAIN strings /\ strings[<<n, f>>] = b
      BY <1>5, <2>2, <3>1
    <3> QED
      BY <3>2 DEF Image
  <2> QED
    BY <2>1, <2>2
<1>7. Freed(m.strings, strings)
  <2> SUFFICES ASSUME NEW p \in DOMAIN strings, strings[p] # NULL
               PROVE  /\ strings[p] \in DOMAIN m.strings
                      /\ \A q \in DOMAIN strings : strings[q] = strings[p] => q = p
    BY DEF Freed
  <2>1. PICK n \in DOMAIN doomed, f \in Texts : p = <<n, f>>
    BY <1>5
  <2>2. strings[p] = m.items[doomed[n]][f] /\ doomed[n] \in DOMAIN m.items
    BY <1>2, <1>5, <2>1
  <2>3. strings[p] \in DOMAIN m.strings
    BY <2>2 DEF Owned
  <2>4. ASSUME NEW q \in DOMAIN strings, strings[q] = strings[p]
        PROVE  q = p
    <3>1. PICK o \in DOMAIN doomed, g \in Texts : q = <<o, g>>
      BY <1>5
    <3>2. strings[q] = m.items[doomed[o]][g] /\ doomed[o] \in DOMAIN m.items
      BY <1>2, <1>5, <3>1
    <3>3. doomed[n] = doomed[o] /\ f = g
      <4>1. Exclusive(m.items, Texts)
        BY DEF Owned
      <4>2. m.items[doomed[n]][f] # NULL /\ m.items[doomed[n]][f] = m.items[doomed[o]][g]
        BY <2>2, <2>4, <3>2
      <4> HIDE DEF doomed
      <4> QED
        BY <2>2, <3>2, <4>1, <4>2 DEF Exclusive
    <3>4. n = o
      BY <1>1, <3>3 DEF AllDifferent
    <3> QED
      BY <2>1, <3>1, <3>3, <3>4
  <2> QED
    BY <2>3, <2>4
<1>8. Without(m.items, Image(doomed)) = [b \in Kept(m, i) |-> m.items[b]]
  <2>1. DOMAIN m.items \ Image(doomed) = Kept(m, i)
    BY <1>1 DEF Kept
  <2> QED
    BY <2>1 DEF Without
<1>9. Without(m.strings, Image(strings)) = [b \in KeptTexts(m, i) |-> m.strings[b]]
  <2>1. DOMAIN m.strings \ Image(strings) = KeptTexts(m, i)
    BY <1>6 DEF KeptTexts
  <2> QED
    BY <2>1 DEF Without
<1>10. cJSON_Delete(m, i) =
          [items   |-> Without(m.items, Image(doomed)),
           strings |-> Without(m.strings, Image(strings)),
           faults  |-> m.faults \cup IF Freed(m.items, doomed) /\ Freed(m.strings, strings)
                                     THEN {} ELSE {"free"}]
  BY DEF cJSON_Delete, doomed, strings
<1>11. m.faults \cup (IF Freed(m.items, doomed) /\ Freed(m.strings, strings) THEN {} ELSE {"free"}) = {}
  BY <1>3, <1>7
<1> QED
  BY <1>8, <1>9, <1>10, <1>11

(* From the root everything is deleted.                                    *)
LEMMA DeletesAll ==
    ASSUME NEW m, Chained(m.items), Owned(m.items, m.strings), m.faults = {},
           Root \in DOMAIN m.items,
           \A b \in DOMAIN m.items : b = Root \/ \E a \in DOMAIN m.items : \E f \in Links : m.items[a][f] = b
    PROVE  cJSON_Delete(m, Root) = EmptyMemory
<1>0. \A a \in DOMAIN m.items : a \in Nat /\ Root <= a
  BY DEF Chained, Root
<1>1. \A b \in DOMAIN m.items : Root < b =>
          \E a \in DOMAIN m.items : Root <= a /\ \E f \in Links : m.items[a][f] = b
  BY <1>0 DEF Root
<1>2. cJSON_Delete(m, Root) = [items   |-> [b \in Kept(m, Root) |-> m.items[b]],
                               strings |-> [b \in KeptTexts(m, Root) |-> m.strings[b]],
                               faults  |-> {}]
  BY <1>1, DeletesTheRest
<1>3. Kept(m, Root) = {}
  BY <1>0 DEF Kept
<1>4. KeptTexts(m, Root) = {}
  BY <1>0 DEF KeptTexts, Owned
<1>5. \A F : [b \in {} |-> F[b]] = <<>>
  OBVIOUS
<1> QED
  BY <1>2, <1>3, <1>4, <1>5 DEF EmptyMemory

-----------------------------------------------------------------------------
(* The parts of the invariant, one change at a time *)

TextOf(items, a, f) == IF a \in DOMAIN items THEN items[a][f] ELSE NULL

LEMMA SameTexts ==
    ASSUME NEW items, NEW items2, NEW strings, Owned(items, strings), DOMAIN items \subseteq DOMAIN items2,
           \A a \in DOMAIN items2 : \A f \in Texts : items2[a][f] = TextOf(items, a, f)
    PROVE  Owned(items2, strings)
  BY DEF Owned, Exclusive, TextOf

LEMMA OneMoreText ==
    ASSUME NEW items, NEW items2, NEW strings, NEW strings2,
           Owned(items, strings), DOMAIN items \subseteq DOMAIN items2,
           NEW b, b \in Nat \ {0}, b \notin DOMAIN strings, DOMAIN strings2 = DOMAIN strings \cup {b},
           NEW t \in DOMAIN items2, NEW g \in Texts, TextOf(items, t, g) = NULL, items2[t][g] = b,
           \A a \in DOMAIN items2 : \A f \in Texts : a # t \/ f # g => items2[a][f] = TextOf(items, a, f)
    PROVE  Owned(items2, strings2)
<1>1. IsFiniteSet(DOMAIN strings2) /\ DOMAIN strings2 \subseteq Nat \ {0}
  BY FS_AddElement DEF Owned
<1>2. \A a \in DOMAIN items2 : \A f \in Texts :
          \/ items2[a][f] = b
          \/ items2[a][f] = NULL
          \/ items2[a][f] \in DOMAIN strings /\ a \in DOMAIN items /\ items2[a][f] = items[a][f]
  BY DEF Owned, TextOf
<1>3. \A a \in DOMAIN items2 : \A f \in Texts : items2[a][f] # NULL => items2[a][f] \in DOMAIN strings2
  BY <1>2
<1>4. ASSUME NEW c \in DOMAIN strings2
      PROVE  \E a \in DOMAIN items2 : \E f \in Texts : items2[a][f] = c
  <2>1. CASE c = b
    BY <2>1
  <2>2. CASE c # b
    <3>1. PICK a \in DOMAIN items, f \in Texts : items[a][f] = c
      BY <2>2 DEF Owned
    <3>2. a # t \/ f # g
      <4>1. c # NULL
        BY <1>1 DEF NULL
      <4> QED
        BY <3>1, <4>1 DEF TextOf
    <3>3. items2[a][f] = c
      BY <3>1, <3>2 DEF TextOf
    <3> QED
      BY <3>1, <3>3
  <2> QED
    BY <2>1, <2>2
<1>5. Exclusive(items2, Texts)
  <2> SUFFICES ASSUME NEW a \in DOMAIN items2, NEW c \in DOMAIN items2, NEW f \in Texts, NEW h \in Texts,
                      items2[a][f] # NULL, items2[a][f] = items2[c][h]
               PROVE  a = c /\ f = h
    BY DEF Exclusive
  <2>1. CASE items2[a][f] = b
    <3>1. \A x \in DOMAIN items2 : \A y \in Texts : items2[x][y] = b => x = t /\ y = g
      <4> SUFFICES ASSUME NEW x \in DOMAIN items2, NEW y \in Texts, items2[x][y] = b, x # t \/ y # g
                   PROVE  FALSE
        OBVIOUS
      <4>1. TextOf(items, x, y) = b
        OBVIOUS
      <4> QED
        BY <4>1 DEF TextOf, Owned, NULL
    <3> QED
      BY <2>1, <3>1
  <2>2. CASE items2[a][f] # b
    <3>1. /\ a \in DOMAIN items /\ items2[a][f] = items[a][f]
          /\ c \in DOMAIN items /\ items2[c][h] = items[c][h]
      BY <1>2, <2>2
    <3>2. items[a][f] # NULL /\ items[a][f] = items[c][h] /\ Exclusive(items, Texts)
      BY <3>1 DEF Owned
    <3> QED
      BY <3>1, <3>2 DEF Exclusive
  <2> QED
    BY <2>1, <2>2
<1> QED
  BY <1>1, <1>3, <1>4, <1>5 DEF Owned

-----------------------------------------------------------------------------
(* Items *)

(* What an item is besides its links does not matter to the tree.          *)
LEMMA SameLinks ==
    ASSUME NEW items, NEW items2, Chained(items), DOMAIN items2 = DOMAIN items,
           \A a \in DOMAIN items : Whole(items2[a]),
           \A a \in DOMAIN items : \A f \in Links : items2[a][f] = items[a][f]
    PROVE  /\ Chained(items2)
           /\ \A calls : Filling(items, calls) => Filling(items2, calls)
           /\ \A heads : Reached(items, heads) => Reached(items2, heads)
<1>1. Chained(items2)
  BY DEF Chained, Exclusive
<1>2. \A a \in DOMAIN items : items2[a].child = items[a].child /\ items2[a].next = items[a].next
  BY DEF Links
<1>3. ASSUME NEW calls, Filling(items, calls)
      PROVE  Filling(items2, calls)
  <2>1. \A k \in DOMAIN calls : items2[calls[k].item].child = NULL
                             /\ (calls[k].head # NULL => items2[calls[k].current].next = NULL)
    BY <1>2, <1>3 DEF Filling
  <2> QED
    BY <1>3, <2>1 DEF Filling
<1>4. \A heads : Reached(items, heads) => Reached(items2, heads)
  BY DEF Reached
<1> QED
  BY <1>1, <1>3, <1>4

(* parse_array or parse_object is called: nothing in its list yet.         *)
IsNewCall(call, t) ==
    /\ DOMAIN call = {"kind", "item", "head", "current"}
    /\ call.item = t /\ call.head = NULL /\ call.current = NULL

LEMMA Entered ==
    ASSUME NEW items, NEW T, NEW calls \in Seq(T), Filling(items, calls), Chained(items),
           NEW t \in DOMAIN items, items[t].child = NULL, NEW call, IsNewCall(call, t),
           \A k \in DOMAIN calls : calls[k].head # NULL /\ calls[k].current <= t,
           NEW calls2, calls2 = Append(calls, call)
    PROVE  Filling(items, calls2) /\ Heads(calls2) = Heads(calls)
<1> DEFINE n == Len(calls)
<1>1. /\ n \in Nat /\ DOMAIN calls = 1..n /\ DOMAIN calls2 = 1..(n + 1)
      /\ \A k \in 1..n : calls2[k] = calls[k]
      /\ calls2[n + 1] = call
  BY Appended
<1>2. /\ call.item = t /\ call.head = NULL /\ call.current = NULL
      /\ DOMAIN call = {"kind", "item", "head", "current"}
  BY DEF IsNewCall
<1> HIDE DEF n
<1>3. \A k \in 1..(n + 1) : k = n + 1 \/ k \in 1..n
  BY <1>1
<1>4. ASSUME NEW k \in DOMAIN calls2
      PROVE  /\ DOMAIN calls2[k] = {"kind", "item", "head", "current"}
             /\ calls2[k].item \in DOMAIN items /\ items[calls2[k].item].child = NULL
             /\ calls2[k].head = NULL => calls2[k].current = NULL
             /\ calls2[k].head # NULL =>
                   /\ calls2[k].head \in DOMAIN items /\ calls2[k].current \in DOMAIN items
                   /\ calls2[k].item < calls2[k].head /\ calls2[k].head <= calls2[k].current
                   /\ items[calls2[k].current].next = NULL
  <2>1. CASE k = n + 1
    BY <1>1, <1>2, <2>1
  <2>2. CASE k \in 1..n
    BY <1>1, <2>2 DEF Filling
  <2> QED
    BY <1>1, <1>3, <2>1, <2>2
<1>5. ASSUME NEW j \in DOMAIN calls2, NEW k \in DOMAIN calls2, j < k
      PROVE  calls2[j].head # NULL /\ calls2[j].current <= calls2[k].item
  <2>1. j \in 1..n /\ calls2[j] = calls[j]
    BY <1>1, <1>5
  <2>2. CASE k = n + 1
    BY <1>1, <1>2, <2>1, <2>2
  <2>3. CASE k \in 1..n
    BY <1>1, <1>5, <2>1, <2>3 DEF Filling
  <2> QED
    BY <1>1, <1>3, <2>2, <2>3
<1>6. Filling(items, calls2)
  BY <1>4, <1>5 DEF Filling
<1>7. Heads(calls2) = Heads(calls)
  <2>1. ASSUME NEW h \in Heads(calls2)
        PROVE  h \in Heads(calls)
    <3>1. PICK k \in 1..(n + 1) : calls2[k].head = h /\ h # NULL
      BY <1>1, <2>1 DEF Heads
    <3>2. k \in 1..n
      BY <1>1, <1>2, <1>3, <3>1
    <3> QED
      BY <1>1, <3>1, <3>2 DEF Heads
  <2>2. ASSUME NEW h \in Heads(calls)
        PROVE  h \in Heads(calls2)
    <3>1. PICK k \in 1..n : calls[k].head = h /\ h # NULL
      BY <1>1, <2>2 DEF Heads
    <3>2. k \in 1..(n + 1)
      BY <1>1
    <3> QED
      BY <1>1, <3>1, <3>2 DEF Heads
  <2> QED
    BY <2>1, <2>2
<1> QED
  BY <1>6, <1>7

-----------------------------------------------------------------------------
(* The list of the last call grows *)

(* The last call, with the lists of the calls around it all in front of it.*)
OnTop(calls, n) ==
    /\ n \in Nat /\ n # 0 /\ n \in DOMAIN calls /\ DOMAIN calls = 1..n
    /\ \A k \in 1..(n - 1) : /\ calls[k].head # NULL /\ calls[k].item \in Nat /\ calls[k].head \in Nat
                             /\ calls[k].current \in Nat /\ calls[n].item \in Nat
                             /\ calls[k].item < calls[k].head /\ calls[k].head <= calls[k].current
                             /\ calls[k].current <= calls[n].item
    /\ Heads(SubSeq(calls, 1, n - 1)) = {calls[k].head : k \in 1..(n - 1)}
    /\ Heads(calls) = Heads(SubSeq(calls, 1, n - 1)) \cup ({calls[n].head} \ {NULL})

(* items2 has the same links as items in front of the item of a call, and  *)
(* that item the same successor.                                           *)
Below(items, items2, item) ==
    /\ \A a \in DOMAIN items : a <= item => a \in DOMAIN items2 /\ items2[a].next = items[a].next
    /\ \A a \in DOMAIN items : a < item => items2[a].child = items[a].child

LEMMA TopLast ==
    ASSUME NEW items, NEW T, NEW calls \in Seq(T), calls # <<>>, Filling(items, calls), Chained(items),
           NEW n, n = Len(calls)
    PROVE  OnTop(calls, n)
<1>1. n \in Nat /\ n # 0 /\ n \in DOMAIN calls /\ DOMAIN calls = 1..n
  OBVIOUS
<1>2. \A k \in 1..(n - 1) : k \in 1..n /\ k < n
  BY <1>1
<1>3. DOMAIN items \subseteq Nat
  BY DEF Chained
<1>4. \A k \in 1..(n - 1) : /\ calls[k].head # NULL /\ calls[k].item \in Nat /\ calls[k].head \in Nat
                            /\ calls[k].current \in Nat /\ calls[n].item \in Nat
                            /\ calls[k].item < calls[k].head /\ calls[k].head <= calls[k].current
                            /\ calls[k].current <= calls[n].item
  BY <1>1, <1>2, <1>3 DEF Filling
<1> DEFINE rest == SubSeq(calls, 1, n - 1)
<1>5. DOMAIN rest = 1..(n - 1) /\ \A k \in 1..(n - 1) : rest[k] = calls[k]
  <2>1. n - 1 \in Nat /\ n - 1 <= Len(calls) /\ 1 \in Nat \ {0}
    BY <1>1
  <2>2. DOMAIN rest = 1..((n - 1) - 1 + 1) /\ \A k \in 1..((n - 1) - 1 + 1) : rest[k] = calls[1 + k - 1]
    BY <2>1, Parted
  <2>3. (n - 1) - 1 + 1 = n - 1 /\ \A k \in 1..(n - 1) : 1 + k - 1 = k
    BY <1>1
  <2> QED
    BY <2>2, <2>3
<1> HIDE DEF rest
<1>6. Heads(rest) = {calls[k].head : k \in 1..(n - 1)}
  BY <1>4, <1>5 DEF Heads
<1>7. \A k \in 1..n : k = n \/ k \in 1..(n - 1)
  BY <1>1
<1>8. Heads(calls) = Heads(rest) \cup ({calls[n].head} \ {NULL})
  <2>1. ASSUME NEW h \in Heads(calls)
        PROVE  h \in Heads(rest) \cup ({calls[n].head} \ {NULL})
    <3>1. PICK k \in 1..n : calls[k].head = h /\ h # NULL
      BY <1>1, <2>1 DEF Heads
    <3> QED
      BY <1>6, <1>7, <3>1
  <2>2. ASSUME NEW h \in Heads(rest) \cup ({calls[n].head} \ {NULL})
        PROVE  h \in Heads(calls)
    <3>1. CASE h \in Heads(rest)
      <4>1. PICK k \in 1..(n - 1) : h = calls[k].head
        BY <1>6, <3>1
      <4>2. k \in DOMAIN calls /\ h # NULL
        BY <1>1, <1>2, <1>4, <4>1
      <4> QED
        BY <4>1, <4>2 DEF Heads
    <3>2. CASE h = calls[n].head /\ h # NULL
      BY <1>1, <3>2 DEF Heads
    <3> QED
      BY <2>2, <3>1, <3>2
  <2> QED
    BY <2>1, <2>2
<1> QED
  BY <1>1, <1>4, <1>6, <1>8 DEF rest, OnTop

LEMMA Filled ==
    ASSUME NEW items, NEW T, NEW calls \in Seq(T), calls # <<>>, Filling(items, calls), Chained(items),
           NEW n, n = Len(calls), NEW calls2, calls2 = SubSeq(calls, 1, n - 1), NEW items2,
           Below(items, items2, calls[n].item)
    PROVE  Filling(items2, calls2)
<1>1. /\ n \in Nat /\ n # 0 /\ n \in DOMAIN calls /\ DOMAIN calls = 1..n
      /\ \A k \in 1..(n - 1) : /\ calls[k].head # NULL /\ calls[k].item \in Nat /\ calls[k].head \in Nat
                               /\ calls[k].current \in Nat /\ calls[n].item \in Nat
                               /\ calls[k].item < calls[k].head /\ calls[k].head <= calls[k].current
                               /\ calls[k].current <= calls[n].item
      /\ Heads(SubSeq(calls, 1, n - 1)) = {calls[k].head : k \in 1..(n - 1)}
      /\ Heads(calls) = Heads(SubSeq(calls, 1, n - 1)) \cup ({calls[n].head} \ {NULL})
  <2>1. OnTop(calls, n)
    BY TopLast
  <2> QED
    BY <2>1 DEF OnTop
<1>2. DOMAIN calls2 = 1..(n - 1) /\ \A k \in 1..(n - 1) : calls2[k] = calls[k]
  <2>1. n - 1 \in Nat /\ n - 1 <= Len(calls) /\ 1 \in Nat \ {0}
    BY <1>1
  <2>2. DOMAIN calls2 = 1..((n - 1) - 1 + 1) /\ \A k \in 1..((n - 1) - 1 + 1) : calls2[k] = calls[1 + k - 1]
    BY <2>1, Parted
  <2>3. (n - 1) - 1 + 1 = n - 1 /\ \A k \in 1..(n - 1) : 1 + k - 1 = k
    BY <1>1
  <2> QED
    BY <2>2, <2>3
<1>3. \A k \in 1..(n - 1) : k \in 1..n
  BY <1>1
<1>4. \A k \in 1..(n - 1) : /\ calls[k].item < calls[n].item /\ calls[k].head <= calls[n].item
                            /\ calls[k].current <= calls[n].item
  BY <1>1
<1>5. ASSUME NEW k \in 1..(n - 1)
      PROVE  /\ DOMAIN calls[k] = {"kind", "item", "head", "current"}
             /\ calls[k].item \in DOMAIN items2 /\ items2[calls[k].item].child = NULL
             /\ calls[k].head \in DOMAIN items2 /\ calls[k].current \in DOMAIN items2
             /\ items2[calls[k].current].next = NULL
  <2>1. /\ DOMAIN calls[k] = {"kind", "item", "head", "current"}
        /\ calls[k].item \in DOMAIN items /\ items[calls[k].item].child = NULL
        /\ calls[k].head \in DOMAIN items /\ calls[k].current \in DOMAIN items
        /\ items[calls[k].current].next = NULL
    BY <1>1, <1>3 DEF Filling
  <2>2. calls[k].item \in DOMAIN items2 /\ items2[calls[k].item].child = NULL
    <3>1. calls[k].item <= calls[n].item
      BY <1>1
    <3> QED
      BY <1>4, <2>1, <3>1 DEF Below
  <2>3. calls[k].head \in DOMAIN items2 /\ calls[k].current \in DOMAIN items2
        /\ items2[calls[k].current].next = NULL
    BY <1>4, <2>1 DEF Below
  <2> QED
    BY <2>1, <2>2, <2>3
<1>6. \A j, k \in 1..(n - 1) : j < k => calls[j].current <= calls[k].item
  BY <1>1, <1>3 DEF Filling
<1>7. ASSUME NEW k \in DOMAIN calls2
      PROVE  /\ DOMAIN calls2[k] = {"kind", "item", "head", "current"}
             /\ calls2[k].item \in DOMAIN items2 /\ items2[calls2[k].item].child = NULL
             /\ calls2[k].head \in DOMAIN items2 /\ calls2[k].current \in DOMAIN items2
             /\ calls2[k].head # NULL
             /\ calls2[k].item < calls2[k].head /\ calls2[k].head <= calls2[k].current
             /\ items2[calls2[k].current].next = NULL
  BY <1>1, <1>2, <1>5, <1>7
<1>8. \A j, k \in DOMAIN calls2 : j < k => calls2[j].head # NULL /\ calls2[j].current <= calls2[k].item
  BY <1>1, <1>2, <1>6
<1> QED
  BY <1>7, <1>8 DEF Filling

(* An item is allocated and linked behind the current one, or becomes the  *)
(* head of the list.                                                       *)
Extended(items, items2, N, head, cur) ==
    /\ DOMAIN items2 = 1..(N + 1) /\ \A a \in 1..(N + 1) : Whole(items2[a])
    /\ \A f \in Links : items2[N + 1][f] = NULL
    /\ \A a \in 1..N : \A f \in Links :
           items2[a][f] = IF head # NULL /\ a = cur /\ f = "next" THEN N + 1 ELSE items[a][f]

Appends(calls, calls2, n, new) ==
    calls2 = [calls EXCEPT ![n] =
        [calls[n] EXCEPT !.current = new,
                         !.head = IF calls[n].head = NULL THEN new ELSE calls[n].head]]

LEMMA OneMoreItem ==
    ASSUME NEW items, NEW N \in Nat, DOMAIN items = 1..N, Chained(items),
           NEW T, NEW calls \in Seq(T), calls # <<>>, Filling(items, calls), Reached(items, Heads(calls)),
           NEW n, n = Len(calls), NEW head, head = calls[n].head, NEW cur, cur = calls[n].current,
           NEW items2, Extended(items, items2, N, head, cur),
           NEW calls2, Appends(calls, calls2, n, N + 1)
    PROVE  Chained(items2) /\ Filling(items2, calls2) /\ Reached(items2, Heads(calls2))
<1>1. /\ n \in Nat /\ n # 0 /\ n \in DOMAIN calls /\ DOMAIN calls = 1..n
      /\ \A k \in 1..(n - 1) : /\ calls[k].head # NULL /\ calls[k].item \in Nat /\ calls[k].head \in Nat
                               /\ calls[k].current \in Nat /\ calls[n].item \in Nat
                               /\ calls[k].item < calls[k].head /\ calls[k].head <= calls[k].current
                               /\ calls[k].current <= calls[n].item
      /\ Heads(SubSeq(calls, 1, n - 1)) = {calls[k].head : k \in 1..(n - 1)}
      /\ Heads(calls) = Heads(SubSeq(calls, 1, n - 1)) \cup ({calls[n].head} \ {NULL})
  <2>1. OnTop(calls, n)
    BY TopLast
  <2> QED
    BY <2>1 DEF OnTop
<1> DEFINE first == IF head = NULL THEN N + 1 ELSE head
<1>0. /\ DOMAIN items2 = 1..(N + 1) /\ \A a \in 1..(N + 1) : Whole(items2[a])
      /\ \A f \in Links : items2[N + 1][f] = NULL
      /\ \A a \in 1..N : \A f \in Links :
             items2[a][f] = IF head # NULL /\ a = cur /\ f = "next" THEN N + 1 ELSE items[a][f]
  BY DEF Extended
<1>2. /\ DOMAIN calls2 = 1..n /\ \A k \in 1..(n - 1) : calls2[k] = calls[k]
      /\ DOMAIN calls2[n] = {"kind", "item", "head", "current"}
      /\ calls2[n].item = calls[n].item /\ calls2[n].head = first /\ calls2[n].current = N + 1
  <2>1. DOMAIN calls[n] = {"kind", "item", "head", "current"}
    BY <1>1 DEF Filling
  <2> DEFINE call == [calls[n] EXCEPT !.current = N + 1, !.head = IF head = NULL THEN N + 1 ELSE head]
  <2>2. /\ DOMAIN call = {"kind", "item", "head", "current"}
        /\ call.item = calls[n].item /\ call.head = first /\ call.current = N + 1
    BY <2>1
  <2>3. calls2 = [calls EXCEPT ![n] = call]
    BY DEF Appends
  <2> HIDE DEF call
  <2>4. DOMAIN calls2 = 1..n /\ calls2[n] = call /\ \A k \in 1..n : k # n => calls2[k] = calls[k]
    BY <1>1, <2>3
  <2>5. \A k \in 1..(n - 1) : k \in 1..n /\ k # n
    BY <1>1
  <2> QED
    BY <2>2, <2>4, <2>5
<1>3. /\ calls[n].item \in 1..N /\ items[calls[n].item].child = NULL
      /\ head # NULL => /\ head \in 1..N /\ cur \in 1..N /\ calls[n].item < head /\ head <= cur
                        /\ items[cur].next = NULL
  BY <1>1 DEF Filling
<1>4. \A a \in 1..N : \A f \in Links : items[a][f] # NULL => items[a][f] \in 1..N /\ a < items[a][f]
  BY DEF Chained
<1>5. \A k \in 1..n : k = n \/ k \in 1..(n - 1)
  BY <1>1
<1>6. \A a \in 1..(N + 1) : a = N + 1 \/ a \in 1..N
  OBVIOUS
<1> HIDE DEF first
<1>7. Chained(items2)
  <2>1. ASSUME NEW a \in 1..(N + 1), NEW f \in Links, items2[a][f] # NULL
        PROVE  items2[a][f] \in 1..(N + 1) /\ a < items2[a][f]
    BY <1>0, <1>3, <1>4, <1>6, <2>1
  <2>2. ASSUME NEW a \in 1..(N + 1), NEW b \in 1..(N + 1), NEW f \in Links, NEW g \in Links,
               items2[a][f] # NULL, items2[a][f] = items2[b][g]
        PROVE  a = b /\ f = g
    <3>1. a \in 1..N /\ b \in 1..N
      BY <1>0, <1>6, <2>2
    <3>2. CASE items2[a][f] = N + 1
      <4>1. \A c \in 1..N : \A h \in Links : items2[c][h] = N + 1 => c = cur /\ h = "next"
        BY <1>0, <1>4 DEF NULL
      <4> QED
        BY <2>2, <3>1, <3>2, <4>1
    <3>3. CASE items2[a][f] # N + 1
      <4>1. items2[a][f] = items[a][f] /\ items2[b][g] = items[b][g]
        BY <1>0, <2>2, <3>1, <3>3
      <4>2. Exclusive(items, Links) /\ items[a][f] # NULL /\ items[a][f] = items[b][g]
        BY <2>2, <4>1 DEF Chained
      <4> QED
        BY <3>1, <4>2 DEF Exclusive
    <3> QED
      BY <3>2, <3>3
  <2>3. \E M \in Nat : DOMAIN items2 = 1..M
    <3>1. N + 1 \in Nat
      OBVIOUS
    <3> QED
      BY <1>0, <3>1
  <2> QED
    BY <1>0, <2>1, <2>2, <2>3 DEF Chained, Exclusive
<1>8. \A a \in 1..N : items2[a].child = items[a].child /\ (a # cur => items2[a].next = items[a].next)
  <2>1. "child" \in Links /\ "next" \in Links
    BY DEF Links
  <2>2. \A a \in 1..N : items2[a]["child"] = items[a]["child"]
    BY <1>0, <2>1
  <2>3. \A a \in 1..N : a # cur => items2[a]["next"] = items[a]["next"]
    BY <1>0, <2>1
  <2> QED
    BY <2>2, <2>3
<1>9. Filling(items2, calls2)
  <2>1. ASSUME NEW k \in 1..(n - 1)
        PROVE  /\ DOMAIN calls[k] = {"kind", "item", "head", "current"}
               /\ calls[k].item \in 1..(N + 1) /\ items2[calls[k].item].child = NULL
               /\ calls[k].head \in 1..(N + 1) /\ calls[k].current \in 1..(N + 1)
               /\ calls[k].item < calls[k].head /\ calls[k].head <= calls[k].current
               /\ items2[calls[k].current].next = NULL
    <3>1. k \in DOMAIN calls
      BY <1>1
    <3>2. /\ DOMAIN calls[k] = {"kind", "item", "head", "current"}
          /\ calls[k].item \in 1..N /\ items[calls[k].item].child = NULL
          /\ calls[k].head \in 1..N /\ calls[k].current \in 1..N
          /\ calls[k].item < calls[k].head /\ calls[k].head <= calls[k].current
          /\ items[calls[k].current].next = NULL
      BY <1>1, <3>1 DEF Filling
    <3>3. items2[calls[k].item].child = NULL
      BY <1>8, <3>2
    <3>4. items2[calls[k].current].next = NULL
      <4>1. CASE head = NULL
        <5>1. \A a \in 1..N : items2[a]["next"] = items[a]["next"]
          BY <1>0, <4>1 DEF Links
        <5> QED
          BY <3>2, <5>1
      <4>2. CASE head # NULL
        <5>1. calls[k].current # cur
          BY <1>1, <1>3, <4>2
        <5> QED
          BY <1>8, <3>2, <5>1
      <4> QED
        BY <4>1, <4>2
    <3> QED
      BY <3>2, <3>3, <3>4
  <2>2. /\ calls[n].item \in 1..(N + 1) /\ items2[calls[n].item].child = NULL
        /\ first \in 1..(N + 1) /\ N + 1 \in 1..(N + 1) /\ first # NULL
        /\ calls[n].item < first /\ first <= N + 1 /\ items2[N + 1].next = NULL
    BY <1>0, <1>3, <1>8 DEF first, NULL, Links
  <2>3. ASSUME NEW k \in 1..n
        PROVE  /\ DOMAIN calls2[k] = {"kind", "item", "head", "current"}
               /\ calls2[k].item \in 1..(N + 1) /\ items2[calls2[k].item].child = NULL
               /\ calls2[k].head \in 1..(N + 1) /\ calls2[k].current \in 1..(N + 1) /\ calls2[k].head # NULL
               /\ calls2[k].item < calls2[k].head /\ calls2[k].head <= calls2[k].current
               /\ items2[calls2[k].current].next = NULL
    <3>1. CASE k = n
      BY <1>2, <2>2, <3>1
    <3>2. CASE k \in 1..(n - 1)
      BY <1>1, <1>2, <2>1, <3>2
    <3> QED
      BY <1>5, <3>1, <3>2
  <2>4. ASSUME NEW j \in 1..n, NEW k \in 1..n, j < k
        PROVE  calls2[j].head # NULL /\ calls2[j].current <= calls2[k].item
    <3>1. j \in 1..(n - 1) /\ calls2[j] = calls[j] /\ calls2[k].item = calls[k].item
      BY <1>1, <1>2, <1>5, <2>4
    <3> QED
      BY <1>1, <2>4, <3>1 DEF Filling
  <2> QED
    BY <1>0, <1>2, <2>3, <2>4 DEF Filling
<1>10. Heads(calls2) = {calls[k].head : k \in 1..(n - 1)} \cup {first} /\ first # NULL
  <2>1. first # NULL
    BY DEF first, NULL
  <2>2. ASSUME NEW h \in Heads(calls2)
        PROVE  h \in {calls[k].head : k \in 1..(n - 1)} \cup {first}
    <3>1. PICK k \in 1..n : calls2[k].head = h
      BY <1>2, <2>2 DEF Heads
    <3> QED
      BY <1>2, <1>5, <3>1
  <2>3. ASSUME NEW h \in {calls[k].head : k \in 1..(n - 1)} \cup {first}
        PROVE  h \in Heads(calls2)
    <3>1. CASE h = first
      BY <1>1, <1>2, <2>1, <3>1 DEF Heads
    <3>2. CASE h # first
      <4>1. PICK k \in 1..(n - 1) : h = calls[k].head
        BY <2>3, <3>2
      <4>2. k \in DOMAIN calls2 /\ calls2[k].head = h /\ h # NULL
        BY <1>1, <1>2, <4>1
      <4> QED
        BY <4>2 DEF Heads
    <3> QED
      BY <3>1, <3>2
  <2> QED
    BY <2>1, <2>2, <2>3
<1>11. /\ Heads(calls) \subseteq Heads(calls2)
       /\ \A h \in Heads(calls2) : h \in Heads(calls) \/ (h = N + 1 /\ head = NULL)
  BY <1>1, <1>10 DEF first
<1>12. \A h \in Heads(calls) : head # NULL => h \in Nat /\ h <= cur
  <2>1. ASSUME NEW k \in 1..(n - 1), head # NULL
        PROVE  calls[k].head \in Nat /\ calls[k].head <= cur
    <3>1. /\ calls[k].head \in Nat /\ calls[k].current \in Nat /\ calls[n].item \in Nat
          /\ calls[k].head <= calls[k].current /\ calls[k].current <= calls[n].item
      BY <1>1
    <3>2. head \in Nat /\ cur \in Nat /\ calls[n].item < head /\ head <= cur
      BY <1>3, <2>1
    <3> QED
      BY <3>1, <3>2
  <2>2. \A h \in Heads(calls) : h = head \/ \E k \in 1..(n - 1) : h = calls[k].head
    BY <1>1
  <2> QED
    BY <1>3, <2>1, <2>2
<1>13. Reached(items2, Heads(calls2))
  <2>1. ASSUME NEW b \in 1..(N + 1)
        PROVE  b = Root \/ b \in Heads(calls2) \/ \E a \in 1..(N + 1) : \E f \in Links : items2[a][f] = b
    <3>1. CASE b = N + 1
      <4>1. CASE head = NULL
        BY <1>10, <3>1, <4>1 DEF first
      <4>2. CASE head # NULL
        <5>1. "next" \in Links /\ cur \in 1..(N + 1) /\ items2[cur]["next"] = b
          BY <1>0, <1>3, <3>1, <4>2 DEF Links
        <5> QED
          BY <5>1
      <4> QED
        BY <4>1, <4>2
    <3>2. CASE b \in 1..N
      <4>1. b = Root \/ b \in Heads(calls) \/ \E a \in 1..N : \E f \in Links : items[a][f] = b
        BY <3>2 DEF Reached
      <4>2. ASSUME NEW a \in 1..N, NEW f \in Links, items[a][f] = b
            PROVE  a \in 1..(N + 1) /\ items2[a][f] = b
        <5>1. ~(head # NULL /\ a = cur /\ f = "next")
          BY <1>3, <3>2, <4>2 DEF NULL
        <5> QED
          BY <1>0, <4>2, <5>1
      <4> QED
        BY <1>11, <4>1, <4>2
    <3> QED
      BY <1>6, <3>1, <3>2
  <2>2. ASSUME NEW a \in 1..(N + 1), NEW f \in Links, items2[a][f] # NULL, NEW h \in Heads(calls2)
        PROVE  items2[a][f] # h /\ (h < items2[a][f] => h <= a)
    <3>1. a \in 1..N
      BY <1>0, <1>6, <2>2
    <3>2. CASE head # NULL /\ a = cur /\ f = "next"
      <4>1. items2[a][f] = N + 1 /\ h \in Heads(calls)
        BY <1>0, <1>11, <3>1, <3>2
      <4> QED
        BY <1>3, <1>12, <3>2, <4>1
    <3>3. CASE ~(head # NULL /\ a = cur /\ f = "next")
      <4>1. items2[a][f] = items[a][f] /\ items[a][f] \in 1..N
        BY <1>0, <1>4, <2>2, <3>1, <3>3
      <4>2. CASE h \in Heads(calls)
        BY <2>2, <3>1, <4>1, <4>2 DEF Reached
      <4>3. CASE h = N + 1
        BY <4>1, <4>3
      <4> QED
        BY <1>11, <4>2, <4>3
    <3> QED
      BY <3>2, <3>3
  <2> QED
    BY <1>0, <2>1, <2>2 DEF Reached
<1> QED
  BY <1>7, <1>9, <1>13

-----------------------------------------------------------------------------
(* The list of the last call is hung up or given up *)

(* The list of a container becomes the child of its item.                  *)
Hangs(items, items2, item, head) ==
    /\ DOMAIN items2 = DOMAIN items /\ \A a \in DOMAIN items : Whole(items2[a])
    /\ \A a \in DOMAIN items : \A f \in Links :
           items2[a][f] = IF a = item /\ f = "child" THEN head ELSE items[a][f]

(* The container is closed: its list is hung into its item.                *)
LEMMA ListClosed ==
    ASSUME NEW items, Chained(items),
           NEW T, NEW calls \in Seq(T), calls # <<>>, Filling(items, calls), Reached(items, Heads(calls)),
           NEW n, n = Len(calls), NEW head, head = calls[n].head, NEW item, item = calls[n].item,
           NEW items2, Hangs(items, items2, item, head),
           NEW calls2, calls2 = SubSeq(calls, 1, n - 1)
    PROVE  Chained(items2) /\ Filling(items2, calls2) /\ Reached(items2, Heads(calls2))
<1>0. /\ DOMAIN items2 = DOMAIN items /\ \A a \in DOMAIN items : Whole(items2[a])
      /\ \A a \in DOMAIN items : \A f \in Links :
             items2[a][f] = IF a = item /\ f = "child" THEN head ELSE items[a][f]
  BY DEF Hangs
<1>1. /\ n \in Nat /\ n # 0 /\ n \in DOMAIN calls /\ DOMAIN calls = 1..n
      /\ \A k \in 1..(n - 1) : /\ calls[k].head # NULL /\ calls[k].item \in Nat /\ calls[k].head \in Nat
                               /\ calls[k].current \in Nat /\ calls[n].item \in Nat
                               /\ calls[k].item < calls[k].head /\ calls[k].head <= calls[k].current
                               /\ calls[k].current <= calls[n].item
      /\ Heads(SubSeq(calls, 1, n - 1)) = {calls[k].head : k \in 1..(n - 1)}
      /\ Heads(calls) = Heads(SubSeq(calls, 1, n - 1)) \cup ({calls[n].head} \ {NULL})
  <2>1. OnTop(calls, n)
    BY TopLast
  <2> QED
    BY <2>1 DEF OnTop
<1>2. /\ item \in DOMAIN items /\ items[item]["child"] = NULL
      /\ head # NULL => head \in DOMAIN items /\ item < head
  BY <1>1 DEF Filling
<1>3. DOMAIN items \subseteq Nat
  BY DEF Chained
<1>4. Chained(items2)
  <2>0. DOMAIN items2 = DOMAIN items /\ \A a \in DOMAIN items : Whole(items2[a])
    BY <1>0
  <2>1. ASSUME NEW a \in DOMAIN items, NEW f \in Links, items2[a][f] # NULL
        PROVE  items2[a][f] \in DOMAIN items /\ a < items2[a][f]
    <3>1. \A b \in DOMAIN items : \A g \in Links :
              items[b][g] # NULL => items[b][g] \in DOMAIN items /\ b < items[b][g]
      BY DEF Chained
    <3> QED
      BY <1>0, <1>2, <2>1, <3>1
  <2>2. ASSUME NEW a \in DOMAIN items, NEW b \in DOMAIN items, NEW f \in Links, NEW g \in Links,
               items2[a][f] # NULL, items2[a][f] = items2[b][g]
        PROVE  a = b /\ f = g
    <3>1. head # NULL => \A c \in DOMAIN items : \A h \in Links : items[c][h] # head
      <4>1. head # NULL => head \in Heads(calls)
        BY <1>1
      <4> QED
        BY <4>1 DEF Reached
    <3>2. CASE items2[a][f] = head
      <4>1. \A c \in DOMAIN items : \A h \in Links : items2[c][h] = head => c = item /\ h = "child"
        BY <1>0, <2>2, <3>1, <3>2
      <4> QED
        BY <2>2, <3>2, <4>1
    <3>3. CASE items2[a][f] # head
      <4>1. items2[a][f] = items[a][f] /\ items2[b][g] = items[b][g]
        BY <1>0, <2>2, <3>3
      <4>2. Exclusive(items, Links) /\ items[a][f] # NULL /\ items[a][f] = items[b][g]
        BY <2>2, <4>1 DEF Chained
      <4> QED
        BY <4>2 DEF Exclusive
    <3> QED
      BY <3>2, <3>3
  <2>3. \E N \in Nat : DOMAIN items2 = 1..N
    BY <1>0 DEF Chained
  <2>4. Exclusive(items2, Links)
    BY <2>0, <2>2 DEF Exclusive
  <2> QED
    BY <2>0, <2>1, <2>3, <2>4 DEF Chained
<1>5. Filling(items2, calls2)
  <2>0. "child" \in Links /\ "next" \in Links
    BY DEF Links
  <2>1. \A a \in DOMAIN items : a <= calls[n].item => a \in DOMAIN items2 /\ items2[a].next = items[a].next
    <3>1. \A a \in DOMAIN items : items2[a]["next"] = items[a]["next"]
      BY <1>0, <2>0
    <3> QED
      BY <1>0, <3>1
  <2>2. \A a \in DOMAIN items : a < calls[n].item => items2[a].child = items[a].child
    <3>1. \A a \in DOMAIN items : a # item => items2[a]["child"] = items[a]["child"]
      BY <1>0, <2>0
    <3>2. \A a \in DOMAIN items : a < item => a # item
      BY <1>2, <1>3
    <3> QED
      BY <3>1, <3>2
  <2>3. Below(items, items2, calls[n].item)
    BY <2>1, <2>2 DEF Below
  <2> QED
    BY <2>3, Filled
<1>6. /\ Heads(calls2) \subseteq Heads(calls)
      /\ \A h \in Heads(calls) : h \in Heads(calls2) \/ (h = head /\ head # NULL)
      /\ \A h \in Heads(calls2) : h \in Nat /\ h <= item
  <2>1. ASSUME NEW k \in 1..(n - 1)
        PROVE  calls[k].head \in Nat /\ calls[k].head <= item
    <3>1. /\ calls[k].head \in Nat /\ calls[k].current \in Nat /\ calls[n].item \in Nat
          /\ calls[k].head <= calls[k].current /\ calls[k].current <= calls[n].item
      BY <1>1
    <3> QED
      BY <3>1
  <2> QED
    BY <1>1, <2>1
<1>7. Reached(items2, Heads(calls2))
  <2>1. ASSUME NEW b \in DOMAIN items
        PROVE  b = Root \/ b \in Heads(calls2) \/ \E a \in DOMAIN items : \E f \in Links : items2[a][f] = b
    <3>1. b = Root \/ b \in Heads(calls) \/ \E a \in DOMAIN items : \E f \in Links : items[a][f] = b
      BY DEF Reached
    <3>2. ASSUME b = head
          PROVE  \E a \in DOMAIN items : \E f \in Links : items2[a][f] = b
      <4>1. "child" \in Links
        BY DEF Links
      <4> QED
        BY <1>0, <1>2, <3>2, <4>1
    <3>3. ASSUME NEW a \in DOMAIN items, NEW f \in Links, items[a][f] = b
          PROVE  items2[a][f] = b
      <4>1. b # NULL
        BY DEF Chained, NULL
      <4> QED
        BY <1>0, <1>2, <3>3, <4>1
    <3> QED
      BY <1>6, <3>1, <3>2, <3>3
  <2>2. ASSUME NEW a \in DOMAIN items, NEW f \in Links, items2[a][f] # NULL, NEW h \in Heads(calls2)
        PROVE  items2[a][f] # h /\ (h < items2[a][f] => h <= a)
    <3>1. CASE a = item /\ f = "child"
      BY <1>0, <1>2, <1>3, <1>6, <2>2, <3>1
    <3>2. CASE ~(a = item /\ f = "child")
      <4>1. items2[a][f] = items[a][f] /\ h \in Heads(calls)
        BY <1>0, <1>6, <3>2
      <4> QED
        BY <2>2, <4>1 DEF Reached
    <3> QED
      BY <3>1, <3>2
  <2> QED
    BY <1>0, <2>1, <2>2 DEF Reached
<1> QED
  BY <1>4, <1>5, <1>7

(* The list is given up: all that is linked to from its head is behind it. *)
LEMMA ListDeleted ==
    ASSUME NEW m, NEW T, NEW calls \in Seq(T), calls # <<>>, ForestOf(m, calls),
           NEW n, n = Len(calls), NEW head, head = calls[n].head, head # NULL,
           NEW calls2, calls2 = SubSeq(calls, 1, n - 1), NEW m2, m2 = cJSON_Delete(m, head)
    PROVE  ForestOf(m2, calls2) /\ Root \in DOMAIN m2.items
<1> DEFINE items == m.items
           items2 == [b \in Kept(m, head) |-> m.items[b]]
           strings2 == [b \in KeptTexts(m, head) |-> m.strings[b]]
<1>0. /\ m.faults = {} /\ Chained(m.items) /\ Owned(m.items, m.strings) /\ Filling(m.items, calls)
      /\ Reached(m.items, Heads(calls))
  BY DEF ForestOf
<1>1. /\ n \in Nat /\ n # 0 /\ n \in DOMAIN calls /\ DOMAIN calls = 1..n
      /\ \A k \in 1..(n - 1) : /\ calls[k].head # NULL /\ calls[k].item \in Nat /\ calls[k].head \in Nat
                               /\ calls[k].current \in Nat /\ calls[n].item \in Nat
                               /\ calls[k].item < calls[k].head /\ calls[k].head <= calls[k].current
                               /\ calls[k].current <= calls[n].item
      /\ Heads(SubSeq(calls, 1, n - 1)) = {calls[k].head : k \in 1..(n - 1)}
      /\ Heads(calls) = Heads(SubSeq(calls, 1, n - 1)) \cup ({calls[n].head} \ {NULL})
  <2>1. OnTop(calls, n)
    BY <1>0, TopLast
  <2> QED
    BY <2>1 DEF OnTop
<1>2. /\ calls[n].item \in DOMAIN items /\ head \in DOMAIN items /\ calls[n].item < head
  BY <1>0, <1>1 DEF Filling
<1>3. PICK N \in Nat : DOMAIN items = 1..N
  BY <1>0 DEF Chained
<1>4. \A a \in 1..N : \A f \in Links : items[a][f] # NULL => items[a][f] \in 1..N /\ a < items[a][f]
  BY <1>0, <1>3 DEF Chained
<1>5. /\ \A b \in 1..N : b = Root \/ b \in Heads(calls) \/ \E a \in 1..N : \E f \in Links : items[a][f] = b
      /\ \A a \in 1..N : \A f \in Links : items[a][f] # NULL =>
            \A h \in Heads(calls) : items[a][f] # h /\ (h < items[a][f] => h <= a)
  BY <1>0, <1>3 DEF Reached
<1>6. /\ head \in Heads(calls) /\ Heads(calls2) \subseteq Heads(calls)
      /\ \A h \in Heads(calls) : h = head \/ h \in Heads(calls2)
      /\ \A h \in Heads(calls2) : h \in Nat /\ h < head
  <2>1. ASSUME NEW k \in 1..(n - 1)
        PROVE  calls[k].head \in Nat /\ calls[k].head < head
    <3>1. /\ calls[k].head \in Nat /\ calls[k].current \in Nat /\ calls[n].item \in Nat
          /\ calls[k].head <= calls[k].current /\ calls[k].current <= calls[n].item
      BY <1>1
    <3>2. calls[n].item < head /\ head \in Nat
      BY <1>2, <1>3
    <3> QED
      BY <3>1, <3>2
  <2> QED
    BY <1>1, <2>1
<1>7. m2 = [items |-> items2, strings |-> strings2, faults |-> {}]
  <2>1. ASSUME NEW b \in DOMAIN items, head < b
        PROVE  \E a \in DOMAIN items : head <= a /\ \E f \in Links : items[a][f] = b
    <3>1. b # Root /\ b \notin Heads(calls)
      BY <1>2, <1>3, <1>6, <2>1 DEF Root
    <3>2. PICK a \in 1..N, f \in Links : items[a][f] = b
      BY <1>3, <1>5, <2>1, <3>1
    <3>3. b # NULL
      BY <1>3, <2>1 DEF NULL
    <3> QED
      BY <1>3, <1>5, <1>6, <2>1, <3>2, <3>3
  <2> QED
    BY <1>0, <1>2, <2>1, DeletesTheRest
<1>8. /\ DOMAIN m2 = {"items", "strings", "faults"} /\ m2.faults = {}
      /\ m2.items = items2 /\ m2.strings = strings2
  <2> HIDE DEF items2, strings2
  <2> QED
    BY <1>7
<1>9. /\ DOMAIN items2 = 1..(head - 1) /\ head - 1 \in Nat /\ head \in 1..N
      /\ \A a \in 1..(head - 1) : a \in 1..N /\ items2[a] = items[a] /\ a < head
  <2>1. Kept(m, head) = 1..(head - 1) /\ head - 1 \in Nat /\ head \in 1..N
    BY <1>2, <1>3 DEF Kept
  <2> QED
    BY <2>1
<1>10. DOMAIN strings2 = KeptTexts(m, head)
  OBVIOUS
<1>11. Heads(calls2) = Heads(SubSeq(calls, 1, n - 1))
  OBVIOUS
<1> HIDE DEF items2, strings2
<1>12. \A a \in 1..(head - 1) : \A f \in Links : items[a][f] # NULL => items[a][f] \in 1..(head - 1)
  <2> SUFFICES ASSUME NEW a \in 1..(head - 1), NEW f \in Links, items[a][f] # NULL
               PROVE  items[a][f] \in 1..(head - 1)
    OBVIOUS
  <2>1. a \in 1..N /\ a < head /\ items[a][f] \in 1..N
    BY <1>4, <1>9
  <2>2. items[a][f] # head /\ (head < items[a][f] => head <= a)
    BY <1>5, <1>6, <2>1
  <2> QED
    BY <1>9, <2>1, <2>2
<1>13. Chained(items2)
  <2>1. \A a \in 1..(head - 1) : Whole(items2[a])
    BY <1>0, <1>3, <1>9 DEF Chained
  <2>2. \A a \in 1..(head - 1) : \A f \in Links :
            items2[a][f] # NULL => items2[a][f] \in 1..(head - 1) /\ a < items2[a][f]
    BY <1>4, <1>9, <1>12
  <2>3. Exclusive(items2, Links)
    <3>1. Exclusive(items, Links)
      BY <1>0 DEF Chained
    <3> QED
      BY <1>3, <1>9, <3>1 DEF Exclusive
  <2> QED
    BY <1>9, <2>1, <2>2, <2>3 DEF Chained
<1>14. Owned(items2, strings2)
  <2>1. KeptTexts(m, head) \subseteq DOMAIN m.strings
    BY DEF KeptTexts
  <2>2. IsFiniteSet(DOMAIN strings2) /\ DOMAIN strings2 \subseteq Nat \ {0}
    BY <1>0, <1>10, <2>1, FS_Subset DEF Owned
  <2>3. Exclusive(items, Texts)
    BY <1>0 DEF Owned
  <2>4. Exclusive(items2, Texts)
    BY <1>3, <1>9, <2>3 DEF Exclusive
  <2>5. ASSUME NEW a \in 1..(head - 1), NEW f \in Texts, items2[a][f] # NULL
        PROVE  items2[a][f] \in DOMAIN strings2
    <3>1. a \in DOMAIN items /\ items2[a][f] = items[a][f] /\ a < head
      BY <1>3, <1>9
    <3>2. items[a][f] \in DOMAIN m.strings
      BY <1>0, <2>5, <3>1 DEF Owned
    <3>3. \A b \in DOMAIN items : \A g \in Texts : items[b][g] = items[a][f] => b = a
      BY <2>3, <2>5, <3>1 DEF Exclusive
    <3>4. ~(head <= a)
      BY <1>9, <3>1
    <3> QED
      BY <1>10, <3>1, <3>2, <3>3, <3>4 DEF KeptTexts
  <2>6. ASSUME NEW b \in DOMAIN strings2
        PROVE  \E a \in 1..(head - 1) : \E f \in Texts : items2[a][f] = b
    <3>1. b \in DOMAIN m.strings
      BY <1>10, <2>1
    <3>2. PICK a \in DOMAIN items, f \in Texts : items[a][f] = b
      BY <1>0, <3>1 DEF Owned
    <3>3. ~(head <= a)
      BY <1>10, <3>2 DEF KeptTexts
    <3>4. a \in 1..(head - 1)
      BY <1>3, <1>9, <3>3
    <3> QED
      BY <1>9, <3>2, <3>4
  <2> QED
    BY <1>9, <2>2, <2>4, <2>5, <2>6 DEF Owned
<1>15. Filling(items2, calls2)
  <2>1. \A a \in DOMAIN items : a <= calls[n].item => a \in DOMAIN items2 /\ items2[a].next = items[a].next
                                                       /\ items2[a].child = items[a].child
    <3>1. \A a \in DOMAIN items : a <= calls[n].item => a \in 1..(head - 1)
      BY <1>2, <1>3
    <3> QED
      BY <1>9, <3>1
  <2>2. \A a \in DOMAIN items : a < calls[n].item => a <= calls[n].item
    BY <1>2, <1>3
  <2>3. Below(items, items2, calls[n].item)
    BY <2>1, <2>2 DEF Below
  <2> QED
    BY <1>0, <2>3, Filled
<1>16. Reached(items2, Heads(calls2))
  <2>1. ASSUME NEW b \in 1..(head - 1)
        PROVE  b = Root \/ b \in Heads(calls2) \/ \E a \in 1..(head - 1) : \E f \in Links : items2[a][f] = b
    <3>1. b \in 1..N /\ b < head
      BY <1>9
    <3>2. ASSUME NEW a \in 1..N, NEW f \in Links, items[a][f] = b
          PROVE  a \in 1..(head - 1) /\ items2[a][f] = b
      <4>1. a < b
        BY <1>4, <3>2 DEF NULL
      <4>2. a \in 1..(head - 1)
        BY <1>9, <3>1, <4>1
      <4> QED
        BY <1>9, <3>2, <4>2
    <3>3. b # head
      BY <1>9, <3>1
    <3>4. CASE \E a \in 1..N : \E f \in Links : items[a][f] = b
      <4>1. PICK a \in 1..N, f \in Links : items[a][f] = b
        BY <3>4
      <4>2. a \in 1..(head - 1) /\ items2[a][f] = b
        BY <3>2, <4>1
      <4> QED
        BY <4>2
    <3>5. CASE b \in Heads(calls)
      BY <1>6, <3>3, <3>5
    <3>6. b = Root \/ b \in Heads(calls) \/ \E a \in 1..N : \E f \in Links : items[a][f] = b
      BY <1>5, <3>1
    <3> QED
      BY <3>4, <3>5, <3>6
  <2>2. \A a \in 1..(head - 1) : \A f \in Links : items2[a][f] # NULL =>
            \A h \in Heads(calls2) : items2[a][f] # h /\ (h < items2[a][f] => h <= a)
    <3> SUFFICES ASSUME NEW a \in 1..(head - 1), NEW f \in Links, items2[a][f] # NULL,
                        NEW h \in Heads(calls2)
                 PROVE  items2[a][f] # h /\ (h < items2[a][f] => h <= a)
      OBVIOUS
    <3>1. a \in 1..N /\ items2[a] = items[a]
      BY <1>9
    <3>2. h \in Heads(calls)
      BY <1>6
    <3>3. items[a][f] # NULL
      BY <3>1
    <3>4. items[a][f] # h /\ (h < items[a][f] => h <= a)
      BY <1>5, <3>1, <3>2, <3>3
    <3> QED
      BY <3>1, <3>4
  <2> QED
    BY <1>9, <2>1, <2>2 DEF Reached
<1>17. Root \in DOMAIN items2
  BY <1>2, <1>3, <1>9 DEF Root
<1> QED
  BY <1>8, <1>13, <1>14, <1>15, <1>16, <1>17 DEF ForestOf

-----------------------------------------------------------------------------
(* Items and strings are allocated *)

(* Before the first item, and with the root allocated.                     *)
LEMMA NoItems == ForestOf(EmptyMemory, <<>>) /\ Root \notin DOMAIN EmptyMemory.items
<1> DEFINE none == <<>>
<1>1. /\ DOMAIN EmptyMemory = {"items", "strings", "faults"}
      /\ EmptyMemory.items = none /\ EmptyMemory.strings = none /\ EmptyMemory.faults = {}
      /\ DOMAIN none = {}
  BY DEF EmptyMemory
<1> HIDE DEF none
<1>2. Chained(none)
  <2>1. DOMAIN none = 1..0 /\ 0 \in Nat
    BY <1>1
  <2>2. \E N \in Nat : DOMAIN none = 1..N
    BY <2>1
  <2> QED
    BY <1>1, <2>2 DEF Chained, Exclusive
<1>3. Owned(none, none)
  BY <1>1, FS_EmptySet DEF Owned, Exclusive
<1>4. Filling(none, none)
  BY <1>1 DEF Filling
<1>5. \A heads : Reached(none, heads)
  BY <1>1 DEF Reached
<1>6. Root \notin DOMAIN none
  BY <1>1
<1> QED
  BY <1>1, <1>2, <1>3, <1>4, <1>5, <1>6 DEF ForestOf, none

LEMMA OneItem ==
    ASSUME NEW m, m = cJSON_New_Item(EmptyMemory)
    PROVE  /\ ForestOf(m, <<>>) /\ Root \in DOMAIN m.items
           /\ m.items[Root].child = NULL /\ m.items[Root].valuestring = NULL
<1> DEFINE none == <<>>
<1>1. /\ DOMAIN EmptyMemory = {"items", "strings", "faults"}
      /\ EmptyMemory.items = none /\ EmptyMemory.strings = none /\ EmptyMemory.faults = {}
      /\ DOMAIN none = {} /\ DOMAIN none = 1..0
  BY DEF EmptyMemory
<1> HIDE DEF none
<1>2. Free(none) = 1
  <2>1. 0 \in Nat /\ 0 + 1 = 1
    OBVIOUS
  <2> QED
    BY <1>1, <2>1, FreeIsNext
<1>3. /\ DOMAIN m = {"items", "strings", "faults"}
      /\ m.items = With(none, 1, Blank) /\ m.strings = none /\ m.faults = {}
  BY <1>1, <1>2 DEF cJSON_New_Item
<1>4. DOMAIN m.items = {1} /\ m.items[1] = Blank /\ DOMAIN m.items = 1..1
  <2>1. DOMAIN With(none, 1, Blank) = {1} /\ With(none, 1, Blank)[1] = Blank
    BY <1>1 DEF With
  <2> QED
    BY <1>3, <2>1
<1>5. Whole(Blank) /\ (\A f \in Links : Blank[f] = NULL) /\ (\A f \in Texts : Blank[f] = NULL)
      /\ Blank.child = NULL /\ Blank.valuestring = NULL
  BY DEF Blank, Whole, Fields, Links, Texts
<1> HIDE DEF Blank
<1>6. Chained(m.items)
  <2>1. \E N \in Nat : DOMAIN m.items = 1..N
    BY <1>4
  <2> QED
    BY <1>4, <1>5, <2>1 DEF Chained, Exclusive
<1>7. Owned(m.items, m.strings)
  BY <1>1, <1>3, <1>4, <1>5, FS_EmptySet DEF Owned, Exclusive
<1>8. Filling(m.items, none)
  BY <1>1 DEF Filling
<1>9. \A heads : Reached(m.items, heads)
  BY <1>4, <1>5 DEF Reached, Root
<1> QED
  BY <1>3, <1>4, <1>5, <1>6, <1>7, <1>8, <1>9 DEF ForestOf, none, Root

(* Another value in an item.                                               *)
LEMMA Relabelled ==
    ASSUME NEW m, NEW calls, ForestOf(m, calls),
           NEW t \in DOMAIN m.items, NEW item, Whole(item),
           \A f \in Links \cup Texts : item[f] = m.items[t][f],
           NEW m2, m2 = [m EXCEPT !.items[t] = item]
    PROVE  ForestOf(m2, calls) /\ DOMAIN m2.items = DOMAIN m.items
<1>1. /\ DOMAIN m2 = {"items", "strings", "faults"} /\ m2.faults = {} /\ m2.strings = m.strings
      /\ m2.items = [m.items EXCEPT ![t] = item]
  BY DEF ForestOf
<1>2. /\ DOMAIN m2.items = DOMAIN m.items
      /\ \A a \in DOMAIN m.items : m2.items[a] = IF a = t THEN item ELSE m.items[a]
  BY <1>1
<1>3. \A a \in DOMAIN m.items : \A f \in Links \cup Texts : m2.items[a][f] = m.items[a][f]
  BY <1>2
<1>4. Chained(m.items) /\ Owned(m.items, m.strings) /\ Filling(m.items, calls) /\ Reached(m.items, Heads(calls))
  BY DEF ForestOf
<1>5. \A a \in DOMAIN m.items : Whole(m2.items[a])
  BY <1>2, <1>4 DEF Chained
<1>6. Chained(m2.items) /\ Filling(m2.items, calls) /\ Reached(m2.items, Heads(calls))
  <2>1. \A a \in DOMAIN m.items : \A f \in Links : m2.items[a][f] = m.items[a][f]
    BY <1>3
  <2> QED
    BY <1>2, <1>4, <1>5, <2>1, SameLinks
<1>7. Owned(m2.items, m2.strings)
  <2>1. \A a \in DOMAIN m2.items : \A f \in Texts : m2.items[a][f] = TextOf(m.items, a, f)
    BY <1>2, <1>3 DEF TextOf
  <2> QED
    BY <1>1, <1>2, <1>4, <2>1, SameTexts
<1> QED
  BY <1>1, <1>2, <1>6, <1>7 DEF ForestOf

NamesItem(m, m2, t, item) == \E bytes : m2 = [NewString(m, bytes) EXCEPT !.items[t] = item]

(* A new string for an item that had none there.                           *)
LEMMA TextAdded ==
    ASSUME NEW m, NEW calls, ForestOf(m, calls),
           NEW t \in DOMAIN m.items, NEW g \in Texts, m.items[t][g] = NULL,
           NEW item, Whole(item), item[g] = Free(m.strings),
           \A f \in Links \cup Texts : f # g => item[f] = m.items[t][f],
           NEW m2, NamesItem(m, m2, t, item)
    PROVE  ForestOf(m2, calls) /\ DOMAIN m2.items = DOMAIN m.items /\ m2.items[t] = item
<1>0. PICK bytes : m2 = [NewString(m, bytes) EXCEPT !.items[t] = item]
  BY DEF NamesItem
<1>1. /\ DOMAIN m2 = {"items", "strings", "faults"} /\ m2.faults = {}
      /\ m2.strings = With(m.strings, Free(m.strings), bytes)
      /\ m2.items = [m.items EXCEPT ![t] = item]
  <2>1. DOMAIN m = {"items", "strings", "faults"} /\ m.faults = {}
    BY DEF ForestOf
  <2> DEFINE ms == NewString(m, bytes)
  <2>2. /\ DOMAIN ms = {"items", "strings", "faults"} /\ ms.faults = {} /\ ms.items = m.items
        /\ ms.strings = With(m.strings, Free(m.strings), bytes)
    BY <2>1 DEF NewString
  <2>3. m2 = [ms EXCEPT !.items[t] = item]
    BY <1>0
  <2> HIDE DEF ms
  <2> QED
    BY <2>2, <2>3
<1>2. /\ DOMAIN m2.items = DOMAIN m.items /\ m2.items[t] = item
      /\ \A a \in DOMAIN m.items : m2.items[a] = IF a = t THEN item ELSE m.items[a]
  BY <1>1
<1>4. Chained(m.items) /\ Owned(m.items, m.strings) /\ Filling(m.items, calls) /\ Reached(m.items, Heads(calls))
  BY DEF ForestOf
<1>5. \A a \in DOMAIN m.items : Whole(m2.items[a])
  BY <1>2, <1>4 DEF Chained
<1>6. Chained(m2.items) /\ Filling(m2.items, calls) /\ Reached(m2.items, Heads(calls))
  <2>1. \A a \in DOMAIN m.items : \A f \in Links : m2.items[a][f] = m.items[a][f]
    <3>1. \A f \in Links : f # g
      BY DEF Links, Texts
    <3> QED
      BY <1>2, <3>1
  <2> QED
    BY <1>2, <1>4, <1>5, <2>1, SameLinks
<1>7. Owned(m2.items, m2.strings)
  <2>1. Free(m.strings) \in Nat \ {0} /\ Free(m.strings) \notin DOMAIN m.strings
    BY <1>4, FreeIsFree DEF Owned
  <2>2. DOMAIN m2.strings = DOMAIN m.strings \cup {Free(m.strings)}
    BY <1>1 DEF With
  <2>3. \A a \in DOMAIN m2.items : \A f \in Texts : a # t \/ f # g => m2.items[a][f] = TextOf(m.items, a, f)
    BY <1>2 DEF TextOf
  <2>4. TextOf(m.items, t, g) = NULL /\ m2.items[t][g] = Free(m.strings) /\ t \in DOMAIN m2.items
    BY <1>2 DEF TextOf
  <2>5. DOMAIN m.items \subseteq DOMAIN m2.items
    BY <1>2
  <2> QED
    BY <1>4, <2>1, <2>2, <2>3, <2>4, <2>5, OneMoreText
<1> QED
  BY <1>1, <1>2, <1>6, <1>7 DEF ForestOf

(* The whole of what parse_array and parse_object do for a new item: it is *)
(* allocated, linked both ways with the current one, and becomes current.  *)
LEMMA ItemAttached ==
    ASSUME ForestOf(mem, frames), IsSequence(frames), frames # <<>>, NEW new, new = Free(mem.items)
    PROVE  /\ ForestOf(Attached, AttachedFrames)
           /\ DOMAIN mem.items \subseteq DOMAIN Attached.items /\ new \in DOMAIN Attached.items
           /\ Attached.strings = mem.strings
           /\ Attached.items[new].child = NULL /\ Attached.items[new].valuestring = NULL
           /\ Attached.items[new].string = NULL
           /\ Len(AttachedFrames) = Len(frames) /\ AttachedFrames # <<>>
           /\ AttachedFrames[Len(frames)].current = new
<1> DEFINE items == mem.items
           n == Len(frames)
           head == frames[n].head
           cur == frames[n].current
           blank == cJSON_New_Item(mem)
           items2 == Attached.items
<1>0. /\ DOMAIN mem = {"items", "strings", "faults"} /\ mem.faults = {}
      /\ Chained(items) /\ Owned(items, mem.strings) /\ Filling(items, frames) /\ Reached(items, Heads(frames))
  BY DEF ForestOf
<1>1. PICK N \in Nat : DOMAIN items = 1..N
  BY <1>0 DEF Chained
<1>2. new = N + 1 /\ N + 1 \in Nat
  BY <1>1, FreeIsNext
<1>3. /\ DOMAIN blank = {"items", "strings", "faults"} /\ blank.faults = {} /\ blank.strings = mem.strings
      /\ blank.items = With(items, new, Blank)
  BY <1>0 DEF cJSON_New_Item
<1>4. DOMAIN blank.items = 1..(N + 1) /\ blank.items[N + 1] = Blank
      /\ \A a \in 1..N : blank.items[a] = items[a]
  <2>1. DOMAIN With(items, new, Blank) = DOMAIN items \cup {new} /\ With(items, new, Blank)[new] = Blank
        /\ \A a \in DOMAIN items : a # new => With(items, new, Blank)[a] = items[a]
    BY DEF With
  <2>2. (1..N) \cup {N + 1} = 1..(N + 1) /\ \A a \in 1..N : a # N + 1
    OBVIOUS
  <2> QED
    BY <1>1, <1>2, <1>3, <2>1, <2>2
<1>5. /\ Whole(Blank) /\ (\A f \in Links : Blank[f] = NULL) /\ (\A f \in Texts : Blank[f] = NULL)
      /\ DOMAIN Blank = Fields
  BY DEF Blank, Whole, Fields, Links, Texts
<1>6. n \in Nat /\ n # 0 /\ n \in DOMAIN frames /\ frames \in Seq({frames[k] : k \in DOMAIN frames})
      /\ Top = frames[n]
  BY DEF IsSequence, Top
<1>7. head # NULL => cur \in 1..N
  BY <1>0, <1>1, <1>6 DEF Filling
<1>8. \A a \in 1..N : Whole(items[a])
  BY <1>0, <1>1 DEF Chained
<1>9. Attached = IF head = NULL THEN blank
                 ELSE [blank EXCEPT !.items[cur].next = new, !.items[new].prev = cur]
  BY <1>6 DEF Attached
<1> HIDE DEF blank, Blank, head, cur, n
<1>10. /\ DOMAIN Attached = {"items", "strings", "faults"}
       /\ Attached.faults = {} /\ Attached.strings = mem.strings
       /\ DOMAIN items2 = 1..(N + 1)
       /\ \A a \in 1..(N + 1) : DOMAIN items2[a] = DOMAIN blank.items[a]
       /\ \A a \in 1..(N + 1) : \A f \in Fields \ {"prev"} :
             items2[a][f] = IF head # NULL /\ a = cur /\ f = "next" THEN N + 1 ELSE blank.items[a][f]
  <2>1. CASE head = NULL
    BY <1>3, <1>4, <1>9, <2>1
  <2>2. CASE head # NULL
    <3> DEFINE linked == [blank EXCEPT !.items[cur].next = new]
               both == [linked EXCEPT !.items[new].prev = cur]
    <3>1. Attached = both
      BY <1>9, <2>2
    <3>2. /\ DOMAIN linked = {"items", "strings", "faults"}
          /\ linked.faults = {} /\ linked.strings = mem.strings
          /\ linked.items = [blank.items EXCEPT ![cur].next = new]
      BY <1>3
    <3> HIDE DEF linked
    <3>3. /\ cur \in 1..(N + 1) /\ DOMAIN linked.items = 1..(N + 1)
          /\ linked.items[cur] = [blank.items[cur] EXCEPT !.next = new]
          /\ \A a \in 1..(N + 1) : a # cur => linked.items[a] = blank.items[a]
      <4>1. cur \in 1..(N + 1)
        BY <1>7, <2>2
      <4> QED
        BY <1>4, <3>2, <4>1
    <3>4. DOMAIN blank.items[cur] = Fields /\ "next" \in Fields
      BY <1>4, <1>7, <1>8, <2>2 DEF Whole, Fields, Links
    <3>5. DOMAIN linked.items[cur] = Fields /\ linked.items[cur]["next"] = new
          /\ \A f \in Fields : f # "next" => linked.items[cur][f] = blank.items[cur][f]
      BY <3>3, <3>4
    <3>6. /\ DOMAIN both = {"items", "strings", "faults"} /\ both.faults = {} /\ both.strings = mem.strings
          /\ both.items = [linked.items EXCEPT ![new].prev = cur]
      BY <3>2
    <3>7. /\ DOMAIN both.items = 1..(N + 1)
          /\ both.items[new] = [linked.items[new] EXCEPT !.prev = cur]
          /\ \A a \in 1..(N + 1) : a # new => both.items[a] = linked.items[a]
      BY <1>2, <3>3, <3>6
    <3>8. DOMAIN both.items[new] = DOMAIN linked.items[new]
          /\ \A f \in Fields \ {"prev"} :
                 DOMAIN linked.items[new] = Fields => both.items[new][f] = linked.items[new][f]
      BY <3>7
    <3>9. DOMAIN linked.items[new] = Fields
      BY <1>2, <1>4, <1>5, <3>3, <3>5
    <3> HIDE DEF both
    <3>10. \A a \in 1..(N + 1) : DOMAIN both.items[a] = DOMAIN blank.items[a]
      BY <1>2, <3>3, <3>4, <3>5, <3>7, <3>8
    <3>11. \A a \in 1..(N + 1) : \A f \in Fields \ {"prev"} :
             both.items[a][f] = IF a = cur /\ f = "next" THEN N + 1 ELSE blank.items[a][f]
      <4>1. \A a \in 1..(N + 1) : \A f \in Fields \ {"prev"} : both.items[a][f] = linked.items[a][f]
        BY <3>7, <3>8, <3>9
      <4>2. \A a \in 1..(N + 1) : \A f \in Fields \ {"prev"} :
              linked.items[a][f] = IF a = cur /\ f = "next" THEN N + 1 ELSE blank.items[a][f]
        BY <1>2, <3>3, <3>5
      <4> QED
        BY <4>1, <4>2
    <3>12. items2 = both.items
      BY <3>1
    <3> HIDE DEF items2
    <3>13. \A a \in 1..(N + 1) : \A f \in Fields \ {"prev"} :
             items2[a][f] = IF head # NULL /\ a = cur /\ f = "next" THEN N + 1 ELSE blank.items[a][f]
      BY <2>2, <3>11, <3>12
    <3>14. DOMAIN items2 = 1..(N + 1) /\ \A a \in 1..(N + 1) : DOMAIN items2[a] = DOMAIN blank.items[a]
      BY <3>7, <3>10, <3>12
    <3> QED
      BY <3>1, <3>6, <3>13, <3>14
  <2> QED
    BY <2>1, <2>2
<1>11. \A f \in Links \cup Texts : f \in Fields \ {"prev"}
  BY DEF Links, Texts, Fields
<1>12. \A a \in 1..(N + 1) : a \in 1..N \/ a = N + 1
  OBVIOUS
<1>13. \A a \in 1..(N + 1) : Whole(items2[a])
  <2>1. \A a \in 1..(N + 1) : Whole(blank.items[a])
    BY <1>4, <1>5, <1>8, <1>12
  <2>2. "reference" \in Fields \ {"prev"} /\ "constant" \in Fields \ {"prev"}
    BY DEF Fields
  <2>3. \A a \in 1..(N + 1) : items2[a]["reference"] = blank.items[a]["reference"]
                           /\ items2[a]["constant"] = blank.items[a]["constant"]
    BY <1>10, <2>2
  <2> QED
    BY <1>10, <2>1, <2>3 DEF Whole
<1>14. \A f \in Links : items2[N + 1][f] = NULL
  <2>1. head # NULL => cur # N + 1
    BY <1>7
  <2>2. N + 1 \in 1..(N + 1)
    OBVIOUS
  <2> QED
    BY <1>4, <1>5, <1>10, <1>11, <2>1, <2>2
<1>15. \A a \in 1..N : \A f \in Links :
           items2[a][f] = IF head # NULL /\ a = cur /\ f = "next" THEN N + 1 ELSE items[a][f]
  <2>1. \A a \in 1..N : a \in 1..(N + 1)
    OBVIOUS
  <2> QED
    BY <1>4, <1>10, <1>11, <2>1
<1>16. \A a \in 1..(N + 1) : \A f \in Texts : items2[a][f] = TextOf(items, a, f)
  <2>1. \A f \in Texts : f # "next" /\ f \in Fields \ {"prev"}
    BY <1>11 DEF Texts
  <2>2. \A a \in 1..(N + 1) : \A f \in Texts : items2[a][f] = blank.items[a][f]
    BY <1>10, <2>1
  <2>3. N + 1 \notin 1..N
    OBVIOUS
  <2> QED
    BY <1>1, <1>4, <1>5, <1>12, <2>2, <2>3 DEF TextOf
<1>17. Appends(frames, AttachedFrames, n, N + 1)
  BY <1>2, <1>6 DEF AttachedFrames, Appends, n
<1> HIDE DEF items2
<1>18. /\ Chained(items2) /\ Filling(items2, AttachedFrames) /\ Reached(items2, Heads(AttachedFrames))
       /\ AttachedFrames[n].current = N + 1
  <2> DEFINE T == {frames[k] : k \in DOMAIN frames}
  <2>1. /\ n = Len(frames) /\ head = frames[n].head /\ cur = frames[n].current
        /\ frames \in Seq(T)
    BY <1>6 DEF n, head, cur
  <2> HIDE DEF T
  <2>2. Extended(items, items2, N, head, cur)
    BY <1>10, <1>13, <1>14, <1>15 DEF items2, Extended
  <2>3. /\ N \in Nat /\ DOMAIN items = 1..N /\ Chained(items) /\ Filling(items, frames)
        /\ Reached(items, Heads(frames))
    BY <1>0, <1>1
  <2> HIDE DEF items
  <2>4. Chained(items2)
    BY <1>17, <2>1, <2>2, <2>3, OneMoreItem
  <2>5. Filling(items2, AttachedFrames)
    BY <1>17, <2>1, <2>2, <2>3, OneMoreItem
  <2>6. Reached(items2, Heads(AttachedFrames))
    BY <1>17, <2>1, <2>2, <2>3, OneMoreItem
  <2>7. AttachedFrames[n].current = N + 1
    <3>1. n \in DOMAIN frames /\ "current" \in DOMAIN frames[n]
      BY <1>6, <2>3 DEF Filling
    <3> QED
      BY <1>17, <3>1 DEF Appends
  <2> QED
    BY <2>4, <2>5, <2>6, <2>7
<1>19. Owned(items2, mem.strings)
  <2>1. DOMAIN items \subseteq DOMAIN items2 /\ DOMAIN items2 = 1..(N + 1)
    BY <1>1, <1>10 DEF items2
  <2> QED
    BY <1>0, <1>16, <2>1, SameTexts
<1>20. N + 1 \in 1..(N + 1) /\ \A a \in 1..N : a \in 1..(N + 1)
  OBVIOUS
<1>21. items2[N + 1]["child"] = NULL /\ items2[N + 1]["valuestring"] = NULL /\ items2[N + 1]["string"] = NULL
  <2>1. "child" \in Links /\ "valuestring" \in Texts /\ "string" \in Texts /\ N + 1 \notin DOMAIN items
    BY <1>1 DEF Links, Texts
  <2> QED
    BY <1>14, <1>16, <1>20, <2>1 DEF TextOf
<1>22. Len(AttachedFrames) = n /\ AttachedFrames # <<>>
  <2>1. PICK x : AttachedFrames = [frames EXCEPT ![Len(frames)] = x]
    BY <1>17 DEF n, Appends
  <2> QED
    BY <2>1, PushedAndPopped DEF n
<1> QED
  BY <1>1, <1>2, <1>10, <1>18, <1>19, <1>20, <1>21, <1>22 DEF ForestOf, items2, n

-----------------------------------------------------------------------------
(* The steps of the parser *)

(* The steps that change values only, or nothing.                          *)
LEMMA ValueStep ==
    ASSUME LeakInv, pc = "value", UNCHANGED frames,
           \/ UNCHANGED mem /\ pc' = "failed"
           \/ ForestOf(mem', frames) /\ DOMAIN mem.items \subseteq DOMAIN mem'.items /\ Return(frames)
    PROVE  LeakInv'
<1>1. CASE UNCHANGED mem /\ pc' = "failed"
  BY <1>1 DEF LeakInv, Forest, Stage
<1>2. CASE ForestOf(mem', frames) /\ DOMAIN mem.items \subseteq DOMAIN mem'.items /\ Return(frames)
  <2>1. Root \in DOMAIN mem'.items
    BY <1>2 DEF LeakInv, Stage
  <2> QED
    BY <1>2, <2>1 DEF LeakInv, Forest, Stage, Return
<1> QED
  BY <1>1, <1>2

LEMMA TargetIsBlank ==
    ASSUME LeakInv, pc = "value"
    PROVE  /\ Target \in DOMAIN mem.items /\ Item = mem.items[Target] /\ Whole(Item) /\ DOMAIN Item = Fields
           /\ Item.child = NULL /\ Item.valuestring = NULL
           /\ ForestOf(mem, frames)
  BY DEF LeakInv, Stage, Forest, ForestOf, Chained, Whole, Item

(* type and valueint are no links and no strings.                          *)
Labels(item, item2) ==
    DOMAIN item2 = Fields /\ \A f \in Fields \ {"type", "valueint"} : item2[f] = item[f]

LEMMA Labelled ==
    ASSUME NEW item, Whole(item), NEW item2, Labels(item, item2)
    PROVE  Whole(item2) /\ \A f \in Links \cup Texts : item2[f] = item[f]
<1>1. "reference" \in Fields \ {"type", "valueint"} /\ "constant" \in Fields \ {"type", "valueint"}
  BY DEF Fields
<1>2. item2["reference"] = item["reference"] /\ item2["constant"] = item["constant"]
  BY <1>1 DEF Labels
<1>3. \A f \in Links \cup Texts : f \in Fields \ {"type", "valueint"}
  BY DEF Links, Texts, Fields
<1> QED
  BY <1>2, <1>3 DEF Whole, Labels

LEMMA ScalarStep ==
    ASSUME LeakInv, pc = "value",
           (\E word, type : ParseLiteral(word, type)) \/ ParseNumber \/ \E kind \in Containers : Empty(kind)
    PROVE  LeakInv'
<1>1. ASSUME NEW item, Whole(item), \A f \in Links \cup Texts : item[f] = Item[f],
             mem' = [mem EXCEPT !.items[Target] = item]
      PROVE  ForestOf(mem', frames) /\ DOMAIN mem'.items = DOMAIN mem.items
  BY <1>1, TargetIsBlank, Relabelled
<1>2. ASSUME NEW word, NEW type, ParseLiteral(word, type)
      PROVE  LeakInv'
  <2> DEFINE v == IF type = "True" THEN 1 ELSE Item.valueint
             item == [Item EXCEPT !.type = type, !.valueint = v]
  <2>0. Labels(Item, item)
    BY TargetIsBlank DEF Labels
  <2>2. mem' = [mem EXCEPT !.items[Target] = item]
    BY <1>2 DEF ParseLiteral, Update
  <2> HIDE DEF item
  <2>1. Whole(item) /\ \A f \in Links \cup Texts : item[f] = Item[f]
    BY <2>0, TargetIsBlank, Labelled
  <2>3. ForestOf(mem', frames) /\ DOMAIN mem'.items = DOMAIN mem.items
    BY <1>1, <2>1, <2>2
  <2>4. UNCHANGED frames /\ Return(frames)
    BY <1>2 DEF ParseLiteral
  <2> QED
    BY <2>3, <2>4, ValueStep
<1>3. CASE ParseNumber
  <2> DEFINE v == parse_number(text, offset).valueint
             item == [Item EXCEPT !.type = "Number", !.valueint = v]
  <2>0. Labels(Item, item)
    BY TargetIsBlank DEF Labels
  <2>2. \/ mem' = [mem EXCEPT !.items[Target] = item] /\ Return(frames)
        \/ UNCHANGED mem /\ pc' = "failed"
    BY <1>3 DEF ParseNumber, Update, Fail
  <2> HIDE DEF item
  <2>1. Whole(item) /\ \A f \in Links \cup Texts : item[f] = Item[f]
    BY <2>0, TargetIsBlank, Labelled
  <2>3. UNCHANGED frames
    BY <1>3 DEF ParseNumber
  <2>4. CASE mem' = [mem EXCEPT !.items[Target] = item] /\ Return(frames)
    <3>1. ForestOf(mem', frames) /\ DOMAIN mem'.items = DOMAIN mem.items
      BY <1>1, <2>1, <2>4
    <3> QED
      BY <2>3, <2>4, <3>1, ValueStep
  <2> QED
    BY <2>2, <2>3, <2>4, ValueStep
<1>4. ASSUME NEW kind \in Containers, Empty(kind)
      PROVE  LeakInv'
  <2> DEFINE item == [Item EXCEPT !.type = kind]
  <2>0. Labels(Item, item)
    BY TargetIsBlank DEF Labels
  <2>2. mem' = [mem EXCEPT !.items[Target] = item]
    BY <1>4 DEF Empty, Item
  <2> HIDE DEF item
  <2>1. Whole(item) /\ \A f \in Links \cup Texts : item[f] = Item[f]
    BY <2>0, TargetIsBlank, Labelled
  <2>3. ForestOf(mem', frames) /\ DOMAIN mem'.items = DOMAIN mem.items
    BY <1>1, <2>1, <2>2
  <2>4. UNCHANGED frames /\ Return(frames)
    BY <1>4 DEF Empty
  <2> QED
    BY <2>3, <2>4, ValueStep
<1> QED
  BY <1>2, <1>3, <1>4

LEMMA StringStep ==
    ASSUME LeakInv, ParseString
    PROVE  LeakInv'
<1> DEFINE bytes == parse_string(text, offset).bytes
           item == [Item EXCEPT !.type = "String", !.valuestring = Free(mem.strings)]
<1>0. pc = "value" /\ UNCHANGED frames
  BY DEF ParseString
<1>1. \/ mem' = [NewString(mem, bytes) EXCEPT !.items[Target] = item] /\ Return(frames)
      \/ UNCHANGED mem /\ pc' = "failed"
  BY DEF ParseString, Fail
<1>2. /\ Whole(item) /\ item["valuestring"] = Free(mem.strings)
      /\ \A f \in Links \cup Texts : f # "valuestring" => item[f] = mem.items[Target][f]
  <2>1. /\ DOMAIN Item = Fields /\ Whole(Item) /\ Item = mem.items[Target]
    BY <1>0, TargetIsBlank
  <2>3. "reference" \in Fields /\ "constant" \in Fields /\ "valuestring" \in Fields
    BY DEF Fields, Texts
  <2>2. \A f \in Links \cup Texts : f \in Fields /\ f # "type"
    BY DEF Links, Texts, Fields
  <2> QED
    BY <2>1, <2>2, <2>3 DEF Whole
<1> HIDE DEF item, bytes
<1>3. CASE mem' = [NewString(mem, bytes) EXCEPT !.items[Target] = item] /\ Return(frames)
  <2>1. "valuestring" \in Texts /\ mem.items[Target]["valuestring"] = NULL
    BY <1>0, TargetIsBlank DEF Texts
  <2>2. ForestOf(mem', frames) /\ DOMAIN mem'.items = DOMAIN mem.items
    <3>1. NamesItem(mem, mem', Target, item)
      BY <1>3 DEF NamesItem
    <3>2. Target \in DOMAIN mem.items /\ ForestOf(mem, frames)
      BY <1>0, TargetIsBlank
    <3> QED
      BY <1>2, <2>1, <3>1, <3>2, TextAdded
  <2> QED
    BY <1>0, <1>3, <2>2, ValueStep
<1> QED
  BY <1>0, <1>1, <1>3, ValueStep

LEMMA EnterStep ==
    ASSUME LeakInv, IsSequence(frames), NEW kind \in Containers, Enter(kind)
    PROVE  LeakInv'
<1> DEFINE call == [kind |-> kind, item |-> Target, head |-> NULL, current |-> NULL]
           n == Len(frames)
           T == {frames[k] : k \in DOMAIN frames}
<1>0. pc = "value" /\ UNCHANGED mem /\ frames' = Append(frames, call) /\ pc' \in {"element", "failed"}
  BY DEF Enter
<1>1. /\ Target \in DOMAIN mem.items /\ mem.items[Target].child = NULL /\ ForestOf(mem, frames)
      /\ Chained(mem.items) /\ Filling(mem.items, frames)
  BY <1>0, TargetIsBlank DEF ForestOf
<1>2. frames \in Seq(T) /\ DOMAIN frames = 1..n /\ n \in Nat
  BY DEF IsSequence
<1> HIDE DEF T
<1>3. 0 \notin DOMAIN mem.items /\ DOMAIN mem.items \subseteq Nat
  BY <1>1 DEF Chained
<1>4. ASSUME NEW k \in DOMAIN frames
      PROVE  frames[k].head # NULL /\ frames[k].current <= Target
  <2>1. frames # <<>> /\ Target = frames[n].current /\ n \in DOMAIN frames
    BY <1>2 DEF Target, Top
  <2>2. frames[n].head # NULL
    BY <1>1, <1>3, <2>1 DEF Filling, NULL
  <2>3. /\ frames[n].item \in Nat /\ frames[n].head \in Nat /\ frames[n].current \in Nat
        /\ frames[n].item < frames[n].head /\ frames[n].head <= frames[n].current
    BY <1>1, <1>3, <2>1, <2>2 DEF Filling
  <2>4. CASE k = n
    BY <2>1, <2>2, <2>3, <2>4
  <2>5. CASE k # n
    <3>1. k < n
      BY <1>2, <2>5
    <3>2. frames[k].head # NULL /\ frames[k].current <= frames[n].item
      BY <1>1, <2>1, <3>1 DEF Filling
    <3>3. frames[k].current \in Nat
      BY <1>1, <1>3, <3>2 DEF Filling
    <3> QED
      BY <2>1, <2>3, <3>2, <3>3
  <2> QED
    BY <2>4, <2>5
<1>5. Filling(mem.items, frames') /\ Heads(frames') = Heads(frames)
  <2>1. IsNewCall(call, Target)
    BY DEF IsNewCall
  <2> HIDE DEF call
  <2> QED
    BY <1>0, <1>1, <1>2, <1>4, <2>1, Entered
<1>6. ForestOf(mem', frames')
  BY <1>0, <1>1, <1>5 DEF ForestOf
<1>7. Root \in DOMAIN mem.items
  BY <1>0 DEF LeakInv, Stage
<1> QED
  BY <1>0, <1>6, <1>7 DEF LeakInv, Forest, Stage

LEMMA ElementsStep ==
    ASSUME LeakInv, IsSequence(frames), frames # <<>>, Element \/ Member
    PROVE  LeakInv'
<1> DEFINE new == Free(mem.items)
           n == Len(frames)
           item == [Attached.items[new] EXCEPT !.type = "String", !.string = Free(mem.strings)]
<1>0. pc = "element" /\ frames' = AttachedFrames /\ Root \in DOMAIN mem.items
  BY DEF Element, Member, LeakInv, Stage
<1>1. /\ ForestOf(Attached, AttachedFrames)
      /\ DOMAIN mem.items \subseteq DOMAIN Attached.items /\ new \in DOMAIN Attached.items
      /\ Attached.strings = mem.strings
      /\ Attached.items[new].child = NULL /\ Attached.items[new].valuestring = NULL
      /\ Attached.items[new].string = NULL
      /\ Len(AttachedFrames) = n /\ AttachedFrames # <<>>
      /\ AttachedFrames[n].current = new
  BY ItemAttached DEF LeakInv, Forest
<1>2. Target' = new
  BY <1>0, <1>1 DEF Target, Top
<1>3. ASSUME ForestOf(mem', AttachedFrames), DOMAIN mem'.items = DOMAIN Attached.items,
             mem'.items[new].child = NULL, mem'.items[new].valuestring = NULL,
             pc' \in {"value", "failed"}
      PROVE  LeakInv'
  BY <1>0, <1>1, <1>2, <1>3 DEF LeakInv, Forest, Stage, Item
<1>4. CASE mem' = Attached /\ pc' \in {"value", "failed"}
  BY <1>1, <1>3, <1>4
<1>5. CASE /\ \E bytes : mem' = [NewString(Attached, bytes) EXCEPT !.items[new] = item]
           /\ pc' \in {"value", "failed"}
  <2>1. PICK bytes : mem' = [NewString(Attached, bytes) EXCEPT !.items[new] = item]
    BY <1>5
  <2>2. Whole(Attached.items[new])
    BY <1>1 DEF ForestOf, Chained
  <2>3. /\ Whole(item) /\ item["string"] = Free(Attached.strings)
        /\ \A f \in Links \cup Texts : f # "string" => item[f] = Attached.items[new][f]
        /\ item.child = NULL /\ item.valuestring = NULL
    <3>1. /\ DOMAIN Attached.items[new] = Fields
      BY <2>2 DEF Whole
    <3>3. /\ "reference" \in Fields /\ "constant" \in Fields /\ "string" \in Fields
          /\ "child" \in Fields /\ "valuestring" \in Fields
      BY DEF Fields, Links, Texts
    <3>2. \A f \in Links \cup Texts : f \in Fields /\ f # "type"
      BY DEF Links, Texts, Fields
    <3> QED
      BY <1>1, <2>2, <3>1, <3>2, <3>3 DEF Whole
  <2> HIDE DEF item
  <2>4. "string" \in Texts /\ Attached.items[new]["string"] = NULL
    BY <1>1 DEF Texts
  <2> HIDE DEF new
  <2>5. ForestOf(mem', AttachedFrames) /\ DOMAIN mem'.items = DOMAIN Attached.items /\ mem'.items[new] = item
    <3>1. NamesItem(Attached, mem', new, item)
      BY <2>1 DEF NamesItem
    <3> QED
      BY <1>1, <2>3, <2>4, <3>1, TextAdded
  <2> QED
    BY <1>3, <1>5, <2>3, <2>5
<1>6. CASE Element
  <2>1. mem' = Attached /\ pc' = "value"
    BY <1>6 DEF Element
  <2> QED
    BY <1>4, <2>1
<1>7. CASE Member
  <2> DEFINE at  == buffer_skip_whitespace(text, offset + 1)
             s   == parse_string(text, at)
             named == [NewString(Attached, s.bytes) EXCEPT
                          !.items[new] = [@ EXCEPT !.type = "String", !.string = Free(mem.strings)]]
  <2>1. pc' \in {"value", "failed"} /\ (mem' = Attached \/ mem' = named)
    BY <1>7 DEF Member, Fail
  <2>2. named = [NewString(Attached, s.bytes) EXCEPT !.items[new] = item]
    <3>1. NewString(Attached, s.bytes).items = Attached.items
      <4>1. DOMAIN Attached = {"items", "strings", "faults"}
        BY <1>1 DEF ForestOf
      <4> QED
        BY <4>1 DEF NewString
    <3> QED
      BY <3>1
  <2> HIDE DEF named, item, s
  <2> QED
    BY <1>4, <1>5, <2>1, <2>2
<1> QED
  BY <1>6, <1>7

LEMMA EndStep ==
    ASSUME LeakInv, IsSequence(frames), frames # <<>>, EndOfContainer
    PROVE  LeakInv'
<1> DEFINE n == Len(frames)
           head == Top.head
           item == Top.item
           T == {frames[k] : k \in DOMAIN frames}
           closed == IF head = NULL THEN mem ELSE [mem EXCEPT !.items[head].prev = Top.current]
           items2 == mem'.items
<1>0. /\ pc = "more" /\ frames' = Pop /\ Return(Pop)
      /\ mem' = [closed EXCEPT !.items[item] = [@ EXCEPT !.type = Top.kind, !.child = head]]
  BY DEF EndOfContainer, Close
<1>1. /\ DOMAIN mem = {"items", "strings", "faults"} /\ mem.faults = {}
      /\ Chained(mem.items) /\ Owned(mem.items, mem.strings) /\ Filling(mem.items, frames)
      /\ Reached(mem.items, Heads(frames))
  BY DEF LeakInv, Forest, ForestOf
<1>2. frames \in Seq(T) /\ n \in DOMAIN frames /\ Top = frames[n]
  BY DEF IsSequence, Top
<1> HIDE DEF T
<1>3. item \in DOMAIN mem.items /\ (head # NULL => head \in DOMAIN mem.items)
  BY <1>1, <1>2 DEF Filling
<1>4. \A a \in DOMAIN mem.items : Whole(mem.items[a])
  BY <1>1 DEF Chained
<1> HIDE DEF head, item
<1>5. /\ DOMAIN closed = {"items", "strings", "faults"} /\ closed.faults = {} /\ closed.strings = mem.strings
      /\ DOMAIN closed.items = DOMAIN mem.items
      /\ \A a \in DOMAIN mem.items : DOMAIN closed.items[a] = Fields
      /\ \A a \in DOMAIN mem.items : \A f \in Fields \ {"prev"} : closed.items[a][f] = mem.items[a][f]
  <2>1. CASE head = NULL
    BY <1>1, <1>4, <2>1 DEF Whole
  <2>2. CASE head # NULL
    <3> DEFINE c == [mem EXCEPT !.items[head].prev = Top.current]
    <3>1. /\ DOMAIN c = {"items", "strings", "faults"} /\ c.faults = {} /\ c.strings = mem.strings
          /\ c.items = [mem.items EXCEPT ![head].prev = Top.current]
      BY <1>1
    <3>2. closed = c
      BY <2>2
    <3> HIDE DEF c, closed
    <3>3. /\ DOMAIN c.items = DOMAIN mem.items
          /\ c.items[head] = [mem.items[head] EXCEPT !.prev = Top.current]
          /\ \A a \in DOMAIN mem.items : a # head => c.items[a] = mem.items[a]
      BY <1>3, <2>2, <3>1
    <3>4. DOMAIN c.items[head] = Fields /\ \A f \in Fields \ {"prev"} : c.items[head][f] = mem.items[head][f]
      BY <1>3, <1>4, <2>2, <3>3 DEF Whole
    <3>5. \A a \in DOMAIN mem.items : DOMAIN c.items[a] = Fields
      BY <1>4, <3>3, <3>4 DEF Whole
    <3>6. \A a \in DOMAIN mem.items : \A f \in Fields \ {"prev"} : c.items[a][f] = mem.items[a][f]
      BY <3>3, <3>4
    <3> QED
      BY <3>1, <3>2, <3>3, <3>5, <3>6
  <2> QED
    BY <2>1, <2>2
<1> HIDE DEF closed
<1>6. /\ DOMAIN mem' = {"items", "strings", "faults"} /\ mem'.faults = {} /\ mem'.strings = mem.strings
      /\ items2 = [closed.items EXCEPT ![item] = [@ EXCEPT !.type = Top.kind, !.child = head]]
  BY <1>0, <1>5
<1> HIDE DEF items2
<1>7. /\ DOMAIN items2 = DOMAIN mem.items
      /\ items2[item] = [closed.items[item] EXCEPT !.type = Top.kind, !.child = head]
      /\ \A a \in DOMAIN mem.items : a # item => items2[a] = closed.items[a]
  BY <1>3, <1>5, <1>6
<1>8. /\ DOMAIN items2[item] = Fields /\ items2[item]["child"] = head
      /\ \A f \in Fields \ {"type", "child"} : items2[item][f] = closed.items[item][f]
  <2>1. DOMAIN closed.items[item] = Fields /\ "child" \in Fields /\ "type" \in Fields
    BY <1>3, <1>5 DEF Fields, Links
  <2> QED
    BY <1>7, <2>1
<1>9. \A a \in DOMAIN mem.items : \A f \in Fields \ {"type", "child", "prev"} : items2[a][f] = mem.items[a][f]
  <2>1. ASSUME NEW a \in DOMAIN mem.items, NEW f \in Fields \ {"type", "child", "prev"}
        PROVE  items2[a][f] = mem.items[a][f]
    <3>1. f \in Fields \ {"prev"} /\ f \in Fields \ {"type", "child"}
      OBVIOUS
    <3>2. closed.items[a][f] = mem.items[a][f]
      BY <1>5, <3>1
    <3>3. items2[a][f] = closed.items[a][f]
      BY <1>7, <1>8, <3>1
    <3> QED
      BY <3>2, <3>3
  <2> QED
    BY <2>1
<1>10. \A a \in DOMAIN mem.items : a # item => items2[a]["child"] = mem.items[a]["child"]
  <2>1. "child" \in Fields \ {"prev"}
    BY DEF Fields, Links
  <2> QED
    BY <1>5, <1>7, <2>1
<1>11. \A a \in DOMAIN mem.items : Whole(items2[a])
  <2>1. "reference" \in Fields \ {"type", "child", "prev"} /\ "constant" \in Fields \ {"type", "child", "prev"}
    BY DEF Fields
  <2>2. \A a \in DOMAIN mem.items : items2[a]["reference"] = mem.items[a]["reference"]
                                 /\ items2[a]["constant"] = mem.items[a]["constant"]
    BY <1>9, <2>1
  <2>3. \A a \in DOMAIN mem.items : DOMAIN items2[a] = Fields
    BY <1>5, <1>7, <1>8
  <2> QED
    BY <1>4, <2>2, <2>3 DEF Whole
<1>12. \A a \in DOMAIN mem.items : \A f \in Links :
           items2[a][f] = IF a = item /\ f = "child" THEN head ELSE mem.items[a][f]
  <2>1. \A f \in Links : f = "child" \/ f \in Fields \ {"type", "child", "prev"}
    BY DEF Links, Fields
  <2>2. item \in DOMAIN mem.items /\ items2[item]["child"] = head
    BY <1>3, <1>8
  <2> QED
    BY <1>9, <1>10, <2>1, <2>2
<1>13. \A a \in DOMAIN items2 : \A f \in Texts : items2[a][f] = TextOf(mem.items, a, f)
  <2>1. \A f \in Texts : f \in Fields \ {"type", "prev", "child"}
    BY DEF Texts, Fields
  <2> QED
    BY <1>7, <1>9, <2>1 DEF TextOf
<1>14. Owned(items2, mem.strings)
  <2>1. DOMAIN mem.items \subseteq DOMAIN items2
    BY <1>7
  <2> QED
    BY <1>1, <1>13, <2>1, SameTexts
<1>15. Chained(items2) /\ Filling(items2, Pop) /\ Reached(items2, Heads(Pop))
  <2>1. head = frames[n].head /\ item = frames[n].item /\ Pop = SubSeq(frames, 1, n - 1) /\ n = Len(frames)
    BY <1>2 DEF head, item, Pop
  <2> HIDE DEF n
  <2>2. Hangs(mem.items, items2, item, head)
    BY <1>7, <1>11, <1>12 DEF Hangs
  <2> QED
    BY <1>1, <1>2, <2>1, <2>2, ListClosed
<1>16. ForestOf(mem', Pop)
  BY <1>6, <1>14, <1>15 DEF ForestOf, items2
<1>17. Root \in DOMAIN mem'.items
  BY <1>0, <1>7 DEF LeakInv, Stage, items2
<1> QED
  BY <1>0, <1>16, <1>17 DEF LeakInv, Forest, Stage, Return

LEMMA AbandonStep ==
    ASSUME LeakInv, IsSequence(frames), Abandon
    PROVE  LeakInv'
<1> DEFINE n == Len(frames)
           head == Top.head
           T == {frames[k] : k \in DOMAIN frames}
<1>0. /\ pc = "failed" /\ pc' = "failed" /\ frames # <<>> /\ frames' = Pop
      /\ mem' = IF head = NULL THEN mem ELSE cJSON_Delete(mem, head)
  BY DEF Abandon
<1>1. /\ DOMAIN mem = {"items", "strings", "faults"} /\ mem.faults = {}
      /\ Chained(mem.items) /\ Owned(mem.items, mem.strings) /\ Filling(mem.items, frames)
      /\ Reached(mem.items, Heads(frames))
  BY DEF LeakInv, Forest, ForestOf
<1>2. frames \in Seq(T) /\ n \in DOMAIN frames /\ head = frames[n].head /\ n = Len(frames)
      /\ Pop = SubSeq(frames, 1, n - 1)
  BY <1>0 DEF IsSequence, Top, Pop
<1>3. Root \in DOMAIN mem.items
  BY <1>0 DEF LeakInv, Stage
<1> HIDE DEF T, head, n
<1>4. CASE head = NULL
  <2>1. Below(mem.items, mem.items, frames[n].item)
    BY DEF Below
  <2>2. Filling(mem.items, Pop)
    BY <1>0, <1>1, <1>2, <2>1, Filled
  <2>3. OnTop(frames, n)
    BY <1>0, <1>1, <1>2, TopLast
  <2>4. Heads(Pop) = Heads(frames)
    BY <1>2, <1>4, <2>3 DEF OnTop
  <2>5. ForestOf(mem', frames')
    BY <1>0, <1>1, <1>4, <2>2, <2>4 DEF ForestOf
  <2> QED
    BY <1>0, <1>3, <1>4, <2>5 DEF LeakInv, Forest, Stage
<1>5. CASE head # NULL
  <2>1. mem' = cJSON_Delete(mem, head)
    BY <1>0, <1>5
  <2>2. ForestOf(mem, frames)
    BY DEF LeakInv, Forest
  <2>3. ForestOf(mem', Pop) /\ Root \in DOMAIN mem'.items
    BY <1>0, <1>2, <1>5, <2>1, <2>2, ListDeleted
  <2> QED
    BY <1>0, <2>3 DEF LeakInv, Forest, Stage
<1> QED
  BY <1>4, <1>5

(* Without a call in progress, deleting the root deletes everything.       *)
LEMMA AllDeleted ==
    ASSUME LeakInv, frames = <<>>, Root \in DOMAIN mem.items
    PROVE  cJSON_Delete(mem, Root) = EmptyMemory
<1>1. /\ mem.faults = {} /\ Chained(mem.items) /\ Owned(mem.items, mem.strings)
      /\ Reached(mem.items, Heads(frames))
  BY DEF LeakInv, Forest, ForestOf
<1>2. Heads(frames) = {}
  BY DEF Heads
<1>3. \A b \in DOMAIN mem.items : b = Root \/ \E a \in DOMAIN mem.items : \E f \in Links : mem.items[a][f] = b
  BY <1>1, <1>2 DEF Reached
<1> QED
  BY <1>1, <1>3, DeletesAll

LEMMA LeakStep == LeakInv /\ ParserInv /\ [Next]_parserVars => LeakInv'
<1> SUFFICES ASSUME LeakInv, ParserInv, [Next]_parserVars
             PROVE  LeakInv'
  OBVIOUS
<1>0. IsSequence(frames) /\ (pc \in {"element", "more"} => frames # <<>>)
  BY DEF ParserInv, Calls
<1>1. CASE Begin
  <2>1. frames = <<>> /\ mem = EmptyMemory /\ frames' = <<>>
    BY <1>1 DEF Begin, LeakInv, Stage
  <2>2. CASE pc' = "value" /\ mem' = cJSON_New_Item(mem)
    <3>1. /\ ForestOf(mem', <<>>) /\ Root \in DOMAIN mem'.items
          /\ mem'.items[Root].child = NULL /\ mem'.items[Root].valuestring = NULL
      BY <2>1, <2>2, OneItem
    <3>2. Target' = Root
      BY <2>1 DEF Target
    <3> QED
      BY <2>1, <2>2, <3>1, <3>2 DEF LeakInv, Forest, Stage, Item
  <2>3. CASE pc' = "failed" /\ mem' = mem
    BY <2>1, <2>3 DEF LeakInv, Forest, Stage
  <2> QED
    BY <1>1, <2>2, <2>3 DEF Begin, Fail
<1>2. CASE \/ NoText \/ NoValue \/ NoMemoryForElement \/ NeitherCommaNorEnd
           \/ \E kind \in Containers : TooDeep(kind)
  <2>1. pc' = "failed" /\ UNCHANGED <<mem, frames>>
    BY <1>2 DEF NoText, NoValue, NoMemoryForElement, NeitherCommaNorEnd, TooDeep, Fail
  <2> QED
    BY <2>1 DEF LeakInv, Forest, Stage
<1>3. CASE NextElement
  <2>1. pc = "more" /\ pc' = "element" /\ UNCHANGED <<mem, frames>>
    BY <1>3 DEF NextElement
  <2> QED
    BY <2>1 DEF LeakInv, Forest, Stage
<1>4. CASE Reject
  <2>1. frames = <<>> /\ frames' = <<>> /\ pc' = "rejected"
    BY <1>4 DEF Reject
  <2>2. mem' = EmptyMemory
    <3>1. CASE mem.items = <<>>
      <4>1. Root \notin DOMAIN mem.items
        BY <3>1
      <4>2. mem = EmptyMemory
        BY <4>1 DEF LeakInv, Stage
      <4> QED
        BY <1>4, <3>1, <4>2 DEF Reject
    <3>2. CASE mem.items # <<>>
      <4>1. Root \in DOMAIN mem.items
        BY <3>2 DEF LeakInv, Stage, EmptyMemory
      <4> QED
        BY <1>4, <2>1, <3>2, <4>1, AllDeleted DEF Reject
    <3> QED
      BY <3>1, <3>2
  <2> QED
    BY <2>1, <2>2, NoItems DEF LeakInv, Forest, Stage
<1>5. CASE (\E word, type : ParseLiteral(word, type)) \/ ParseNumber \/ \E kind \in Containers : Empty(kind)
  <2>1. pc = "value"
    BY <1>5 DEF ParseLiteral, ParseNumber, Empty
  <2> QED
    BY <1>5, <2>1, ScalarStep
<1>6. CASE ParseString
  BY <1>6, StringStep
<1>7. ASSUME NEW kind \in Containers, Enter(kind)
      PROVE  LeakInv'
  BY <1>0, <1>7, EnterStep
<1>8. CASE Element \/ Member
  <2>1. frames # <<>>
    BY <1>0, <1>8 DEF Element, Member
  <2> QED
    BY <1>0, <1>8, <2>1, ElementsStep
<1>9. CASE EndOfContainer
  <2>1. frames # <<>>
    BY <1>0, <1>9 DEF EndOfContainer
  <2> QED
    BY <1>0, <1>9, <2>1, EndStep
<1>10. CASE Abandon
  BY <1>0, <1>10, AbandonStep
<1>11. CASE Returned \/ UNCHANGED parserVars
  <2>1. UNCHANGED <<mem, frames, pc>>
    BY <1>11 DEF Returned, parserVars
  <2> QED
    BY <2>1 DEF LeakInv, Forest, Stage, Target, Top, Item
<1> QED
  BY <1>1, <1>2, <1>3, <1>4, <1>5, <1>6, <1>7, <1>8, <1>9, <1>10, <1>11 DEF Next

LEMMA LeakInit == Init => LeakInv
  BY NoItems DEF Init, LeakInv, Forest, Stage

(* Whatever the text, wherever it is in error and whichever allocation fails,*)
(* the fail labels of parse_array and parse_object, each deleting the list of*)
(* its own call, and that of cJSON_ParseWithLengthOpts, deleting the root, *)
(* give back all that was allocated and nothing twice; and after success one*)
(* cJSON_Delete of the root does.  Behind it is LeakInv: items are linked in*)
(* the order they were allocated in, every block has one owner, and nothing*)
(* links to a list under construction but the call that builds it.         *)
THEOREM EverythingIsFreed == ParserSpec => []NothingLeaks
<1>1. LeakInv => NothingLeaks
  <2> SUFFICES ASSUME LeakInv
               PROVE  NothingLeaks
    OBVIOUS
  <2>1. mem.faults = {}
    BY DEF LeakInv, Forest, ForestOf
  <2>2. pc = "rejected" => mem = EmptyMemory
    BY DEF LeakInv, Stage
  <2>3. pc = "accepted" => cJSON_Delete(mem, Root) = EmptyMemory
    <3>1. pc = "accepted" => frames = <<>> /\ Root \in DOMAIN mem.items
      BY DEF LeakInv, Stage
    <3> QED
      BY <3>1, AllDeleted
  <2> QED
    BY <2>1, <2>2, <2>3 DEF NothingLeaks
<1>2. ParserInv /\ LeakInv /\ [Next]_parserVars => (ParserInv /\ LeakInv)'
  BY StepHolds, LeakStep
<1>3. Init => ParserInv /\ LeakInv
  BY InitHolds, LeakInit
<1> QED
  BY <1>1, <1>2, <1>3, PTL DEF ParserSpec

-----------------------------------------------------------------------------
(* Lists, both ways *)

(* Where the list of an item ends.                                         *)
Ends(items, e) ==
    /\ DOMAIN e = DOMAIN items
    /\ \A a \in DOMAIN items :
           e[a] \in DOMAIN items /\ e[a] = IF items[a].next = NULL THEN a ELSE e[items[a].next]

(* next and prev of neighbours are each other's inverse, the head of a list*)
(* that hangs in the tree knows its last, and a call knows the last of its *)
(* own list, which is none of the lists in the tree.                       *)
LinkedBy(items, calls, e) ==
    /\ Ends(items, e)
    /\ \A a \in DOMAIN items : items[a].next # NULL => items[items[a].next].prev = a
    /\ \A a \in DOMAIN items : items[a].child # NULL => items[items[a].child].prev = e[items[a].child]
    /\ \A k \in DOMAIN calls : calls[k].head # NULL => e[calls[k].head] = calls[k].current
    /\ \A a \in DOMAIN items : \A k \in DOMAIN calls :
           items[a].child # NULL /\ calls[k].head # NULL => e[items[a].child] # calls[k].current

Linked(items, calls) == \E e : LinkedBy(items, calls, e)

(* The links of items are untouched.                                       *)
SameChain(items, items2) ==
    /\ DOMAIN items2 = DOMAIN items
    /\ \A a \in DOMAIN items : /\ items2[a].next = items[a].next
                               /\ items2[a].prev = items[a].prev
                               /\ items2[a].child = items[a].child

LEMMA StillLinked ==
    ASSUME NEW items, NEW items2, NEW calls, Chained(items), Linked(items, calls), SameChain(items, items2)
    PROVE  Linked(items2, calls)
<1>1. PICK e : LinkedBy(items, calls, e)
  BY DEF Linked
<1>2. \A a \in DOMAIN items : /\ items[a].next # NULL => items[a].next \in DOMAIN items
                              /\ items[a].child # NULL => items[a].child \in DOMAIN items
  BY DEF Chained, Links
<1>3. Ends(items2, e)
  BY <1>1 DEF LinkedBy, Ends, SameChain
<1>4. LinkedBy(items2, calls, e)
  BY <1>1, <1>2, <1>3 DEF LinkedBy, SameChain
<1> QED
  BY <1>4 DEF Linked

(* A call without a list comes on top.                                     *)
LEMMA LinkedOnEntry ==
    ASSUME NEW items, NEW T, NEW calls \in Seq(T), Linked(items, calls),
           NEW call, call.head = NULL, NEW calls2, calls2 = Append(calls, call)
    PROVE  Linked(items, calls2)
<1> DEFINE n == Len(calls)
<1>1. /\ n \in Nat /\ DOMAIN calls = 1..n /\ DOMAIN calls2 = 1..(n + 1)
      /\ \A k \in 1..n : calls2[k] = calls[k]
      /\ calls2[n + 1] = call
  BY Appended
<1> HIDE DEF n
<1>2. \A k \in DOMAIN calls2 : calls2[k].head # NULL => k \in DOMAIN calls /\ calls2[k] = calls[k]
  <2>1. \A k \in 1..(n + 1) : k = n + 1 \/ k \in 1..n
    BY <1>1
  <2> QED
    BY <1>1, <2>1
<1>3. PICK e : LinkedBy(items, calls, e)
  BY DEF Linked
<1>4. LinkedBy(items, calls2, e)
  BY <1>2, <1>3 DEF LinkedBy
<1> QED
  BY <1>4 DEF Linked

(* A new item N + 1 behind the current one, or alone.                      *)
Adjoins(items, items2, N, head, cur) ==
    /\ DOMAIN items2 = 1..(N + 1)
    /\ items2[N + 1].next = NULL /\ items2[N + 1].child = NULL
    /\ head # NULL => items2[N + 1].prev = cur
    /\ \A a \in 1..N :
          /\ items2[a].next = IF head # NULL /\ a = cur THEN N + 1 ELSE items[a].next
          /\ items2[a].prev = items[a].prev
          /\ items2[a].child = items[a].child

LEMMA LinkedOnJoin ==
    ASSUME NEW items, NEW N \in Nat, DOMAIN items = 1..N, Chained(items),
           NEW T, NEW calls \in Seq(T), calls # <<>>, Filling(items, calls), Linked(items, calls),
           NEW n, n = Len(calls), NEW head, head = calls[n].head, NEW cur, cur = calls[n].current,
           NEW items2, Adjoins(items, items2, N, head, cur),
           NEW calls2, Appends(calls, calls2, n, N + 1)
    PROVE  Linked(items2, calls2)
<1> DEFINE first == IF head = NULL THEN N + 1 ELSE head
<1>1. /\ n \in Nat /\ n # 0 /\ n \in DOMAIN calls /\ DOMAIN calls = 1..n
      /\ \A k \in 1..n : k = n \/ k \in 1..(n - 1)
      /\ \A k \in 1..(n - 1) : k \in DOMAIN calls /\ k # n
  OBVIOUS
<1>2. /\ DOMAIN calls2 = 1..n /\ \A k \in 1..(n - 1) : calls2[k] = calls[k]
      /\ calls2[n].head = first /\ calls2[n].current = N + 1
  <2>1. DOMAIN calls[n] = {"kind", "item", "head", "current"}
    BY <1>1 DEF Filling
  <2> DEFINE call == [calls[n] EXCEPT !.current = N + 1, !.head = IF head = NULL THEN N + 1 ELSE head]
  <2>2. call.head = first /\ call.current = N + 1
    BY <2>1
  <2>3. calls2 = [calls EXCEPT ![n] = call]
    BY DEF Appends
  <2> HIDE DEF call, first
  <2> QED
    BY <1>1, <2>2, <2>3
<1>3. /\ head # NULL => head \in 1..N /\ cur \in 1..N /\ items[cur].next = NULL
      /\ \A k \in 1..(n - 1) : /\ calls[k].head # NULL /\ calls[k].head \in 1..N
                               /\ calls[k].current \in 1..N /\ (head # NULL => calls[k].current # cur)
  <2>1. /\ head # NULL => /\ head \in 1..N /\ cur \in 1..N /\ items[cur].next = NULL
                          /\ calls[n].item \in 1..N /\ calls[n].item < head /\ head <= cur
    BY <1>1 DEF Filling
  <2>2. ASSUME NEW k \in 1..(n - 1)
        PROVE  /\ calls[k].head # NULL /\ calls[k].head \in 1..N /\ calls[k].current \in 1..N
               /\ calls[k].current <= calls[n].item
    <3>1. k \in DOMAIN calls /\ k < n
      BY <1>1
    <3> QED
      BY <1>1, <3>1 DEF Filling
  <2> QED
    BY <2>1, <2>2
<1>4. \A a \in 1..N : /\ items[a].next # NULL => items[a].next \in 1..N
                      /\ items[a].child # NULL => items[a].child \in 1..N
  BY DEF Chained, Links
<1>5. PICK e : LinkedBy(items, calls, e)
  BY DEF Linked
<1>6. DOMAIN e = 1..N /\ \A a \in 1..N : e[a] \in 1..N /\ e[a] = IF items[a].next = NULL THEN a ELSE e[items[a].next]
  BY <1>5 DEF LinkedBy, Ends
<1> DEFINE e2 == [a \in 1..(N + 1) |-> IF a = N + 1 \/ (head # NULL /\ e[a] = cur) THEN N + 1 ELSE e[a]]
<1>7. /\ DOMAIN e2 = 1..(N + 1) /\ e2[N + 1] = N + 1
      /\ \A a \in 1..N : e2[a] = IF head # NULL /\ e[a] = cur THEN N + 1 ELSE e[a]
  OBVIOUS
<1> HIDE DEF e2
<1>8. \A a \in 1..(N + 1) : a = N + 1 \/ a \in 1..N
  OBVIOUS
<1>9. N + 1 \in 1..(N + 1) /\ N + 1 \notin 1..N /\ (\A a \in 1..N : a \in 1..(N + 1)) /\ N + 1 # NULL
  BY DEF NULL
<1>10. /\ DOMAIN items2 = 1..(N + 1)
       /\ items2[N + 1].next = NULL /\ items2[N + 1].child = NULL
       /\ head # NULL => items2[N + 1].prev = cur
       /\ \A a \in 1..N :
             /\ items2[a].next = IF head # NULL /\ a = cur THEN N + 1 ELSE items[a].next
             /\ items2[a].prev = items[a].prev
             /\ items2[a].child = items[a].child
  BY DEF Adjoins
<1>11. Ends(items2, e2)
  <2>1. ASSUME NEW a \in 1..N
        PROVE  e2[a] \in 1..(N + 1) /\ e2[a] = IF items2[a].next = NULL THEN a ELSE e2[items2[a].next]
    <3>1. CASE head # NULL /\ a = cur
      BY <1>3, <1>6, <1>7, <1>9, <1>10, <3>1
    <3>2. CASE ~(head # NULL /\ a = cur) /\ items[a].next = NULL
      BY <1>6, <1>7, <1>9, <1>10, <3>2
    <3>3. CASE ~(head # NULL /\ a = cur) /\ items[a].next # NULL
      <4>1. items2[a].next = items[a].next /\ items[a].next \in 1..N /\ items[a].next \in 1..(N + 1)
        BY <1>4, <1>9, <1>10, <3>3
      <4>2. e[a] = e[items[a].next] /\ e[a] \in 1..N
        BY <1>6, <3>3
      <4>3. e2[a] = e2[items[a].next]
        BY <1>7, <4>1, <4>2
      <4>4. e2[a] \in 1..(N + 1)
        BY <1>7, <1>9, <4>2
      <4> QED
        BY <3>3, <4>1, <4>3, <4>4
    <3> QED
      BY <3>1, <3>2, <3>3
  <2> QED
    BY <1>7, <1>8, <1>9, <1>10, <2>1 DEF Ends
<1>12. ASSUME NEW a \in 1..(N + 1), items2[a].next # NULL
       PROVE  items2[items2[a].next].prev = a
  <2>1. a \in 1..N
    BY <1>8, <1>10, <1>12
  <2>2. CASE head # NULL /\ a = cur
    BY <1>10, <2>1, <2>2
  <2>3. CASE ~(head # NULL /\ a = cur)
    <3>1. items2[a].next = items[a].next /\ items[a].next \in 1..N
      BY <1>4, <1>10, <1>12, <2>1, <2>3
    <3>2. items[items[a].next].prev = a
      BY <1>5, <1>12, <2>1, <3>1 DEF LinkedBy
    <3> QED
      BY <1>10, <3>1, <3>2
  <2> QED
    BY <2>2, <2>3
<1>13. ASSUME NEW a \in 1..(N + 1), items2[a].child # NULL
       PROVE  /\ a \in 1..N /\ items2[a].child = items[a].child /\ items[a].child \in 1..N
              /\ e2[items[a].child] = e[items[a].child] /\ e[items[a].child] \in 1..N
              /\ items2[items2[a].child].prev = e2[items2[a].child]
  <2>1. a \in 1..N /\ items2[a].child = items[a].child /\ items[a].child \in 1..N
    BY <1>4, <1>8, <1>10, <1>13
  <2>2. head # NULL => e[items[a].child] # cur
    BY <1>1, <1>5, <1>13, <2>1 DEF LinkedBy
  <2>3. e2[items[a].child] = e[items[a].child] /\ e[items[a].child] \in 1..N
    BY <1>6, <1>7, <2>1, <2>2
  <2>4. items[items[a].child].prev = e[items[a].child]
    BY <1>5, <1>13, <2>1 DEF LinkedBy
  <2> QED
    BY <1>10, <2>1, <2>3, <2>4
<1>14. ASSUME NEW k \in 1..n, calls2[k].head # NULL
       PROVE  e2[calls2[k].head] = calls2[k].current
  <2>1. CASE k = n /\ head = NULL
    BY <1>2, <1>7, <2>1
  <2>2. CASE k = n /\ head # NULL
    <3>1. e[head] = cur
      BY <1>1, <1>5, <2>2 DEF LinkedBy
    <3> QED
      BY <1>2, <1>3, <1>7, <2>2, <3>1
  <2>3. CASE k \in 1..(n - 1)
    <3>1. calls2[k] = calls[k] /\ calls[k].head \in 1..N /\ (head # NULL => calls[k].current # cur)
      BY <1>2, <1>3, <2>3
    <3>2. e[calls[k].head] = calls[k].current
      BY <1>1, <1>3, <1>5, <2>3 DEF LinkedBy
    <3> QED
      BY <1>7, <3>1, <3>2
  <2> QED
    BY <1>1, <2>1, <2>2, <2>3
<1>15. ASSUME NEW a \in 1..(N + 1), NEW k \in 1..n, items2[a].child # NULL, calls2[k].head # NULL
       PROVE  e2[items2[a].child] # calls2[k].current
  <2>1. /\ a \in 1..N /\ items2[a].child = items[a].child
        /\ e2[items[a].child] = e[items[a].child] /\ e[items[a].child] \in 1..N
    BY <1>13, <1>15
  <2>2. CASE k = n
    BY <1>2, <1>9, <2>1, <2>2
  <2>3. CASE k \in 1..(n - 1)
    <3>1. e[items[a].child] # calls[k].current
      BY <1>1, <1>3, <1>5, <1>15, <2>1, <2>3 DEF LinkedBy
    <3> QED
      BY <1>2, <2>1, <2>3, <3>1
  <2> QED
    BY <1>1, <2>2, <2>3
<1>16. LinkedBy(items2, calls2, e2)
  BY <1>2, <1>10, <1>11, <1>12, <1>13, <1>14, <1>15 DEF LinkedBy
<1> QED
  BY <1>16 DEF Linked

(* The list of the last call is hung into its item, and its head is told   *)
(* where it ends.                                                          *)
Closes(items, items2, item, head, cur) ==
    /\ DOMAIN items2 = DOMAIN items
    /\ \A a \in DOMAIN items :
          /\ items2[a].next = items[a].next
          /\ items2[a].prev = IF head # NULL /\ a = head THEN cur ELSE items[a].prev
          /\ items2[a].child = IF a = item THEN head ELSE items[a].child

LEMMA LinkedOnClose ==
    ASSUME NEW items, Chained(items),
           NEW T, NEW calls \in Seq(T), calls # <<>>, Filling(items, calls), Reached(items, Heads(calls)),
           Linked(items, calls),
           NEW n, n = Len(calls), NEW head, head = calls[n].head, NEW cur, cur = calls[n].current,
           NEW item, item = calls[n].item, NEW items2, Closes(items, items2, item, head, cur),
           NEW calls2, calls2 = SubSeq(calls, 1, n - 1)
    PROVE  Linked(items2, calls2)
<1>1. n \in Nat /\ n # 0 /\ n \in DOMAIN calls /\ DOMAIN calls = 1..n
  OBVIOUS
<1>2. DOMAIN calls2 = 1..(n - 1) /\ \A k \in 1..(n - 1) : calls2[k] = calls[k] /\ k \in DOMAIN calls /\ k < n
  BY <1>1
<1>3. DOMAIN items \subseteq Nat
  BY DEF Chained
<1>4. /\ head # NULL => head \in DOMAIN items
      /\ \A k \in 1..(n - 1) : calls[k].head # NULL /\ (head # NULL => cur # calls[k].current)
  <2>1. head # NULL => /\ head \in DOMAIN items /\ cur \in DOMAIN items /\ item \in DOMAIN items
                       /\ item < head /\ head <= cur
    BY <1>1 DEF Filling
  <2>2. ASSUME NEW k \in 1..(n - 1)
        PROVE  calls[k].head # NULL /\ calls[k].current \in DOMAIN items /\ calls[k].current <= item
    <3>1. k \in DOMAIN calls /\ k < n
      BY <1>2
    <3> QED
      BY <1>1, <3>1 DEF Filling
  <2> QED
    BY <1>3, <2>1, <2>2
<1>5. PICK e : LinkedBy(items, calls, e)
  BY DEF Linked
<1>6. \A a \in DOMAIN items :
          /\ items[a].next # NULL => items[a].next \in DOMAIN items /\ (head # NULL => items[a].next # head)
          /\ items[a].child # NULL => items[a].child \in DOMAIN items /\ (head # NULL => items[a].child # head)
  <2>1. head # NULL => head \in Heads(calls)
    BY <1>1 DEF Heads
  <2> QED
    BY <2>1 DEF Chained, Reached, Links
<1>7. Ends(items2, e)
  BY <1>5 DEF LinkedBy, Ends, Closes
<1>8. head # NULL => e[head] = cur
  BY <1>1, <1>5 DEF LinkedBy
<1>9. \A a \in DOMAIN items2 : items2[a].next # NULL => items2[items2[a].next].prev = a
  BY <1>5, <1>6 DEF LinkedBy, Closes
<1>10. ASSUME NEW a \in DOMAIN items2, items2[a].child # NULL
       PROVE  /\ items2[items2[a].child].prev = e[items2[a].child]
              /\ \A k \in DOMAIN calls2 : e[items2[a].child] # calls2[k].current
  <2>1. a \in DOMAIN items
    BY DEF Closes
  <2>2. CASE a = item
    <3>1. items2[a].child = head /\ items2[head].prev = cur
      BY <1>4, <1>10, <2>1, <2>2 DEF Closes
    <3> QED
      BY <1>2, <1>4, <1>8, <1>10, <3>1
  <2>3. CASE a # item
    <3>1. items2[a].child = items[a].child /\ items[a].child \in DOMAIN items
          /\ (head # NULL => items[a].child # head)
      BY <1>6, <1>10, <2>1, <2>3 DEF Closes
    <3>2. items2[items[a].child].prev = items[items[a].child].prev
      BY <3>1 DEF Closes
    <3>3. items[items[a].child].prev = e[items[a].child]
          /\ \A k \in DOMAIN calls : calls[k].head # NULL => e[items[a].child] # calls[k].current
      BY <1>5, <1>10, <2>1, <3>1 DEF LinkedBy
    <3> QED
      BY <1>2, <1>4, <3>1, <3>2, <3>3
  <2> QED
    BY <2>2, <2>3
<1>11. \A k \in DOMAIN calls2 : calls2[k].head # NULL => e[calls2[k].head] = calls2[k].current
  BY <1>2, <1>5 DEF LinkedBy
<1>12. LinkedBy(items2, calls2, e)
  BY <1>7, <1>9, <1>10, <1>11 DEF LinkedBy
<1> QED
  BY <1>12 DEF Linked

-----------------------------------------------------------------------------
(* Lists, read from the head on *)

(* One turn of the loop over siblings, and the list as the value of the    *)
(* recursive function of ListFrom.                                         *)
ListStep(m, f, a) == IF a = NULL THEN <<>> ELSE <<a>> \o f[m.items[a].next]

IsListing(m, f) == f = [a \in DOMAIN m.items \cup {NULL} |-> ListStep(m, f, a)]

LEMMA ListingExists ==
    ASSUME NEW m, Chained(m.items)
    PROVE  \E f : IsListing(m, f)
<1>1. PICK N \in Nat : DOMAIN m.items = 1..N
  BY DEF Chained
<1> DEFINE D == DOMAIN m.items \cup {NULL}
           T == Seq(D)
           rank == [a \in D |-> IF a = 0 THEN 0 ELSE N + 1 - a]
           Step == [f \in [D -> T] |-> [a \in D |-> ListStep(m, f, a)]]
<1>2. \A a \in D : a # NULL => m.items[a].next \in D /\ rank[m.items[a].next] < rank[a]
  <2> SUFFICES ASSUME NEW a \in 1..N
               PROVE  m.items[a].next \in D /\ rank[m.items[a].next] < rank[a]
    BY <1>1
  <2>1. m.items[a].next = 0 \/ m.items[a].next \in (a + 1)..N
    BY <1>1 DEF Chained, Links, NULL
  <2>2. 0 \in D /\ \A b \in 1..N : b \in D
    BY <1>1 DEF NULL
  <2>3. rank[0] = 0 /\ \A b \in 1..N : rank[b] = N + 1 - b
    BY <2>2
  <2> HIDE DEF rank, D
  <2>4. CASE m.items[a].next = 0
    BY <2>2, <2>3, <2>4
  <2>5. CASE m.items[a].next \in (a + 1)..N
    <3>1. m.items[a].next \in 1..N /\ a < m.items[a].next
      BY <2>5
    <3> QED
      BY <2>2, <2>3, <3>1
  <2> QED
    BY <2>1, <2>4, <2>5
<1>3. T # {} /\ rank \in [D -> Nat]
  <2>1. <<>> \in T
    OBVIOUS
  <2>2. \A a \in D : (IF a = 0 THEN 0 ELSE N + 1 - a) \in Nat
    BY <1>1 DEF NULL
  <2> HIDE DEF D
  <2> QED
    BY <2>1, <2>2
<1> HIDE DEF rank, D
<1>4. \A f \in [D -> T] : \A a \in D : ListStep(m, f, a) \in T
  BY <1>2 DEF ListStep
<1> HIDE DEF T
<1>5. \A f \in [D -> T] : \A a \in D : Step[f][a] = ListStep(m, f, a)
  OBVIOUS
<1>6. Step \in [[D -> T] -> [D -> T]]
  BY <1>4
<1> HIDE DEF Step
<1>7. LooksBelow(Step, D, T, rank)
  <2> SUFFICES ASSUME NEW f \in [D -> T], NEW g \in [D -> T], NEW a \in D,
                      \A b \in D : rank[b] < rank[a] => f[b] = g[b]
               PROVE  Step[f][a] = Step[g][a]
    BY Zenon DEF LooksBelow
  <2>1. a # NULL => f[m.items[a].next] = g[m.items[a].next]
    BY <1>2
  <2>2. ListStep(m, f, a) = ListStep(m, g, a)
    BY <2>1 DEF ListStep
  <2> QED
    BY <1>5, <2>2, Zenon
<1>8. PICK f \in [D -> T] : \A a \in D : f[a] = Step[f][a]
  <2>1. IsRecursion(Step, D, T, rank)
    BY <1>3, <1>6, <1>7 DEF IsRecursion
  <2>2. HasFixedPoint(Step, D, T)
    BY <2>1, FixedPointExists
  <2> QED
    BY <2>2 DEF HasFixedPoint
<1>9. \A a \in D : f[a] = ListStep(m, f, a)
  BY <1>5, <1>8, Zenon
<1>10. f = [a \in D |-> f[a]]
  BY <1>8
<1>11. f = [a \in D |-> ListStep(m, f, a)]
  BY <1>9, <1>10
<1> QED
  BY <1>11, Zenon DEF IsListing, D

(* A list from a to its end e, with what prev says on the way.             *)
Lists(items, s, a, e) ==
    /\ s \in Seq(DOMAIN items) /\ s # <<>> /\ s[1] = a /\ s[Len(s)] = e
    /\ \A k \in DOMAIN s : k # 1 => items[s[k]].prev = s[k - 1]

LEMMA ListsOnwards ==
    ASSUME NEW items, NEW a \in DOMAIN items, NEW b, NEW e, NEW s, Lists(items, s, b, e),
           items[b].prev = a, NEW r, r = <<a>> \o s
    PROVE  Lists(items, r, a, e)
<1>0. /\ s \in Seq(DOMAIN items) /\ s # <<>> /\ s[1] = b /\ s[Len(s)] = e
      /\ \A k \in DOMAIN s : k # 1 => items[s[k]].prev = s[k - 1]
  BY DEF Lists
<1>1. PICK n \in Nat : n = Len(s)
  BY <1>0
<1>2. /\ s \in Seq(DOMAIN items) /\ n # 0 /\ s[1] = b /\ s[n] = e
      /\ \A k \in 1..n : k # 1 => items[s[k]].prev = s[k - 1]
  <2>1. DOMAIN s = 1..n /\ n # 0
    BY <1>0, <1>1
  <2> QED
    BY <1>0, <1>1, <2>1
<1>3. /\ r \in Seq(DOMAIN items) /\ Len(r) = n + 1 /\ DOMAIN r = 1..(n + 1) /\ r[1] = a
      /\ \A k \in 2..(n + 1) : r[k] = s[k - 1]
  BY <1>1, <1>2
<1>4. r[n + 1] = e
  <2>1. n + 1 \in 2..(n + 1) /\ (n + 1) - 1 = n
    BY <1>1, <1>2, <1>3
  <2> QED
    BY <1>2, <1>3, <2>1
<1>5. ASSUME NEW k \in 2..(n + 1)
      PROVE  items[r[k]].prev = r[k - 1]
  <2>1. CASE k = 2
    BY <1>2, <1>3, <2>1
  <2>2. CASE k # 2
    <3>1. k - 1 \in 1..n /\ k - 1 # 1 /\ k - 1 \in 2..(n + 1) /\ (k - 1) - 1 = k - 2
      BY <2>2
    <3>2. r[k] = s[k - 1] /\ r[k - 1] = s[(k - 1) - 1]
      BY <1>3, <3>1
    <3> QED
      BY <1>2, <3>1, <3>2
  <2> QED
    BY <2>1, <2>2
<1> QED
  BY <1>3, <1>4, <1>5 DEF Lists

(* From any item on, next leads through what prev leads back through, to   *)
(* the end.                                                                *)
LEMMA ListsToTheEnd ==
    ASSUME NEW m, Chained(m.items), NEW calls, NEW e, LinkedBy(m.items, calls, e), NEW i \in DOMAIN m.items
    PROVE  Lists(m.items, ListFrom(m, i), i, e[i])
<1> DEFINE f == CHOOSE g : IsListing(m, g)
<1>1. ListFrom(m, i) = f[i]
  BY Zenon DEF ListFrom, IsListing, ListStep
<1>2. IsListing(m, f)
  BY ListingExists, Zenon
<1> HIDE DEF f
<1>3. \A a \in DOMAIN m.items \cup {NULL} : f[a] = ListStep(m, f, a)
  BY <1>2 DEF IsListing
<1>4. PICK N \in Nat : DOMAIN m.items = 1..N
  BY DEF Chained
<1> DEFINE S == {a \in 1..N : Lists(m.items, f[a], a, e[a])}
<1>5. ASSUME NEW a \in 1..N, \A b \in 1..N : a < b => b \in S
      PROVE  a \in S
  <2> DEFINE b == m.items[a].next
  <2>1. f[a] = <<a>> \o f[b]
    <3>1. a # NULL
      BY DEF NULL
    <3>2. f[a] = ListStep(m, f, a)
      BY <1>3, <1>4
    <3> QED
      BY <3>1, <3>2 DEF ListStep
  <2>2. e[a] = IF b = NULL THEN a ELSE e[b]
    BY <1>4 DEF LinkedBy, Ends
  <2>3. b # NULL => b \in 1..N /\ a < b /\ m.items[b].prev = a
    BY <1>4 DEF LinkedBy, Chained, Links
  <2> HIDE DEF b
  <2>4. CASE b = NULL
    <3>1. f[b] = <<>>
      BY <1>3, <2>4 DEF ListStep
    <3>2. f[a] = <<a>> /\ e[a] = a
      BY <2>1, <2>2, <2>4, <3>1
    <3>3. Lists(m.items, <<a>>, a, a)
      BY <1>4 DEF Lists
    <3> QED
      BY <3>2, <3>3
  <2>5. CASE b # NULL
    <3>1. Lists(m.items, f[b], b, e[b])
      BY <1>5, <2>3, <2>5
    <3>2. Lists(m.items, f[a], a, e[b])
      BY <1>4, <2>1, <2>3, <2>5, <3>1, ListsOnwards
    <3> QED
      BY <2>2, <2>5, <3>2
  <2> QED
    BY <2>4, <2>5
<1>6. i \in S
  <2> HIDE DEF S
  <2>1. \A a \in 1..N : a \in S
    BY <1>5, Downwards
  <2> QED
    BY <1>4, <2>1
<1> QED
  BY <1>1, <1>6

LEMMA LinkedWell ==
    ASSUME NEW m, Chained(m.items), NEW calls, Linked(m.items, calls), NEW a \in DOMAIN m.items
    PROVE  WellLinked(m, m.items[a].child)
<1> DEFINE c == m.items[a].child
           s == ListFrom(m, c)
<1>1. PICK e : LinkedBy(m.items, calls, e)
  BY DEF Linked
<1>2. c # NULL => c \in DOMAIN m.items /\ m.items[c].prev = e[c]
  BY <1>1 DEF Chained, Links, LinkedBy
<1> HIDE DEF c
<1>3. CASE c = NULL
  <2> DEFINE f == CHOOSE g : IsListing(m, g)
  <2>1. s = f[NULL]
    BY <1>3, Zenon DEF ListFrom, IsListing, ListStep
  <2>2. IsListing(m, f)
    BY ListingExists, Zenon
  <2> HIDE DEF f
  <2>3. f[NULL] = ListStep(m, f, NULL)
    BY <2>2 DEF IsListing
  <2>4. s = <<>>
    BY <2>1, <2>3 DEF ListStep
  <2>5. DOMAIN s = {}
    BY <2>4
  <2> QED
    BY <2>5 DEF WellLinked, c
<1>4. CASE c # NULL
  <2>1. Lists(m.items, s, c, e[c])
    BY <1>1, <1>2, <1>4, ListsToTheEnd
  <2> HIDE DEF s
  <2>2. \A k \in DOMAIN s : m.items[s[k]].prev = IF k = 1 THEN s[Len(s)] ELSE s[k - 1]
    BY <1>2, <1>4, <2>1 DEF Lists
  <2> QED
    BY <2>2 DEF WellLinked, s, c
<1> QED
  BY <1>3, <1>4

-----------------------------------------------------------------------------
(* The links each step makes *)

(* After a failure only deletions follow.                                  *)
ListInv == pc \in {"failed", "rejected"} \/ Linked(mem.items, frames)

LEMMA NoListsLinked == Linked(<<>>, <<>>)
<1> DEFINE none == <<>>
<1>1. DOMAIN none = {}
  OBVIOUS
<1> HIDE DEF none
<1>2. LinkedBy(none, none, none)
  BY <1>1 DEF LinkedBy, Ends
<1> QED
  BY <1>2 DEF Linked, none

LEMMA RootLinked == Linked(cJSON_New_Item(EmptyMemory).items, <<>>)
<1> DEFINE none == <<>>
           items == cJSON_New_Item(EmptyMemory).items
           e == [a \in {1} |-> 1]
<1>1. DOMAIN none = {} /\ DOMAIN none = 1..0
  OBVIOUS
<1>2. items = With(none, Free(none), Blank)
  BY DEF cJSON_New_Item, EmptyMemory
<1> HIDE DEF none
<1>3. Free(none) = 1
  <2>1. 0 \in Nat /\ 0 + 1 = 1
    OBVIOUS
  <2> QED
    BY <1>1, <2>1, FreeIsNext
<1> HIDE DEF items
<1>4. DOMAIN items = {1} /\ items[1] = Blank
  BY <1>1, <1>2, <1>3 DEF With
<1>5. items[1].next = NULL /\ items[1].child = NULL
  BY <1>4 DEF Blank
<1>6. DOMAIN e = {1} /\ e[1] = 1
  OBVIOUS
<1> HIDE DEF e
<1>7. LinkedBy(items, none, e)
  BY <1>1, <1>4, <1>5, <1>6 DEF LinkedBy, Ends
<1> QED
  BY <1>7 DEF Linked, items, none

(* An item gets another value but keeps its place.                         *)
LEMMA PlaceKept ==
    ASSUME NEW items, NEW t \in DOMAIN items, NEW item,
           item.next = items[t].next, item.prev = items[t].prev, item.child = items[t].child,
           NEW items2, items2 = [items EXCEPT ![t] = item]
    PROVE  SameChain(items, items2)
<1>1. /\ DOMAIN items2 = DOMAIN items
      /\ \A a \in DOMAIN items : items2[a] = IF a = t THEN item ELSE items[a]
  OBVIOUS
<1> QED
  BY <1>1 DEF SameChain

(* The steps of parse_value, unless they fail.                             *)
LEMMA ValueLinks ==
    ASSUME LeakInv, pc = "value",
           \/ \E word, type : ParseLiteral(word, type)
           \/ ParseNumber \/ ParseString
           \/ \E kind \in Containers : Empty(kind)
    PROVE  UNCHANGED frames /\ (pc' = "failed" \/ SameChain(mem.items, mem'.items))
<1>0. /\ Target \in DOMAIN mem.items /\ Item = mem.items[Target] /\ DOMAIN Item = Fields
      /\ DOMAIN mem = {"items", "strings", "faults"}
  BY TargetIsBlank DEF ForestOf
<1>1. "next" \in Fields /\ "prev" \in Fields /\ "child" \in Fields
  BY DEF Fields, Links
<1>2. ASSUME NEW item, item.next = Item.next, item.prev = Item.prev, item.child = Item.child,
             mem'.items = [mem.items EXCEPT ![Target] = item]
      PROVE  SameChain(mem.items, mem'.items)
  BY <1>0, <1>2, PlaceKept
<1>3. ASSUME NEW word, NEW type, ParseLiteral(word, type)
      PROVE  UNCHANGED frames /\ SameChain(mem.items, mem'.items)
  <2> DEFINE v == IF type = "True" THEN 1 ELSE Item.valueint
             item == [Item EXCEPT !.type = type, !.valueint = v]
  <2>1. item.next = Item.next /\ item.prev = Item.prev /\ item.child = Item.child
    BY <1>0, <1>1
  <2>2. mem' = [mem EXCEPT !.items[Target] = item] /\ UNCHANGED frames
    BY <1>3 DEF ParseLiteral, Update
  <2> HIDE DEF item
  <2>3. mem'.items = [mem.items EXCEPT ![Target] = item]
    BY <1>0, <2>2
  <2> QED
    BY <1>2, <2>1, <2>2, <2>3
<1>4. CASE ParseNumber
  <2> DEFINE v == parse_number(text, offset).valueint
             item == [Item EXCEPT !.type = "Number", !.valueint = v]
  <2>1. item.next = Item.next /\ item.prev = Item.prev /\ item.child = Item.child
    BY <1>0, <1>1
  <2>2. UNCHANGED frames /\ (mem' = [mem EXCEPT !.items[Target] = item] \/ pc' = "failed")
    BY <1>4 DEF ParseNumber, Update, Fail
  <2> HIDE DEF item
  <2>3. mem' = [mem EXCEPT !.items[Target] = item] => mem'.items = [mem.items EXCEPT ![Target] = item]
    BY <1>0
  <2> QED
    BY <1>2, <2>1, <2>2, <2>3
<1>5. CASE ParseString
  <2> DEFINE bytes == parse_string(text, offset).bytes
             item == [Item EXCEPT !.type = "String", !.valuestring = Free(mem.strings)]
             named == NewString(mem, bytes)
  <2>1. item.next = Item.next /\ item.prev = Item.prev /\ item.child = Item.child
    BY <1>0, <1>1
  <2>2. UNCHANGED frames /\ (mem' = [named EXCEPT !.items[Target] = item] \/ pc' = "failed")
    BY <1>5 DEF ParseString, Fail
  <2>3. DOMAIN named = {"items", "strings", "faults"} /\ named.items = mem.items
    BY <1>0 DEF NewString
  <2> HIDE DEF item, named
  <2>4. mem' = [named EXCEPT !.items[Target] = item] => mem'.items = [mem.items EXCEPT ![Target] = item]
    BY <2>3
  <2> QED
    BY <1>2, <2>1, <2>2, <2>4
<1>6. ASSUME NEW kind \in Containers, Empty(kind)
      PROVE  UNCHANGED frames /\ SameChain(mem.items, mem'.items)
  <2> DEFINE item == [Item EXCEPT !.type = kind]
  <2>1. item.next = Item.next /\ item.prev = Item.prev /\ item.child = Item.child
    BY <1>0, <1>1
  <2>2. mem' = [mem EXCEPT !.items[Target] = item] /\ UNCHANGED frames
    BY <1>6 DEF Empty, Item
  <2> HIDE DEF item
  <2>3. mem'.items = [mem.items EXCEPT ![Target] = item]
    BY <1>0, <2>2
  <2> QED
    BY <1>2, <2>1, <2>2, <2>3
<1> QED
  BY <1>3, <1>4, <1>5, <1>6

(* What the loops of parse_array and parse_object do to links.             *)
LEMMA AttachedJoins ==
    ASSUME ForestOf(mem, frames), IsSequence(frames), frames # <<>>,
           NEW N \in Nat, DOMAIN mem.items = 1..N
    PROVE  /\ Adjoins(mem.items, Attached.items, N, Top.head, Top.current)
           /\ Appends(frames, AttachedFrames, Len(frames), N + 1)
<1> DEFINE items == mem.items
           new == Free(mem.items)
           head == Top.head
           cur == Top.current
           blank == cJSON_New_Item(mem)
           items2 == Attached.items
<1>1. DOMAIN mem = {"items", "strings", "faults"} /\ Chained(items) /\ Filling(items, frames)
  BY DEF ForestOf
<1>2. new = N + 1
  BY FreeIsNext
<1>3. Len(frames) \in DOMAIN frames /\ Top = frames[Len(frames)]
  BY DEF IsSequence, Top
<1>4. head # NULL => cur \in 1..N
  BY <1>1, <1>3 DEF Filling
<1>5. \A a \in 1..N : DOMAIN items[a] = Fields
  BY <1>1 DEF Chained, Whole
<1>6. DOMAIN blank = {"items", "strings", "faults"} /\ blank.items = With(items, new, Blank)
  BY <1>1 DEF cJSON_New_Item
<1>7. /\ DOMAIN blank.items = 1..(N + 1) /\ blank.items[N + 1] = Blank
      /\ \A a \in 1..N : blank.items[a] = items[a]
  <2>1. DOMAIN With(items, new, Blank) = DOMAIN items \cup {new} /\ With(items, new, Blank)[new] = Blank
        /\ \A a \in DOMAIN items : a # new => With(items, new, Blank)[a] = items[a]
    BY DEF With
  <2>2. (1..N) \cup {N + 1} = 1..(N + 1) /\ \A a \in 1..N : a # N + 1
    OBVIOUS
  <2> QED
    BY <1>2, <1>6, <2>1, <2>2
<1>8. DOMAIN Blank = Fields /\ Blank.next = NULL /\ Blank.child = NULL
  BY DEF Blank, Fields, Links, Texts
<1>9. "next" \in Fields /\ "prev" \in Fields /\ "child" \in Fields
  BY DEF Fields, Links
<1>10. Appends(frames, AttachedFrames, Len(frames), N + 1)
  BY <1>2, <1>3 DEF AttachedFrames, Appends
<1>11. Attached = IF head = NULL THEN blank
                  ELSE [blank EXCEPT !.items[cur].next = new, !.items[new].prev = cur]
  BY DEF Attached
<1> HIDE DEF blank, Blank, head, cur, new
<1>12. CASE head = NULL
  <2>1. items2 = blank.items
    BY <1>11, <1>12
  <2> HIDE DEF items2
  <2>2. Adjoins(items, items2, N, head, cur)
    BY <1>7, <1>8, <1>12, <2>1 DEF Adjoins
  <2> QED
    BY <1>10, <2>2 DEF items2, head, cur
<1>13. CASE head # NULL
  <2> DEFINE linked == [blank EXCEPT !.items[cur].next = new]
             both == [linked EXCEPT !.items[new].prev = cur]
  <2>1. items2 = both.items
    BY <1>11, <1>13
  <2>2. /\ DOMAIN linked = {"items", "strings", "faults"}
        /\ linked.items = [blank.items EXCEPT ![cur].next = new]
    BY <1>6
  <2> HIDE DEF linked
  <2>3. both.items = [linked.items EXCEPT ![new].prev = cur]
    BY <2>2
  <2> HIDE DEF both, items2
  <2>4. cur \in 1..N /\ cur \in 1..(N + 1) /\ N + 1 \in 1..(N + 1) /\ cur # N + 1
    BY <1>4, <1>13
  <2>5. /\ DOMAIN linked.items = 1..(N + 1)
        /\ linked.items[cur] = [items[cur] EXCEPT !.next = new]
        /\ \A a \in 1..(N + 1) : a # cur => linked.items[a] = blank.items[a]
    BY <1>7, <2>2, <2>4
  <2>6. /\ DOMAIN items2 = 1..(N + 1)
        /\ items2[N + 1] = [Blank EXCEPT !.prev = cur]
        /\ items2[cur] = [items[cur] EXCEPT !.next = new]
        /\ \A a \in 1..N : a # cur => items2[a] = items[a]
    <3>1. \A a \in 1..N : a \in 1..(N + 1) /\ a # N + 1
      OBVIOUS
    <3> QED
      BY <1>2, <1>7, <2>1, <2>3, <2>4, <2>5, <3>1
  <2>7. /\ items2[N + 1].prev = cur /\ items2[N + 1].next = NULL /\ items2[N + 1].child = NULL
    BY <1>8, <1>9, <2>6
  <2>8. /\ items2[cur].next = N + 1 /\ items2[cur].prev = items[cur].prev
        /\ items2[cur].child = items[cur].child
    BY <1>2, <1>5, <1>9, <2>4, <2>6
  <2>9. Adjoins(items, items2, N, head, cur)
    BY <1>13, <2>6, <2>7, <2>8 DEF Adjoins
  <2> QED
    BY <1>10, <2>9 DEF items2, head, cur
<1> QED
  BY <1>12, <1>13

LEMMA ElementsLinks ==
    ASSUME LeakInv, IsSequence(frames), frames # <<>>, Element \/ Member, Linked(mem.items, frames)
    PROVE  Linked(mem'.items, frames')
<1> DEFINE new == Free(mem.items)
           item == [Attached.items[new] EXCEPT !.type = "String", !.string = Free(mem.strings)]
<1>0. frames' = AttachedFrames
  BY DEF Element, Member
<1>1. /\ ForestOf(Attached, AttachedFrames) /\ new \in DOMAIN Attached.items
      /\ DOMAIN Attached = {"items", "strings", "faults"} /\ Chained(Attached.items)
      /\ DOMAIN Attached.items[new] = Fields
  <2>1. ForestOf(Attached, AttachedFrames) /\ new \in DOMAIN Attached.items
    BY ItemAttached DEF LeakInv, Forest
  <2> QED
    BY <2>1 DEF ForestOf, Chained, Whole
<1>2. Linked(Attached.items, AttachedFrames)
  <2>1. ForestOf(mem, frames) /\ Chained(mem.items) /\ Filling(mem.items, frames)
    BY DEF LeakInv, Forest, ForestOf
  <2>2. PICK N \in Nat : DOMAIN mem.items = 1..N
    BY <2>1 DEF Chained
  <2>3. /\ Adjoins(mem.items, Attached.items, N, Top.head, Top.current)
        /\ Appends(frames, AttachedFrames, Len(frames), N + 1)
    BY <2>1, <2>2, AttachedJoins
  <2>4. frames \in Seq({frames[k] : k \in DOMAIN frames}) /\ Top = frames[Len(frames)]
    BY DEF IsSequence, Top
  <2> DEFINE T == {frames[k] : k \in DOMAIN frames}
             items == mem.items
             items2 == Attached.items
             calls2 == AttachedFrames
             n == Len(frames)
  <2>5. /\ DOMAIN items = 1..N /\ Chained(items) /\ frames \in Seq(T) /\ Filling(items, frames)
        /\ Linked(items, frames) /\ n = Len(frames) /\ Top = frames[n]
        /\ Adjoins(items, items2, N, Top.head, Top.current) /\ Appends(frames, calls2, n, N + 1)
    BY <2>1, <2>2, <2>3, <2>4
  <2> HIDE DEF T, items, items2, calls2, n
  <2>6. Linked(items2, calls2)
    BY <2>5, LinkedOnJoin
  <2> QED
    BY <2>6 DEF items2, calls2
<1>3. CASE mem' = Attached
  BY <1>0, <1>2, <1>3
<1>4. CASE \E bytes : mem' = [NewString(Attached, bytes) EXCEPT !.items[new] = item]
  <2>1. PICK bytes : mem' = [NewString(Attached, bytes) EXCEPT !.items[new] = item]
    BY <1>4
  <2> DEFINE named == NewString(Attached, bytes)
  <2>2. DOMAIN named = {"items", "strings", "faults"} /\ named.items = Attached.items
    BY <1>1 DEF NewString
  <2>3. "next" \in Fields /\ "prev" \in Fields /\ "child" \in Fields
    BY DEF Fields, Links
  <2>4. /\ item.next = Attached.items[new].next /\ item.prev = Attached.items[new].prev
        /\ item.child = Attached.items[new].child
    BY <1>1, <2>3
  <2> HIDE DEF named, item, new
  <2>5. mem'.items = [Attached.items EXCEPT ![new] = item]
    BY <2>1, <2>2 DEF named
  <2>6. SameChain(Attached.items, mem'.items)
    BY <1>1, <2>4, <2>5, PlaceKept
  <2> QED
    BY <1>0, <1>1, <1>2, <2>6, StillLinked
<1>5. mem' = Attached \/ \E bytes : mem' = [NewString(Attached, bytes) EXCEPT !.items[new] = item]
  <2>1. CASE Element
    BY <2>1 DEF Element
  <2>2. CASE Member
    <3> DEFINE at  == buffer_skip_whitespace(text, offset + 1)
               s   == parse_string(text, at)
               named == [NewString(Attached, s.bytes) EXCEPT
                            !.items[new] = [@ EXCEPT !.type = "String", !.string = Free(mem.strings)]]
    <3>1. mem' = Attached \/ mem' = named
      BY <2>2 DEF Member
    <3>2. named = [NewString(Attached, s.bytes) EXCEPT !.items[new] = item]
      <4>1. NewString(Attached, s.bytes).items = Attached.items
        BY <1>1 DEF NewString
      <4> QED
        BY <4>1
    <3> HIDE DEF named, item, s
    <3> QED
      BY <3>1, <3>2
  <2> QED
    BY <2>1, <2>2
<1> QED
  BY <1>3, <1>4, <1>5

LEMMA EndLinks ==
    ASSUME LeakInv, IsSequence(frames), frames # <<>>, EndOfContainer, Linked(mem.items, frames)
    PROVE  Linked(mem'.items, frames')
<1> DEFINE n == Len(frames)
           head == Top.head
           item == Top.item
           cur == Top.current
           T == {frames[k] : k \in DOMAIN frames}
           items == mem.items
           closed == IF head = NULL THEN mem ELSE [mem EXCEPT !.items[head].prev = cur]
           items2 == mem'.items
<1>0. /\ frames' = Pop
      /\ mem' = [closed EXCEPT !.items[item] = [@ EXCEPT !.type = Top.kind, !.child = head]]
  BY DEF EndOfContainer, Close
<1>1. /\ DOMAIN mem = {"items", "strings", "faults"}
      /\ Chained(items) /\ Filling(items, frames) /\ Reached(items, Heads(frames))
  BY DEF LeakInv, Forest, ForestOf
<1>2. frames \in Seq(T) /\ n \in DOMAIN frames /\ Top = frames[n] /\ n = Len(frames)
      /\ Pop = SubSeq(frames, 1, n - 1)
  BY DEF IsSequence, Top, Pop
<1> HIDE DEF T, n
<1>3. item \in DOMAIN items /\ (head # NULL => head \in DOMAIN items)
  BY <1>1, <1>2 DEF Filling
<1>4. \A a \in DOMAIN items : DOMAIN items[a] = Fields
  BY <1>1 DEF Chained, Whole
<1>5. "next" \in Fields /\ "prev" \in Fields /\ "child" \in Fields
  BY DEF Fields, Links
<1> HIDE DEF head, item, cur
<1>6. /\ DOMAIN closed = {"items", "strings", "faults"} /\ DOMAIN closed.items = DOMAIN items
      /\ \A a \in DOMAIN items :
            /\ DOMAIN closed.items[a] = Fields
            /\ closed.items[a].next = items[a].next /\ closed.items[a].child = items[a].child
            /\ closed.items[a].prev = IF head # NULL /\ a = head THEN cur ELSE items[a].prev
  <2>1. CASE head = NULL
    BY <1>1, <1>4, <2>1
  <2>2. CASE head # NULL
    <3> DEFINE c == [mem EXCEPT !.items[head].prev = cur]
    <3>1. closed = c
      BY <2>2
    <3>2. DOMAIN c = {"items", "strings", "faults"} /\ c.items = [items EXCEPT ![head].prev = cur]
      BY <1>1
    <3> HIDE DEF c, closed, items
    <3>3. /\ DOMAIN c.items = DOMAIN items
          /\ c.items[head] = [items[head] EXCEPT !.prev = cur]
          /\ \A a \in DOMAIN items : a # head => c.items[a] = items[a]
      BY <1>3, <2>2, <3>2
    <3>4. /\ DOMAIN c.items[head] = Fields /\ c.items[head].prev = cur
          /\ c.items[head].next = items[head].next /\ c.items[head].child = items[head].child
      BY <1>3, <1>4, <1>5, <2>2, <3>3
    <3> QED
      BY <1>4, <2>2, <3>1, <3>2, <3>3, <3>4
  <2> QED
    BY <2>1, <2>2
<1> HIDE DEF closed
<1>7. items2 = [closed.items EXCEPT ![item] = [@ EXCEPT !.type = Top.kind, !.child = head]]
  BY <1>0, <1>6
<1> HIDE DEF items2, items
<1>8. /\ DOMAIN items2 = DOMAIN items
      /\ items2[item] = [closed.items[item] EXCEPT !.type = Top.kind, !.child = head]
      /\ \A a \in DOMAIN items : a # item => items2[a] = closed.items[a]
  BY <1>3, <1>6, <1>7
<1>9. items2[item].next = closed.items[item].next /\ items2[item].prev = closed.items[item].prev
      /\ items2[item].child = head
  BY <1>3, <1>5, <1>6, <1>8
<1>10. Closes(items, items2, item, head, cur)
  <2>1. ASSUME NEW a \in DOMAIN items
        PROVE  /\ items2[a].next = items[a].next
               /\ items2[a].prev = IF head # NULL /\ a = head THEN cur ELSE items[a].prev
               /\ items2[a].child = IF a = item THEN head ELSE items[a].child
    <3>1. CASE a = item
      BY <1>6, <1>9, <3>1
    <3>2. CASE a # item
      <4>1. items2[a] = closed.items[a]
        BY <1>8, <3>2
      <4> QED
        BY <1>6, <3>2, <4>1
    <3> QED
      BY <3>1, <3>2
  <2>2. DOMAIN items2 = DOMAIN items
    BY <1>8
  <2> QED
    BY <2>1, <2>2 DEF Closes
<1>11. head = frames[n].head /\ item = frames[n].item /\ cur = frames[n].current
  BY <1>2 DEF head, item, cur
<1>12. Linked(items, frames)
  BY DEF items
<1>13. Linked(items2, Pop)
  BY <1>1, <1>2, <1>10, <1>11, <1>12, LinkedOnClose
<1> QED
  BY <1>0, <1>13 DEF items2

LEMMA EnterLinks ==
    ASSUME IsSequence(frames), NEW kind \in Containers, Enter(kind), Linked(mem.items, frames)
    PROVE  Linked(mem'.items, frames')
<1> DEFINE call == [kind |-> kind, item |-> Target, head |-> NULL, current |-> NULL]
           T == {frames[k] : k \in DOMAIN frames}
<1>1. UNCHANGED mem /\ frames' = Append(frames, call)
  BY DEF Enter
<1>2. call.head = NULL /\ frames \in Seq(T)
  BY DEF IsSequence
<1> HIDE DEF call, T
<1> QED
  BY <1>1, <1>2, LinkedOnEntry

LEMMA ListsStep == ListInv /\ LeakInv /\ ParserInv /\ [Next]_parserVars => ListInv'
<1> SUFFICES ASSUME ListInv, LeakInv, ParserInv, [Next]_parserVars
             PROVE  ListInv'
  OBVIOUS
<1>0. IsSequence(frames) /\ (pc \in {"element", "more"} => frames # <<>>)
  BY DEF ParserInv, Calls
<1>1. CASE Begin
  <2>1. frames = <<>> /\ mem = EmptyMemory /\ frames' = <<>>
    BY <1>1 DEF Begin, LeakInv, Stage
  <2>2. mem' = cJSON_New_Item(EmptyMemory) \/ pc' = "failed"
    BY <1>1, <2>1 DEF Begin, Fail
  <2> QED
    BY <2>1, <2>2, RootLinked DEF ListInv
<1>2. CASE \/ NoText \/ NoValue \/ NoMemoryForElement \/ NeitherCommaNorEnd \/ Reject \/ Abandon
           \/ \E kind \in Containers : TooDeep(kind)
  <2>1. pc' \in {"failed", "rejected"}
    BY <1>2 DEF NoText, NoValue, NoMemoryForElement, NeitherCommaNorEnd, TooDeep, Fail, Reject, Abandon
  <2> QED
    BY <2>1 DEF ListInv
<1>3. CASE NextElement
  <2>1. pc = "more" /\ UNCHANGED <<mem, frames>>
    BY <1>3 DEF NextElement
  <2> QED
    BY <2>1 DEF ListInv
<1>4. CASE \/ \E word, type : ParseLiteral(word, type)
           \/ ParseNumber \/ ParseString
           \/ \E kind \in Containers : Empty(kind)
  <2>1. pc = "value"
    BY <1>4 DEF ParseLiteral, ParseNumber, ParseString, Empty
  <2>2. UNCHANGED frames /\ (pc' = "failed" \/ SameChain(mem.items, mem'.items))
    BY <1>4, <2>1, ValueLinks
  <2>3. Linked(mem.items, frames) /\ Chained(mem.items)
    BY <2>1 DEF ListInv, LeakInv, Forest, ForestOf
  <2>4. SameChain(mem.items, mem'.items) => Linked(mem'.items, frames)
    BY <2>3, StillLinked
  <2> QED
    BY <2>2, <2>4 DEF ListInv
<1>5. ASSUME NEW kind \in Containers, Enter(kind)
      PROVE  ListInv'
  <2>1. Linked(mem.items, frames)
    BY <1>5 DEF Enter, ListInv
  <2> QED
    BY <1>0, <1>5, <2>1, EnterLinks DEF ListInv
<1>6. CASE Element \/ Member
  <2>1. frames # <<>> /\ Linked(mem.items, frames)
    BY <1>0, <1>6 DEF Element, Member, ListInv
  <2> QED
    BY <1>0, <1>6, <2>1, ElementsLinks DEF ListInv
<1>7. CASE EndOfContainer
  <2>1. frames # <<>> /\ Linked(mem.items, frames)
    BY <1>0, <1>7 DEF EndOfContainer, ListInv
  <2> QED
    BY <1>0, <1>7, <2>1, EndLinks DEF ListInv
<1>8. CASE Returned \/ UNCHANGED parserVars
  <2>1. UNCHANGED <<mem, frames, pc>>
    BY <1>8 DEF Returned, parserVars
  <2> QED
    BY <2>1 DEF ListInv
<1> QED
  BY <1>1, <1>2, <1>3, <1>4, <1>5, <1>6, <1>7, <1>8 DEF Next

(* Whatever the text, every list of the tree that is handed over is linked *)
(* both ways, and its head knows its last, as the functions that edit      *)
(* trees rely on (head->prev = current_item).  Behind it is Linked: a call *)
(* knows the last of the list it builds, and shares it with no other list. *)
THEOREM ParsedListsAreLinked == ParserSpec => []ListsAreLinked
<1>1. LeakInv /\ ListInv => ListsAreLinked
  <2> SUFFICES ASSUME LeakInv, ListInv, pc = "accepted", NEW a \in DOMAIN mem.items
               PROVE  WellLinked(mem, mem.items[a].child)
    BY DEF ListsAreLinked
  <2>1. Chained(mem.items) /\ Linked(mem.items, frames)
    BY DEF LeakInv, Forest, ForestOf, ListInv
  <2> QED
    BY <2>1, LinkedWell
<1>2. ParserInv /\ LeakInv /\ ListInv /\ [Next]_parserVars => (ParserInv /\ LeakInv /\ ListInv)'
  BY StepHolds, LeakStep, ListsStep
<1>3. Init => ParserInv /\ LeakInv /\ ListInv
  <2>1. Init => ListInv
    BY NoListsLinked DEF Init, ListInv, EmptyMemory
  <2> QED
    BY <2>1, InitHolds, LeakInit
<1> QED
  BY <1>1, <1>2, <1>3, PTL DEF ParserSpec

=============================================================================
