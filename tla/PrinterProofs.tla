------------------------- MODULE PrinterProofs ---------------------------
(***************************************************************************)
(* Printing and minifying, for trees and texts of any size and content:    *)
(* what the functions under print_value write fits, is found again, and is *)
(* returned as a whole or not at all; and cJSON_Minify stays inside its    *)
(* text.                                                                   *)
(***************************************************************************)
EXTENDS JsonPrinter, JsonMinify, ProofLemmas

-----------------------------------------------------------------------------
(* Concatenations of any number of parts.                                   *)

(* What the community module defines, as far as it goes.                    *)
Flattens(f, parts, N) == f = [i \in 1..N |-> IF i = 1 THEN parts[i] ELSE f[i-1] \o parts[i]]

(* There is such a function,                                                *)
LEMMA FlatteningExists ==
    ASSUME NEW S, NEW N \in Nat, NEW parts, AreSequences(parts, N, S)
    PROVE  \E g : Flattens(g, parts, N)
<1>1. PICK f : Concatenates(f, parts, N)
  BY ConcatenationExists
<1> DEFINE g == [i \in 1..N |-> f[i]]
<1>2. \A i \in 1..N : g[i] = f[i]
  OBVIOUS
<1>3. g = [i \in 1..N |-> g[i]]
  OBVIOUS
<1> HIDE DEF g
<1>4. ASSUME NEW i \in 1..N
      PROVE  g[i] = IF i = 1 THEN parts[i] ELSE g[i-1] \o parts[i]
  <2>1. f[i] = f[i-1] \o parts[i] /\ parts[i] \in Seq(S) /\ f[0] = <<>>
    BY <1>1 DEF Concatenates, AreSequences
  <2>2. CASE i = 1
    <3>0. i - 1 = 0
      BY <2>2
    <3>1. f[i] = <<>> \o parts[i]
      BY <2>1, <3>0, Zenon
    <3>2. <<>> \o parts[i] = parts[i]
      BY <2>1, NothingInFront
    <3> QED
      BY <1>2, <2>2, <3>1, <3>2
  <2>3. CASE i # 1
    <3>1. i - 1 \in 1..N
      BY <2>3
    <3> QED
      BY <1>2, <2>1, <2>3, <3>1
  <2> QED
    BY <2>2, <2>3
<1>5. Flattens(g, parts, N)
  BY <1>3, <1>4, Zenon DEF Flattens
<1> QED
  BY <1>5

(* it gives the concatenations of the first parts,                          *)
LEMMA FlattenedParts ==
    ASSUME NEW S, NEW N \in Nat, NEW parts, AreSequences(parts, N, S),
           NEW g, Flattens(g, parts, N)
    PROVE  \E f : Concatenates(f, parts, N) /\ (N # 0 => g[N] = f[N])
<1> DEFINE f == [n \in 0..N |-> IF n = 0 THEN <<>> ELSE g[n]]
<1>1. DOMAIN f = 0..N /\ f[0] = <<>> /\ \A n \in 1..N : f[n] = g[n]
  OBVIOUS
<1>2. ASSUME NEW n \in 1..N
      PROVE  g[n] = IF n = 1 THEN parts[n] ELSE g[n-1] \o parts[n]
  BY Zenon DEF Flattens
<1> HIDE DEF f
<1>3. ASSUME NEW n \in 1..N
      PROVE  f[n] = f[n-1] \o parts[n]
  <2>1. CASE n = 1
    <3>1. parts[n] \in Seq(S)
      BY DEF AreSequences
    <3>2. <<>> \o parts[n] = parts[n]
      BY <3>1, NothingInFront
    <3>3. f[n-1] = <<>> /\ f[n] = parts[n]
      BY <1>1, <1>2, <2>1
    <3> QED
      BY <3>2, <3>3
  <2>2. CASE n # 1
    <3>1. n - 1 \in 1..N
      BY <2>2
    <3> QED
      BY <1>1, <1>2, <2>2, <3>1
  <2> QED
    BY <2>1, <2>2
<1>4. Concatenates(f, parts, N)
  BY <1>1, <1>3 DEF Concatenates
<1> QED
  BY <1>1, <1>4

(* and FlattenSeq the last of them.                                         *)
LEMMA Flattened ==
    ASSUME NEW S, NEW N \in Nat, NEW parts \in [1..N -> Seq(S)]
    PROVE  \E f : Concatenates(f, parts, N) /\ FlattenSeq(parts) = f[N]
<1>1. parts \in Seq(Seq(S)) /\ Len(parts) = N
  OBVIOUS
<1>0. AreSequences(parts, N, S)
  BY DEF AreSequences
<1> DEFINE g == CHOOSE g : Flattens(g, parts, Len(parts))
<1>2. FlattenSeq(parts) = IF Len(parts) = 0 THEN parts ELSE g[Len(parts)]
  BY DEF FlattenSeq, Flattens
<1>3. Flattens(g, parts, N)
  BY <1>0, <1>1, FlatteningExists
<1> HIDE DEF g
<1>4. PICK f : Concatenates(f, parts, N) /\ (N # 0 => g[N] = f[N])
  BY <1>0, <1>3, FlattenedParts
<1>5. N = 0 => parts = <<>> /\ f[0] = <<>>
  BY <1>1, <1>4 DEF Concatenates
<1> QED
  BY <1>1, <1>2, <1>4, <1>5

(* A concatenation of sequences over S is one.                              *)
LEMMA FlattenedIsSequence ==
    ASSUME NEW S, NEW N \in Nat, NEW parts \in [1..N -> Seq(S)]
    PROVE  FlattenSeq(parts) \in Seq(S)
<1>1. AreSequences(parts, N, S)
  BY DEF AreSequences
<1> QED
  BY <1>1, Flattened, PartsOfConcatenation

-----------------------------------------------------------------------------
(* What is printed of numbers and strings is text.                          *)

(* What texts consist of: no terminator.                                    *)
Printable == Nat \ {0}

(* The recursion of Numeral.                                                *)
DigitsStep(f, m) == IF m < 10 THEN <<48 + m>> ELSE f[m \div 10] \o <<48 + (m % 10)>>
AreDigits(f) == f = [m \in Nat |-> DigitsStep(f, m)]

(* A digit is text, and a number of several digits has a smaller one in     *)
(* front of its last.                                                       *)
LEMMA DigitIsPrintable ==
    ASSUME NEW m \in Nat
    PROVE  /\ <<48 + m>> \in Seq(Printable) /\ <<48 + (m % 10)>> \in Seq(Printable)
           /\ m >= 10 => m \div 10 \in Nat /\ m \div 10 < m
<1>1. m % 10 \in Nat
  OBVIOUS
<1>2. 48 + m \in Printable /\ 48 + (m % 10) \in Printable
  BY <1>1 DEF Printable
<1>3. m >= 10 => m \div 10 \in Nat /\ m \div 10 < m
  OBVIOUS
<1> QED
  BY <1>2, <1>3

(* The digits of m from those of what is smaller.                           *)
LEMMA OneMoreDigit ==
    ASSUME NEW f, NEW m \in Nat, m >= 10 => f[m \div 10] \in Seq(Printable)
    PROVE  DigitsStep(f, m) \in Seq(Printable)
<1>1. CASE m < 10
  BY <1>1, DigitIsPrintable DEF DigitsStep
<1>2. CASE m >= 10
  <2>1. f[m \div 10] \o <<48 + (m % 10)>> \in Seq(Printable)
    BY <1>2, DigitIsPrintable
  <2> QED
    BY <1>2, <2>1 DEF DigitsStep
<1> QED
  BY <1>1, <1>2

(* Every natural has digits.                                                *)
LEMMA DigitsExist == \E f : AreDigits(f)
<1> DEFINE T == Seq(Printable)
           rank == [m \in Nat |-> m]
           Step == [f \in [Nat -> T] |-> [m \in Nat |-> DigitsStep(f, m)]]
<1>1. T # {} /\ rank \in [Nat -> Nat] /\ \A m \in Nat : rank[m] = m
  <2>1. <<>> \in T
    OBVIOUS
  <2> QED
    BY <2>1
<1>2. \A f \in [Nat -> T] : \A m \in Nat : DigitsStep(f, m) \in T
  <2> SUFFICES ASSUME NEW f \in [Nat -> T], NEW m \in Nat
               PROVE  DigitsStep(f, m) \in T
    OBVIOUS
  <2>1. m >= 10 => f[m \div 10] \in T
    BY DigitIsPrintable
  <2> QED
    BY <2>1, OneMoreDigit
<1>3. \A f \in [Nat -> T] : \A m \in Nat : Step[f][m] = DigitsStep(f, m)
  OBVIOUS
<1>4. Step \in [[Nat -> T] -> [Nat -> T]]
  BY <1>2
<1>5. LooksBelow(Step, Nat, T, rank)
  <2> SUFFICES ASSUME NEW f \in [Nat -> T], NEW g \in [Nat -> T], NEW m \in Nat,
                      \A y \in Nat : rank[y] < rank[m] => f[y] = g[y]
               PROVE  Step[f][m] = Step[g][m]
    BY Zenon DEF LooksBelow
  <2>1. m >= 10 => f[m \div 10] = g[m \div 10]
    BY <1>1, DigitIsPrintable
  <2>2. DigitsStep(f, m) = DigitsStep(g, m)
    BY <2>1 DEF DigitsStep
  <2> HIDE DEF T, Step, rank
  <2> QED
    BY <1>3, <2>2, Zenon
<1> HIDE DEF T, rank, Step
<1>6. PICK f \in [Nat -> T] : \A m \in Nat : f[m] = Step[f][m]
  <2>1. IsRecursion(Step, Nat, T, rank)
    BY <1>1, <1>4, <1>5 DEF IsRecursion
  <2>2. HasFixedPoint(Step, Nat, T)
    BY <2>1, FixedPointExists
  <2> QED
    BY <2>2 DEF HasFixedPoint
<1>7. \A m \in Nat : f[m] = DigitsStep(f, m)
  BY <1>3, <1>6
<1>8. f = [m \in Nat |-> f[m]]
  BY <1>6
<1>9. f = [m \in Nat |-> DigitsStep(f, m)]
  BY <1>7, <1>8
<1> QED
  BY <1>9 DEF AreDigits

(* A number, its sign included, is printed without a terminator,            *)
LEMMA NumeralIsText ==
    ASSUME NEW n \in Int
    PROVE  Numeral(n) \in Seq(Printable)
<1> DEFINE digits == CHOOSE f : AreDigits(f)
<1>1. Numeral(n) = IF n < 0 THEN <<45>> \o digits[-n] ELSE digits[n]
  BY Zenon DEF Numeral, AreDigits, DigitsStep
<1>2. AreDigits(digits)
  BY DigitsExist, Zenon
<1> HIDE DEF digits
<1>3. \A m \in Nat : digits[m] = DigitsStep(digits, m)
  BY <1>2, Zenon DEF AreDigits
<1> DEFINE S == {m \in Nat : digits[m] \in Seq(Printable)}
           rank == [m \in Nat |-> m]
<1>4. rank \in [Nat -> Nat] /\ \A m \in Nat : rank[m] = m
  OBVIOUS
<1> HIDE DEF rank
<1>5. ASSUME NEW m \in Nat, \A y \in Nat : rank[y] < rank[m] => y \in S
      PROVE  m \in S
  <2>1. m >= 10 => digits[m \div 10] \in Seq(Printable)
    BY <1>4, <1>5, DigitIsPrintable
  <2> QED
    BY <1>3, <2>1, OneMoreDigit
<1>6. Nat \subseteq S
  <2> HIDE DEF S
  <2> QED
    BY <1>4, <1>5, RankInduction
<1>7. CASE n < 0
  <2>1. -n \in Nat /\ <<45>> \in Seq(Printable)
    BY <1>7 DEF Printable
  <2>2. digits[-n] \in Seq(Printable)
    BY <1>6, <2>1
  <2> QED
    BY <1>1, <1>7, <2>1, <2>2
<1>8. CASE ~(n < 0)
  BY <1>1, <1>6, <1>8
<1> QED
  BY <1>7, <1>8

(* and so is a byte of a string, escaped or not.                            *)
LEMMA EscapedIsText ==
    ASSUME NEW c \in 1..255
    PROVE  Escaped(c) \in Seq(Printable)
<1>1. c \div 16 \in Nat /\ c % 16 \in Nat /\ c \in Nat \ {0}
  OBVIOUS
<1>2. \A d \in Nat : Hex(d) \in Nat \ {0}
  BY DEF Hex
<1>3. \A d \in DOMAIN Letter : Letter[d] \in Nat \ {0}
  BY DEF Letter
<1>4. CASE c \in {34, 92}
  BY <1>4 DEF Escaped, Printable
<1>5. CASE c \in DOMAIN Letter /\ c \notin {34, 92}
  BY <1>3, <1>5 DEF Escaped, Printable
<1>6. CASE c \notin DOMAIN Letter /\ c \notin {34, 92} /\ c < 32
  <2>1. <<92, 117, 48, 48, Hex(c \div 16), Hex(c % 16)>> \in Seq(Printable)
    BY <1>1, <1>2 DEF Printable
  <2> QED
    BY <1>6, <2>1 DEF Escaped
<1>7. CASE c \notin DOMAIN Letter /\ c \notin {34, 92} /\ ~(c < 32)
  BY <1>1, <1>7 DEF Escaped, Printable
<1> QED
  BY <1>4, <1>5, <1>6, <1>7

(* All bytes of a string, escaped.                                          *)
LEMMA EscapedBytesAreText ==
    ASSUME NEW s \in Seq(1..255)
    PROVE  EscapedBytes(s) \in Seq(Printable)
<1>1. Len(s) \in Nat /\ DOMAIN s = 1..Len(s) /\ \A n \in 1..Len(s) : s[n] \in 1..255
  BY Elements
<1> DEFINE parts == [n \in DOMAIN s |-> Escaped(s[n])]
<1>2. \A n \in 1..Len(s) : Escaped(s[n]) \in Seq(Printable)
  BY <1>1, EscapedIsText
<1>3. parts \in [1..Len(s) -> Seq(Printable)]
  BY <1>1, <1>2
<1> HIDE DEF parts
<1>4. FlattenSeq(parts) \in Seq(Printable)
  BY <1>1, <1>3, FlattenedIsSequence
<1> QED
  BY <1>4 DEF EscapedBytes, parts

-----------------------------------------------------------------------------
(* Pieces, and the calls of update_offset between them.                     *)

(* The pieces ask for what they write, with or without the terminator,      *)
(* which the offset has one byte more for.                                  *)
Pieces ==
    {p \in [update : {FALSE}, needs : Nat, text : Seq(Printable), ends : BOOLEAN, moves : BOOLEAN] :
        Len(p.text) <= p.needs /\ p.needs <= Len(p.text) + 1}
Steps == Pieces \cup {UpdateOffset}

(* Behind a piece that leaves the offset alone there is a call of           *)
(* update_offset, and in front of one a piece that has written a            *)
(* terminator.                                                              *)
Follow(p, q) == IF q.update THEN ~p.update /\ p.ends ELSE p.update \/ p.moves

(* Steps in which each piece and each update_offset stands where it may.    *)
Chain(s) ==
    /\ s \in Seq(Steps)
    /\ s # <<>> => ~s[1].update
    /\ \A n \in 1..Len(s)-1 : Follow(s[n], s[n+1])

(* The offset is behind the text: one can go on with anything.              *)
Plain(s) == Chain(s) /\ (s # <<>> => s[Len(s)].update \/ s[Len(s)].moves)
(* The text ends in a terminator, as that of each value does.               *)
Complete(s) == Chain(s) /\ s # <<>> /\ ~s[Len(s)].update /\ s[Len(s)].ends

(* Each step is a piece or a call of update_offset.                         *)
LEMMA StepTypes ==
    ASSUME NEW p \in Steps
    PROVE  /\ p.update \in BOOLEAN /\ p.ends \in BOOLEAN /\ p.moves \in BOOLEAN
           /\ p.needs \in Nat /\ p.text \in Seq(Printable) /\ Len(p.text) \in Nat
           /\ p.update => p = UpdateOffset /\ p.text = <<>>
           /\ ~p.update => Len(p.text) <= p.needs /\ p.needs <= Len(p.text) + 1
<1>1. CASE p \in Pieces
  <2>1. /\ p.update = FALSE /\ p.ends \in BOOLEAN /\ p.moves \in BOOLEAN
        /\ p.needs \in Nat /\ p.text \in Seq(Printable)
        /\ Len(p.text) <= p.needs /\ p.needs <= Len(p.text) + 1
    BY <1>1 DEF Pieces
  <2> QED
    BY <2>1, Elements
<1>2. CASE p = UpdateOffset
  <2>1. <<>> \in Seq(Printable) /\ Len(<<>>) = 0
    OBVIOUS
  <2>2. p.update = TRUE /\ p.ends = FALSE /\ p.moves = FALSE /\ p.needs = 0 /\ p.text = <<>>
    BY <1>2 DEF UpdateOffset
  <2>3. p.text \in Seq(Printable) /\ Len(p.text) \in Nat
    BY <2>1, <2>2
  <2>4. p.needs \in Nat
    BY <2>2
  <2> QED
    BY <1>2, <2>2, <2>3, <2>4, Zenon
<1> QED
  BY <1>1, <1>2 DEF Steps

(* Chains can be put together where the offset is behind the text.          *)
LEMMA ChainsJoin ==
    ASSUME NEW s, Plain(s), NEW t, Chain(t)
    PROVE  Chain(s \o t) /\ (Plain(t) => Plain(s \o t)) /\ (Complete(t) => Complete(s \o t))
<1>1. s \in Seq(Steps) /\ t \in Seq(Steps)
  BY DEF Plain, Chain
<1> DEFINE r == s \o t
<1>2. /\ r \in Seq(Steps)
      /\ Len(r) = Len(s) + Len(t)
      /\ \A j \in 1..Len(s) : r[j] = s[j]
      /\ \A j \in 1..Len(t) : r[Len(s) + j] = t[j]
  BY <1>1, Joined
<1>3. Len(s) \in Nat /\ Len(t) \in Nat /\ (s = <<>> <=> Len(s) = 0) /\ (t = <<>> <=> Len(t) = 0)
      /\ (r = <<>> <=> Len(r) = 0)
  BY <1>1, <1>2
<1> HIDE DEF r
<1>4. r # <<>> => ~r[1].update
  <2>1. CASE Len(s) = 0
    BY <1>2, <1>3, <2>1 DEF Chain
  <2>2. CASE Len(s) # 0
    <3>1. 1 \in 1..Len(s)
      BY <1>3, <2>2
    <3> QED
      BY <1>2, <1>3, <2>2, <3>1 DEF Chain, Plain
  <2> QED
    BY <2>1, <2>2
<1>5. ASSUME NEW n \in 1..Len(r)-1
      PROVE  Follow(r[n], r[n+1])
  <2>1. CASE n < Len(s)
    <3>1. n \in 1..Len(s)-1 /\ n \in 1..Len(s) /\ n + 1 \in 1..Len(s)
      BY <1>2, <1>3, <2>1
    <3> QED
      BY <1>2, <3>1 DEF Plain, Chain
  <2>2. CASE n = Len(s)
    <3>1. n \in 1..Len(s) /\ 1 \in 1..Len(t) /\ n + 1 = Len(s) + 1 /\ s # <<>> /\ t # <<>>
      BY <1>2, <1>3, <2>2
    <3>2. r[n] = s[Len(s)] /\ r[n+1] = t[1]
      BY <1>2, <2>2, <3>1
    <3>3. Follow(s[Len(s)], t[1])
      BY <3>1 DEF Follow, Plain, Chain
    <3> QED
      BY <3>2, <3>3
  <2>3. CASE n > Len(s)
    <3>1. PICK m : m = n - Len(s) /\ m \in 1..Len(t)-1 /\ m \in 1..Len(t) /\ m + 1 \in 1..Len(t)
                   /\ n = Len(s) + m /\ n + 1 = Len(s) + (m + 1)
      BY <1>2, <1>3, <2>3
    <3>2. r[n] = t[m] /\ r[n+1] = t[m+1]
      BY <1>2, <3>1
    <3> QED
      BY <3>1, <3>2 DEF Chain
  <2> QED
    BY <1>2, <1>3, <2>1, <2>2, <2>3
<1>6. Chain(r)
  BY <1>2, <1>4, <1>5 DEF Chain
<1>7. t # <<>> => r # <<>> /\ r[Len(r)] = t[Len(t)]
  <2> SUFFICES ASSUME t # <<>>
               PROVE  r # <<>> /\ r[Len(r)] = t[Len(t)]
    OBVIOUS
  <2>1. Len(t) \in 1..Len(t) /\ Len(r) # 0
    BY <1>2, <1>3
  <2> QED
    BY <1>2, <1>3, <2>1
<1>8. t = <<>> => r = s
  BY <1>1 DEF r
<1>9. Plain(t) => Plain(r)
  BY <1>6, <1>7, <1>8 DEF Plain
<1>10. Complete(t) => Complete(r)
  BY <1>6, <1>7 DEF Complete
<1> QED
  BY <1>6, <1>9, <1>10 DEF r

(* A chain of one step.                                                     *)
LEMMA OnePiece ==
    ASSUME NEW p \in Pieces
    PROVE  Chain(<<p>>) /\ (p.moves => Plain(<<p>>)) /\ (p.ends => Complete(<<p>>))
<1>1. p \in Steps /\ ~p.update
  BY DEF Steps, Pieces
<1>2. <<p>> \in Seq(Steps) /\ Len(<<p>>) = 1 /\ <<p>>[1] = p /\ <<p>> # <<>>
  BY <1>1
<1>3. Chain(<<p>>)
  BY <1>1, <1>2 DEF Chain
<1> QED
  BY <1>1, <1>2, <1>3 DEF Plain, Complete

(* Behind a value, update_offset moves the offset.                          *)
LEMMA UpdatedIsPlain ==
    ASSUME NEW s, Complete(s)
    PROVE  Plain(s \o <<UpdateOffset>>)
<1>1. s \in Seq(Steps) /\ s # <<>>
  BY DEF Complete, Chain
<1>0. <<UpdateOffset>> \in Seq(Steps) /\ Len(<<UpdateOffset>>) = 1 /\ <<UpdateOffset>>[1] = UpdateOffset
  BY DEF Steps
<1> DEFINE r == s \o <<UpdateOffset>>
<1>2. /\ r \in Seq(Steps)
      /\ Len(r) = Len(s) + Len(<<UpdateOffset>>)
      /\ \A j \in 1..Len(s) : r[j] = s[j]
      /\ \A j \in 1..Len(<<UpdateOffset>>) : r[Len(s) + j] = <<UpdateOffset>>[j]
  BY <1>0, <1>1, Joined
<1> HIDE DEF r
<1>3. Len(s) \in Nat \ {0}
  BY <1>1
<1>4. Len(r) = Len(s) + 1 /\ r[Len(s) + 1] = UpdateOffset
  BY <1>0, <1>2
<1>5. r # <<>> /\ ~r[1].update
  <2>1. 1 \in 1..Len(s)
    BY <1>3
  <2> QED
    BY <1>1, <1>2, <1>3, <1>4, <2>1 DEF Complete, Chain
<1>6. ASSUME NEW n \in 1..Len(r)-1
      PROVE  Follow(r[n], r[n+1])
  <2>1. CASE n < Len(s)
    <3>1. n \in 1..Len(s)-1 /\ n \in 1..Len(s) /\ n + 1 \in 1..Len(s)
      BY <1>3, <2>1
    <3> QED
      BY <1>2, <3>1 DEF Complete, Chain
  <2>2. CASE n = Len(s)
    <3>1. r[n] = s[Len(s)] /\ r[n+1] = UpdateOffset
      BY <1>2, <1>3, <1>4, <2>2
    <3>2. Follow(s[Len(s)], UpdateOffset)
      BY DEF Follow, UpdateOffset, Complete
    <3> QED
      BY <3>1, <3>2
  <2> QED
    BY <1>3, <1>4, <2>1, <2>2
<1>7. r[Len(r)].update
  BY <1>4 DEF UpdateOffset
<1>8. Plain(r)
  BY <1>2, <1>5, <1>6, <1>7 DEF Plain, Chain
<1> QED
  BY <1>8 DEF r

(* Nothing printed is a chain,                                              *)
LEMMA EmptyIsPlain == Plain(<<>>)
<1>1. <<>> \in Seq(Steps) /\ Len(<<>>) = 0
  OBVIOUS
<1> QED
  BY <1>1 DEF Plain, Chain

(* and so are any number of such chains, one behind the other.              *)
LEMMA FlattenedIsPlain ==
    ASSUME NEW N \in Nat, NEW parts, DOMAIN parts = 1..N, parts = [n \in 1..N |-> parts[n]],
           \A n \in 1..N : Plain(parts[n])
    PROVE  Plain(FlattenSeq(parts))
<1>1. \A n \in 1..N : parts[n] \in Seq(Steps)
  BY DEF Plain, Chain
<1>2. parts \in [1..N -> Seq(Steps)]
  BY <1>1
<1>3. PICK f : Concatenates(f, parts, N) /\ FlattenSeq(parts) = f[N]
  BY <1>2, Flattened
<1> DEFINE S == {n \in Nat : n <= N => Plain(f[n])}
<1>4. 0 \in S
  <2>1. f[0] = <<>>
    BY <1>3 DEF Concatenates
  <2> QED
    BY <2>1, EmptyIsPlain
<1>5. ASSUME NEW n \in Nat, n \in S
      PROVE  n + 1 \in S
  <2> SUFFICES ASSUME n + 1 <= N
               PROVE  Plain(f[n+1])
    OBVIOUS
  <2>1. PICK m : m \in 1..N /\ m = n + 1 /\ m - 1 = n
    OBVIOUS
  <2>2. f[m] = f[m-1] \o parts[m]
    BY <1>3, <2>1, Zenon DEF Concatenates
  <2>3. Plain(f[m-1]) /\ Plain(parts[m])
    BY <1>5, <2>1
  <2>4. Plain(f[m-1] \o parts[m])
    BY <2>3, ChainsJoin DEF Plain
  <2> QED
    BY <2>1, <2>2, <2>4
<1>6. Nat \subseteq S
  <2> HIDE DEF S
  <2> QED
    BY <1>4, <1>5, Induction
<1> QED
  BY <1>3, <1>6

-----------------------------------------------------------------------------
(* What the functions under print_value ask for and write.                  *)

(* A piece has one step,                                                    *)
LEMMA PieceIsOne ==
    ASSUME NEW word \in Seq(Printable), NEW needs \in Nat,
           Len(word) <= needs, needs <= Len(word) + 1,
           NEW ends \in BOOLEAN, NEW moves \in BOOLEAN
    PROVE  Piece(needs, word, ends, moves) \in Pieces
  BY DEF Piece, Pieces

(* one that writes a terminator ends a text,                                *)
LEMMA EndingPiece ==
    ASSUME NEW word \in Seq(Printable), NEW needs \in Nat,
           Len(word) <= needs, needs <= Len(word) + 1, NEW moves \in BOOLEAN
    PROVE  Complete(<<Piece(needs, word, TRUE, moves)>>)
<1>1. Piece(needs, word, TRUE, moves) \in Pieces
  BY PieceIsOne
<1>2. Piece(needs, word, TRUE, moves).ends
  BY DEF Piece
<1> QED
  BY <1>1, <1>2, OnePiece

(* and one that moves the offset can be gone on from.                       *)
LEMMA MovingPiece ==
    ASSUME NEW word \in Seq(Printable), NEW needs \in Nat,
           Len(word) <= needs, needs <= Len(word) + 1, NEW ends \in BOOLEAN
    PROVE  Plain(<<Piece(needs, word, ends, TRUE)>>)
<1>1. Piece(needs, word, ends, TRUE) \in Pieces
  BY PieceIsOne
<1>2. Piece(needs, word, ends, TRUE).moves
  BY DEF Piece
<1> QED
  BY <1>1, <1>2, OnePiece

(* The pieces that print_value and what it calls are made of.               *)
LEMMA TextAndOne ==
    ASSUME NEW word \in Seq(Printable)
    PROVE  /\ Complete(<<Piece(Len(word) + 1, word, TRUE, FALSE)>>)
           /\ Complete(<<Piece(Len(word) + 1, word, TRUE, TRUE)>>)
           /\ Plain(<<Piece(Len(word) + 1, word, TRUE, TRUE)>>)
           /\ Plain(<<Piece(Len(word) + 1, word, FALSE, TRUE)>>)
           /\ Plain(<<Piece(Len(word), word, FALSE, TRUE)>>)
<1>1. PICK n : n = Len(word) + 1 /\ n \in Nat /\ Len(word) <= n /\ n <= Len(word) + 1
  BY Elements
<1>2. PICK m : m = Len(word) /\ m \in Nat /\ Len(word) <= m /\ m <= Len(word) + 1
  BY Elements
<1>3. TRUE \in BOOLEAN /\ FALSE \in BOOLEAN
  OBVIOUS
<1>4. Complete(<<Piece(n, word, TRUE, FALSE)>>) /\ Complete(<<Piece(n, word, TRUE, TRUE)>>)
  BY <1>1, <1>3, EndingPiece, Zenon
<1>5. Plain(<<Piece(n, word, TRUE, TRUE)>>) /\ Plain(<<Piece(n, word, FALSE, TRUE)>>)
  BY <1>1, <1>3, MovingPiece, Zenon
<1>6. Plain(<<Piece(m, word, FALSE, TRUE)>>)
  BY <1>2, <1>3, MovingPiece, Zenon
<1> QED
  BY <1>1, <1>2, <1>4, <1>5, <1>6, Zenon

(* NULL, False and True; numbers; strings.                                  *)
LEMMA LiteralIsComplete ==
    ASSUME NEW word \in Seq(Printable)
    PROVE  Complete(Literal(word))
  BY TextAndOne, Zenon DEF Literal

(* What print_number prints,                                                *)
LEMMA NumberIsComplete ==
    ASSUME NEW n \in Int
    PROVE  Complete(print_number(n))
<1>1. Numeral(n) \in Seq(Printable)
  BY NumeralIsText
<1> QED
  BY <1>1, TextAndOne, Zenon DEF print_number

(* what is between the quotes of a string,                                  *)
LEMMA QuotedIsText ==
    ASSUME NEW s \in Seq(Printable)
    PROVE  Quoted(s) \in Seq(Printable) /\ Len(Quoted(s)) = Len(s) + 2
<1>1. <<34>> \in Seq(Printable) /\ Len(<<34>>) = 1
  BY DEF Printable
<1>2. <<34>> \o s \in Seq(Printable) /\ Len(<<34>> \o s) = 1 + Len(s)
  BY <1>1
<1>3. (<<34>> \o s) \o <<34>> \in Seq(Printable) /\ Len((<<34>> \o s) \o <<34>>) = 1 + Len(s) + 1
  BY <1>1, <1>2
<1> QED
  BY <1>3, Elements DEF Quoted

(* and what print_string_ptr prints.                                        *)
LEMMA StringIsComplete ==
    ASSUME NEW s \in Seq(1..255)
    PROVE  Complete(print_string_ptr(s))
<1>1. EscapedBytes(s) \in Seq(Printable)
  BY EscapedBytesAreText
<1>2. PICK t \in Seq(Printable) : t = EscapedBytes(s)
  BY <1>1
<1>3. Quoted(t) \in Seq(Printable) /\ Len(Quoted(t)) = Len(t) + 2 /\ Len(t) \in Nat
  BY QuotedIsText, Elements
<1>4. Complete(<<Piece(Len(Quoted(t)) + 1, Quoted(t), TRUE, FALSE)>>)
  BY <1>3, TextAndOne
<1>5. Len(Quoted(t)) + 1 = Len(t) + 3
  BY <1>3
<1> QED
  BY <1>2, <1>4, <1>5, Zenon DEF print_string_ptr

(* The indentation of print_object.                                         *)
LEMMA TabsAreText ==
    ASSUME NEW n \in Nat
    PROVE  Tabs(n) \in Seq(Printable) /\ Len(Tabs(n)) = n
  BY DEF Tabs, Printable

(* Text behind text is text,                                                *)
LEMMA JoinedText ==
    ASSUME NEW s \in Seq(Printable), NEW t \in Seq(Printable)
    PROVE  s \o t \in Seq(Printable) /\ Len(s \o t) = Len(s) + Len(t)
  OBVIOUS

(* and so is text under a condition.                                        *)
LEMMA IfIsText ==
    ASSUME NEW condition, NEW s \in Seq(Printable)
    PROVE  If(condition, s) \in Seq(Printable)
<1>1. <<>> \in Seq(Printable)
  OBVIOUS
<1> QED
  BY <1>1 DEF If

(* Chains behind each other,                                                *)
LEMMA PlainJoin ==
    ASSUME NEW s, Plain(s), NEW t, Plain(t)
    PROVE  Plain(s \o t)
  BY ChainsJoin DEF Plain

(* the last of them one that ends in a terminator.                          *)
LEMMA PlainThenComplete ==
    ASSUME NEW s, Plain(s), NEW t, Complete(t)
    PROVE  Complete(s \o t)
  BY ChainsJoin DEF Complete

(* What is printed of the elements of a container.                          *)
AllComplete(printed, N) ==
    /\ DOMAIN printed = 1..N /\ Len(printed) = N
    /\ \A n \in 1..N : Complete(printed[n])

(* The texts print_array and print_object write themselves.                 *)
LEMMA SomeTexts ==
    /\ \A formatted :
         /\ <<44>> \o If(formatted, <<32>>) \in Seq(Printable)
         /\ <<123>> \o If(formatted, <<10>>) \in Seq(Printable)
         /\ <<58>> \o If(formatted, <<9>>) \in Seq(Printable)
         /\ \A last : If(last, <<44>>) \o If(formatted, <<10>>) \in Seq(Printable)
    /\ <<91>> \in Seq(Printable) /\ <<93>> \in Seq(Printable) /\ <<125>> \in Seq(Printable)
<1>1. \A c \in Printable : <<c>> \in Seq(Printable)
  OBVIOUS
<1>2. {44, 123, 58, 91, 93, 125, 32, 9, 10} \subseteq Printable
  BY DEF Printable
<1>3. \A c \in {44, 123, 58, 91, 93, 125, 32, 9, 10} : <<c>> \in Seq(Printable)
  BY <1>1, <1>2
<1> QED
  BY <1>3, IfIsText, JoinedText

(* An array, if what is printed of each element is complete; an object.     *)
LEMMA ArrayIsComplete ==
    ASSUME NEW N \in Nat, NEW printed, AllComplete(printed, N), NEW formatted \in BOOLEAN
    PROVE  Complete(print_array(printed, formatted))
<1> DEFINE separator == <<44>> \o If(formatted, <<32>>)
           between == <<Piece(Len(separator) + 1, separator, TRUE, TRUE)>>
           element(n) == printed[n] \o <<UpdateOffset>> \o If(n < Len(printed), between)
           first == <<Piece(1, <<91>>, FALSE, TRUE)>>
           final == <<Piece(2, <<93>>, TRUE, FALSE)>>
           parts == [n \in DOMAIN printed |-> element(n)]
<1>1. Plain(between)
  <2>1. separator \in Seq(Printable)
    BY SomeTexts
  <2> HIDE DEF separator
  <2> QED
    BY <2>1, TextAndOne, Zenon
<1>2. Plain(first) /\ Complete(final)
  <2>1. Len(<<91>>) = 1 /\ Len(<<93>>) = 1
    OBVIOUS
  <2>2. <<91>> \in Seq(Printable) /\ <<93>> \in Seq(Printable)
    BY SomeTexts
  <2>3. Plain(first)
    BY <2>1, <2>2, TextAndOne, Zenon
  <2>4. Complete(final)
    <3>1. Len(<<93>>) + 1 = 2
      BY <2>1
    <3> QED
      BY <2>2, <3>1, TextAndOne, Zenon
  <2> QED
    BY <2>3, <2>4
<1>3. print_array(printed, formatted) = first \o FlattenSeq(parts) \o final
  BY DEF print_array
<1> HIDE DEF between, first, final
<1>4. ASSUME NEW n \in 1..N
      PROVE  Plain(element(n))
  <2>1. Plain(printed[n] \o <<UpdateOffset>>)
    BY UpdatedIsPlain DEF AllComplete
  <2>2. Plain(If(n < Len(printed), between))
    BY <1>1, EmptyIsPlain DEF If
  <2> QED
    BY <2>1, <2>2, PlainJoin
<1> HIDE DEF element
<1>5. Plain(FlattenSeq(parts))
  <2>1. DOMAIN parts = 1..N /\ parts = [n \in 1..N |-> parts[n]] /\ \A n \in 1..N : Plain(parts[n])
    BY <1>4 DEF AllComplete
  <2> HIDE DEF parts
  <2> QED
    BY <2>1, FlattenedIsPlain
<1> HIDE DEF parts
<1>6. Plain(first \o FlattenSeq(parts))
  BY <1>2, <1>5, PlainJoin
<1>7. Complete(first \o FlattenSeq(parts) \o final)
  BY <1>2, <1>6, PlainThenComplete
<1> QED
  BY <1>3, <1>7

(* An object, if what is printed of each member is.                         *)
LEMMA ObjectIsComplete ==
    ASSUME NEW N \in Nat, NEW printed, AllComplete(printed, N),
           NEW members, DOMAIN members = 1..N, Len(members) = N,
           \A n \in 1..N : members[n][1] \in Seq(1..255),
           NEW formatted \in BOOLEAN, NEW depth \in Nat
    PROVE  Complete(print_object(members, printed, formatted, depth))
<1> DEFINE opening == <<123>> \o If(formatted, <<10>>)
           colon == <<58>> \o If(formatted, <<9>>)
           ending(n) == If(n < Len(members), <<44>>) \o If(formatted, <<10>>)
           indent == <<Piece(depth + 1, Tabs(depth + 1), FALSE, TRUE)>>
           colons == <<Piece(Len(colon), colon, FALSE, TRUE)>>
           endings(n) == <<Piece(Len(ending(n)) + 1, ending(n), TRUE, TRUE)>>
           member(n) == If(formatted, indent) \o print_string_ptr(members[n][1]) \o <<UpdateOffset>>
                          \o colons \o printed[n] \o <<UpdateOffset>> \o endings(n)
           first == <<Piece(Len(opening) + 1, opening, FALSE, TRUE)>>
           last == If(formatted, Tabs(depth)) \o <<125>>
           final == <<Piece(IF formatted THEN depth + 2 ELSE 2, last, TRUE, FALSE)>>
           parts == [n \in DOMAIN members |-> member(n)]
<1>1. Plain(first)
  <2>1. opening \in Seq(Printable)
    BY SomeTexts
  <2> HIDE DEF opening
  <2> QED
    BY <2>1, TextAndOne, Zenon
<1>2. Plain(colons)
  <2>1. colon \in Seq(Printable)
    BY SomeTexts
  <2> HIDE DEF colon
  <2> QED
    BY <2>1, TextAndOne, Zenon
<1>3. ASSUME NEW n \in 1..N
      PROVE  Plain(endings(n))
  <2>1. ending(n) \in Seq(Printable)
    BY SomeTexts, Zenon
  <2> HIDE DEF ending
  <2> QED
    BY <2>1, TextAndOne, Zenon
<1>4. Plain(If(formatted, indent))
  <2>1. Tabs(depth + 1) \in Seq(Printable) /\ Len(Tabs(depth + 1)) = depth + 1
    BY TabsAreText
  <2>2. Plain(indent)
    BY <2>1, TextAndOne, Zenon
  <2> QED
    BY <2>2, EmptyIsPlain DEF If
<1>5. Complete(final)
  <2>1. Tabs(depth) \in Seq(Printable) /\ Len(Tabs(depth)) = depth
    BY TabsAreText
  <2>2. <<125>> \in Seq(Printable) /\ Len(<<125>>) = 1
    BY SomeTexts
  <2>3. CASE formatted
    <3>0. \A s, t \in Seq(Printable) : s \o t \in Seq(Printable) /\ Len(s \o t) = Len(s) + Len(t)
      BY JoinedText
    <3>1. last = Tabs(depth) \o <<125>>
      BY <2>3 DEF If
    <3> HIDE DEF last
    <3>2. last \in Seq(Printable) /\ Len(last) = Len(Tabs(depth)) + Len(<<125>>)
      BY <2>1, <2>2, <3>0, <3>1, Zenon
    <3>3. Len(last) + 1 = depth + 2
      BY <2>1, <2>2, <3>2
    <3> QED
      BY <2>3, <3>2, <3>3, TextAndOne, Zenon
  <2>4. CASE ~formatted
    <3>1. last = <<125>>
      BY <2>2, <2>4, NothingInFront DEF If
    <3>2. Len(<<125>>) + 1 = 2
      BY <2>2
    <3> HIDE DEF last
    <3> QED
      BY <2>2, <2>4, <3>1, <3>2, TextAndOne, Zenon
  <2> QED
    BY <2>3, <2>4
<1>6. print_object(members, printed, formatted, depth) = first \o FlattenSeq(parts) \o final
  BY DEF print_object
<1> HIDE DEF first, colons, endings, indent, final
<1>7. ASSUME NEW n \in 1..N
      PROVE  Plain(member(n))
  <2>1. Complete(print_string_ptr(members[n][1])) /\ Complete(printed[n])
    BY StringIsComplete DEF AllComplete
  <2>2. Complete(If(formatted, indent) \o print_string_ptr(members[n][1]))
    BY <1>4, <2>1, PlainThenComplete
  <2>3. Plain(If(formatted, indent) \o print_string_ptr(members[n][1]) \o <<UpdateOffset>>)
    BY <2>2, UpdatedIsPlain
  <2>4. Plain(If(formatted, indent) \o print_string_ptr(members[n][1]) \o <<UpdateOffset>> \o colons)
    BY <1>2, <2>3, PlainJoin
  <2>5. Complete(If(formatted, indent) \o print_string_ptr(members[n][1]) \o <<UpdateOffset>> \o colons
                   \o printed[n])
    BY <2>1, <2>4, PlainThenComplete
  <2>6. Plain(If(formatted, indent) \o print_string_ptr(members[n][1]) \o <<UpdateOffset>> \o colons
                   \o printed[n] \o <<UpdateOffset>>)
    BY <2>5, UpdatedIsPlain
  <2> QED
    BY <1>3, <2>6, PlainJoin
<1> HIDE DEF member
<1>8. Plain(FlattenSeq(parts))
  <2>1. DOMAIN parts = 1..N /\ parts = [n \in 1..N |-> parts[n]] /\ \A n \in 1..N : Plain(parts[n])
    BY <1>7
  <2> HIDE DEF parts
  <2> QED
    BY <2>1, FlattenedIsPlain
<1> HIDE DEF parts
<1>9. Plain(first \o FlattenSeq(parts))
  BY <1>1, <1>8, PlainJoin
<1>10. Complete(first \o FlattenSeq(parts) \o final)
  BY <1>5, <1>9, PlainThenComplete
<1> QED
  BY <1>6, <1>10

-----------------------------------------------------------------------------
(* All of a tree.                                                           *)

(* The recursion of print_value.                                            *)
IsPrint(f, formatted) ==
    f = [value \in Values |-> [depth \in Nat |-> print_type(f, value, depth, formatted)]]

(* What is in an array is nested less deep,                                 *)
LEMMA ElementsAreBelow ==
    ASSUME NEW value \in Values, value[1] = "Array"
    PROVE  \E N \in Nat :
              /\ DOMAIN value[2] = 1..N /\ Len(value[2]) = N
              /\ \A n \in 1..N : value[2][n] \in Values /\ Nesting[value[2][n]] < Nesting[value]
<1>1. value[2] \in Seq(Values) /\ Within(value[2], value)
  BY ValuesAssumption DEF IsValue
<1>2. DOMAIN value[2] = 1..Len(value[2]) /\ Len(value[2]) \in Nat
  BY <1>1, Elements
<1> QED
  BY <1>1, <1>2 DEF Within

(* and so is what is in an object.                                          *)
LEMMA MembersAreBelow ==
    ASSUME NEW value \in Values, value[1] = "Object"
    PROVE  \E N \in Nat :
              /\ DOMAIN value[2] = 1..N /\ Len(value[2]) = N
              /\ \A n \in 1..N : /\ value[2][n][1] \in Seq(1..255)
                                 /\ value[2][n][2] \in Values /\ Nesting[value[2][n][2]] < Nesting[value]
<1>1. value[2] \in Seq(Seq(1..255) \X Values)
      /\ Within([n \in DOMAIN value[2] |-> value[2][n][2]], value)
  BY ValuesAssumption DEF IsValue
<1>2. /\ DOMAIN value[2] = 1..Len(value[2]) /\ Len(value[2]) \in Nat
      /\ \A n \in 1..Len(value[2]) : value[2][n] \in Seq(1..255) \X Values
  BY <1>1, Elements
<1>3. \A n \in 1..Len(value[2]) : value[2][n][1] \in Seq(1..255)
  BY <1>2
<1>4. \A n \in 1..Len(value[2]) : value[2][n][2] \in Values /\ Nesting[value[2][n][2]] < Nesting[value]
  BY <1>1, <1>2 DEF Within
<1> QED
  BY <1>2, <1>3, <1>4

(* f prints what it has to of all values that are nested less deep than k.  *)
IsCompleteBelow(f, value) ==
    \A v \in Values : Nesting[v] < Nesting[value] => \A d \in Nat : Complete(f[v][d])

(* A value is complete if those in it are.                                  *)
LEMMA StepIsComplete ==
    ASSUME NEW value \in Values, NEW f, IsCompleteBelow(f, value), NEW depth \in Nat, NEW formatted \in BOOLEAN
    PROVE  Complete(print_type(f, value, depth, formatted))
<1>0. depth + 1 \in Nat
  OBVIOUS
<1>1. IsValue(value)
  BY ValuesAssumption
<1>2. CASE value[1] = "NULL"
  <2>1. <<110, 117, 108, 108>> \in Seq(Printable)
    BY DEF Printable
  <2>2. Complete(Literal(<<110, 117, 108, 108>>))
    BY <2>1, LiteralIsComplete
  <2> QED
    BY <1>2, <2>2 DEF print_type
<1>3. CASE value[1] = "False"
  <2>1. <<102, 97, 108, 115, 101>> \in Seq(Printable)
    BY DEF Printable
  <2>2. Complete(Literal(<<102, 97, 108, 115, 101>>))
    BY <2>1, LiteralIsComplete
  <2> QED
    BY <1>3, <2>2 DEF print_type
<1>4. CASE value[1] = "True"
  <2>1. <<116, 114, 117, 101>> \in Seq(Printable)
    BY DEF Printable
  <2>2. Complete(Literal(<<116, 114, 117, 101>>))
    BY <2>1, LiteralIsComplete
  <2> QED
    BY <1>4, <2>2 DEF print_type
<1>5. CASE value[1] = "Number"
  <2>1. value[2] \in Int
    BY <1>1, <1>5 DEF IsValue
  <2>2. print_type(f, value, depth, formatted) = print_number(value[2])
    BY <1>5 DEF print_type
  <2> QED
    BY <2>1, <2>2, NumberIsComplete
<1>6. CASE value[1] = "String"
  <2>1. value[2] \in Seq(1..255)
    BY <1>1, <1>6 DEF IsValue
  <2>2. print_type(f, value, depth, formatted) = print_string_ptr(value[2])
    BY <1>6 DEF print_type
  <2> QED
    BY <2>1, <2>2, StringIsComplete
<1>7. CASE value[1] = "Array"
  <2> DEFINE printed == [n \in DOMAIN value[2] |-> f[value[2][n]][depth + 1]]
  <2>1. PICK N \in Nat :
              /\ DOMAIN value[2] = 1..N /\ Len(value[2]) = N
              /\ \A n \in 1..N : value[2][n] \in Values /\ Nesting[value[2][n]] < Nesting[value]
    BY <1>7, ElementsAreBelow
  <2>2. \A n \in 1..N : Complete(f[value[2][n]][depth + 1])
    BY <1>0, <2>1 DEF IsCompleteBelow
  <2>3. AllComplete(printed, N)
    <3>1. DOMAIN printed = 1..N /\ \A n \in 1..N : printed[n] = f[value[2][n]][depth + 1]
      BY <2>1
    <3>2. Len(printed) = N
      BY <2>1
    <3> HIDE DEF printed
    <3> QED
      BY <2>2, <3>1, <3>2 DEF AllComplete
  <2>4. print_type(f, value, depth, formatted) = print_array(printed, formatted)
    BY <1>7 DEF print_type
  <2> HIDE DEF printed
  <2> QED
    BY <2>3, <2>4, ArrayIsComplete
<1>8. CASE value[1] = "Object"
  <2> DEFINE printed == [n \in DOMAIN value[2] |-> f[value[2][n][2]][depth + 1]]
  <2>1. PICK N \in Nat :
              /\ DOMAIN value[2] = 1..N /\ Len(value[2]) = N
              /\ \A n \in 1..N : /\ value[2][n][1] \in Seq(1..255)
                                 /\ value[2][n][2] \in Values /\ Nesting[value[2][n][2]] < Nesting[value]
    BY <1>8, MembersAreBelow
  <2>2. \A n \in 1..N : Complete(f[value[2][n][2]][depth + 1])
    BY <1>0, <2>1 DEF IsCompleteBelow
  <2>3. AllComplete(printed, N)
    <3>1. DOMAIN printed = 1..N /\ \A n \in 1..N : printed[n] = f[value[2][n][2]][depth + 1]
      BY <2>1
    <3>2. Len(printed) = N
      BY <2>1
    <3> HIDE DEF printed
    <3> QED
      BY <2>2, <3>1, <3>2 DEF AllComplete
  <2>4. print_type(f, value, depth, formatted) = print_object(value[2], printed, formatted, depth)
    BY <1>8 DEF print_type
  <2> HIDE DEF printed
  <2> QED
    BY <2>1, <2>3, <2>4, ObjectIsComplete
<1> QED
  BY <1>1, <1>2, <1>3, <1>4, <1>5, <1>6, <1>7, <1>8, Zenon DEF IsValue

(* What is printed of a value depends on what is printed of those in it.    *)
LEMMA StepLooksBelow ==
    ASSUME NEW value \in Values, NEW f, NEW g, NEW depth \in Nat, NEW formatted,
           \A v \in Values : Nesting[v] < Nesting[value] => f[v] = g[v]
    PROVE  print_type(f, value, depth, formatted) = print_type(g, value, depth, formatted)
<1>1. CASE value[1] = "Array"
  <2>1. PICK N \in Nat :
              /\ DOMAIN value[2] = 1..N /\ Len(value[2]) = N
              /\ \A n \in 1..N : value[2][n] \in Values /\ Nesting[value[2][n]] < Nesting[value]
    BY <1>1, ElementsAreBelow
  <2> DEFINE of == [n \in DOMAIN value[2] |-> f[value[2][n]][depth + 1]]
             og == [n \in DOMAIN value[2] |-> g[value[2][n]][depth + 1]]
  <2>2. of = og
    BY <2>1
  <2>3. print_type(f, value, depth, formatted) = print_array(of, formatted)
        /\ print_type(g, value, depth, formatted) = print_array(og, formatted)
    BY <1>1 DEF print_type
  <2> HIDE DEF of, og
  <2> QED
    BY <2>2, <2>3
<1>2. CASE value[1] = "Object"
  <2>1. PICK N \in Nat :
              /\ DOMAIN value[2] = 1..N /\ Len(value[2]) = N
              /\ \A n \in 1..N : /\ value[2][n][1] \in Seq(1..255)
                                 /\ value[2][n][2] \in Values /\ Nesting[value[2][n][2]] < Nesting[value]
    BY <1>2, MembersAreBelow
  <2> DEFINE of == [n \in DOMAIN value[2] |-> f[value[2][n][2]][depth + 1]]
             og == [n \in DOMAIN value[2] |-> g[value[2][n][2]][depth + 1]]
  <2>2. of = og
    BY <2>1
  <2>3. print_type(f, value, depth, formatted) = print_object(value[2], of, formatted, depth)
        /\ print_type(g, value, depth, formatted) = print_object(value[2], og, formatted, depth)
    BY <1>2 DEF print_type
  <2> HIDE DEF of, og
  <2> QED
    BY <2>2, <2>3
<1>3. CASE value[1] \in {"NULL", "False", "True", "Number", "String"}
  BY <1>3 DEF print_type
<1>4. IsValue(value)
  BY ValuesAssumption
<1> QED
  BY <1>1, <1>2, <1>3, <1>4, Zenon DEF IsValue

(* What may be printed of the values, at each depth.                        *)
Renderings == [Nat -> {s \in Seq(Steps) : Complete(s)}]

(* The recursion defines a function, as values have a finite depth,         *)
LEMMA PrintExists ==
    ASSUME NEW formatted \in BOOLEAN
    PROVE  \E f : IsPrint(f, formatted)
<1> DEFINE Below(f) == [value \in Values |-> [depth \in Nat |-> print_type(f, value, depth, formatted)]]
           Step == [f \in [Values -> Renderings] |-> Below(f)]
<1>1. ASSUME NEW f \in [Values -> Renderings]
      PROVE  Below(f) \in [Values -> Renderings]
  <2>1. ASSUME NEW value \in Values, NEW depth \in Nat
        PROVE  Complete(print_type(f, value, depth, formatted))
    <3>1. IsCompleteBelow(f, value)
      BY DEF IsCompleteBelow, Renderings
    <3> QED
      BY <3>1, StepIsComplete
  <2>2. \A value \in Values, depth \in Nat :
            print_type(f, value, depth, formatted) \in {s \in Seq(Steps) : Complete(s)}
    BY <2>1 DEF Complete, Chain
  <2> QED
    BY <2>2, Zenon DEF Renderings
<1>2. Renderings # {}
  <2>1. <<110>> \in Seq(Printable)
    BY DEF Printable
  <2>2. Complete(Literal(<<110>>))
    BY <2>1, LiteralIsComplete
  <2>3. Literal(<<110>>) \in {s \in Seq(Steps) : Complete(s)}
    BY <2>2 DEF Complete, Chain
  <2>4. [d \in Nat |-> Literal(<<110>>)] \in Renderings
    BY <2>3, Zenon DEF Renderings
  <2> QED
    BY <2>4
<1>3. \A f \in [Values -> Renderings] : Step[f] = Below(f)
  OBVIOUS
<1>4. Step \in [[Values -> Renderings] -> [Values -> Renderings]]
  BY <1>1
<1> HIDE DEF Step
<1>5. LooksBelow(Step, Values, Renderings, Nesting)
  <2> SUFFICES ASSUME NEW f \in [Values -> Renderings], NEW g \in [Values -> Renderings], NEW value \in Values,
                      \A y \in Values : Nesting[y] < Nesting[value] => f[y] = g[y]
               PROVE  Step[f][value] = Step[g][value]
    BY Zenon DEF LooksBelow
  <2>1. \A depth \in Nat : print_type(f, value, depth, formatted) = print_type(g, value, depth, formatted)
    BY StepLooksBelow
  <2>2. Below(f)[value] = Below(g)[value]
    BY <2>1, Zenon
  <2> QED
    BY <1>3, <2>2, Zenon
<1>6. IsRecursion(Step, Values, Renderings, Nesting)
  BY <1>2, <1>4, <1>5, ValuesAssumption DEF IsRecursion
<1>7. HasFixedPoint(Step, Values, Renderings)
  BY <1>6, FixedPointExists
<1>8. PICK f \in [Values -> Renderings] : \A x \in Values : f[x] = Step[f][x]
  BY <1>7, Zenon DEF HasFixedPoint
<1>9. \A x \in Values : f[x] = Below(f)[x]
  BY <1>3, <1>8, Zenon
<1>10. f = [x \in Values |-> f[x]]
  BY <1>8, Zenon
<1>11. f = Below(f)
  BY <1>9, <1>10, Zenon
<1> QED
  BY <1>11, Zenon DEF IsPrint

(* so print_value is what its recursion says,                               *)
LEMMA PrintUnfolds ==
    ASSUME NEW f, NEW formatted, IsPrint(f, formatted), NEW value \in Values, NEW depth \in Nat
    PROVE  f[value][depth] = print_type(f, value, depth, formatted)
<1>1. f[value] = [d \in Nat |-> print_type(f, value, d, formatted)]
  BY DEF IsPrint
<1> QED
  BY <1>1

(* and every value it prints is complete.                                   *)
LEMMA PrintedIsComplete ==
    ASSUME NEW f, NEW formatted \in BOOLEAN, IsPrint(f, formatted), NEW value \in Values, NEW depth \in Nat
    PROVE  Complete(f[value][depth])
<1> DEFINE S == {v \in Values : \A d \in Nat : Complete(f[v][d])}
<1>1. ASSUME NEW v \in Values, \A y \in Values : Nesting[y] < Nesting[v] => y \in S
      PROVE  v \in S
  <2>1. IsCompleteBelow(f, v)
    BY <1>1 DEF IsCompleteBelow
  <2>2. \A d \in Nat : f[v][d] = print_type(f, v, d, formatted)
    BY PrintUnfolds
  <2>3. \A d \in Nat : Complete(f[v][d])
    BY <2>1, <2>2, StepIsComplete
  <2> QED
    BY <2>3
<1>2. Values \subseteq S
  <2> HIDE DEF S
  <2> QED
    BY <1>1, RankInduction, ValuesAssumption
<1> QED
  BY <1>2

(* What a call of print_value prints.                                       *)
LEMMA PrintValueIsComplete ==
    ASSUME NEW root \in Values, NEW formatted \in BOOLEAN
    PROVE  Complete(print_value(root, formatted))
<1> DEFINE print == CHOOSE f : IsPrint(f, formatted)
<1>1. print_value(root, formatted) = print[root][0]
  BY Zenon DEF print_value, IsPrint
<1>2. IsPrint(print, formatted)
  BY PrintExists, Zenon
<1> HIDE DEF print
<1>3. Complete(print[root][0])
  BY <1>2, PrintedIsComplete
<1> QED
  BY <1>1, <1>3

-----------------------------------------------------------------------------
(* The buffer.                                                              *)

(* The texts of the steps.                                                  *)
Texts(all) == [n \in DOMAIN all |-> all[n].text]
(* f gives the texts of the first n steps, for each n;                      *)
AreUpto(f, all) == Concatenates(f, Texts(all), Len(all)) /\ FlattenSeq(Texts(all)) = f[Len(all)]
(* there is such an f: the text of the first n steps,                       *)
Upto(all) == CHOOSE f : AreUpto(f, all)
(* and its length.                                                          *)
LengthUpto(all, k) == Len(Upto(all)[k])

(* The first and the last of all steps are pieces, and the last ends the    *)
(* text.                                                                    *)
LEMMA AllSteps ==
    ASSUME NEW all, Complete(all)
    PROVE  /\ Len(all) \in Nat \ {0} /\ DOMAIN all = 1..Len(all)
           /\ \A n \in 1..Len(all) : all[n] \in Steps
           /\ ~all[1].update
           /\ ~all[Len(all)].update /\ all[Len(all)].ends
<1>1. all \in Seq(Steps) /\ all # <<>>
  BY DEF Complete, Chain
<1>2. DOMAIN all = 1..Len(all) /\ Len(all) \in Nat /\ \A n \in 1..Len(all) : all[n] \in Steps
  BY <1>1, Elements
<1>3. Len(all) # 0
  BY <1>1
<1> QED
  BY <1>1, <1>2, <1>3 DEF Complete, Chain

(* There are such texts,                                                    *)
LEMMA UptoExists ==
    ASSUME NEW all, Complete(all)
    PROVE  /\ AreUpto(Upto(all), all)
           /\ AreSequences(Texts(all), Len(all), Printable)
<1>1. Len(all) \in Nat /\ DOMAIN all = 1..Len(all) /\ \A n \in 1..Len(all) : all[n].text \in Seq(Printable)
  BY AllSteps, StepTypes
<1>2. Texts(all) \in [1..Len(all) -> Seq(Printable)]
  BY <1>1 DEF Texts
<1>3. \E f : AreUpto(f, all)
  BY <1>1, <1>2, Flattened DEF AreUpto
<1>4. AreSequences(Texts(all), Len(all), Printable)
  BY <1>2 DEF AreSequences
<1> QED
  BY <1>3, <1>4, Zenon DEF Upto

(* and they get longer.                                                     *)
LEMMA UptoGrows ==
    ASSUME NEW all, Complete(all)
    PROVE  /\ LengthUpto(all, 0) = 0
           /\ \A n \in 0..Len(all) : /\ Upto(all)[n] \in Seq(Printable)
                                     /\ LengthUpto(all, n) \in Nat
                                     /\ LengthUpto(all, n) <= LengthUpto(all, Len(all))
           /\ FlattenSeq(Texts(all)) = Upto(all)[Len(all)]
<1>1. Concatenates(Upto(all), Texts(all), Len(all)) /\ FlattenSeq(Texts(all)) = Upto(all)[Len(all)]
  BY UptoExists DEF AreUpto
<1>2. AreSequences(Texts(all), Len(all), Printable) /\ Len(all) \in Nat
  BY UptoExists, AllSteps
<1>3. AreLaidOut(Upto(all), Texts(all), Len(all))
  BY <1>1, <1>2, PartsOfConcatenation
<1>4. \A n \in 0..Len(all) : Upto(all)[n] \in Seq(Printable)
  BY <1>1, <1>2, ConcatenationsAreSequences
<1> QED
  BY <1>1, <1>3, <1>4, Zenon DEF AreLaidOut, LengthUpto

(* One more step adds its text.                                             *)
LEMMA OneMorePiece ==
    ASSUME NEW all, Complete(all), NEW k \in 0..Len(all)-1
    PROVE  /\ LengthUpto(all, k + 1) = LengthUpto(all, k) + Len(all[k+1].text)
           /\ \A i \in 1..LengthUpto(all, k) : Upto(all)[k+1][i] = Upto(all)[k][i]
           /\ \A i \in 1..Len(all[k+1].text) : Upto(all)[k+1][LengthUpto(all, k) + i] = all[k+1].text[i]
<1>1. Concatenates(Upto(all), Texts(all), Len(all))
  BY UptoExists DEF AreUpto
<1>2. AreSequences(Texts(all), Len(all), Printable) /\ Len(all) \in Nat /\ DOMAIN all = 1..Len(all)
  BY UptoExists, AllSteps
<1>3. PICK n \in 1..Len(all) : n = k + 1 /\ n - 1 = k
  BY <1>2
<1>4. Upto(all)[n-1] \in Seq(Printable)
  <2>1. k \in 0..Len(all)
    BY <1>2
  <2> QED
    BY <1>3, <2>1, UptoGrows
<1>5. Adds(Upto(all), Texts(all), n)
  BY <1>1, <1>2, <1>4, OneMorePart
<1>6. Texts(all)[n] = all[n].text
  BY <1>2 DEF Texts
<1> QED
  BY <1>3, <1>5, <1>6, Zenon DEF Adds, LengthUpto

(* A buffer with the text of the first k steps, and room for a terminator.  *)
Holds(all, b, k) ==
    /\ b \in Seq(Int)
    /\ LengthUpto(all, k) < Len(b)
    /\ \A i \in 1..LengthUpto(all, k) : b[i] = Upto(all)[k][i]
    /\ k > 0 /\ (all[k].update \/ all[k].ends) => b[LengthUpto(all, k) + 1] = Nul

(* Where the offset is: behind the text, or at a text that update_offset    *)
(* has still to pass.                                                       *)
OffsetAt(all, k) ==
    IF k = 0 \/ all[k].update \/ all[k].moves THEN LengthUpto(all, k) ELSE LengthUpto(all, k - 1)

(* In front of a piece the offset is behind the text.                       *)
LEMMA OffsetAtPiece ==
    ASSUME NEW all, Complete(all), NEW k \in 0..Len(all)-1, ~all[k+1].update
    PROVE  OffsetAt(all, k) = LengthUpto(all, k)
<1>1. CASE k = 0
  BY <1>1 DEF OffsetAt
<1>2. CASE k # 0
  <2>1. k \in 1..Len(all)-1
    BY <1>2, AllSteps
  <2>2. Follow(all[k], all[k+1])
    BY <2>1 DEF Complete, Chain
  <2> QED
    BY <2>2 DEF Follow, OffsetAt
<1> QED
  BY <1>1, <1>2

(* In front of a call of update_offset there is a terminator.               *)
LEMMA OffsetAtUpdate ==
    ASSUME NEW all, Complete(all), NEW k \in 0..Len(all)-1, all[k+1].update
    PROVE  k > 0 /\ all[k].ends /\ ~all[k].update
<1>1. k # 0
  BY AllSteps
<1>2. k \in 1..Len(all)-1
  BY <1>1, AllSteps
<1>3. Follow(all[k], all[k+1])
  BY <1>2 DEF Complete, Chain
<1> QED
  BY <1>2, <1>3 DEF Follow

(* The offset never is behind what has been written.                        *)
LEMMA OffsetIsNotBehind ==
    ASSUME NEW all, Complete(all), NEW k \in 0..Len(all)
    PROVE  OffsetAt(all, k) \in Nat /\ OffsetAt(all, k) <= LengthUpto(all, k)
<1>1. LengthUpto(all, k) \in Nat
  BY UptoGrows
<1>2. CASE k = 0
  BY <1>1, <1>2 DEF OffsetAt
<1>3. CASE k # 0
  <2>1. k - 1 \in 0..Len(all)-1 /\ (k - 1) + 1 = k /\ k - 1 \in 0..Len(all) /\ k \in 1..Len(all)
    BY <1>3, AllSteps
  <2>2. LengthUpto(all, k) = LengthUpto(all, k - 1) + Len(all[k].text)
    BY <2>1, OneMorePiece
  <2>3. LengthUpto(all, k - 1) \in Nat /\ Len(all[k].text) \in Nat
    BY <2>1, UptoGrows, AllSteps, StepTypes
  <2> QED
    BY <1>1, <2>2, <2>3 DEF OffsetAt
<1> QED
  BY <1>2, <1>3

(* Text has no terminator in it.                                            *)
LEMMA TextIsBytes ==
    ASSUME NEW s \in Seq(Printable)
    PROVE  s \in Seq(Int)
  BY DEF Printable

(* One byte more for the terminator.                                        *)
Terminators(p) == IF p.ends THEN 1 ELSE 0

(* The bytes of a piece: its text, and its terminator.                      *)
AreBytesOf(bytes, p) ==
    /\ bytes \in Seq(Int)
    /\ Len(bytes) = Len(p.text) + Terminators(p)
    /\ \A i \in 1..Len(p.text) : bytes[i] = p.text[i]
    /\ p.ends => bytes[Len(p.text) + 1] = Nul

(* So are those of every piece.                                             *)
LEMMA BytesOfPiece ==
    ASSUME NEW p \in Steps
    PROVE  AreBytesOf(BytesOf(p), p)
<1>1. PICK s \in Seq(Int) : s = p.text
  <2>1. p.text \in Seq(Int)
    BY StepTypes, TextIsBytes
  <2> QED
    BY <2>1, Zenon
<1> DEFINE t == If(p.ends, <<Nul>>)
<1>2. t \in Seq(Int) /\ Len(t) = Terminators(p) /\ (p.ends => Len(t) = 1 /\ t[1] = Nul)
  <2>1. <<Nul>> \in Seq(Int) /\ Len(<<Nul>>) = 1 /\ <<Nul>>[1] = Nul
    BY DEF Nul
  <2>2. <<>> \in Seq(Int) /\ Len(<<>>) = 0
    OBVIOUS
  <2>3. CASE p.ends
    <3>1. t = <<Nul>> /\ Terminators(p) = 1
      BY <2>3, Zenon DEF If, Terminators
    <3> QED
      BY <2>1, <3>1, Zenon
  <2>4. CASE ~p.ends
    <3>1. t = <<>> /\ Terminators(p) = 0
      BY <2>4, Zenon DEF If, Terminators
    <3> QED
      BY <2>2, <2>4, <3>1, Zenon
  <2> QED
    BY <2>3, <2>4, Zenon
<1>3. PICK u \in Seq(Int) : u = t
  BY <1>2, Zenon
<1> HIDE DEF t
<1>7. PICK r : r = s \o u
  OBVIOUS
<1>4. /\ r \in Seq(Int)
      /\ Len(r) = Len(s) + Len(u)
      /\ \A j \in 1..Len(s) : r[j] = s[j]
      /\ \A j \in 1..Len(u) : r[Len(s) + j] = u[j]
  BY <1>7, Joined
<1>5. p.ends => r[Len(s) + 1] = Nul
  <2>1. p.ends => Len(u) = 1 /\ u[1] = Nul
    BY <1>2, <1>3, Zenon
  <2>2. 1 \in 1..1
    OBVIOUS
  <2> QED
    BY <1>4, <2>1, <2>2, Zenon
<1>6. BytesOf(p) = r
  BY <1>1, <1>3, <1>7, Zenon DEF BytesOf, t
<1> QED
  BY <1>1, <1>2, <1>3, <1>4, <1>5, <1>6, Zenon DEF AreBytesOf

(* The least of the places that update_offset may find.                     *)
LEMMA IsMin ==
    ASSUME NEW S \in SUBSET Nat, NEW m \in S, \A j \in S : m <= j
    PROVE  Min(S) = m
<1>1. \E x \in S : \A y \in S : x <= y
  OBVIOUS
<1>2. Min(S) \in S /\ \A y \in S : Min(S) <= y
  BY <1>1, Zenon DEF Min
<1>3. Min(S) \in Nat /\ Min(S) <= m /\ m <= Min(S) /\ m \in Nat
  BY <1>2
<1> QED
  BY <1>3

(* Every piece asks for enough.                                             *)
LEMMA PieceIsWritten ==
    ASSUME NEW all, Complete(all), NEW k \in 0..Len(all)-1,
           offset = LengthUpto(all, k), NEW room \in Seq(Int),
           \A i \in 1..LengthUpto(all, k) : room[i] = Upto(all)[k][i],
           ~all[k+1].update, all[k+1].needs + offset + 1 <= Len(room)
    PROVE  /\ offset + Len(BytesOf(all[k+1])) <= Len(room)
           /\ Len(Written(room, BytesOf(all[k+1]))) = Len(room)
           /\ Holds(all, Written(room, BytesOf(all[k+1])), k + 1)
<1> DEFINE p == all[k+1]
           bytes == BytesOf(p)
           b == Written(room, bytes)
<1>1. k + 1 \in 1..Len(all) /\ p \in Steps
  BY AllSteps
<1>2. /\ LengthUpto(all, k + 1) = LengthUpto(all, k) + Len(p.text)
      /\ \A i \in 1..LengthUpto(all, k) : Upto(all)[k+1][i] = Upto(all)[k][i]
      /\ \A i \in 1..Len(p.text) : Upto(all)[k+1][LengthUpto(all, k) + i] = p.text[i]
  BY OneMorePiece
<1>3. Len(p.text) \in Nat /\ p.needs \in Nat /\ Len(p.text) <= p.needs /\ p.ends \in BOOLEAN
  BY <1>1, StepTypes
<1>4. offset \in Nat
  <2>1. k \in 0..Len(all)
    BY AllSteps
  <2> QED
    BY <2>1, UptoGrows
<1>5. /\ bytes \in Seq(Int)
      /\ Len(bytes) = Len(p.text) + Terminators(p)
      /\ \A i \in 1..Len(p.text) : bytes[i] = p.text[i]
      /\ p.ends => bytes[Len(p.text) + 1] = Nul
  BY <1>1, BytesOfPiece, Zenon DEF AreBytesOf
<1>17. Terminators(p) \in 0..1 /\ (p.ends => Terminators(p) = 1)
  BY DEF Terminators
<1>18. DOMAIN bytes = 1..Len(bytes) /\ Len(bytes) \in Nat
  BY <1>5, Elements
<1>6. p.needs + offset + 1 <= Len(room) /\ Len(room) \in Nat /\ DOMAIN room = 1..Len(room)
      /\ \A i \in 1..Len(room) : room[i] \in Int
  BY Elements
<1>7. ~p.update
  OBVIOUS
<1>8. /\ DOMAIN b = 1..Len(room)
      /\ b = [i \in 1..Len(room) |-> b[i]]
      /\ \A i \in 1..Len(room) : b[i] = IF i - offset \in 1..Len(bytes) THEN bytes[i - offset] ELSE room[i]
  BY <1>6, <1>18, Zenon DEF Written
<1> HIDE DEF b, bytes, p
<1>9. offset + Len(bytes) <= Len(room) /\ Len(bytes) \in Nat
  <2>1. Len(bytes) = Len(p.text) + Terminators(p)
    BY <1>5
  <2>2. p.needs + offset + 1 <= Len(room) /\ Len(room) \in Nat
    BY <1>6
  <2> QED
    BY <1>3, <1>4, <1>17, <1>18, <2>1, <2>2
<1>19. LengthUpto(all, k + 1) = offset + Len(p.text) /\ Len(p.text) <= Len(bytes)
  BY <1>2, <1>3, <1>5, <1>17, <1>18
<1>20. p.ends => Len(bytes) = Len(p.text) + 1
  BY <1>5, <1>17
<1>10. b \in Seq(Int) /\ Len(b) = Len(room)
  <2>1. \A i \in 1..Len(bytes) : bytes[i] \in Int
    BY <1>5, Elements
  <2>2. \A i \in 1..Len(room) : b[i] \in Int
    BY <1>6, <1>8, <2>1
  <2> QED
    BY <1>6, <1>8, <2>2
<1>11. \A i \in 1..LengthUpto(all, k) : b[i] = Upto(all)[k][i]
  <2> SUFFICES ASSUME NEW i \in 1..LengthUpto(all, k)
               PROVE  b[i] = Upto(all)[k][i]
    OBVIOUS
  <2>1. i \in 1..Len(room) /\ ~(i - offset \in 1..Len(bytes))
    BY <1>4, <1>9
  <2> QED
    BY <1>8, <2>1
<1>12. ASSUME NEW i \in 1..Len(bytes)
       PROVE  b[offset + i] = bytes[i]
  <2>1. offset + i \in 1..Len(room) /\ (offset + i) - offset = i
    BY <1>4, <1>9
  <2> QED
    BY <1>8, <2>1
<1>13. \A i \in 1..LengthUpto(all, k + 1) : b[i] = Upto(all)[k+1][i]
  <2> SUFFICES ASSUME NEW i \in 1..LengthUpto(all, k + 1)
               PROVE  b[i] = Upto(all)[k+1][i]
    OBVIOUS
  <2>1. CASE i <= offset
    <3>1. i \in 1..LengthUpto(all, k)
      BY <1>4, <2>1
    <3> QED
      BY <1>2, <1>11, <3>1
  <2>2. CASE i > offset
    <3>1. PICK j : j = i - offset /\ j \in 1..Len(p.text) /\ i = offset + j /\ j \in 1..Len(bytes)
      BY <1>3, <1>4, <1>18, <1>19, <2>2
    <3> QED
      BY <1>2, <1>5, <1>12, <3>1
  <2> QED
    BY <1>4, <2>1, <2>2
<1>14. p.ends => b[LengthUpto(all, k + 1) + 1] = Nul
  <2> SUFFICES ASSUME p.ends
               PROVE  b[LengthUpto(all, k + 1) + 1] = Nul
    OBVIOUS
  <2>1. Len(p.text) + 1 \in 1..Len(bytes) /\ LengthUpto(all, k + 1) + 1 = offset + (Len(p.text) + 1)
    BY <1>3, <1>4, <1>19, <1>20
  <2> QED
    BY <1>5, <1>12, <2>1
<1>15. LengthUpto(all, k + 1) < Len(b)
  BY <1>2, <1>3, <1>4, <1>6, <1>10
<1>16. Holds(all, b, k + 1)
  BY <1>7, <1>10, <1>13, <1>14, <1>15 DEF Holds, p
<1> QED
  BY <1>9, <1>10, <1>16 DEF b, bytes, p

(* Where update_offset looks there is a terminator, and the first is the    *)
(* one behind the text.                                                     *)
LEMMA TerminatorIsFound ==
    ASSUME NEW all, Complete(all), NEW k \in 1..Len(all), Holds(all, buffer, k),
           all[k].ends, offset = OffsetAt(all, k)
    PROVE  Ends # {} /\ Min(Ends) = LengthUpto(all, k)
<1> DEFINE L == LengthUpto(all, k)
<1>1. L \in Nat /\ offset \in Nat /\ offset <= L
  <2>1. k \in 0..Len(all)
    BY AllSteps
  <2> QED
    BY <2>1, UptoGrows, OffsetIsNotBehind
<1>2. buffer \in Seq(Int) /\ Len(buffer) \in Nat /\ L < Len(buffer) /\ buffer[L + 1] = Nul
  BY Elements DEF Holds
<1>3. \A i \in 1..L : buffer[i] = Upto(all)[k][i]
  BY DEF Holds
<1>4. Upto(all)[k] \in Seq(Printable)
  <2>1. k \in 0..Len(all)
    BY AllSteps
  <2> QED
    BY <2>1, UptoGrows
<1>5. \A i \in 1..L : Upto(all)[k][i] \in Printable
  BY <1>4, Elements DEF LengthUpto
<1> HIDE DEF L
<1>6. L \in Ends
  BY <1>1, <1>2 DEF Ends
<1>7. \A j \in Ends : j \in Nat /\ L <= j
  <2> SUFFICES ASSUME NEW j \in Ends, j < L
               PROVE  FALSE
    BY <1>1, <1>2 DEF Ends
  <2>1. j \in Nat /\ j + 1 \in 1..L /\ buffer[j + 1] = Nul
    BY <1>1, <1>2 DEF Ends
  <2> QED
    BY <1>3, <1>5, <2>1 DEF Printable, Nul
<1>8. Min(Ends) = L
  BY <1>6, <1>7, IsMin
<1> QED
  BY <1>6, <1>8 DEF L

(* The caller finds the text in front of the first terminator.              *)
LEMMA TextInBuffer ==
    ASSUME NEW all, Complete(all), Holds(all, buffer, Len(all))
    PROVE  CString(buffer) = Upto(all)[Len(all)]
<1> DEFINE L == LengthUpto(all, Len(all))
           whole == Upto(all)[Len(all)]
           ends == {j \in DOMAIN buffer : buffer[j] = Nul}
<1>0. Len(all) \in 0..Len(all) /\ Len(all) > 0 /\ all[Len(all)].ends
  BY AllSteps
<1>1. /\ buffer \in Seq(Int) /\ L < Len(buffer) /\ buffer[L + 1] = Nul
      /\ \A i \in 1..L : buffer[i] = whole[i]
  BY <1>0 DEF Holds
<1>2. whole \in Seq(Printable) /\ L \in Nat
  BY <1>0, UptoGrows
<1>3. L = Len(whole)
  BY DEF LengthUpto
<1>4. Len(buffer) \in Nat /\ DOMAIN buffer = 1..Len(buffer)
  BY <1>1, Elements
<1>5. \A i \in 1..L : whole[i] \in Printable
  BY <1>2, <1>3, Elements
<1>6. CString(buffer) = SubSeq(buffer, 1, IF ends = {} THEN Len(buffer) ELSE Min(ends) - 1)
  BY DEF CString
<1> HIDE DEF L, whole
<1>7. L + 1 \in ends
  BY <1>1, <1>2, <1>4
<1>8. \A j \in ends : j \in Nat /\ L + 1 <= j
  <2> SUFFICES ASSUME NEW j \in ends, j < L + 1
               PROVE  FALSE
    BY <1>2, <1>4
  <2>1. j \in 1..L /\ buffer[j] = Nul
    BY <1>2, <1>4
  <2> QED
    BY <1>1, <1>5, <2>1 DEF Printable, Nul
<1>9. Min(ends) - 1 = L
  <2> HIDE DEF ends
  <2>1. Min(ends) = L + 1
    BY <1>7, <1>8, IsMin
  <2> QED
    BY <1>2, <2>1
<1>10. CString(buffer) = SubSeq(buffer, 1, L)
  BY <1>6, <1>7, <1>9, Zenon
<1>11. DOMAIN SubSeq(buffer, 1, L) = 1..L-1+1 /\ \A i \in 1..L-1+1 : SubSeq(buffer, 1, L)[i] = buffer[1 + i - 1]
  <2>1. L <= Len(buffer) /\ 1 \in Nat \ {0}
    BY <1>1, <1>2, <1>4
  <2> QED
    BY <1>1, <1>2, <2>1, Parted
<1>12. SubSeq(buffer, 1, L) = whole
  <2>1. SubSeq(buffer, 1, L) \in Seq(Int) /\ Len(SubSeq(buffer, 1, L)) = L
    BY <1>1, <1>2, <1>4
  <2>2. \A i \in 1..L : SubSeq(buffer, 1, L)[i] = whole[i]
    BY <1>1, <1>2, <1>11
  <2>3. whole \in Seq(Int)
    BY <1>2 DEF Printable
  <2> QED
    BY <1>3, <2>1, <2>2, <2>3
<1> QED
  BY <1>10, <1>12 DEF whole

-----------------------------------------------------------------------------
(* The calls.                                                               *)

(* All the steps of a call, and where it is when k of them are done.        *)
All == print_value(tree, format)

At(k) ==
    /\ steps = SubSeq(All, k + 1, Len(All))
    /\ Holds(All, buffer, k)
    /\ Preallocated => Len(buffer) = method[2]
    /\ offset = OffsetAt(All, k)

(* What a call is given.                                                    *)
Parameters == tree \in Trees /\ format \in BOOLEAN /\ method \in Methods
HasReason == IF Preallocated THEN method[2] < Len(Text) + 2 ELSE outOfMemory \/ Len(Text) + 2 > IntMax

(* A call that prints owns its buffer, unless that is the caller's.         *)
BlocksAreKnown ==
    /\ pc = "start" => blocks = 0
    /\ pc = "printing" => present /\ blocks = IF Preallocated THEN 0 ELSE 1
    /\ pc = "failed" => blocks = IF present /\ ~Preallocated THEN 1 ELSE 0

(* A call that still prints has a buffer, and has not failed.               *)
Progresses ==
    /\ pc = "start" => steps = All /\ offset = 0
    /\ pc = "printing" => \E k \in 0..Len(All) : At(k)
    /\ pc = "failed" => HasReason

(* What is inside and what is returned follows from how far the call has    *)
(* come, what it owns, and why it fails.                                    *)
PrinterInv ==
    /\ pc \in {"start", "printing", "failed", "returned"}
    /\ Parameters
    /\ WritesStayInside
    /\ BlocksAreKnown
    /\ Progresses
    /\ pc # "returned" => ~result.ok
    /\ PrintsAllOrFails

(* What a call has to print, as a whole: it is complete.                    *)
LEMMA AllIsComplete ==
    ASSUME Parameters
    PROVE  /\ Complete(All)
           /\ Text = Upto(All)[Len(All)]
           /\ LengthUpto(All, Len(All)) = Len(Text)
           /\ Len(All) \in Nat
           /\ All \in Seq(Steps)
           /\ method[2] \in Nat \ {0}
<1>1. tree \in Values /\ format \in BOOLEAN
  BY ValuesAssumption DEF Parameters
<1>2. Complete(All)
  BY <1>1, PrintValueIsComplete DEF All
<1>3. Text = FlattenSeq(Texts(All))
  BY Zenon DEF Text, PrintedText, All, Texts
<1>4. Text = Upto(All)[Len(All)]
  BY <1>2, <1>3, UptoGrows
<1>5. Len(All) \in Nat
  BY <1>2, AllSteps
<1>6. method[2] \in Nat \ {0}
  BY SizesAssumption DEF Parameters, Methods
<1> QED
  BY <1>2, <1>4, <1>5, <1>6 DEF LengthUpto, Complete, Chain

(* What stands in front of a call that has steps left.                      *)
LEMMA AtTheNext ==
    ASSUME Parameters, NEW k \in 0..Len(All), At(k), steps # <<>>
    PROVE  /\ k \in 0..Len(All)-1 /\ k + 1 \in 0..Len(All)
           /\ Next1 = All[k+1] /\ All[k+1] \in Steps
           /\ Tail(steps) = SubSeq(All, (k + 1) + 1, Len(All))
<1>1. Complete(All) /\ All \in Seq(Steps) /\ Len(All) \in Nat
  BY AllIsComplete
<1>2. steps = SubSeq(All, k + 1, Len(All))
  BY DEF At
<1>3. k \in 0..Len(All)-1 /\ Head(steps) = All[k+1] /\ Tail(steps) = SubSeq(All, (k + 1) + 1, Len(All))
  BY <1>1, <1>2, RestOfSteps
<1>4. k + 1 \in 0..Len(All) /\ k + 1 \in 1..Len(All)
  BY <1>1, <1>3
<1> QED
  BY <1>1, <1>3, <1>4, AllSteps DEF Next1

(* What ensure is asked for: no more than the text and two bytes.           *)
LEMMA NeededAt ==
    ASSUME Parameters, NEW k \in 0..Len(All), At(k), AtPiece
    PROVE  /\ offset = LengthUpto(All, k) /\ offset \in Nat
           /\ Needed = All[k+1].needs + offset + 1
           /\ Needed \in Nat /\ offset < Needed /\ Needed <= Len(Text) + 2
           /\ buffer \in Seq(Int) /\ Len(buffer) \in Nat /\ offset < Len(buffer)
           /\ \A i \in 1..offset : buffer[i] = Upto(All)[k][i]
<1>1. Complete(All) /\ Len(All) \in Nat /\ LengthUpto(All, Len(All)) = Len(Text)
  BY AllIsComplete
<1>2. /\ k \in 0..Len(All)-1 /\ k + 1 \in 0..Len(All)
      /\ Next1 = All[k+1] /\ All[k+1] \in Steps /\ ~All[k+1].update
  BY AtTheNext DEF AtPiece
<1>3. offset = LengthUpto(All, k)
  BY <1>1, <1>2, OffsetAtPiece DEF At
<1>4. LengthUpto(All, k) \in Nat /\ LengthUpto(All, k + 1) \in Nat
      /\ LengthUpto(All, k + 1) <= Len(Text) /\ Len(Text) \in Nat
  <2>1. Len(All) \in 0..Len(All)
    BY <1>1
  <2> QED
    BY <1>1, <1>2, <2>1, UptoGrows
<1>5. LengthUpto(All, k + 1) = LengthUpto(All, k) + Len(All[k+1].text)
  BY <1>1, <1>2, OneMorePiece
<1>6. All[k+1].needs \in Nat /\ Len(All[k+1].text) \in Nat /\ All[k+1].needs <= Len(All[k+1].text) + 1
  BY <1>2, StepTypes
<1>7. Needed = All[k+1].needs + offset + 1
  BY <1>2 DEF Needed
<1>8. Needed \in Nat /\ offset < Needed /\ Needed <= Len(Text) + 2
  <2>1. \A needs, len, l, m, n \in Nat : needs <= len + 1 /\ m = l + len /\ m <= n =>
            needs + l + 1 \in Nat /\ l < needs + l + 1 /\ needs + l + 1 <= n + 2
    OBVIOUS
  <2> QED
    BY <1>3, <1>4, <1>5, <1>6, <1>7, <2>1, Zenon
<1>9. Holds(All, buffer, k)
  BY DEF At
<1>10. buffer \in Seq(Int) /\ offset < Len(buffer) /\ \A i \in 1..offset : buffer[i] = Upto(All)[k][i]
  BY <1>3, <1>9, Zenon DEF Holds
<1>11. Len(buffer) \in Nat
  BY <1>10, Elements
<1> QED
  BY <1>3, <1>4, <1>7, <1>8, <1>10, <1>11

(* What PrintPiece does in a buffer that has the room.                      *)
LEMMA PrintPieceHolds ==
    ASSUME PrinterInv, AtPiece, NEW k \in 0..Len(All), At(k),
           NEW room \in Seq(Int), Needed <= Len(room),
           Preallocated => Len(room) = method[2],
           \A i \in 1..offset : room[i] = buffer[i],
           PrintPiece(room)
    PROVE  PrinterInv'
<1>1. Parameters /\ pc = "printing"
  BY DEF PrinterInv, AtPiece
<1>2. /\ Complete(All) /\ k \in 0..Len(All)-1 /\ k + 1 \in 0..Len(All)
      /\ Next1 = All[k+1] /\ All[k+1] \in Steps /\ ~All[k+1].update
      /\ Tail(steps) = SubSeq(All, (k + 1) + 1, Len(All))
  BY <1>1, AllIsComplete, AtTheNext DEF AtPiece
<1>3. /\ offset = LengthUpto(All, k) /\ offset \in Nat
      /\ Needed = All[k+1].needs + offset + 1
      /\ \A i \in 1..offset : buffer[i] = Upto(All)[k][i]
  BY <1>1, NeededAt
<1>4. \A i \in 1..LengthUpto(All, k) : room[i] = Upto(All)[k][i]
  BY <1>3
<1>5. /\ offset + Len(BytesOf(All[k+1])) <= Len(room)
      /\ Len(Written(room, BytesOf(All[k+1]))) = Len(room)
      /\ Holds(All, Written(room, BytesOf(All[k+1])), k + 1)
  BY <1>2, <1>3, <1>4, PieceIsWritten
<1>6. UNCHANGED <<tree, format, method, reallocates>> /\ UNCHANGED <<present, blocks, outOfMemory, pc, result>>
  BY DEF PrintPiece, fixed
<1>7. All' = All /\ Preallocated' = Preallocated
  BY <1>6, Zenon DEF All, Preallocated
<1>8. At(k + 1)'
  <2>1. steps' = SubSeq(All, (k + 1) + 1, Len(All))
    BY <1>2 DEF PrintPiece
  <2>2. buffer' = Written(room, BytesOf(All[k+1]))
    BY <1>2, Zenon DEF PrintPiece
  <2>3. Holds(All, buffer', k + 1) /\ Len(buffer') = Len(room)
    BY <1>5, <2>2
  <2>4. offset' = OffsetAt(All, k + 1)
    <3>1. offset' = IF All[k+1].moves THEN offset + Len(All[k+1].text) ELSE offset
      BY <1>2, Zenon DEF PrintPiece
    <3>2. LengthUpto(All, k + 1) = LengthUpto(All, k) + Len(All[k+1].text)
      BY <1>2, OneMorePiece
    <3>3. k + 1 # 0 /\ (k + 1) - 1 = k
      OBVIOUS
    <3>4. OffsetAt(All, k + 1) = IF All[k+1].moves THEN LengthUpto(All, k + 1) ELSE LengthUpto(All, k)
      BY <1>2, <3>3, Zenon DEF OffsetAt
    <3> QED
      BY <1>3, <3>1, <3>2, <3>4, Zenon
  <2>5. (Preallocated => Len(buffer') = method[2]) /\ method' = method
    BY <1>6, <2>3
  <2>6. Holds(All', buffer', k + 1) /\ steps' = SubSeq(All', (k + 1) + 1, Len(All'))
        /\ offset' = OffsetAt(All', k + 1) /\ (Preallocated' => Len(buffer') = method'[2])
    BY <1>7, <2>1, <2>3, <2>4, <2>5, Zenon
  <2> QED
    BY <2>6 DEF At, Holds, OffsetAt
<1>9. WritesStayInside'
  <2>1. inside' = (inside /\ offset + Len(BytesOf(Next1)) <= Len(room))
    BY DEF PrintPiece
  <2> QED
    BY <1>2, <1>5, <2>1 DEF PrinterInv, WritesStayInside
<1>10. Progresses'
  <2>1. \E j \in 0..Len(All') : At(j)'
    BY <1>2, <1>7, <1>8
  <2> QED
    BY <1>1, <1>6, <2>1 DEF Progresses
<1>11. Parameters' /\ BlocksAreKnown'
  BY <1>6, <1>7 DEF PrinterInv, Parameters, Methods, BlocksAreKnown
<1>12. PrintsAllOrFails' /\ (pc' # "returned" => ~result'.ok) /\ pc' \in {"start", "printing", "failed", "returned"}
  BY <1>1, <1>6 DEF PrintsAllOrFails, PrinterInv
<1> QED
  BY <1>9, <1>10, <1>11, <1>12 DEF PrinterInv

(* One lemma for each action.                                               *)
LEMMA InitHolds == Init => PrinterInv
<1> SUFFICES ASSUME Init PROVE PrinterInv
  OBVIOUS
<1>1. Parameters /\ pc = "start" /\ blocks = 0 /\ inside /\ offset = 0 /\ ~result.ok
  BY DEF Init, Parameters
<1>2. steps = All
  BY DEF Init, All
<1> QED
  BY <1>1, <1>2 DEF PrinterInv, WritesStayInside, BlocksAreKnown, Progresses, PrintsAllOrFails

(* The call starts.                                                         *)
LEMMA StartHolds ==
    ASSUME PrinterInv, Start
    PROVE  PrinterInv'
<1>1. Parameters /\ pc = "start" /\ blocks = 0 /\ inside /\ offset = 0 /\ ~result.ok /\ steps = All
  BY DEF PrinterInv, Start, BlocksAreKnown, Progresses, WritesStayInside
<1>2. Complete(All) /\ All \in Seq(Steps) /\ Len(All) \in Nat /\ method[2] \in Nat \ {0}
  BY <1>1, AllIsComplete
<1>3. /\ UNCHANGED <<tree, format, method, reallocates, steps, offset, inside, result>>
      /\ buffer' = Blank(method[2]) /\ present' = TRUE /\ pc' = "printing"
      /\ blocks' = IF Preallocated THEN 0 ELSE 1
  BY DEF Start, fixed
<1>4. All' = All /\ Preallocated' = Preallocated
  BY <1>3, Zenon DEF All, Preallocated
<1>5. At(0)'
  <2>1. SubSeq(All, 0 + 1, Len(All)) = All
    BY <1>2
  <2>2. buffer' \in Seq(Int) /\ Len(buffer') = method[2]
    BY <1>2, <1>3 DEF Blank, Stale
  <2>3. LengthUpto(All, 0) = 0
    BY <1>2, UptoGrows
  <2>4. OffsetAt(All, 0) = 0
    BY <2>3, Zenon DEF OffsetAt
  <2>5. Holds(All, buffer', 0)
    BY <1>2, <2>2, <2>3 DEF Holds
  <2>6. Holds(All', buffer', 0) /\ steps' = SubSeq(All', 0 + 1, Len(All'))
        /\ offset' = OffsetAt(All', 0) /\ (Preallocated' => Len(buffer') = method'[2])
    BY <1>1, <1>3, <1>4, <2>1, <2>2, <2>4, <2>5, Zenon
  <2> QED
    BY <2>6 DEF At, Holds, OffsetAt
<1>6. Progresses'
  <2>1. 0 \in 0..Len(All')
    BY <1>2, <1>4
  <2> QED
    BY <1>3, <1>5, <2>1 DEF Progresses
<1>7. Parameters' /\ BlocksAreKnown'
  BY <1>1, <1>3, <1>4 DEF Parameters, Methods, BlocksAreKnown
<1> QED
  BY <1>1, <1>3, <1>6, <1>7 DEF PrinterInv, WritesStayInside, PrintsAllOrFails

(* Whoever cannot go on has a reason, and no block that nobody frees.       *)
LEMMA FailingHolds ==
    ASSUME PrinterInv, pc = "printing", pc' = "failed",
           UNCHANGED <<tree, format, method, reallocates, steps, result>>, inside' = inside,
           HasReason', blocks' = IF present' /\ ~Preallocated THEN 1 ELSE 0
    PROVE  PrinterInv'
<1>1. Preallocated' = Preallocated
  BY Zenon DEF Preallocated
<1>2. Parameters' /\ BlocksAreKnown' /\ Progresses'
  BY <1>1 DEF PrinterInv, Parameters, Methods, BlocksAreKnown, Progresses
<1> QED
  BY <1>2 DEF PrinterInv, WritesStayInside, PrintsAllOrFails

(* ensure finds room.                                                       *)
LEMMA FitsHolds ==
    ASSUME PrinterInv, Fits
    PROVE  PrinterInv'
<1>1. PICK k \in 0..Len(All) : At(k)
  BY DEF Fits, AtPiece, PrinterInv, Progresses
<1>2. AtPiece /\ Needed <= Len(buffer) /\ PrintPiece(buffer) /\ Parameters
  BY DEF Fits, PrinterInv
<1>3. buffer \in Seq(Int) /\ (Preallocated => Len(buffer) = method[2])
  BY <1>1 DEF At, Holds
<1> QED
  BY <1>1, <1>2, <1>3, PrintPieceHolds

(* A buffer that grows keeps the text, with realloc or without.             *)
LEMMA GrowHolds ==
    ASSUME PrinterInv, Grow
    PROVE  PrinterInv'
<1>1. PICK k \in 0..Len(All) : At(k)
  BY DEF Grow, AtPiece, PrinterInv, Progresses
<1>2. AtPiece /\ ~Preallocated /\ Needed <= IntMax /\ PrintPiece(Grown) /\ Parameters
  BY DEF Grow, PrinterInv
<1>3. /\ offset \in Nat /\ Needed \in Nat /\ offset < Needed
      /\ buffer \in Seq(Int) /\ Len(buffer) \in Nat /\ offset < Len(buffer)
  BY <1>1, <1>2, NeededAt
<1>4. NewSize \in Nat /\ Needed <= NewSize
  BY <1>2, <1>3, SizesAssumption DEF NewSize
<1>5. \A i \in 1..Len(buffer) : buffer[i] \in Int
  BY <1>3, Elements
<1>6. /\ DOMAIN Grown = 1..NewSize /\ Grown = [i \in 1..NewSize |-> Grown[i]]
      /\ \A i \in 1..NewSize :
            Grown[i] = IF i <= (IF reallocates THEN Len(buffer) ELSE offset + 1) THEN buffer[i] ELSE Stale
  BY Zenon DEF Grown
<1>7. \A i \in 1..NewSize : i <= (IF reallocates THEN Len(buffer) ELSE offset + 1) => i \in 1..Len(buffer)
  BY <1>3, <1>4
<1>8. \A i \in 1..NewSize : Grown[i] \in Int
  BY <1>5, <1>6, <1>7 DEF Stale
<1>9. \A i \in 1..offset : Grown[i] = buffer[i]
  <2> SUFFICES ASSUME NEW i \in 1..offset
               PROVE  Grown[i] = buffer[i]
    OBVIOUS
  <2>1. i \in 1..NewSize /\ i <= (IF reallocates THEN Len(buffer) ELSE offset + 1)
    BY <1>3, <1>4
  <2> QED
    BY <1>6, <2>1
<1> HIDE DEF Grown
<1>10. Grown \in Seq(Int) /\ Len(Grown) = NewSize
  BY <1>4, <1>6, <1>8
<1> QED
  BY <1>1, <1>2, <1>4, <1>9, <1>10, PrintPieceHolds

(* There is no memory.                                                      *)
LEMMA CannotGrowHolds ==
    ASSUME PrinterInv, CannotGrow
    PROVE  PrinterInv'
<1>1. /\ pc = "printing" /\ pc' = "failed" /\ ~Preallocated /\ ~present' /\ outOfMemory'
      /\ UNCHANGED <<tree, format, method, reallocates, steps, result>> /\ inside' = inside
      /\ blocks' = blocks - 1
  BY DEF CannotGrow, AtPiece, fixed
<1>2. blocks = 1
  BY <1>1 DEF PrinterInv, BlocksAreKnown
<1>3. blocks' = IF present' /\ ~Preallocated THEN 1 ELSE 0
  BY <1>1, <1>2
<1>4. HasReason'
  BY <1>1 DEF HasReason, Preallocated
<1> QED
  BY <1>1, <1>3, <1>4, FailingHolds

(* The buffer is that of the caller.                                        *)
LEMMA MustNotGrowHolds ==
    ASSUME PrinterInv, MustNotGrow
    PROVE  PrinterInv'
<1>1. /\ pc = "printing" /\ pc' = "failed" /\ AtPiece /\ Parameters
      /\ Needed > Len(buffer) /\ (Preallocated \/ Needed > IntMax)
      /\ UNCHANGED <<tree, format, method, reallocates, steps, result>> /\ inside' = inside
      /\ UNCHANGED <<present, blocks, outOfMemory>>
  BY DEF MustNotGrow, AtPiece, fixed, PrinterInv
<1>2. PICK k \in 0..Len(All) : At(k)
  BY <1>1 DEF PrinterInv, Progresses
<1>3. Needed \in Nat /\ Needed <= Len(Text) + 2 /\ Len(buffer) \in Nat
  BY <1>1, <1>2, NeededAt
<1>4. HasReason
  <2>0. Len(Text) \in Nat
    <3>1. Complete(All) /\ Len(All) \in Nat /\ LengthUpto(All, Len(All)) = Len(Text)
      BY <1>1, AllIsComplete
    <3>2. Len(All) \in 0..Len(All)
      BY <3>1
    <3> QED
      BY <3>1, <3>2, UptoGrows
  <2>1. CASE Preallocated
    <3>1. Len(buffer) = method[2]
      BY <1>2, <2>1 DEF At
    <3>2. method[2] < Len(Text) + 2
      BY <1>1, <1>3, <2>0, <3>1
    <3> QED
      BY <2>1, <3>2 DEF HasReason
  <2>2. CASE ~Preallocated
    <3>1. Len(Text) + 2 > IntMax
      BY <1>1, <1>3, <2>0, <2>2, SizesAssumption
    <3> QED
      BY <2>2, <3>1 DEF HasReason
  <2> QED
    BY <2>1, <2>2
<1>5. HasReason'
  BY <1>1, <1>4 DEF HasReason, Preallocated, Text
<1>6. blocks' = IF present' /\ ~Preallocated THEN 1 ELSE 0
  BY <1>1 DEF PrinterInv, BlocksAreKnown
<1> QED
  BY <1>1, <1>5, <1>6, FailingHolds

(* update_offset adds no text,                                              *)
LEMMA UpdateAddsNothing ==
    ASSUME NEW all, Complete(all), NEW k \in 0..Len(all)-1, all[k+1].update,
           NEW b, Holds(all, b, k)
    PROVE  LengthUpto(all, k + 1) = LengthUpto(all, k) /\ Holds(all, b, k + 1)
<1>1. /\ k > 0 /\ all[k].ends /\ k + 1 > 0
      /\ k \in 0..Len(all) /\ all[k+1] \in Steps
  BY OffsetAtUpdate, AllSteps
<1>2. LengthUpto(all, k + 1) = LengthUpto(all, k)
  <2>1. Len(all[k+1].text) = 0
    BY <1>1, StepTypes
  <2>2. LengthUpto(all, k + 1) = LengthUpto(all, k) + Len(all[k+1].text)
    BY OneMorePiece
  <2>3. LengthUpto(all, k) \in Nat
    BY <1>1, UptoGrows
  <2> QED
    BY <2>1, <2>2, <2>3
<1>3. \A i \in 1..LengthUpto(all, k) : Upto(all)[k+1][i] = Upto(all)[k][i]
  BY OneMorePiece
<1> QED
  BY <1>1, <1>2, <1>3 DEF Holds

(* and finds the terminator behind it.                                      *)
LEMMA update_offsetHolds ==
    ASSUME PrinterInv, update_offset
    PROVE  PrinterInv'
<1>1. /\ pc = "printing" /\ steps # <<>> /\ Next1.update /\ Parameters /\ Measure /\ steps' = Tail(steps)
      /\ UNCHANGED <<tree, format, method, reallocates>>
      /\ UNCHANGED <<buffer, present, blocks, outOfMemory, pc, result>>
  BY DEF update_offset, PrinterInv, fixed
<1>2. PICK k \in 0..Len(All) : At(k)
  BY <1>1 DEF PrinterInv, Progresses
<1>3. /\ Complete(All) /\ k \in 0..Len(All)-1 /\ k + 1 \in 0..Len(All)
      /\ Next1 = All[k+1] /\ All[k+1] \in Steps /\ All[k+1].update
      /\ Tail(steps) = SubSeq(All, (k + 1) + 1, Len(All))
  BY <1>1, <1>2, AllIsComplete, AtTheNext
<1>4. k > 0 /\ All[k].ends /\ ~All[k].update /\ k \in 1..Len(All)
  BY <1>3, OffsetAtUpdate
<1>5. Holds(All, buffer, k) /\ offset = OffsetAt(All, k) /\ (Preallocated => Len(buffer) = method[2])
  BY <1>2 DEF At
<1>6. Ends # {} /\ Min(Ends) = LengthUpto(All, k)
  BY <1>3, <1>4, <1>5, TerminatorIsFound
<1>7. inside' = inside /\ offset' = LengthUpto(All, k)
  BY <1>1, <1>6, Zenon DEF Measure, PrinterInv, WritesStayInside
<1>8. LengthUpto(All, k + 1) = LengthUpto(All, k) /\ Holds(All, buffer, k + 1)
  BY <1>3, <1>5, UpdateAddsNothing
<1>10. OffsetAt(All, k + 1) = LengthUpto(All, k)
  BY <1>3, <1>8 DEF OffsetAt
<1>11. All' = All /\ Preallocated' = Preallocated
  BY <1>1, Zenon DEF All, Preallocated
<1>12. At(k + 1)'
  <2>1. Holds(All', buffer', k + 1) /\ steps' = SubSeq(All', (k + 1) + 1, Len(All'))
        /\ offset' = OffsetAt(All', k + 1) /\ (Preallocated' => Len(buffer') = method'[2])
    BY <1>1, <1>3, <1>5, <1>7, <1>8, <1>10, <1>11, Zenon
  <2> QED
    BY <2>1 DEF At, Holds, OffsetAt
<1>13. Progresses'
  <2>1. \E j \in 0..Len(All') : At(j)'
    BY <1>3, <1>11, <1>12
  <2> QED
    BY <1>1, <2>1 DEF Progresses
<1>14. Parameters' /\ BlocksAreKnown'
  BY <1>1, <1>11 DEF PrinterInv, Parameters, Methods, BlocksAreKnown
<1> QED
  BY <1>1, <1>7, <1>13, <1>14 DEF PrinterInv, WritesStayInside, PrintsAllOrFails

(* All steps are done.                                                      *)
LEMMA AllIsWritten ==
    ASSUME PrinterInv, Printed
    PROVE  /\ CString(buffer) = Text
           /\ Preallocated => method[2] >= Len(Text) + 1
           /\ Ends # {}
           /\ Len(Text) \in Nat
<1>1. pc = "printing" /\ steps = <<>> /\ Parameters
  BY DEF Printed, PrinterInv
<1>2. PICK k \in 0..Len(All) : At(k)
  BY <1>1 DEF PrinterInv, Progresses
<1>3. /\ Complete(All) /\ All \in Seq(Steps) /\ Len(All) \in Nat
      /\ Text = Upto(All)[Len(All)] /\ LengthUpto(All, Len(All)) = Len(Text)
      /\ method[2] \in Nat \ {0}
  BY <1>1, AllIsComplete
<1>4. k = Len(All)
  <2>1. steps = SubSeq(All, k + 1, Len(All))
    BY <1>2 DEF At
  <2> QED
    BY <1>1, <1>3, <2>1, RestOfSteps
<1>5. Holds(All, buffer, Len(All)) /\ offset = OffsetAt(All, Len(All)) /\ (Preallocated => Len(buffer) = method[2])
  BY <1>2, <1>4 DEF At
<1>6. CString(buffer) = Text
  BY <1>3, <1>5, TextInBuffer
<1>7. Len(Text) \in Nat
  <2>1. Len(All) \in 0..Len(All)
    BY <1>3
  <2> QED
    BY <1>3, <2>1, UptoGrows
<1>8. Len(All) \in 1..Len(All) /\ All[Len(All)].ends
  BY <1>3, AllSteps
<1>9. Ends # {}
  BY <1>3, <1>5, <1>8, TerminatorIsFound
<1>10. Len(Text) < Len(buffer) /\ buffer \in Seq(Int)
  BY <1>3, <1>5 DEF Holds
<1>11. Preallocated => method[2] >= Len(Text) + 1
  BY <1>3, <1>5, <1>7, <1>10
<1> QED
  BY <1>6, <1>7, <1>9, <1>11

(* A call that returns the text.                                            *)
LEMMA SuccessHolds ==
    ASSUME PrinterInv, Printed, Return(TRUE), inside' = inside, UNCHANGED <<blocks, outOfMemory>>
    PROVE  PrinterInv'
<1>1. /\ pc = "printing" /\ pc' = "returned"
      /\ UNCHANGED <<tree, format, method, reallocates>> /\ result' = [ok |-> TRUE, text |-> CString(buffer)]
  BY DEF Printed, Return, fixed
<1>2. CString(buffer) = Text /\ (Preallocated => method[2] >= Len(Text) + 1)
  BY AllIsWritten
<1>3. Text' = Text /\ Preallocated' = Preallocated
  BY <1>1, Zenon DEF Text, Preallocated
<1>4. result'.ok = TRUE /\ result'.text = Text'
  BY <1>1, <1>2, <1>3
<1>5. AllPiecesArrive'
  BY <1>4 DEF AllPiecesArrive
<1>6. BufferIsFreedOnce'
  BY <1>1, <1>3, <1>4 DEF BufferIsFreedOnce, PrinterInv, BlocksAreKnown
<1>7. EnoughRoomIsEnough'
  BY <1>1, <1>2, <1>3, <1>4 DEF EnoughRoomIsEnough
<1>8. Parameters'
  BY <1>1 DEF PrinterInv, Parameters, Methods
<1> QED
  BY <1>1, <1>5, <1>6, <1>7, <1>8
     DEF PrinterInv, WritesStayInside, BlocksAreKnown, Progresses, PrintsAllOrFails

(* A call that returns without.                                             *)
LEMMA FailureHolds ==
    ASSUME PrinterInv, pc' = "returned", ~result'.ok, inside' = inside,
           UNCHANGED <<tree, format, method, reallocates>>, blocks' = 0, HasReason'
    PROVE  PrinterInv'
<1>1. AllPiecesArrive' /\ BufferIsFreedOnce'
  BY DEF AllPiecesArrive, BufferIsFreedOnce
<1>2. EnoughRoomIsEnough'
  BY DEF EnoughRoomIsEnough, HasReason
<1>3. Parameters'
  BY DEF PrinterInv, Parameters, Methods
<1> QED
  BY <1>1, <1>2, <1>3 DEF PrinterInv, WritesStayInside, BlocksAreKnown, Progresses, PrintsAllOrFails

(* There is no first buffer.                                                *)
LEMMA NoBufferHolds ==
    ASSUME PrinterInv, NoBuffer
    PROVE  PrinterInv'
<1>1. /\ pc = "start" /\ ~Preallocated /\ outOfMemory' /\ pc' = "returned" /\ blocks' = blocks
      /\ UNCHANGED <<tree, format, method, reallocates>> /\ inside' = inside /\ result' = result
  BY DEF NoBuffer, fixed
<1>2. blocks = 0 /\ ~result.ok
  BY <1>1 DEF PrinterInv, BlocksAreKnown
<1>3. HasReason'
  BY <1>1 DEF HasReason, Preallocated
<1> QED
  BY <1>1, <1>2, <1>3, FailureHolds

(* print returns its buffer,                                                *)
LEMMA ReturnBufferHolds ==
    ASSUME PrinterInv, ReturnBuffer
    PROVE  PrinterInv'
  BY SuccessHolds DEF ReturnBuffer

(* or a copy that has the length of the text,                               *)
LEMMA ShrinkHolds ==
    ASSUME PrinterInv, Shrink
    PROVE  PrinterInv'
<1>1. Printed /\ method[1] = "Print" /\ Measure
  BY DEF Shrink
<1>2. inside' = inside
  BY <1>1, AllIsWritten DEF Measure, PrinterInv, WritesStayInside
<1>3. CASE Return(TRUE) /\ UNCHANGED <<blocks, outOfMemory>>
  BY <1>1, <1>2, <1>3, SuccessHolds
<1>4. CASE outOfMemory' = TRUE /\ pc' = "failed" /\ UNCHANGED <<fixed, steps, buffer, present, blocks, result>>
  <2>1. /\ pc = "printing" /\ ~Preallocated
        /\ UNCHANGED <<tree, format, method, reallocates, steps, result>> /\ UNCHANGED <<present, blocks>>
    BY <1>1, <1>4 DEF Printed, Preallocated, fixed
  <2>2. HasReason'
    BY <1>4, <2>1 DEF HasReason, Preallocated
  <2>3. blocks' = IF present' /\ ~Preallocated THEN 1 ELSE 0
    BY <2>1 DEF PrinterInv, BlocksAreKnown
  <2> QED
    BY <1>2, <1>4, <2>1, <2>2, <2>3, FailingHolds
<1> QED
  BY <1>3, <1>4 DEF Shrink

(* or frees it.                                                             *)
LEMMA GiveUpHolds ==
    ASSUME PrinterInv, GiveUp
    PROVE  PrinterInv'
<1>1. /\ pc = "failed" /\ pc' = "returned" /\ result' = [ok |-> FALSE, text |-> <<>>]
      /\ UNCHANGED <<tree, format, method, reallocates>> /\ inside' = inside /\ outOfMemory' = outOfMemory
      /\ blocks' = IF present /\ ~Preallocated THEN blocks - 1 ELSE blocks
  BY DEF GiveUp, Return, fixed
<1>2. HasReason /\ blocks = IF present /\ ~Preallocated THEN 1 ELSE 0
  BY <1>1 DEF PrinterInv, BlocksAreKnown, Progresses
<1>3. blocks' = 0 /\ ~result'.ok
  BY <1>1, <1>2
<1>4. HasReason'
  BY <1>1, <1>2 DEF HasReason, Preallocated, Text
<1> QED
  BY <1>1, <1>3, <1>4, FailureHolds

(* A step that changes nothing.                                             *)
LEMMA NothingHappens ==
    ASSUME PrinterInv, UNCHANGED printerVars
    PROVE  PrinterInv'
<1>1. UNCHANGED <<tree, format, method, reallocates>>
      /\ UNCHANGED <<steps, offset, buffer, present, blocks, outOfMemory, inside, pc, result>>
  BY DEF printerVars, fixed
<1>2. All' = All /\ Text' = Text /\ Preallocated' = Preallocated
  BY <1>1, Zenon DEF All, Text, Preallocated
<1>3. Parameters' /\ WritesStayInside' /\ BlocksAreKnown' /\ pc' \in {"start", "printing", "failed", "returned"}
      /\ (pc' # "returned" => ~result'.ok)
  BY <1>1, <1>2 DEF PrinterInv, Parameters, Methods, WritesStayInside, BlocksAreKnown
<1>4. Progresses'
  <2>1. HasReason' = HasReason
    BY <1>1, <1>2, Zenon DEF HasReason
  <2>2. ASSUME NEW k \in 0..Len(All), At(k) PROVE At(k)'
    <3>1. Holds(All', buffer', k) /\ steps' = SubSeq(All', k + 1, Len(All'))
          /\ offset' = OffsetAt(All', k) /\ (Preallocated' => Len(buffer') = method'[2])
      BY <1>1, <1>2, <2>2, Zenon DEF At
    <3> QED
      BY <3>1 DEF At, Holds, OffsetAt
  <2> QED
    BY <1>1, <1>2, <2>1, <2>2 DEF Progresses, PrinterInv
<1>5. PrintsAllOrFails'
  BY <1>1, <1>2, Zenon DEF PrinterInv, PrintsAllOrFails, AllPiecesArrive, BufferIsFreedOnce, EnoughRoomIsEnough
<1> QED
  BY <1>3, <1>4, <1>5 DEF PrinterInv

(* All actions together.                                                    *)
LEMMA StepHolds == PrinterInv /\ [PrinterNext]_printerVars => PrinterInv'
<1> SUFFICES ASSUME PrinterInv, [PrinterNext]_printerVars
             PROVE  PrinterInv'
  OBVIOUS
<1>1. CASE Start
  BY <1>1, StartHolds
<1>2. CASE NoBuffer
  BY <1>2, NoBufferHolds
<1>3. CASE Fits
  BY <1>3, FitsHolds
<1>4. CASE Grow
  BY <1>4, GrowHolds
<1>5. CASE CannotGrow
  BY <1>5, CannotGrowHolds
<1>6. CASE MustNotGrow
  BY <1>6, MustNotGrowHolds
<1>7. CASE update_offset
  BY <1>7, update_offsetHolds
<1>8. CASE ReturnBuffer
  BY <1>8, ReturnBufferHolds
<1>9. CASE Shrink
  BY <1>9, ShrinkHolds
<1>10. CASE GiveUp
  BY <1>10, GiveUpHolds
<1>11. CASE UNCHANGED printerVars
  BY <1>11, NothingHappens
<1> QED
  BY <1>1, <1>2, <1>3, <1>4, <1>5, <1>6, <1>7, <1>8, <1>9, <1>10, <1>11 DEF PrinterNext, Returned

(* The invariant holds in every state.                                      *)
LEMMA InvHolds == PrinterSpec => []PrinterInv
  BY InitHolds, StepHolds, PTL DEF PrinterSpec

(* Whatever the tree, the size of the buffer and the allocations that fail, *)
(* ensure, update_offset and what writes behind them use only bytes of the  *)
(* buffer: each function under print_value asks for enough, and where one   *)
(* leaves the offset to update_offset there is a terminator to be found.    *)
THEOREM PrintingStaysInside == PrinterSpec => []WritesStayInside
<1>1. PrinterInv => WritesStayInside
  BY DEF PrinterInv
<1> QED
  BY <1>1, InvHolds, PTL

(* Whatever the tree and the allocations that fail, print,                  *)
(* cJSON_PrintBuffered and cJSON_PrintPreallocated return all of the text,  *)
(* or fail because there is no memory, no room in the buffer of the caller, *)
(* or a text longer than INT_MAX allows, and leave no block behind.         *)
THEOREM PrintsAllOrNothing == PrinterSpec => []PrintsAllOrFails
<1>1. PrinterInv => PrintsAllOrFails
  BY DEF PrinterInv
<1> QED
  BY <1>1, InvHolds, PTL

-----------------------------------------------------------------------------
(* cJSON_Minify.                                                            *)

Bytes == Char \cup {Terminator}
Whole == original \o <<Terminator>>

MinifyType ==
    /\ original \in Seq(Char)
    /\ text \in [1..Len(original)+1 -> Bytes]
    /\ json \in Nat /\ into \in Nat
    /\ mode \in {"text", "line", "block", "string", "done"}

(* The text ends at its terminator only: what is not Terminator has a character   *)
(* behind it.                                                              *)
MinifyInv == MinifyType /\ WritesBehindReads

LEMMA WholeText ==
    ASSUME MinifyType
    PROVE  /\ Len(original) \in Nat /\ Len(text) = Len(original) + 1
           /\ DOMAIN text = 1..Len(text)
           /\ Whole[Len(text)] = Terminator
           /\ \A k \in 1..Len(original) : Whole[k] \in Char /\ Whole[k] # Terminator
<1>1. Len(original) \in Nat /\ original \in [1..Len(original) -> Char]
  BY DEF MinifyType
<1>2. text \in Seq(Bytes) /\ Len(text) = Len(original) + 1 /\ DOMAIN text = 1..Len(text)
  BY <1>1 DEF MinifyType
<1>3. Whole[Len(text)] = Terminator
  BY <1>1, <1>2 DEF Whole, MinifyType
<1>4. \A k \in 1..Len(original) : Whole[k] \in Char /\ Whole[k] # Terminator
  BY <1>1, CharAssumption DEF Whole, MinifyType, Terminator
<1> QED
  BY <1>1, <1>2, <1>3, <1>4

LEMMA BeginHolds == (\E s \in Seq(Char) : Begin(s)) => MinifyInv
<1> SUFFICES ASSUME NEW s \in Seq(Char), Begin(s)
             PROVE  MinifyInv
  OBVIOUS
<1>1. s \o <<Terminator>> \in Seq(Bytes) /\ Len(s \o <<Terminator>>) = Len(s) + 1 /\ Len(s) \in Nat
  BY DEF Bytes
<1>2. text \in [1..Len(original)+1 -> Bytes] /\ Len(text) = Len(s) + 1
  <2>1. \A q \in Seq(Bytes) : q \in [1..Len(q) -> Bytes]
    OBVIOUS
  <2>2. text = s \o <<Terminator>> /\ original = s
    BY DEF Begin
  <2>3. text \in Seq(Bytes) /\ Len(text) = Len(s) + 1
    BY <1>1, <2>2
  <2> QED
    BY <2>1, <2>2, <2>3
<1> QED
  BY <1>1, <1>2 DEF Begin, MinifyInv, MinifyType, WritesBehindReads

(* Reading on is harmless in front of the terminator.                      *)
LEMMA DropHolds ==
    ASSUME MinifyInv, NEW n \in 0..2, NEW next \in {"text", "line", "block", "string"},
           mode # "done", json + n < Len(text), Drop(n, next)
    PROVE  MinifyInv'
<1>1. MinifyType'
  BY DEF MinifyInv, MinifyType, Drop
<1>2. Len(text) \in Nat /\ Len(text)' = Len(text)
  BY WholeText DEF MinifyInv, Drop
<1>3. WritesBehindReads'
  BY <1>2 DEF MinifyInv, MinifyType, WritesBehindReads, Drop
<1> QED
  BY <1>1, <1>3 DEF MinifyInv

(* Copying leaves alone what is behind the characters copied.              *)
LEMMA CopyHolds ==
    ASSUME MinifyInv, NEW n \in 0..2, NEW next \in {"text", "line", "block", "string"},
           mode # "done", json + n < Len(text), Copy(n, next)
    PROVE  MinifyInv'
<1>1. Len(text) \in Nat /\ DOMAIN text = 1..Len(text) /\ Len(text) = Len(original) + 1
  BY WholeText DEF MinifyInv
<1>2. \A k \in DOMAIN text : k - 1 \in into..(into + n - 1) => k + json - into \in DOMAIN text
  BY <1>1 DEF MinifyInv, MinifyType, WritesBehindReads
<1>3. text' \in [1..Len(original)+1 -> Bytes]
  BY <1>1, <1>2 DEF MinifyInv, MinifyType, Copy
<1>4. MinifyType'
  BY <1>3 DEF MinifyInv, MinifyType, Copy
<1>5. Len(text)' = Len(text)
  BY <1>1, <1>4, WholeText DEF Copy, MinifyType
<1>6. \A k \in json'+1..Len(text) : text'[k] = text[k]
  BY <1>1 DEF MinifyInv, MinifyType, WritesBehindReads, Copy
<1>7. into' <= json' /\ json' < Len(text)'
  BY <1>1, <1>5 DEF MinifyInv, MinifyType, WritesBehindReads, Copy
<1>8. \A k \in json'+1..Len(text)' : text'[k] = Whole'[k]
  BY <1>1, <1>5, <1>6 DEF MinifyInv, MinifyType, WritesBehindReads, Copy, Whole
<1> QED
  BY <1>4, <1>7, <1>8 DEF MinifyInv, WritesBehindReads, Whole

(* Where a character is not the terminator, the text goes on.              *)
LEMMA TextGoesOn ==
    ASSUME MinifyInv, mode # "done"
    PROVE  /\ Peek(0) # Terminator => json + 1 < Len(text)
           /\ Peek(0) # Terminator /\ Peek(1) # Terminator => json + 2 < Len(text)
           /\ Len(text) \in Nat /\ json \in Nat /\ json < Len(text)
<1>1. /\ Len(text) \in Nat /\ Len(text) = Len(original) + 1
      /\ Whole[Len(text)] = Terminator /\ json \in Nat /\ json < Len(text)
  BY WholeText DEF MinifyInv, MinifyType, WritesBehindReads
<1>2. text[Len(text)] = Terminator
  BY <1>1 DEF MinifyInv, WritesBehindReads, Whole
<1>3. Peek(0) = text[json + 1] /\ Peek(1) = text[json + 2]
  BY <1>1 DEF Peek
<1> QED
  BY <1>1, <1>2, <1>3

LEMMA TextStep ==
    ASSUME MinifyInv, SkipWhite \/ OpenLineComment \/ OpenBlockComment \/ LoneSlash \/ OpenString \/ CopyOther
    PROVE  MinifyInv'
<1>1. CASE SkipWhite
  <2>1. mode # "done" /\ Peek(0) # Terminator /\ Drop(1, "text")
    BY <1>1 DEF SkipWhite, White, Terminator, Newline
  <2> QED
    BY <2>1, TextGoesOn, DropHolds
<1>2. CASE OpenLineComment
  <2>1. mode # "done" /\ Peek(0) # Terminator /\ Peek(1) # Terminator /\ Drop(2, "line")
    BY <1>2 DEF OpenLineComment, AtSlash, Slash, Terminator
  <2> QED
    BY <2>1, TextGoesOn, DropHolds
<1>3. CASE OpenBlockComment
  <2>1. mode # "done" /\ Peek(0) # Terminator /\ Peek(1) # Terminator /\ Drop(2, "block")
    BY <1>3 DEF OpenBlockComment, AtSlash, Slash, Star, Terminator
  <2> QED
    BY <2>1, TextGoesOn, DropHolds
<1>4. CASE LoneSlash
  <2>1. mode # "done" /\ Peek(0) # Terminator /\ Drop(1, "text")
    BY <1>4 DEF LoneSlash, AtSlash, Slash, Terminator
  <2> QED
    BY <2>1, TextGoesOn, DropHolds
<1>5. CASE OpenString
  <2>1. mode # "done" /\ Peek(0) # Terminator /\ Copy(1, "string")
    BY <1>5 DEF OpenString, Quote, Terminator
  <2> QED
    BY <2>1, TextGoesOn, CopyHolds
<1>6. CASE CopyOther
  <2>1. mode # "done" /\ Peek(0) # Terminator /\ Copy(1, "text")
    BY <1>6 DEF CopyOther
  <2> QED
    BY <2>1, TextGoesOn, CopyHolds
<1> QED
  BY <1>1, <1>2, <1>3, <1>4, <1>5, <1>6

LEMMA CommentStep ==
    ASSUME MinifyInv, skip_oneline_comment \/ skip_multiline_comment
    PROVE  MinifyInv'
<1>1. mode # "done"
  BY DEF skip_oneline_comment, skip_multiline_comment
<1>2. CASE Drop(0, "text")
  BY <1>1, <1>2, TextGoesOn, DropHolds
<1>3. CASE Peek(0) # Terminator /\ (Drop(1, "text") \/ Drop(1, "line") \/ Drop(1, "block"))
  BY <1>1, <1>3, TextGoesOn, DropHolds
<1>4. CASE EndsBlock /\ Drop(2, "text")
  <2>1. Peek(0) # Terminator /\ Peek(1) # Terminator
    BY <1>4 DEF EndsBlock, Star, Slash, Terminator
  <2> QED
    BY <1>1, <1>4, <2>1, TextGoesOn, DropHolds
<1> QED
  BY <1>2, <1>3, <1>4 DEF skip_oneline_comment, skip_multiline_comment, Newline, Terminator

(* The only place where two characters are copied: the second is a quote.  *)
LEMMA StringStep ==
    ASSUME MinifyInv, minify_string
    PROVE  MinifyInv'
<1>1. mode # "done"
  BY DEF minify_string
<1>2. CASE Drop(0, "text")
  BY <1>1, <1>2, TextGoesOn, DropHolds
<1>3. CASE Peek(0) # Terminator /\ (Copy(1, "text") \/ Copy(1, "string"))
  BY <1>1, <1>3, TextGoesOn, CopyHolds
<1>4. CASE EscapesQuote /\ Copy(2, "string")
  <2>1. Peek(0) # Terminator /\ Peek(1) # Terminator
    BY <1>4 DEF EscapesQuote, Backslash, Quote, Terminator
  <2> QED
    BY <1>1, <1>4, <2>1, TextGoesOn, CopyHolds
<1> QED
  BY <1>2, <1>3, <1>4 DEF minify_string, Quote, Terminator

LEMMA TerminateStep ==
    ASSUME MinifyInv, Terminate
    PROVE  MinifyInv'
<1>1. Len(text) \in Nat /\ DOMAIN text = 1..Len(text) /\ Len(text) = Len(original) + 1
  BY WholeText DEF MinifyInv
<1>2. text' \in [1..Len(original)+1 -> Bytes]
  BY <1>1 DEF MinifyInv, MinifyType, Terminate, Bytes
<1>3. MinifyType'
  BY <1>2 DEF MinifyInv, MinifyType, Terminate
<1>4. Len(text)' = Len(text)
  BY <1>1, <1>3, WholeText DEF Terminate, MinifyType
<1> QED
  BY <1>3, <1>4 DEF MinifyInv, WritesBehindReads, Terminate

LEMMA MinifyStepHolds == MinifyInv /\ [MinifyNext]_minifyVars => MinifyInv'
<1>1. CASE MinifyInv /\ UNCHANGED minifyVars
  BY <1>1 DEF MinifyInv, MinifyType, WritesBehindReads, minifyVars
<1> QED
  BY <1>1, TextStep, CommentStep, StringStep, TerminateStep DEF MinifyNext, HasMinified

(* Whatever the text, cJSON_Minify reads nothing behind its terminator and  *)
(* writes over nothing that is still to be read.                            *)
THEOREM MinifyStaysInside == MinifySpec => []WritesBehindReads
<1>1. MinifyInv => WritesBehindReads
  BY DEF MinifyInv
<1> QED
  BY <1>1, BeginHolds, MinifyStepHolds, PTL DEF MinifySpec
=============================================================================
