---------------------------- MODULE ProofLemmas -----------------------------
(***************************************************************************)
(* Facts about numbers and sequences that several proofs cite.             *)
(***************************************************************************)
EXTENDS Integers, Sequences, WellFoundedInduction, TLAPS

(* Sets of naturals have a least element, and are inductive.               *)
LEMMA Least ==
    ASSUME NEW S \in SUBSET Nat, S # {}
    PROVE  \E n \in S : \A m \in S : n <= m
<1> DEFINE R == {ss \in Nat \X Nat : ss[1] < ss[2]}
<1>1. R = OpToRel(<, Nat)
  BY DEF OpToRel
<1>2. IsWellFoundedOn(R, Nat)
  BY <1>1, NatLessThanWellFounded
<1>3. PICK n \in S : \A m \in S : ~(<<m, n>> \in R)
  BY <1>2, WFMin
<1>4. \A m \in S : m < n => <<m, n>> \in R
  OBVIOUS
<1>5. \A m \in S : ~(m < n)
  BY <1>3, <1>4
<1>6. \A m \in S : n <= m
  BY <1>5
<1> QED
  BY <1>6

(* Induction over the naturals, for a set.                                 *)
LEMMA Induction ==
    ASSUME NEW S, 0 \in S, \A n \in Nat : n \in S => n + 1 \in S
    PROVE  Nat \subseteq S
<1> SUFFICES ASSUME Nat \ S # {}
             PROVE  FALSE
  OBVIOUS
<1>1. PICK n \in Nat \ S : \A m \in Nat \ S : n <= m
  BY Least
<1>2. n # 0 /\ n - 1 \in Nat /\ n - 1 \in S
  BY <1>1
<1> QED
  BY <1>1, <1>2

-----------------------------------------------------------------------------
(* Sequences as stacks, innermost first: pushing, replacing the innermost. *)
LEMMA PushedItem ==
    ASSUME NEW S, NEW s \in Seq(S), NEW e \in S
    PROVE  /\ <<e>> \o s \in Seq(S)
           /\ Len(<<e>> \o s) = Len(s) + 1
           /\ (<<e>> \o s)[1] = e
           /\ \A j \in DOMAIN s : (<<e>> \o s)[j + 1] = s[j]
  BY SMT

(* Replacing the innermost.                                                *)
LEMMA Replaced ==
    ASSUME NEW S, NEW s \in Seq(S), s # <<>>, NEW e \in S
    PROVE  /\ <<e>> \o Tail(s) \in Seq(S)
           /\ Len(<<e>> \o Tail(s)) = Len(s)
           /\ (<<e>> \o Tail(s))[1] = e
           /\ \A j \in DOMAIN s : j # 1 => (<<e>> \o Tail(s))[j] = s[j]
<1>1. Tail(s) \in Seq(S) /\ Len(Tail(s)) = Len(s) - 1 /\ \A j \in 1..Len(s)-1 : Tail(s)[j] = s[j + 1]
  BY SMT
<1>2. \A j \in DOMAIN s : j # 1 => j - 1 \in DOMAIN Tail(s) /\ (j - 1) + 1 = j
  BY <1>1, SMT
<1>3. Len(s) \in Nat /\ (Len(s) - 1) + 1 = Len(s)
  BY SMT
<1> QED
  BY <1>1, <1>2, <1>3, PushedItem

(* A concatenation and its parts.                                          *)
LEMMA Joined ==
    ASSUME NEW S, NEW s \in Seq(S), NEW t \in Seq(S), NEW r, r = s \o t
    PROVE  /\ r \in Seq(S)
           /\ Len(r) = Len(s) + Len(t)
           /\ \A j \in 1..Len(s) : r[j] = s[j]
           /\ \A j \in 1..Len(t) : r[Len(s) + j] = t[j]
  BY SMT

(* A part of a sequence.                                                   *)
LEMMA Parted ==
    ASSUME NEW S, NEW s \in Seq(S), NEW m \in Nat \ {0}, NEW n \in Nat, n <= Len(s)
    PROVE  /\ DOMAIN SubSeq(s, m, n) = 1..n-m+1
           /\ \A k \in 1..n-m+1 : SubSeq(s, m, n)[k] = s[m + k - 1]
  BY SMT

(* One element more at the end.                                            *)
LEMMA Appended ==
    ASSUME NEW S, NEW s \in Seq(S), NEW e, NEW r, r = Append(s, e)
    PROVE  /\ r \in Seq(S \cup {e})
           /\ Len(s) \in Nat
           /\ DOMAIN s = 1..Len(s)
           /\ Len(r) = Len(s) + 1
           /\ DOMAIN r = 1..Len(s) + 1
           /\ \A k \in 1..Len(s) : r[k] = s[k]
           /\ r[Len(s) + 1] = e
<1>1. s \in Seq(S \cup {e}) /\ e \in S \cup {e}
  BY SMT
<1> QED
  BY <1>1, SMT

-----------------------------------------------------------------------------
(* The concatenation f[n] of the first n of N parts.                       *)
Concatenates(f, parts, N) ==
    /\ DOMAIN f = 0..N
    /\ f[0] = <<>>
    /\ \A n \in 1..N : f[n] = f[n-1] \o parts[n]

AreSequences(parts, N, S) == \A n \in 1..N : parts[n] \in Seq(S)

(* One more part is added behind what was there.                           *)
Adds(f, parts, n) ==
    /\ Len(f[n]) = Len(f[n-1]) + Len(parts[n])
    /\ \A k \in 1..Len(f[n-1]) : f[n][k] = f[n-1][k]
    /\ \A k \in 1..Len(parts[n]) : f[n][Len(f[n-1]) + k] = parts[n][k]

(* What one more part adds.                                                *)
LEMMA OneMorePart ==
    ASSUME NEW S, NEW N \in Nat, NEW parts, AreSequences(parts, N, S),
           NEW f, Concatenates(f, parts, N), NEW n \in 1..N, f[n-1] \in Seq(S)
    PROVE  f[n] \in Seq(S) /\ Adds(f, parts, n)
<1>1. f[n] = f[n-1] \o parts[n]
  BY Zenon DEF Concatenates
<1>2. parts[n] \in Seq(S)
  BY DEF AreSequences
<1>3. PICK s \in Seq(S), t \in Seq(S) : s = f[n-1] /\ t = parts[n]
  BY <1>2, Zenon
<1> DEFINE r == f[n]
<1>4. r = s \o t
  BY <1>1, <1>3, Zenon
<1> HIDE DEF r
<1>5. /\ r \in Seq(S)
      /\ Len(r) = Len(s) + Len(t)
      /\ \A k \in 1..Len(s) : r[k] = s[k]
      /\ \A k \in 1..Len(t) : r[Len(s) + k] = t[k]
  BY <1>4, Joined
<1> QED
  BY <1>3, <1>5, Zenon DEF Adds, r

(* Concatenations of sequences are sequences.                              *)
LEMMA ConcatenationsAreSequences ==
    ASSUME NEW S, NEW N \in Nat, NEW parts, AreSequences(parts, N, S),
           NEW f, Concatenates(f, parts, N)
    PROVE  \A n \in 0..N : f[n] \in Seq(S)
<1> DEFINE T == {n \in Nat : n <= N => f[n] \in Seq(S)}
<1>1. 0 \in T
  <2>1. f[0] \in Seq(S)
    BY DEF Concatenates
  <2> QED
    BY <2>1
<1>2. ASSUME NEW n \in Nat, n \in T
      PROVE  n + 1 \in T
  <2> SUFFICES ASSUME n + 1 <= N
               PROVE  f[n+1] \in Seq(S)
    OBVIOUS
  <2>1. PICK m : m \in 1..N /\ m = n + 1 /\ m - 1 = n
    OBVIOUS
  <2>2. f[m-1] \in Seq(S)
    BY <1>2, <2>1
  <2> QED
    BY <2>1, <2>2, OneMorePart
<1>3. Nat \subseteq T
  <2> HIDE DEF T
  <2> QED
    BY <1>1, <1>2, Induction
<1> QED
  BY <1>3

(* There is such a concatenation.                                          *)
LEMMA ConcatenationExists ==
    ASSUME NEW S, NEW N \in Nat, NEW parts, AreSequences(parts, N, S)
    PROVE  \E f : f = [n \in 0..N |-> f[n]] /\ Concatenates(f, parts, N)
<1> DEFINE T == {m \in Nat : m <= N => \E f : Concatenates(f, parts, m)}
<1>1. 0 \in T
  <2>1. Concatenates([n \in 0..0 |-> <<>>], parts, 0)
    BY DEF Concatenates
  <2> QED
    BY <2>1
<1>2. ASSUME NEW m \in Nat, m \in T
      PROVE  m + 1 \in T
  <2> SUFFICES ASSUME m + 1 <= N
               PROVE  \E f : Concatenates(f, parts, m + 1)
    OBVIOUS
  <2>1. PICK f : Concatenates(f, parts, m)
    BY <1>2
  <2> DEFINE last == f[m] \o parts[m+1]
             g == [n \in 0..m+1 |-> IF n = m + 1 THEN last ELSE f[n]]
  <2> HIDE DEF last
  <2>2. /\ DOMAIN g = 0..m+1 /\ g[0] = f[0] /\ g[m+1] = last /\ g[(m+1)-1] = f[m]
        /\ \A n \in 1..m : g[n] = f[n] /\ g[n-1] = f[n-1]
        /\ \A n \in 1..m+1 : n \in 1..m \/ n = m + 1
    OBVIOUS
  <2> HIDE DEF g
  <2>3. g[0] = <<>>
    BY <2>1, <2>2, Zenon DEF Concatenates
  <2>4. ASSUME NEW n \in 1..m
        PROVE  g[n] = g[n-1] \o parts[n]
    BY <2>1, <2>2, Zenon DEF Concatenates
  <2>5. g[m+1] = g[(m+1)-1] \o parts[m+1]
    BY <2>2, Zenon DEF last
  <2>6. Concatenates(g, parts, m + 1)
    BY <2>2, <2>3, <2>4, <2>5, Zenon DEF Concatenates
  <2> QED
    BY <2>6
<1>3. Nat \subseteq T
  <2> HIDE DEF T
  <2> QED
    BY <1>1, <1>2, Induction
<1>4. PICK f : Concatenates(f, parts, N)
  BY <1>3
<1> DEFINE g == [n \in 0..N |-> f[n]]
<1>5. /\ g[0] = f[0] /\ DOMAIN g = 0..N /\ g = [n \in 0..N |-> g[n]]
      /\ \A n \in 1..N : g[n] = f[n] /\ g[n-1] = f[n-1]
  OBVIOUS
<1> HIDE DEF g
<1>6. Concatenates(g, parts, N)
  BY <1>4, <1>5, Zenon DEF Concatenates
<1> QED
  BY <1>5, <1>6

(* The form of a recursive definition.                                     *)
LEMMA Concatenated ==
    ASSUME NEW N \in Nat, NEW parts, NEW f
    PROVE  f = [n \in 0..N |-> IF n = 0 THEN <<>> ELSE f[n-1] \o parts[n]]
           <=> f = [n \in 0..N |-> f[n]] /\ Concatenates(f, parts, N)
<1>1. 0 \in 0..N /\ \A n \in 1..N : n \in 0..N /\ n # 0
  OBVIOUS
<1>2. \A n \in 0..N : n = 0 \/ n \in 1..N
  OBVIOUS
<1>3. ASSUME f = [n \in 0..N |-> IF n = 0 THEN <<>> ELSE f[n-1] \o parts[n]]
      PROVE  f = [n \in 0..N |-> f[n]] /\ Concatenates(f, parts, N)
  <2>1. DOMAIN f = 0..N
    BY <1>3, Zenon
  <2>2. f[0] = <<>>
    BY <1>1, <1>3, Zenon
  <2>3. ASSUME NEW n \in 1..N PROVE f[n] = f[n-1] \o parts[n]
    BY <1>1, <1>3, Zenon
  <2>4. f = [n \in 0..N |-> f[n]]
    BY <1>3, Zenon
  <2> QED
    BY <2>1, <2>2, <2>3, <2>4, Zenon DEF Concatenates
<1>4. ASSUME f = [n \in 0..N |-> f[n]], Concatenates(f, parts, N)
      PROVE  f = [n \in 0..N |-> IF n = 0 THEN <<>> ELSE f[n-1] \o parts[n]]
  <2>1. ASSUME NEW n \in 0..N PROVE f[n] = IF n = 0 THEN <<>> ELSE f[n-1] \o parts[n]
    BY <1>2, <1>4, Zenon DEF Concatenates
  <2> QED
    BY <1>4, <2>1, Zenon
<1> QED
  BY <1>3, <1>4, Zenon

(* Sequences that extend one another are all within the last.              *)
LEMMA WithinTheLast ==
    ASSUME NEW N \in Nat, NEW f, NEW length \in [0..N -> Nat],
           \A n \in 1..N : /\ length[n-1] <= length[n]
                           /\ \A k \in 1..length[n-1] : f[n][k] = f[n-1][k]
    PROVE  \A n \in 0..N :
              length[n] <= length[N] /\ \A k \in 1..length[n] : f[N][k] = f[n][k]
<1> DEFINE Within(n) == length[n] <= length[N] /\ \A k \in 1..length[n] : f[N][k] = f[n][k]
           T == {m \in Nat : m <= N => Within(N - m)}
<1>1. 0 \in T
  OBVIOUS
<1>2. ASSUME NEW m \in Nat, m \in T
      PROVE  m + 1 \in T
  <2> SUFFICES ASSUME m + 1 <= N
               PROVE  Within(N - (m + 1))
    OBVIOUS
  <2>1. PICK n \in 1..N : n = N - m /\ n - 1 = N - (m + 1)
    <3>1. N - m \in 1..N
      OBVIOUS
    <3> QED
      BY <3>1
  <2>2. Within(n)
    BY <1>2, <2>1
  <2>3. length[n-1] \in Nat /\ length[n] \in Nat /\ length[n-1] <= length[n]
    OBVIOUS
  <2>4. Within(n - 1)
    BY <2>2, <2>3
  <2> QED
    BY <2>1, <2>4
<1>3. Nat \subseteq T
  <2> HIDE DEF T
  <2> QED
    BY <1>1, <1>2, Induction
<1>4. ASSUME NEW n \in 0..N PROVE Within(n)
  <2>1. PICK m : m \in Nat /\ m = N - n /\ m <= N /\ N - m = n
    OBVIOUS
  <2>2. Within(N - m)
    BY <1>3, <2>1
  <2> QED
    BY <2>1, <2>2
<1> QED
  BY <1>4

(* Where the elements of a part are in the whole.                          *)
AreLaidOut(f, parts, N) ==
    /\ Len(f[0]) = 0
    /\ \A n \in 0..N : Len(f[n]) \in Nat /\ Len(f[n]) <= Len(f[N])
    /\ \A n \in 1..N : Len(f[n]) = Len(f[n-1]) + Len(parts[n])
    /\ \A n \in 1..N : \A k \in 1..Len(parts[n]) : f[N][Len(f[n-1]) + k] = parts[n][k]

(* The parts of a concatenation are laid out in it one behind the other.   *)
LEMMA PartsOfConcatenation ==
    ASSUME NEW S, NEW N \in Nat, NEW parts, AreSequences(parts, N, S),
           NEW f, Concatenates(f, parts, N)
    PROVE  f[N] \in Seq(S) /\ AreLaidOut(f, parts, N)
<1>1. \A n \in 0..N : f[n] \in Seq(S)
  BY ConcatenationsAreSequences
<1>2. \A n \in 0..N : Len(f[n]) \in Nat
  BY <1>1
<1>3. \A n \in 1..N : n - 1 \in 0..N /\ n \in 0..N
  OBVIOUS
<1>4. ASSUME NEW n \in 1..N
      PROVE  /\ Len(f[n]) = Len(f[n-1]) + Len(parts[n])
             /\ \A k \in 1..Len(f[n-1]) : f[n][k] = f[n-1][k]
             /\ \A k \in 1..Len(parts[n]) : f[n][Len(f[n-1]) + k] = parts[n][k]
  <2>1. f[n-1] \in Seq(S)
    BY <1>1, <1>3
  <2>2. Adds(f, parts, n)
    BY <2>1, OneMorePart
  <2> QED
    BY <2>2, Zenon DEF Adds
<1>5. \A n \in 1..N : Len(parts[n]) \in Nat
  BY DEF AreSequences
<1> DEFINE length == [n \in 0..N |-> Len(f[n])]
<1>6. \A n \in 0..N :
         length[n] <= length[N] /\ \A k \in 1..length[n] : f[N][k] = f[n][k]
  <2>1. length \in [0..N -> Nat] /\ \A n \in 0..N : length[n] = Len(f[n])
    BY <1>2
  <2> HIDE DEF length
  <2>2. ASSUME NEW n \in 1..N PROVE length[n-1] <= length[n]
    <3>1. length[n] = length[n-1] + Len(parts[n])
      BY <1>3, <1>4, <2>1, Zenon
    <3>2. length[n] \in Nat /\ length[n-1] \in Nat /\ Len(parts[n]) \in Nat
      BY <1>3, <1>5, <2>1
    <3> QED
      BY <3>1, <3>2
  <2>3. \A n \in 1..N : \A k \in 1..length[n-1] : f[n][k] = f[n-1][k]
    BY <1>3, <1>4, <2>1
  <2> QED
    BY <2>1, <2>2, <2>3, WithinTheLast
<1>7. \A n \in 0..N : Len(f[n]) <= Len(f[N]) /\ \A k \in 1..Len(f[n]) : f[N][k] = f[n][k]
  BY <1>6
<1>8. ASSUME NEW n \in 1..N, NEW k \in 1..Len(parts[n])
      PROVE  f[N][Len(f[n-1]) + k] = parts[n][k]
  <2>1. Len(f[n-1]) \in Nat /\ Len(parts[n]) \in Nat /\ Len(f[n]) = Len(f[n-1]) + Len(parts[n])
    BY <1>2, <1>3, <1>4, <1>5
  <2>2. Len(f[n-1]) + k \in 1..Len(f[n])
    <3>1. \A a, b \in Nat : \A m \in 1..b : a + m \in 1..a+b
      OBVIOUS
    <3> QED
      BY <2>1, <3>1, Zenon
  <2> QED
    BY <1>3, <1>4, <1>7, <2>2
<1>9. Len(f[0]) = 0
  BY DEF Concatenates
<1>10. f[N] \in Seq(S)
  BY <1>1
<1> QED
  BY <1>2, <1>4, <1>7, <1>8, <1>9, <1>10 DEF AreLaidOut

-----------------------------------------------------------------------------
(* Nothing in front.                                                        *)
LEMMA NothingInFront ==
    ASSUME NEW S, NEW s \in Seq(S)
    PROVE  <<>> \o s = s
  BY SMT

(* The elements of a sequence.                                              *)
LEMMA Elements ==
    ASSUME NEW S, NEW s \in Seq(S)
    PROVE  Len(s) \in Nat /\ DOMAIN s = 1..Len(s) /\ \A n \in 1..Len(s) : s[n] \in S
  BY SMT

(* Sequences with the same elements.                                        *)
LEMMA SameSequence ==
    ASSUME NEW S, NEW s \in Seq(S), NEW t \in Seq(S), Len(s) = Len(t), \A i \in 1..Len(s) : s[i] = t[i]
    PROVE  s = t
  OBVIOUS

(* A sequence is empty or has a first element, and a rest.                  *)
LEMMA EmptyOrNot ==
    ASSUME NEW S, NEW s \in Seq(S)
    PROVE  /\ s = <<>> <=> Len(s) = 0
           /\ s # <<>> => /\ Len(s) \in Nat \ {0}
                          /\ Head(s) = s[1]
                          /\ Tail(s) \in Seq(S)
                          /\ Len(Tail(s)) = Len(s) - 1
                          /\ \A i \in 1..Len(s)-1 : Tail(s)[i] = s[i + 1]
  OBVIOUS

(* Intervals that start at 1.                                               *)
LEMMA SameInterval ==
    ASSUME NEW a \in Nat, NEW b \in Nat, 1..a = 1..b
    PROVE  a = b
<1>1. \A i \in Nat \ {0} : i <= a <=> i <= b
  OBVIOUS
<1>2. a # 0 => a <= b
  BY <1>1
<1>3. b # 0 => b <= a
  BY <1>1
<1> QED
  BY <1>2, <1>3

(* What is left of a sequence behind its first k elements.                  *)
LEMMA Rest ==
    ASSUME NEW S, NEW all \in Seq(S), NEW k \in Nat, k <= Len(all), NEW s, s = SubSeq(all, k + 1, Len(all))
    PROVE  s \in Seq(S) /\ Len(s) = Len(all) - k /\ \A i \in 1..Len(all)-k : s[i] = all[k + i]
<1>1. Len(all) \in Nat /\ k + 1 \in Nat \ {0} /\ Len(all) - (k + 1) + 1 = Len(all) - k
      /\ Len(all) - k \in Nat /\ \A i \in 1..Len(all)-k : (k + 1) + i - 1 = k + i /\ k + i \in 1..Len(all)
  BY Elements
<1>2. DOMAIN s = 1..Len(all)-k /\ \A i \in 1..Len(all)-k : s[i] = all[k + i]
  <2>1. /\ DOMAIN s = 1..Len(all)-(k+1)+1
        /\ \A i \in 1..Len(all)-(k+1)+1 : s[i] = all[(k + 1) + i - 1]
    BY <1>1, Parted
  <2> QED
    BY <1>1, <2>1
<1>3. s \in Seq(S)
  BY <1>1
<1>4. Len(s) = Len(all) - k
  <2>1. DOMAIN s = 1..Len(s) /\ Len(s) \in Nat
    BY <1>3, Elements
  <2>2. 1..Len(s) = 1..Len(all)-k
    BY <1>2, <2>1, Zenon
  <2> QED
    BY <1>1, <2>1, <2>2, SameInterval
<1> QED
  BY <1>2, <1>3, <1>4

(* And behind one more.                                                     *)
LEMMA RestOfSteps ==
    ASSUME NEW S, NEW all \in Seq(S), NEW k \in 0..Len(all), NEW s, s = SubSeq(all, k + 1, Len(all))
    PROVE  /\ s = <<>> => k = Len(all)
           /\ s # <<>> => /\ k \in 0..Len(all)-1
                          /\ Head(s) = all[k + 1]
                          /\ Tail(s) = SubSeq(all, (k + 1) + 1, Len(all))
<1>0. Len(all) \in Nat /\ k \in Nat /\ k <= Len(all)
  BY Elements
<1>1. s \in Seq(S) /\ Len(s) = Len(all) - k /\ \A i \in 1..Len(all)-k : s[i] = all[k + i]
  BY <1>0, Rest
<1>2. s = <<>> <=> Len(s) = 0
  BY <1>1, EmptyOrNot, Zenon
<1>3. s # <<>> => k \in 0..Len(all)-1
  BY <1>0, <1>1, <1>2
<1>4. s # <<>> => Head(s) = all[k + 1]
  BY <1>1, <1>2
<1>5. s # <<>> => Tail(s) = SubSeq(all, (k + 1) + 1, Len(all))
  <2> SUFFICES ASSUME s # <<>>
               PROVE  Tail(s) = SubSeq(all, (k + 1) + 1, Len(all))
    OBVIOUS
  <2>0. Len(s) \in Nat \ {0} /\ k + 1 \in Nat /\ k + 1 <= Len(all)
    BY <1>0, <1>1, <1>2, <1>3
  <2>1. Tail(s) \in Seq(S) /\ Len(Tail(s)) = Len(s) - 1 /\ \A i \in 1..Len(s)-1 : Tail(s)[i] = s[i + 1]
    BY <1>1, EmptyOrNot
  <2>4. Len(s) - 1 = Len(all) - (k + 1)
        /\ \A i \in 1..Len(s)-1 : i + 1 \in 1..Len(all)-k /\ k + (i + 1) = (k + 1) + i
    <3>1. Len(s) = Len(all) - k
      BY <1>1
    <3>2. \A a, b \in Nat : /\ (a - b) - 1 = a - (b + 1)
                            /\ \A i \in 1..(a-b)-1 : i + 1 \in 1..a-b /\ b + (i + 1) = (b + 1) + i
      OBVIOUS
    <3> QED
      BY <1>0, <3>1, <3>2, Zenon
  <2> DEFINE t == SubSeq(all, (k + 1) + 1, Len(all))
  <2>2. t \in Seq(S) /\ Len(t) = Len(all) - (k + 1)
        /\ \A i \in 1..Len(all)-(k+1) : t[i] = all[(k + 1) + i]
    BY <2>0, Rest
  <2> HIDE DEF t
  <2>5. \A i \in 1..Len(s)-1 : Tail(s)[i] = t[i]
    BY <1>1, <2>1, <2>2, <2>4
  <2>6. \A i \in 1..Len(Tail(s)) : Tail(s)[i] = t[i]
    BY <2>1, <2>5
  <2>3. Tail(s) = t
    BY <2>1, <2>2, <2>4, <2>6, SameSequence
  <2> QED
    BY <2>3 DEF t
<1> QED
  BY <1>1, <1>2, <1>3, <1>4, <1>5

-----------------------------------------------------------------------------
(* Induction over what has a rank.                                          *)
LEMMA RankInduction ==
    ASSUME NEW D, NEW rank \in [D -> Nat], NEW S,
           \A x \in D : (\A y \in D : rank[y] < rank[x] => y \in S) => x \in S
    PROVE  D \subseteq S
<1> SUFFICES ASSUME NEW z \in D, z \notin S
             PROVE  FALSE
  OBVIOUS
<1> DEFINE R == {rank[x] : x \in D \ S}
<1>1. PICK n \in R : \A m \in R : n <= m
  <2>1. R \in SUBSET Nat /\ R # {}
    OBVIOUS
  <2> QED
    BY <2>1, Least
<1>2. PICK x \in D \ S : rank[x] = n
  BY <1>1
<1>3. \A y \in D : rank[y] < rank[x] => y \in S
  BY <1>1, <1>2
<1> QED
  BY <1>2, <1>3

(* Step[f][x] depends on f only at what has a lower rank than x.            *)
LooksBelow(Step, D, T, rank) ==
    \A f, g \in [D -> T] : \A x \in D :
        (\A y \in D : rank[y] < rank[x] => f[y] = g[y]) => Step[f][x] = Step[g][x]

FixedBelow(f, Step, D, rank, n) == \A x \in D : rank[x] < n => f[x] = Step[f][x]

(* There are functions that agree with Step as far up as one likes,         *)
LEMMA FixedOneMore ==
    ASSUME NEW D, NEW T, T # {}, NEW rank \in [D -> Nat], NEW Step \in [[D -> T] -> [D -> T]],
           LooksBelow(Step, D, T, rank)
    PROVE  \A n \in Nat : \E f \in [D -> T] : FixedBelow(f, Step, D, rank, n)
<1> DEFINE S == {n \in Nat : \E f \in [D -> T] : FixedBelow(f, Step, D, rank, n)}
<1>1. 0 \in S
  <2>1. PICK t \in T : TRUE
    OBVIOUS
  <2>2. [x \in D |-> t] \in [D -> T]
    OBVIOUS
  <2>3. FixedBelow([x \in D |-> t], Step, D, rank, 0)
    BY DEF FixedBelow
  <2> QED
    BY <2>2, <2>3
<1>2. ASSUME NEW n \in Nat, n \in S
      PROVE  n + 1 \in S
  <2>1. PICK f \in [D -> T] : FixedBelow(f, Step, D, rank, n)
    BY <1>2
  <2> DEFINE g == [x \in D |-> IF rank[x] < n THEN f[x] ELSE Step[f][x]]
  <2>2. \A x \in D : g[x] = Step[f][x]
    BY <2>1 DEF FixedBelow
  <2>3. Step[f] \in [D -> T]
    OBVIOUS
  <2>4. g \in [D -> T]
    BY <2>3
  <2>5. \A x \in D : rank[x] < n => g[x] = f[x]
    OBVIOUS
  <2> HIDE DEF g
  <2>6. ASSUME NEW x \in D, rank[x] < n + 1
        PROVE  Step[g][x] = Step[f][x]
    <3>1. \A y \in D : rank[y] < rank[x] => rank[y] < n
      BY <2>6
    <3>2. \A y \in D : rank[y] < rank[x] => g[y] = f[y]
      BY <2>5, <3>1
    <3> QED
      BY <2>4, <3>2 DEF LooksBelow
  <2>7. FixedBelow(g, Step, D, rank, n + 1)
    BY <2>2, <2>6 DEF FixedBelow
  <2> QED
    BY <2>4, <2>7
<1> HIDE DEF S
<1>3. Nat \subseteq S
  BY <1>1, <1>2, Induction
<1> QED
  BY <1>3 DEF S

(* and they agree with each other.                                          *)
LEMMA FixedAlike ==
    ASSUME NEW D, NEW T, NEW rank \in [D -> Nat], NEW Step,
           LooksBelow(Step, D, T, rank),
           NEW f \in [D -> T], NEW g \in [D -> T], NEW n \in Nat, NEW m \in Nat, n <= m,
           FixedBelow(f, Step, D, rank, n), FixedBelow(g, Step, D, rank, m)
    PROVE  \A x \in D : rank[x] < n => f[x] = g[x]
<1> DEFINE S == {x \in D : rank[x] < n => f[x] = g[x]}
<1>1. ASSUME NEW x \in D, \A y \in D : rank[y] < rank[x] => y \in S
      PROVE  x \in S
  <2> SUFFICES ASSUME rank[x] < n
               PROVE  f[x] = g[x]
    OBVIOUS
  <2>1. \A y \in D : rank[y] < rank[x] => f[y] = g[y]
    BY <1>1
  <2>2. Step[f][x] = Step[g][x]
    BY <2>1 DEF LooksBelow
  <2>3. rank[x] < m
    OBVIOUS
  <2> QED
    BY <2>2, <2>3 DEF FixedBelow
<1>2. D \subseteq S
  <2> HIDE DEF S
  <2> QED
    BY <1>1, RankInduction
<1> QED
  BY <1>2

IsRecursion(Step, D, T, rank) ==
    /\ T # {} /\ rank \in [D -> Nat] /\ Step \in [[D -> T] -> [D -> T]]
    /\ LooksBelow(Step, D, T, rank)

HasFixedPoint(Step, D, T) == \E f \in [D -> T] : \A x \in D : f[x] = Step[f][x]

(* A recursion over what has a rank defines a function.                     *)
LEMMA FixedPointExists ==
    ASSUME NEW D, NEW T, NEW rank, NEW Step, IsRecursion(Step, D, T, rank)
    PROVE  HasFixedPoint(Step, D, T)
<1>0. /\ T # {} /\ rank \in [D -> Nat] /\ Step \in [[D -> T] -> [D -> T]]
      /\ LooksBelow(Step, D, T, rank)
  BY Zenon DEF IsRecursion
<1> DEFINE G(n) == CHOOSE f \in [D -> T] : FixedBelow(f, Step, D, rank, n)
<1>1. \A n \in Nat : G(n) \in [D -> T] /\ FixedBelow(G(n), Step, D, rank, n)
  <2>1. \A n \in Nat : \E f \in [D -> T] : FixedBelow(f, Step, D, rank, n)
    BY <1>0, FixedOneMore
  <2> QED
    BY <2>1
<1> HIDE DEF G
<1> DEFINE h == [x \in D |-> G(rank[x] + 1)[x]]
<1>2. \A x \in D : h[x] = G(rank[x] + 1)[x]
  OBVIOUS
<1>3. h \in [D -> T]
  BY <1>0, <1>1
<1> HIDE DEF h
<1>4. ASSUME NEW x \in D
      PROVE  h[x] = Step[h][x]
  <2>1. rank[x] + 1 \in Nat /\ rank[x] < rank[x] + 1
    BY <1>0
  <2>2. h[x] = Step[G(rank[x] + 1)][x]
    BY <1>1, <1>2, <2>1 DEF FixedBelow
  <2>3. ASSUME NEW y \in D, rank[y] < rank[x]
        PROVE  h[y] = G(rank[x] + 1)[y]
    <3>1. rank[y] + 1 \in Nat /\ rank[y] + 1 <= rank[x] + 1 /\ rank[y] < rank[y] + 1
      BY <1>0, <2>3
    <3>2. G(rank[y] + 1)[y] = G(rank[x] + 1)[y]
      BY <1>0, <1>1, <2>1, <3>1, FixedAlike
    <3> QED
      BY <1>2, <3>2
  <2>4. Step[h][x] = Step[G(rank[x] + 1)][x]
    BY <1>0, <1>1, <1>3, <2>1, <2>3 DEF LooksBelow
  <2> QED
    BY <2>2, <2>4
<1> QED
  BY <1>3, <1>4 DEF HasFixedPoint
=============================================================================
