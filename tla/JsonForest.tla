----------------------------- MODULE JsonForest -----------------------------
(***************************************************************************)
(* What the functions that change JSON trees promise: items are nodes of a *)
(* forest, each node has a sequence of children, and a call inserts, moves *)
(* out, replaces or deletes at one place of one sequence.                  *)
(***************************************************************************)
EXTENDS Naturals, SequencesExt

CONSTANT Item

VARIABLE kids    \* node -> the sequence of its children

Present == DOMAIN kids

Below(k, i) ==
    LET below[j \in DOMAIN k] == {j} \cup UNION {below[c] : c \in Range(k[j])}
    IN  below[i]

Roots == {i \in Present : \A p \in Present : i \notin Range(kids[p])}

Keep(k, S) == [i \in S |-> k[i]]
Grown(i)   == [j \in Present \cup {i} |-> IF j = i THEN <<>> ELSE kids[j]]

(* Every node has one place, and none is below itself.                     *)
ForestInit ==
    /\ MapThenSumSet(LAMBDA p : Len(kids[p]), Present)
           = Cardinality(UNION {Range(kids[p]) : p \in Present})
    /\ UNION {Below(kids, i) : i \in Roots} = Present

Create == \E i \in Item \ Present : kids' = Grown(i)

(* At the end.                                                             *)
CreateBelow ==
    \E i \in Item \ Present, p \in Present : kids' = [Grown(i) EXCEPT ![p] = Append(@, i)]

Insert ==
    \E p \in Present, i \in Roots : \E n \in 1..Len(kids[p])+1 :
        /\ p \notin Below(kids, i)
        /\ kids' = [kids EXCEPT ![p] = InsertAt(@, n, i)]

Detach ==
    \E p \in Present : \E n \in DOMAIN kids[p] : kids' = [kids EXCEPT ![p] = RemoveAt(@, n)]

Delete == \E i \in Roots : kids' = Keep(kids, Present \ Below(kids, i))

DetachAndDelete ==
    \E p \in Present : \E n \in DOMAIN kids[p] :
        kids' = Keep([kids EXCEPT ![p] = RemoveAt(@, n)], Present \ Below(kids, kids[p][n]))

Replace ==
    \E p \in Present, i \in Roots : \E n \in DOMAIN kids[p] :
        /\ p \notin Below(kids, i)
        /\ kids' = Keep([kids EXCEPT ![p][n] = i], Present \ Below(kids, kids[p][n]))

(* A new tree beside the others.                                           *)
Copy ==
    /\ Present \subseteq DOMAIN kids'
    /\ Keep(kids', Present) = kids
    /\ \E i \in DOMAIN kids' \ Present : Below(kids', i) = DOMAIN kids' \ Present

ForestNext ==
    Create \/ CreateBelow \/ Insert \/ Detach \/ Delete \/ DetachAndDelete \/ Replace \/ Copy

ForestSpec == ForestInit /\ [][ForestNext]_kids
=============================================================================
