---------------------------- MODULE MCJsonCalls -----------------------------
(***************************************************************************)
(* Lists: arrays of arrays and nothing else, enough of them for a list with*)
(* a middle on both sides of which something can go.  Members: objects with*)
(* two names that differ in case.  References: to members of objects.      *)
(* Copying: texts of two lengths, numbers and references.  Comparing: pairs*)
(* of arrays and objects of up to two children, objects within objects,    *)
(* names that differ in case, order, or not at all.                        *)
(***************************************************************************)
EXTENDS JsonCalls

a == <<97>>  A == <<65>>  b == <<98>>
MCNames == {a, A, b}

Uses(kinds, names, texts, items, references) ==
    [kinds |-> kinds, names |-> names, texts |-> texts, items |-> items, references |-> references,
     compares |-> FALSE]

Lists      == Uses({"Array"}, {}, {}, 5, 0)
Members    == Uses({"Object"}, {a, A}, {}, 3, 0)
Referring  == Uses({"Object"}, {a}, {}, 3, 1)
Copying    == Uses({"Array", "Number"}, {}, {<<1>>, <<1, 1>>}, 3, 1)

Leaves == {<<"True">>, <<"String", <<1>>>>, <<"String", <<2>>>>}
UpToTwo(S) == UNION {[1..n -> S] : n \in 0..2}
Objects(values) == {<<"Object", list>> : list \in UpToTwo(MCNames \X values)}

MCValues ==
    Leaves \cup {<<"Array", list>> : list \in UpToTwo(Leaves)}
      \cup Objects({<<"True">>, <<"String", <<1>>>>})
      \cup {<<"Object", <<<<name, object>>>>>> : name \in MCNames, object \in Objects({<<"True">>})}

Comparing == [Uses({}, {}, {}, 0, 0) EXCEPT !.compares = TRUE]

MCPrograms == {Lists, Members, Referring, Copying, Comparing}
=============================================================================
