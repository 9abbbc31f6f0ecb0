----------------------------- MODULE JsonCalls ------------------------------
(***************************************************************************)
(* A program that builds and changes JSON trees.  It keeps to the rules    *)
(* that cJSON relies on: an item is added in one place only and not below  *)
(* itself, containers are filled as what they are, and what a reference    *)
(* refers to is not deleted before it.  Any allocation may fail.           *)
(***************************************************************************)
EXTENDS JsonTree

(* A program is a record of what it uses: kinds, the types of the items it *)
(* makes, texts apart; names of members and texts, sequences of bytes; the *)
(* numbers of items and of references that exist at the same time; and     *)
(* whether it starts with two trees and compares them instead.  A tree is  *)
(* <<type>>, <<"String", text>>, <<"Array", elements>> or <<"Object",      *)
(* members>> with members <<name, value>>.                                 *)
CONSTANTS
    Programs,
    Values,         \* trees to compare
    MaxItems        \* bound: items that exist at the same time

VARIABLES
    program,   \* what is chosen of Programs
    mem,
    roots,     \* the items the program holds, each the root of a tree
    lost,      \* history: items that nobody holds
    call       \* history: [name, ok, from, new]: the last call

callVars == <<program, mem, roots, lost, call>>
heap     == <<program, mem, roots, lost>>    \* all that the next call depends on

(* A tree as a program builds it: create, then add child by child.         *)
RECURSIVE Build(_, _)
Build(m, value) ==
    LET new     == Free(m.items)
        created == Writes(cJSON_New_Item(m), <<<<new, "type", value[1]>>>>)
        AddElement(n, element) == add_item_to_array(Build(n, element), new, Free(n.items)).mem
        AddMember(n, member) ==
            add_item_to_object(Build(n, member[2]), new, member[1], Free(n.items), FALSE, FALSE).mem
    IN  CASE value[1] = "String" -> Writes(NewString(created, value[2]),
                                           <<<<new, "valuestring", Free(m.strings)>>>>)
          [] value[1] = "Array"  -> FoldLeft(AddElement, created, value[2])
          [] value[1] = "Object" -> FoldLeft(AddMember, created, value[2])
          [] OTHER               -> created

Init ==
    /\ program \in Programs
    /\ \E values \in IF program.compares THEN Values \X Values ELSE {<<>>} :
          LET m == FoldLeft(Build, EmptyMemory, values)
          IN  /\ mem = m
              /\ roots = {i \in DOMAIN m.items : m.items[i].prev = NULL}
    /\ lost = {}
    /\ call = [name |-> "none", ok |-> TRUE, from |-> NULL, new |-> NULL]

-----------------------------------------------------------------------------
(* The rules *)

Items == DOMAIN mem.items
Containers(type) == {i \in Items : mem.items[i].type = type /\ ~mem.items[i].reference}
Parents == Containers("Array") \cup Containers("Object")

Tree(m, i) == {i} \cup IF m.items[i].reference THEN {} ELSE Image(Doomed(m, m.items[i].child))

Addable(p) == {i \in roots : p \notin Tree(mem, i)}

(* No reference from elsewhere to these items or to their strings.         *)
Deletable(S) ==
    \A r \in Items \ S : mem.items[r].reference =>
        /\ mem.items[r].child \notin S
        /\ mem.items[r].valuestring # NULL =>
              \A i \in S : mem.items[i].valuestring # mem.items[r].valuestring

Room       == Cardinality(Items) < program.items
References == {i \in Items : mem.items[i].reference}
NewAddress == Free(mem.items)

Called(name, ok) == call' = [name |-> name, ok |-> ok, from |-> NULL, new |-> NULL]

(* The program hands i over if the call succeeds.                          *)
Gives(name, i, result) ==
    /\ mem' = result.mem
    /\ roots' = IF result.ok THEN roots \ {i} ELSE roots
    /\ UNCHANGED lost
    /\ Called(name, result.ok)

Keeps(name, result) == Gives(name, NULL, result)

-----------------------------------------------------------------------------
(* Creating *)

Made(type) == Writes(cJSON_New_Item(mem), <<<<NewAddress, "type", type>>>>)

CreateItem ==
    /\ Room
    /\ \E type \in program.kinds : mem' = Made(type)
    /\ roots' = roots \cup {NewAddress}
    /\ UNCHANGED lost
    /\ Called("Change", TRUE)

(* Without memory for the text the new item is deleted again.              *)
CreateString ==
    /\ Room
    /\ \E text \in program.texts, fails \in BOOLEAN :
          IF fails
          THEN Keeps("Change", Failure(cJSON_Delete(Made("String"), NewAddress)))
          ELSE /\ mem' = Writes(NewString(Made("String"), text),
                                <<<<NewAddress, "valuestring", Free(mem.strings)>>>>)
               /\ roots' = roots \cup {NewAddress}
               /\ UNCHANGED lost
               /\ Called("Change", TRUE)

Elements(type) == {[type |-> type, text |-> text] : text \in program.texts}

CreateFilledArray ==
    /\ Room
    /\ \E type \in {"String"} \cup (program.kinds \cap {"Number"}), n \in 1..program.items :
          /\ Cardinality(Items) + n < program.items
          /\ \E elements \in [1..n -> Elements(type)], budget \in 0..2 * n + 1 :
                LET array == CreateArrayOf(mem, elements, budget)
                IN  /\ mem' = array.mem
                    /\ roots' = IF array.ok THEN roots \cup {array.new} ELSE roots
                    /\ UNCHANGED lost
                    /\ Called("Change", array.ok)

(* A container that shares the list of another one from i on.              *)
CreateContainerReference ==
    /\ Room /\ Cardinality(References) < program.references
    /\ \E i \in Items, type \in program.kinds \ {"Number"} :
          mem' = Writes(Made(type), <<<<NewAddress, "reference", TRUE>>, <<NewAddress, "child", i>>>>)
    /\ roots' = roots \cup {NewAddress}
    /\ UNCHANGED lost
    /\ Called("Change", TRUE)

-----------------------------------------------------------------------------
(* Adding *)

AddItemToArray ==
    \E p \in Containers("Array") : \E i \in Addable(p) :
        Gives("Change", i, add_item_to_array(mem, p, i))

AddItemToObject ==
    \E p \in Containers("Object"), name \in program.names, constant_key, fails \in BOOLEAN :
        \E i \in Addable(p) :
            /\ ~(fails /\ constant_key)
            /\ Gives("Change", i, add_item_to_object(mem, p, name, i, constant_key, fails))

InsertItemInArray1 ==
    \E p \in Containers("Array") : \E i \in Addable(p), which \in 0..Len(Children(mem, p)) :
        Gives("Change", i, InsertItemInArray(mem, p, which, i))

(* cJSON_AddArrayToObject and its like: create, add, and delete if that    *)
(* fails.                                                                  *)
AddNewToObject ==
    /\ Room
    /\ \E p \in Containers("Object"), type \in program.kinds, name \in program.names, fails \in BOOLEAN :
          LET added == add_item_to_object(Made(type), p, name, NewAddress, FALSE, fails)
          IN  Keeps("Change", IF added.ok THEN added
                              ELSE Failure(cJSON_Delete(added.mem, NewAddress)))

AddReferenceToArray ==
    /\ Room /\ Cardinality(References) < program.references
    /\ \E p \in Containers("Array"), i \in Items :
          Keeps("Change", add_item_to_array(create_reference(mem, i), p, NewAddress))

(* If there is no memory for the name, nobody deletes the reference.       *)
AddReferenceToObject ==
    /\ Room /\ Cardinality(References) < program.references
    /\ \E p \in Containers("Object"), i \in Items, name \in program.names, fails \in BOOLEAN :
          LET added == add_item_to_object(create_reference(mem, i), p, name, NewAddress, FALSE, fails)
          IN  /\ mem' = added.mem
              /\ lost' = IF added.ok THEN lost ELSE lost \cup {NewAddress}
              /\ UNCHANGED roots
              /\ Called("Change", added.ok)

-----------------------------------------------------------------------------
(* Removing *)

(* The children a call can name, by position or by name; NULL if none.     *)
Chosen(p) ==
    {get_array_item(mem, p, which) : which \in 0..Len(Children(mem, p))}
      \cup {get_object_item(mem, p, name, case_sensitive) : name \in program.names, case_sensitive \in BOOLEAN}

DetachItem ==
    \E p \in Parents : \E i \in Chosen(p) :
        LET detached == IF i = NULL THEN Failure(mem) ELSE DetachItemViaPointer(mem, p, i)
        IN  /\ mem' = detached.mem
            /\ roots' = IF detached.ok THEN roots \cup {i} ELSE roots
            /\ UNCHANGED lost
            /\ Called("Change", detached.ok)

DeleteItem ==
    \E p \in Parents : \E i \in Chosen(p) \ {NULL} :
        /\ Deletable(Tree(mem, i))
        /\ Keeps("Change", Success(cJSON_Delete(DetachItemViaPointer(mem, p, i).mem, i)))

DeleteRoot ==
    \E i \in roots :
        /\ Deletable(Tree(mem, i))
        /\ mem' = cJSON_Delete(mem, i)
        /\ roots' = roots \ {i}
        /\ UNCHANGED lost
        /\ Called("Change", TRUE)

-----------------------------------------------------------------------------
(* Replacing *)

ReplaceItemInArray ==
    \E p \in Containers("Array") : \E which \in 0..Len(Children(mem, p)), i \in Addable(p) :
        LET item == get_array_item(mem, p, which)
        IN  /\ item # NULL => Deletable(Tree(mem, item))
            /\ Gives("Change", i, IF item = NULL THEN Failure(mem)
                                   ELSE ReplaceItemViaPointer(mem, p, item, i))

ReplaceItemInObject ==
    \E p \in Containers("Object"), name \in program.names, case_sensitive, fails \in BOOLEAN :
        \E i \in Addable(p) :
            LET item == get_object_item(mem, p, name, case_sensitive)
            IN  /\ item # NULL => Deletable(Tree(mem, item))
                /\ Gives("ReplaceMember", i,
                         replace_item_in_object(mem, p, name, i, case_sensitive, fails))

SetText ==
    \E i \in Items, text \in program.texts, fails \in BOOLEAN :
        /\ mem.items[i].type = "String"
        /\ mem.items[i].reference \/ Deletable({i})
        /\ Keeps("Change", SetValuestring(mem, i, text, fails))

-----------------------------------------------------------------------------
(* Copying: with memory for so many blocks, or for all.                    *)
Unlimited == 3 * program.items
Budgets   == {Unlimited} \cup 0..3 * (program.items - Cardinality(Items))

Duplicate ==
    \E i \in Items, recurse \in BOOLEAN, budget \in Budgets :
        LET copy == cJSON_Duplicate(mem, i, recurse, budget)
        IN  /\ budget = Unlimited \/ ~copy.ok
            /\ Cardinality(DOMAIN copy.mem.items) <= program.items
            /\ mem' = copy.mem
            /\ roots' = IF copy.ok THEN roots \cup {copy.new} ELSE roots
            /\ UNCHANGED lost
            /\ call' = [name |-> IF recurse THEN "Duplicate" ELSE "DuplicateItem", ok |-> copy.ok,
                        from |-> IF copy.ok THEN i ELSE NULL, new |-> copy.new]

-----------------------------------------------------------------------------
(* Comparing *)

Compare ==
    \E i, j \in roots, case_sensitive \in BOOLEAN :
        /\ i < j
        /\ UNCHANGED <<mem, roots, lost>>
        /\ call' = [name |-> IF case_sensitive THEN "Compare" ELSE "CompareIgnoringCase",
                    ok |-> cJSON_Compare(mem, i, j, case_sensitive), from |-> i, new |-> j]

Change ==
    \/ CreateItem \/ CreateString \/ CreateFilledArray \/ CreateContainerReference
    \/ AddItemToArray \/ AddItemToObject \/ InsertItemInArray1 \/ AddNewToObject
    \/ AddReferenceToArray \/ AddReferenceToObject
    \/ DetachItem \/ DeleteItem \/ DeleteRoot
    \/ ReplaceItemInArray \/ ReplaceItemInObject \/ SetText
    \/ Duplicate

Next ==
    /\ UNCHANGED program
    /\ \/ ~program.compares /\ Change
       \/ program.compares /\ Compare

Spec == Init /\ [][Next]_callVars

-----------------------------------------------------------------------------
(* Every list runs both ways, its head points back to its last element, and *)
(* a root is in no list (DetachItemViaPointer, ReplaceItemViaPointer and    *)
(* add_item_to_array each mend three or four pointers and rely on all).     *)
ListsAreLinked ==
    /\ \A p \in Parents : WellLinked(mem, mem.items[p].child)
    /\ \A i \in roots : mem.items[i].prev = NULL /\ mem.items[i].next = NULL

(* Every item is in one place of one tree, in lists that are linked, every  *)
(* string is the text or the name of one item, and nothing was freed or     *)
(* written that was not allocated: deleting all trees, and the references   *)
(* that were lost, leaves nothing (names move between constant and          *)
(* allocated, texts are replaced and shared with references, calls fail     *)
(* halfway).  FailedCallsChangeNothing says what may be lost.               *)
BlocksHaveOneOwner ==
    /\ ListsAreLinked
    /\ FoldSet(LAMBDA i, m : cJSON_Delete(m, i), mem, roots \cup lost) = EmptyMemory

(* A call that fails leaves all items and strings as they were, however far *)
(* it got, but for two: a failed replacement of a member has taken the name *)
(* of the replacement, and where a reference is added to an object without  *)
(* memory for its name, one item is lost: that reference, still unnamed.    *)
FailedCallsChangeNothing ==
    [][~call'.ok => CASE call'.name = "ReplaceMember" ->
                           \A i \in Items : [mem'.items[i] EXCEPT !.string = NULL, !.constant = FALSE]
                                             = [mem.items[i] EXCEPT !.string = NULL, !.constant = FALSE]
                      [] lost' # lost ->
                           \E i \in lost' \ Items :
                              /\ mem'.items[i].reference /\ mem'.items[i].string = NULL
                              /\ mem' = [mem EXCEPT !.items =
                                            [j \in Items \cup {i} |-> IF j = i THEN mem'.items[i] ELSE @[j]]]
                      [] OTHER -> mem' = mem]_callVars

(* What an item stands for: its type, name and text, and what its children  *)
(* stand for.                                                               *)
Meaning(m, i) ==
    LET String(a) == IF a = NULL THEN <<"none">> ELSE <<"some", NameAt(m, a)>>
        of[j \in DOMAIN m.items] ==
            LET list == Children(m, j)
            IN  [type |-> m.items[j].type, name |-> String(m.items[j].string),
                 text |-> String(m.items[j].valuestring), children |-> [n \in DOMAIN list |-> of[list[n]]]]
    IN  of[i]

(* A copy means what the original means, references resolved, and shares no *)
(* block with it; the original is untouched ("a new, identical cJSON item", *)
(* "prev pointers are always zero", cJSON.h).                               *)
DuplicateIsIdentical ==
    [][call'.ok /\ call'.name = "Duplicate" =>
          /\ Meaning(mem', call'.new) = Meaning(mem, call'.from)
          /\ \A i \in Items : mem'.items[i] = mem.items[i]
          /\ Tree(mem', call'.new) \cap Items = {}
          /\ Image(DoomedStrings(mem', Doomed(mem', call'.new))) \cap DOMAIN mem.strings = {}
          /\ References' = References
          /\ mem'.items[call'.new].next = NULL /\ mem'.items[call'.new].prev = NULL]_callVars

-----------------------------------------------------------------------------
Folded(name, case_sensitive) == IF case_sensitive THEN name ELSE Lower(name)

(* The value an item stands for: an object is the set of its members.      *)
Value(i, case_sensitive) ==
    LET of[j \in DOMAIN mem.items] ==
            LET list == Children(mem, j)
                it   == mem.items[j]
            IN  CASE it.type = "String" -> <<"String", mem.strings[it.valuestring]>>
                  [] it.type = "Array"  -> <<"Array", [n \in DOMAIN list |-> of[list[n]]]>>
                  [] it.type = "Object" ->
                        <<"Object", {<<Folded(NameAt(mem, mem.items[c].string), case_sensitive), of[c]>> :
                                     c \in Range(list)}>>
                  [] OTHER -> <<it.type>>
    IN  of[i]

(* No object has two members of one name.                                  *)
NamesDiffer(case_sensitive) ==
    \A j \in DOMAIN mem.items :
        mem.items[j].type = "Object" =>
            LET list == Children(mem, j)
            IN  AllDifferent([n \in DOMAIN list |->
                                  Folded(NameAt(mem, mem.items[list[n]].string), case_sensitive)])

(* Where no object has a name twice, two trees compare equal if and only if *)
(* they stand for the same value, members in any order ("Recursively        *)
(* compare two cJSON items for equality", cJSON.h): looking each member of  *)
(* one up in the other, both ways round, is enough.                         *)
CompareIsEquality ==
    [][LET case_sensitive == call'.name = "Compare"
       IN  call'.name \in {"Compare", "CompareIgnoringCase"} /\ NamesDiffer(case_sensitive) =>
             (call'.ok <=> Value(call'.from, case_sensitive) = Value(call'.new, case_sensitive))]_callVars

-----------------------------------------------------------------------------
(* Each call is a change of one sequence of children in a forest.           *)
Forest == INSTANCE JsonForest WITH
    Item <- 1..MaxItems,
    kids <- [i \in Items |-> IF mem.items[i].reference THEN <<>> ELSE Children(mem, i)]

EditsAForest == Forest!ForestSpec
=============================================================================
