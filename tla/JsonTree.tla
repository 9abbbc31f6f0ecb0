----------------------------- MODULE JsonTree -------------------------------
(***************************************************************************)
(* The functions of cJSON that build, change, copy and compare trees.  All *)
(* of them work on lists whose head points back to the last element.       *)
(* They take a memory and return one, with whether they succeeded.         *)
(***************************************************************************)
EXTENDS JsonItems, SequencesExt

CONSTANTS
    Names,          \* names of members, sequences of bytes
    CircularLimit   \* CJSON_CIRCULAR_LIMIT: the depth Duplicate goes to

(* Names the caller never frees (cJSON_AddItemToObjectCS) have addresses   *)
(* outside the allocator's.                                                *)
ConstantName(name) == -(CHOOSE n \in 1..Cardinality(Names) : SetToSeq(Names)[n] = name)
NameAt(m, a)       == IF a < 0 THEN SetToSeq(Names)[-a] ELSE m.strings[a]

(* Assignments to fields, one after the other.                             *)
Write(m, w) ==
    IF w[1] \in DOMAIN m.items THEN [m EXCEPT !.items[w[1]][w[2]] = w[3]]
    ELSE [m EXCEPT !.faults = @ \cup {"write"}]
Writes(m, ws) == FoldLeft(Write, m, ws)

When(condition, ws) == IF condition THEN ws ELSE <<>>

Failure(m)      == [mem |-> m, ok |-> FALSE]
Success(m)      == [mem |-> m, ok |-> TRUE]

-----------------------------------------------------------------------------
(* Looking up children *)

get_array_item(m, array, index) ==
    LET children == Children(m, array)
    IN  IF index + 1 \in DOMAIN children THEN children[index + 1] ELSE NULL

Lower(name) == [n \in DOMAIN name |-> IF name[n] \in 65..90 THEN name[n] + 32 ELSE name[n]]

(* The search that knows cases stops at a child without a name.            *)
get_object_item(m, object, name, case_sensitive) ==
    LET children == Children(m, object)
        named    == {n \in DOMAIN children : m.items[children[n]].string # NULL}
        hits     == {n \in named :
                        LET string == NameAt(m, m.items[children[n]].string)
                        IN  IF case_sensitive THEN string = name /\ 1..n \subseteq named
                            ELSE Lower(string) = Lower(name)}
    IN  IF hits = {} THEN NULL ELSE children[Min(hits)]

-----------------------------------------------------------------------------
(* Adding *)

add_item_to_array(m, array, item) ==
    LET child == m.items[array].child
        last  == m.items[child].prev
    IN  IF item = NULL \/ array = item THEN Failure(m)
        ELSE IF child = NULL
        THEN Success(Writes(m, <<<<array, "child", item>>, <<item, "prev", item>>, <<item, "next", NULL>>>>))
        ELSE Success(Writes(m, When(last # NULL, <<<<last, "next", item>>, <<item, "prev", last>>,
                                                   <<child, "prev", item>>>>)))

FreeString(m, a) ==
    [m EXCEPT !.strings = Without(@, {a}),
              !.faults  = @ \cup IF a \in DOMAIN m.strings THEN {} ELSE {"free"}]

(* The old name goes, unless it is constant or there is none.              *)
FreeName(m, item) ==
    IF m.items[item].constant \/ m.items[item].string = NULL THEN m
    ELSE FreeString(m, m.items[item].string)

add_item_to_object(m, object, name, item, constant_key, fails) ==
    IF item = NULL \/ object = item \/ (fails /\ ~constant_key) THEN Failure(m)
    ELSE LET key     == IF constant_key THEN ConstantName(name) ELSE Free(m.strings)
             keyed   == IF constant_key THEN m ELSE NewString(m, name)
             renamed == Writes(FreeName(keyed, item),
                               <<<<item, "string", key>>, <<item, "constant", constant_key>>>>)
         IN  add_item_to_array(renamed, object, item)

create_reference_Fault(m, item) ==
    [m EXCEPT !.items = With(@, Free(@),
        [m.items[item] EXCEPT !.reference = TRUE, !.next = NULL, !.prev = NULL])]

(* A copy that owns nothing.                                               *)
create_reference(m, item) ==
    [m EXCEPT !.items = With(@, Free(@),
        [m.items[item] EXCEPT !.string = NULL, !.reference = TRUE, !.next = NULL, !.prev = NULL])]

-----------------------------------------------------------------------------
(* Removing and replacing *)

DetachItemViaPointer(m, parent, item) ==
    LET it    == m.items[item]
        first == m.items[parent].child = item
    IN  IF item = NULL \/ (~first /\ it.prev = NULL) THEN Failure(m)
        ELSE Success(Writes(m,
                 When(~first, <<<<it.prev, "next", it.next>>>>)
              \o When(it.next # NULL, <<<<it.next, "prev", it.prev>>>>)
              \o When(first, <<<<parent, "child", it.next>>>>)
              \o When(~first /\ it.next = NULL, <<<<m.items[parent].child, "prev", it.prev>>>>)
              \o <<<<item, "prev", NULL>>, <<item, "next", NULL>>>>))

InsertItemInArray(m, array, which, newitem) ==
    LET after == get_array_item(m, array, which)
        prev  == m.items[after].prev
        first == m.items[array].child = after
    IN  IF newitem = NULL THEN Failure(m)
        ELSE IF after = NULL THEN add_item_to_array(m, array, newitem)
        ELSE IF ~first /\ prev = NULL THEN Failure(m)
        ELSE Success(Writes(m,
                 <<<<newitem, "next", after>>, <<newitem, "prev", prev>>, <<after, "prev", newitem>>>>
              \o <<IF first THEN <<array, "child", newitem>> ELSE <<prev, "next", newitem>>>>))

ReplaceItemViaPointer_Fault(m, parent, item, replacement) ==
    LET it    == m.items[item]
        head  == m.items[parent].child
        first == head = item
    IN  IF item = NULL \/ head = NULL \/ replacement = NULL THEN Failure(m)
        ELSE Success(cJSON_Delete(Writes(m,
                 <<<<replacement, "next", it.next>>, <<replacement, "prev", it.prev>>>>
              \o When(it.next # NULL, <<<<it.next, "prev", replacement>>>>)
              \o When(first, <<<<parent, "child", replacement>>>>)
              \o When(~first /\ it.prev # NULL, <<<<it.prev, "next", replacement>>>>)
              \o When(~first /\ it.next = NULL, <<<<head, "prev", replacement>>>>)
              \o <<<<item, "next", NULL>>, <<item, "prev", NULL>>>>), item))

ReplaceItemViaPointer(m, parent, item, replacement) ==
    LET it    == m.items[item]
        head  == m.items[parent].child
        first == head = item
    IN  IF item = NULL \/ head = NULL \/ replacement = NULL THEN Failure(m)
        ELSE IF replacement = item THEN Success(m)
        ELSE Success(cJSON_Delete(Writes(m,
                 <<<<replacement, "next", it.next>>, <<replacement, "prev", it.prev>>>>
              \o When(it.next # NULL, <<<<it.next, "prev", replacement>>>>)
              \o When(first /\ it.prev = item, <<<<replacement, "prev", replacement>>>>)
              \o When(first, <<<<parent, "child", replacement>>>>)
              \o When(~first /\ it.prev # NULL, <<<<it.prev, "next", replacement>>>>)
              \o When(~first /\ it.next = NULL, <<<<head, "prev", replacement>>>>)
              \o <<<<item, "next", NULL>>, <<item, "prev", NULL>>>>), item))

(* The replacement gets the name before it is known whether there is an    *)
(* item of that name, and loses its own even when that fails.              *)
replace_item_in_object(m, object, name, replacement, case_sensitive, fails) ==
    LET freed == FreeName(m, replacement)
        named == Writes(NewString(freed, name), <<<<replacement, "string", Free(freed.strings)>>,
                                                  <<replacement, "constant", FALSE>>>>)
    IN  IF fails THEN Failure(Writes(freed, <<<<replacement, "string", NULL>>>>))
        ELSE ReplaceItemViaPointer(named, object, get_object_item(named, object, name, case_sensitive), replacement)

(* A text that is no longer than the old one is written over it.           *)
SetValuestring(m, item, text, fails) ==
    LET it == m.items[item]
    IN  IF it.type # "String" \/ it.reference \/ it.valuestring = NULL THEN Failure(m)
        ELSE IF Len(text) <= Len(m.strings[it.valuestring])
        THEN Success([m EXCEPT !.strings[it.valuestring] = text])
        ELSE IF fails THEN Failure(m)
        ELSE Success(Writes(FreeString(NewString(m, text), it.valuestring),
                            <<<<item, "valuestring", Free(m.strings)>>>>))

-----------------------------------------------------------------------------
(* Copying: one more allocation for every item, text and name; as many     *)
(* succeed as there is budget for.                                         *)

Begun(m, budget)  == [mem |-> m, new |-> Free(m.items), last |-> NULL, budget |-> budget, ok |-> TRUE]
Allocates(copy)   == copy.ok /\ copy.budget > 0
Exhausted(copy)   == [copy EXCEPT !.ok = FALSE]
Spent(copy, m)    == [copy EXCEPT !.mem = m, !.budget = @ - 1]

CopyString_Fault(copy, a, field) ==
    IF ~copy.ok \/ a = NULL THEN copy ELSE [copy EXCEPT !.mem.items[copy.new][field] = a]

(* A string of the original, copied to a field of the copy.                *)
CopyString(copy, a, field) ==
    IF ~copy.ok \/ a = NULL THEN copy
    ELSE IF a < 0 THEN [copy EXCEPT !.mem.items[copy.new][field] = a]
    ELSE IF copy.budget = 0 THEN Exhausted(copy)
    ELSE Spent(copy, Writes(NewString(copy.mem, copy.mem.strings[a]),
                            <<<<copy.new, field, Free(copy.mem.strings)>>>>))

(* Behind the last of the new list, or as its first.                       *)
Linked(copy, i) ==
    IF copy.last = NULL THEN <<<<copy.new, "child", i>>>>
    ELSE <<<<copy.last, "next", i>>, <<i, "prev", copy.last>>>>

(* At the end, and only then, the head points back to the last.            *)
LastKnown(copy) ==
    IF copy.ok /\ copy.last # NULL
    THEN [copy EXCEPT !.mem = Writes(@, <<<<copy.mem.items[copy.new].child, "prev", copy.last>>>>)]
    ELSE copy

(* A copy that cannot be finished is deleted as far as it got.             *)
Finished(copy) ==
    IF copy.ok THEN copy ELSE [copy EXCEPT !.new = NULL, !.mem = cJSON_Delete(@, copy.new)]

RECURSIVE Duplicate_rec(_, _, _, _, _)

(* The children of item from n on, behind the copies made so far.          *)
CopyChildren(copy, children, depth) ==
    LET Append1(c, child) ==
            IF ~c.ok \/ depth >= CircularLimit THEN Exhausted(c)
            ELSE LET next == Duplicate_rec(c.mem, child, depth + 1, TRUE, c.budget)
                 IN  [c EXCEPT !.ok = next.ok, !.budget = next.budget, !.last = next.new,
                               !.mem = IF next.ok THEN Writes(next.mem, Linked(c, next.new)) ELSE next.mem]
    IN  LastKnown(FoldLeft(Append1, copy, children))

Duplicate_rec(m, item, depth, recurse, budget) ==
    LET it    == m.items[item]
        blank == Begun(m, budget)
        begun == Spent(blank, [m EXCEPT !.items = With(@, blank.new,
                     [Blank EXCEPT !.type = it.type, !.valueint = it.valueint, !.constant = it.constant])])
        named == CopyString(CopyString(begun, it.valuestring, "valuestring"), it.string, "string")
        whole == IF recurse /\ named.ok THEN CopyChildren(named, Children(m, item), depth) ELSE named
    IN  IF ~Allocates(blank) THEN [blank EXCEPT !.new = NULL, !.ok = FALSE]
        ELSE Finished(whole)

cJSON_Duplicate_Fault(m, item, recurse, budget) ==
    LET copy == Duplicate_rec(m, item, 0, recurse, budget)
    IN  IF copy.ok \/ budget = 0 THEN copy ELSE [copy EXCEPT !.mem = cJSON_New_Item(m)]

cJSON_Duplicate(m, item, recurse, budget) == Duplicate_rec(m, item, 0, recurse, budget)

(* Arrays made of numbers or of texts: a text takes two allocations.       *)
AppendNew(copy, element) ==
    LET needs  == IF element.type = "String" THEN 2 ELSE 1
        new    == Free(copy.mem.items)
        number == Writes(cJSON_New_Item(copy.mem), <<<<new, "type", element.type>>>>)
        item   == IF element.type = "String"
                  THEN Writes(NewString(number, element.text),
                              <<<<new, "valuestring", Free(copy.mem.strings)>>>>)
                  ELSE number
    IN  IF ~copy.ok \/ copy.budget < needs THEN Exhausted(copy)
        ELSE [copy EXCEPT !.mem = Writes(item, Linked(copy, new)), !.last = new, !.budget = @ - needs]

CreateArrayOf(m, elements, budget) ==
    LET blank == Begun(m, budget)
        array == Spent(blank, Writes(cJSON_New_Item(m), <<<<blank.new, "type", "Array">>>>))
    IN  IF ~Allocates(blank) THEN [blank EXCEPT !.new = NULL, !.ok = FALSE]
        ELSE Finished(LastKnown(FoldLeft(AppendNew, array, elements)))

-----------------------------------------------------------------------------
RECURSIVE cJSON_Compare(_, _, _, _)

MembersIn_Fault(m, a, b, case_sensitive) ==
    \A child \in Range(Children(m, a)) :
        /\ m.items[child].string # NULL
        /\ get_object_item(m, b, NameAt(m, m.items[child].string), case_sensitive) # NULL

(* Every member of one is in the other under its name, and equal.          *)
MembersIn(m, a, b, case_sensitive) ==
    \A child \in Range(Children(m, a)) :
        /\ m.items[child].string # NULL
        /\ LET other == get_object_item(m, b, NameAt(m, m.items[child].string), case_sensitive)
           IN  other # NULL /\ cJSON_Compare(m, child, other, case_sensitive)

cJSON_Compare(m, a, b, case_sensitive) ==
    /\ a # NULL /\ b # NULL
    /\ m.items[a].type = m.items[b].type
    /\ m.items[a].type # "Invalid"
    /\ \/ a = b
       \/ m.items[a].type \in {"False", "True", "NULL"}
       \/ m.items[a].type = "Number" /\ m.items[a].valueint = m.items[b].valueint
       \/ /\ m.items[a].type = "String"
          /\ m.items[a].valuestring # NULL /\ m.items[b].valuestring # NULL
          /\ m.strings[m.items[a].valuestring] = m.strings[m.items[b].valuestring]
       \/ /\ m.items[a].type = "Array"
          /\ Len(Children(m, a)) = Len(Children(m, b))
          /\ \A n \in DOMAIN Children(m, a) :
                cJSON_Compare(m, Children(m, a)[n], Children(m, b)[n], case_sensitive)
       \/ /\ m.items[a].type = "Object"
          /\ MembersIn(m, a, b, case_sensitive)
          /\ MembersIn(m, b, a, case_sensitive)
=============================================================================
