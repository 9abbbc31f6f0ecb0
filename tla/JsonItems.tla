----------------------------- MODULE JsonItems ------------------------------
(***************************************************************************)
(* The cJSON structure and its memory (cJSON.h, cJSON.c): items in doubly  *)
(* linked lists of siblings, each with a list of children, and strings,    *)
(* all in blocks of the allocator.  A memory is a record of the blocks     *)
(* that are allocated and of what was done to blocks that were not.        *)
(***************************************************************************)
EXTENDS Integers, Sequences, FiniteSets

NULL == 0

Types == {"Invalid", "False", "True", "NULL", "Number", "String", "Array", "Object"}

(* What memset leaves of a new item.  reference and constant are the flags *)
(* cJSON_IsReference and cJSON_StringIsConst: children and value, or name, *)
(* belong to somebody else.                                                *)
Blank == [type |-> "Invalid", next |-> NULL, prev |-> NULL, child |-> NULL,
          valuestring |-> NULL, string |-> NULL, valueint |-> 0,
          reference |-> FALSE, constant |-> FALSE]

EmptyMemory == [items |-> <<>>, strings |-> <<>>, faults |-> {}]

(* Addresses are numbers; an allocation takes the lowest that is free, as  *)
(* an allocator that reuses blocks would.                                  *)
Free(f) == CHOOSE a \in 1..(Cardinality(DOMAIN f) + 1) :
               a \notin DOMAIN f /\ \A b \in 1..(a - 1) : b \in DOMAIN f

With(f, a, v) == [b \in DOMAIN f \cup {a} |-> IF b = a THEN v ELSE f[b]]
Without(f, S) == [b \in DOMAIN f \ S |-> f[b]]

cJSON_New_Item(mem) == [mem EXCEPT !.items = With(@, Free(@), Blank)]
NewString(mem, bytes) == [mem EXCEPT !.strings = With(@, Free(@), bytes)]

-----------------------------------------------------------------------------
(* cJSON_Delete *)

(* The items of the list at i in the order they are freed: each behind its *)
(* children.  An address that is no item's is freed like one.              *)
Doomed(mem, i) ==
    LET links == {mem.items[a].child : a \in DOMAIN mem.items}
                   \cup {mem.items[a].next : a \in DOMAIN mem.items}
        from[a \in links \cup {NULL, i}] ==
            IF a = NULL THEN <<>>
            ELSE IF a \notin DOMAIN mem.items THEN <<a>>
            ELSE (IF mem.items[a].reference THEN <<>> ELSE from[mem.items[a].child])
                   \o <<a>> \o from[mem.items[a].next]
    IN  from[i]

(* The strings that go with an item, unless they are somebody else's.      *)
StringOf(item, field) ==
    CASE field = "valuestring" -> IF item.reference THEN NULL ELSE item.valuestring
      [] field = "string"      -> IF item.constant THEN NULL ELSE item.string

DoomedStrings(mem, doomed) ==
    [spot \in (DOMAIN doomed) \X {"valuestring", "string"} |->
        IF doomed[spot[1]] \in DOMAIN mem.items THEN StringOf(mem.items[doomed[spot[1]]], spot[2])
        ELSE NULL]

AllDifferent(s) == \A m, n \in DOMAIN s : m # n => s[m] # s[n]
Image(s) == {s[n] : n \in DOMAIN s}

(* Freeing a block that is not allocated (any more) is a fault.  NULL is   *)
(* not freed.                                                              *)
Freed(f, s) ==
    \A m \in DOMAIN s : s[m] # NULL => s[m] \in DOMAIN f /\ \A n \in DOMAIN s : s[n] = s[m] => n = m

cJSON_Delete(mem, i) ==
    LET doomed  == Doomed(mem, i)
        strings == DoomedStrings(mem, doomed)
    IN  [items   |-> Without(mem.items, Image(doomed)),
         strings |-> Without(mem.strings, Image(strings)),
         faults  |-> mem.faults \cup
                       IF Freed(mem.items, doomed) /\ Freed(mem.strings, strings)
                       THEN {} ELSE {"free"}]

-----------------------------------------------------------------------------
(* Looking around in a tree *)

(* The siblings from i on, in the order of the list.                       *)
ListFrom(mem, i) ==
    LET from[a \in DOMAIN mem.items \cup {NULL}] ==
            IF a = NULL THEN <<>> ELSE <<a>> \o from[mem.items[a].next]
    IN  from[i]

Children(mem, i) == ListFrom(mem, mem.items[i].child)

(* A list as append, detach and replace rely on it: prev leads back, and   *)
(* from the head to the last.                                              *)
WellLinked(mem, head) ==
    LET list == ListFrom(mem, head)
    IN  \A n \in DOMAIN list :
            mem.items[list[n]].prev = IF n = 1 THEN list[Len(list)] ELSE list[n - 1]
=============================================================================
