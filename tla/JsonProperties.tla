--------------------------- MODULE JsonProperties ---------------------------
(***************************************************************************)
(* What the JSON parser promises.  The reference is a grammar of complete  *)
(* texts, which knows nothing of offsets, frames or memory.                *)
(***************************************************************************)
EXTENDS JsonParser, SequencesExt

(* Reference: which texts are values *)

IsBlank(s) == \A n \in DOMAIN s : s[n] <= 32

Stripped(s) ==
    IF IsBlank(s) THEN <<>>
    ELSE LET solid == {n \in DOMAIN s : s[n] > 32} IN SubSeq(s, Min(solid), Max(solid))

Inner(s) == SubSeq(s, 2, Len(s) - 1)
Enclosed(s, open, close) == Len(s) > 1 /\ s[1] = open /\ s[Len(s)] = close

IsString(s) == LET p == parse_string(s, 0) IN s # <<>> /\ p.ok /\ p.offset = Len(s)
IsNumber(s) ==
    s # <<>> /\ s[1] \in Digit \cup {45} /\ parse_number(s, 0).ok /\ parse_number(s, 0).offset = Len(s)

RECURSIVE IsValue(_, _)
RECURSIVE AreValues(_, _, _)

(* One value, or with a name a member.                                     *)
IsEntry(s, named, d) ==
    IF ~named THEN IsValue(s, d)
    ELSE \E k \in DOMAIN s :
            /\ s[k] = Colon
            /\ IsString(Stripped(SubSeq(s, 1, k - 1)))
            /\ IsValue(SubSeq(s, k + 1, Len(s)), d)

AreValues(s, named, d) ==
    \/ IsEntry(s, named, d)
    \/ \E k \in DOMAIN s :
          /\ s[k] = Comma
          /\ IsEntry(SubSeq(s, 1, k - 1), named, d)
          /\ AreValues(SubSeq(s, k + 1, Len(s)), named, d)

(* A value with at most d arrays and objects around each other.            *)
IsValue(s, d) ==
    LET v == Stripped(s)
    IN  \/ v \in {Null, False, True} \/ IsString(v) \/ IsNumber(v)
        \/ /\ d > 0
           /\ \E kind \in Containers :
                 /\ Enclosed(v, Opening[kind], Closing[kind])
                 /\ IsBlank(Inner(v)) \/ AreValues(Inner(v), kind = "Object", d - 1)

BomLength == IF Len(text) > 4 /\ SubSeq(text, 1, 3) = Bom THEN 3 ELSE 0

AcceptsValues ==
    /\ pc = "accepted" => IsValue(SubSeq(text, BomLength + 1, offset), NestingLimit)
    /\ pc = "rejected" /\ ~outOfMemory =>
          \A n \in BomLength..Len(text) : ~IsValue(SubSeq(text, BomLength + 1, n), NestingLimit)

(* The parser comes to an end (its do-while loops, their steps back        *)
(* included; the run checks that it stops nowhere else), and accepts a text*)
(* exactly if a value stands at its start, nested no deeper than the limit,*)
(* unless it runs out of memory; what follows the value does not matter    *)
(* (parse_value, parse_array, parse_object; require_null_terminated is 0). *)
ParserDecides == []AcceptsValues /\ [][Advances]_parserVars

-----------------------------------------------------------------------------
(* Reference: the text of a tree *)

Numeral(n) ==
    LET digits[m \in Nat] == IF m < 10 THEN <<48 + m>> ELSE digits[m \div 10] \o <<48 + (m % 10)>>
    IN  IF n < 0 THEN <<45>> \o digits[-n] ELSE digits[n]

Quoted(bytes) ==
    <<Quote>> \o FlattenSeq([n \in DOMAIN bytes |->
                                IF bytes[n] = Quote THEN <<Backslash, Quote>> ELSE <<bytes[n]>>])
      \o <<Quote>>

RECURSIVE Rendered(_)
Rendered(a) ==
    LET item == mem.items[a]
        list == Children(mem, a)
        entry(b) == (IF item.type = "Object" THEN Quoted(mem.strings[mem.items[b].string]) \o <<Colon>>
                     ELSE <<>>) \o Rendered(b)
        rest == [n \in 1..(Len(list) - 1) |-> <<Comma>> \o entry(list[n + 1])]
    IN  CASE item.type = "NULL"   -> Null
          [] item.type = "True"   -> True
          [] item.type = "False"  -> False
          [] item.type = "Number" -> Numeral(item.valueint)
          [] item.type = "String" -> Quoted(mem.strings[item.valuestring])
          [] OTHER -> <<Opening[item.type]>>
                        \o (IF list = <<>> THEN <<>> ELSE entry(list[1]) \o FlattenSeq(rest))
                        \o <<Closing[item.type]>>

(* The text without the white space between its values.                    *)
Dense(s) ==
    LET quotes(n) == Cardinality({m \in 1..n : s[m] = Quote /\ (m = 1 \/ s[m - 1] # Backslash)})
        kept == {n \in DOMAIN s : s[n] > 32 \/ quotes(n) % 2 = 1}
    IN  [k \in 1..Cardinality(kept) |->
            s[CHOOSE n \in kept : Cardinality({m \in kept : m <= n}) = k]]
=============================================================================
