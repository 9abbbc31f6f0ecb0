----------------------------- MODULE JsonParser -----------------------------
(***************************************************************************)
(* cJSON_ParseWithLength as sim65-test calls it on the contents of a file: *)
(* the recursion of parse_value, parse_array and parse_object as a stack   *)
(* of frames, each allocation a choice between success and failure.        *)
(***************************************************************************)
EXTENDS JsonText, JsonItems

CONSTANTS
    Char,           \* what a text consists of
    NestingLimit    \* CJSON_NESTING_LIMIT: 1000

ASSUME CharAssumption == Char \subseteq Nat
ASSUME NestingLimitAssumption == NestingLimit \in Nat \ {0}

VARIABLES
    text,           \* buffer.content and buffer.length
    offset,         \* buffer.offset
    depth,          \* buffer.depth
    frames,         \* calls of parse_array and parse_object: kind, item, head, current
    mem,            \* what is allocated
    pc,             \* where the innermost call is
    position,       \* global_error.position, -1 while there is no error
    outOfMemory,    \* history: an allocation failed
    overread        \* history: a character behind the end of the text was read

parserVars == <<text, offset, depth, frames, mem, pc, position, outOfMemory, overread>>
history == <<outOfMemory, overread>>

Root == 1
Top == frames[Len(frames)]
Pop == SubSeq(frames, 1, Len(frames) - 1)

(* The item parse_value was called for.                                    *)
Target == IF frames = <<>> THEN Root ELSE Top.current

Init ==
    /\ text \in Seq(Char)
    /\ offset = 0
    /\ depth = 0
    /\ frames = <<>>
    /\ mem = EmptyMemory
    /\ pc = "start"
    /\ position = -1
    /\ outOfMemory = FALSE
    /\ overread = FALSE

(* A call returns false: every caller cleans up and returns false as well. *)
Fail(at) == offset' = at /\ pc' = "failed"

(* A call returns true, to the loop of the container or to the top.        *)
Return(to) == pc' = IF to = <<>> THEN "accepted" ELSE "more"

Allocates == UNCHANGED outOfMemory
FailsToAllocate == outOfMemory' = TRUE

-----------------------------------------------------------------------------
(* cJSON_ParseWithLengthOpts *)

Begin ==
    /\ pc = "start"
    /\ text # <<>>
    /\ \/ /\ Allocates
          /\ mem' = cJSON_New_Item(mem)
          /\ offset' = buffer_skip_whitespace(text, skip_utf8_bom(text))
          /\ pc' = "value"
       \/ /\ FailsToAllocate
          /\ Fail(0)
          /\ UNCHANGED mem
    /\ UNCHANGED <<text, depth, frames, position, overread>>

NoText ==
    /\ pc = "start"
    /\ text = <<>>
    /\ Fail(0)
    /\ UNCHANGED <<text, depth, frames, mem, position, history>>

(* Where the error is reported: never behind the text.                     *)
ErrorPosition ==
    IF offset < Len(text) THEN offset ELSE IF text # <<>> THEN Len(text) - 1 ELSE 0

Reject ==
    /\ pc = "failed"
    /\ frames = <<>>
    /\ mem' = IF mem.items = <<>> THEN mem ELSE cJSON_Delete(mem, Root)
    /\ position' = ErrorPosition
    /\ pc' = "rejected"
    /\ UNCHANGED <<text, offset, depth, frames, history>>

-----------------------------------------------------------------------------
(* parse_value *)

Update(item) == mem' = [mem EXCEPT !.items[Target] = item]
Item == mem.items[Target]

ParseLiteral(word, type) ==
    /\ pc = "value"
    /\ Spells(text, offset, word)
    /\ Update([Item EXCEPT !.type = type, !.valueint = IF type = "True" THEN 1 ELSE @])
    /\ offset' = offset + Len(word)
    /\ Return(frames)
    /\ UNCHANGED <<text, depth, frames, position, history>>

ParseNumber ==
    /\ pc = "value"
    /\ can_access(text, offset) /\ At(text, offset) \in Digit \cup {45}
    /\ LET n == parse_number(text, offset)
       IN  \/ /\ n.ok
              /\ Update([Item EXCEPT !.type = "Number", !.valueint = n.valueint])
              /\ offset' = n.offset
              /\ Return(frames)
           \/ /\ ~n.ok
              /\ Fail(offset)
              /\ UNCHANGED mem
    /\ UNCHANGED <<text, depth, frames, position, history>>

(* A literal with a closing quote asks for memory; with a bad escape it    *)
(* gives it back.                                                          *)
ParseString ==
    /\ pc = "value"
    /\ IsAt(text, offset, Quote)
    /\ LET s == parse_string(text, offset)
       IN  \/ /\ s.ok
              /\ Allocates
              /\ mem' = [NewString(mem, s.bytes) EXCEPT
                            !.items[Target] = [Item EXCEPT !.type = "String",
                                                           !.valuestring = Free(mem.strings)]]
              /\ offset' = s.offset
              /\ Return(frames)
           \/ /\ ~s.ok
              /\ Allocates
              /\ Fail(s.offset)
              /\ UNCHANGED mem
           \/ /\ s.allocates
              /\ FailsToAllocate
              /\ Fail(offset + 1)
              /\ UNCHANGED mem
    /\ UNCHANGED <<text, depth, frames, position, overread>>

Opens ==
    \/ Spells(text, offset, Null) \/ Spells(text, offset, False) \/ Spells(text, offset, True)
    \/ can_access(text, offset) /\ At(text, offset) \in Digit \cup {45, Quote, LBracket, LBrace}

NoValue ==
    /\ pc = "value"
    /\ ~Opens
    /\ Fail(offset)
    /\ UNCHANGED <<text, depth, frames, mem, position, history>>

-----------------------------------------------------------------------------
(* parse_array and parse_object *)

Opening == [Array |-> LBracket, Object |-> LBrace]
Closing == [Array |-> RBracket, Object |-> RBrace]
Containers == {"Array", "Object"}

Close_Fault(kind, item, head, current, at) ==
    /\ mem' = [mem EXCEPT !.items[item] = [@ EXCEPT !.type = kind, !.child = head]]
    /\ depth' = depth - 1
    /\ offset' = at + 1

(* success: the list is closed and hung into its item.                     *)
Close(kind, item, head, current, at) ==
    /\ mem' = LET closed == IF head = NULL THEN mem ELSE [mem EXCEPT !.items[head].prev = current]
              IN  [closed EXCEPT !.items[item] = [@ EXCEPT !.type = kind, !.child = head]]
    /\ depth' = depth - 1
    /\ offset' = at + 1

TooDeep(kind) ==
    /\ pc = "value"
    /\ IsAt(text, offset, Opening[kind])
    /\ depth >= NestingLimit
    /\ Fail(offset)
    /\ UNCHANGED <<text, depth, frames, mem, position, history>>

Empty_Fault(kind) ==
    /\ pc = "value"
    /\ IsAt(text, offset, Opening[kind])
    /\ depth < NestingLimit
    /\ LET at == buffer_skip_whitespace(text, offset + 1)
       IN  /\ IsAt(text, at, Closing[kind])
           /\ mem' = [mem EXCEPT !.items[Target] = [@ EXCEPT !.type = kind]]
           /\ depth' = depth + 1
           /\ offset' = at + 1
    /\ Return(frames)
    /\ UNCHANGED <<text, frames, position, history>>

(* An empty container is entered and left.                                 *)
Empty(kind) ==
    /\ pc = "value"
    /\ IsAt(text, offset, Opening[kind])
    /\ depth < NestingLimit
    /\ LET at == buffer_skip_whitespace(text, offset + 1)
       IN  /\ IsAt(text, at, Closing[kind])
           /\ mem' = [mem EXCEPT !.items[Target] = [@ EXCEPT !.type = kind]]
           /\ offset' = at + 1
    /\ Return(frames)
    /\ UNCHANGED <<text, depth, frames, position, history>>

(* Another one steps back in front of its first element.                   *)
Enter(kind) ==
    /\ pc = "value"
    /\ IsAt(text, offset, Opening[kind])
    /\ depth < NestingLimit
    /\ LET at == buffer_skip_whitespace(text, offset + 1)
       IN  /\ ~IsAt(text, at, Closing[kind])
           /\ offset' = at - 1
           /\ depth' = depth + 1
           /\ frames' = Append(frames, [kind |-> kind, item |-> Target, head |-> NULL, current |-> NULL])
           /\ pc' = IF can_access(text, at) THEN "element" ELSE "failed"
    /\ UNCHANGED <<text, mem, position, history>>

(* A new item at the end of the list.  Until the container is closed only  *)
(* the frame knows of it.                                                  *)
Attached ==
    LET new == Free(mem.items)
        blank == cJSON_New_Item(mem)
    IN  IF Top.head = NULL THEN blank
        ELSE [blank EXCEPT !.items[Top.current].next = new, !.items[new].prev = Top.current]

AttachedFrames ==
    [frames EXCEPT ![Len(frames)] =
        [Top EXCEPT !.current = Free(mem.items),
                    !.head = IF Top.head = NULL THEN Free(mem.items) ELSE Top.head]]

NoMemoryForElement ==
    /\ pc = "element"
    /\ FailsToAllocate
    /\ Fail(offset)
    /\ UNCHANGED <<text, depth, frames, mem, position, overread>>

Element_Fault ==
    /\ pc = "element"
    /\ Top.kind = "Array"
    /\ mem' = Attached
    /\ frames' = AttachedFrames
    /\ offset' = buffer_skip_whitespace(text, offset)
    /\ pc' = "value"
    /\ UNCHANGED <<text, depth, position, history>>

Element ==
    /\ pc = "element"
    /\ Top.kind = "Array"
    /\ mem' = Attached
    /\ frames' = AttachedFrames
    /\ offset' = buffer_skip_whitespace(text, offset + 1)
    /\ pc' = "value"
    /\ UNCHANGED <<text, depth, position, history>>

(* The name is parsed as a string of the new item and then moved to where  *)
(* names are; the value follows behind a colon.                            *)
Member ==
    /\ pc = "element"
    /\ Top.kind = "Object"
    /\ frames' = AttachedFrames
    /\ LET at  == buffer_skip_whitespace(text, offset + 1)
           s   == parse_string(text, at)
           sep == buffer_skip_whitespace(text, s.offset)
           new == Free(mem.items)
           named == [NewString(Attached, s.bytes) EXCEPT
                       !.items[new] = [@ EXCEPT !.type = "String", !.string = Free(mem.strings)]]
       IN  \/ /\ ~can_access(text, offset + 1)
              /\ mem' = Attached
              /\ Fail(offset)
              /\ UNCHANGED history
           \/ /\ can_access(text, offset + 1)
              /\ overread' = (overread \/ ~can_access(text, at))
              /\ \/ /\ ~s.ok
                    /\ Allocates
                    /\ mem' = Attached
                    /\ Fail(s.offset)
                 \/ /\ s.allocates
                    /\ FailsToAllocate
                    /\ mem' = Attached
                    /\ Fail(at + 1)
                 \/ /\ s.ok
                    /\ Allocates
                    /\ mem' = named
                    /\ \/ ~IsAt(text, sep, Colon) /\ Fail(sep)
                       \/ /\ IsAt(text, sep, Colon)
                          /\ offset' = buffer_skip_whitespace(text, sep + 1)
                          /\ pc' = "value"
    /\ UNCHANGED <<text, depth, position>>

(* Behind an element: a comma, the end of the container, or an error.      *)
NextElement ==
    /\ pc = "more"
    /\ LET at == buffer_skip_whitespace(text, offset)
       IN  IsAt(text, at, Comma) /\ offset' = at
    /\ pc' = "element"
    /\ UNCHANGED <<text, depth, frames, mem, position, history>>

EndOfContainer ==
    /\ pc = "more"
    /\ LET at == buffer_skip_whitespace(text, offset)
       IN  /\ IsAt(text, at, Closing[Top.kind])
           /\ Close(Top.kind, Top.item, Top.head, Top.current, at)
    /\ frames' = Pop
    /\ Return(Pop)
    /\ UNCHANGED <<text, position, history>>

NeitherCommaNorEnd ==
    /\ pc = "more"
    /\ LET at == buffer_skip_whitespace(text, offset)
       IN  /\ ~IsAt(text, at, Comma) /\ ~IsAt(text, at, Closing[Top.kind])
           /\ Fail(at)
    /\ UNCHANGED <<text, depth, frames, mem, position, history>>

Abandon_Fault ==
    /\ pc = "failed"
    /\ frames # <<>>
    /\ frames' = Pop
    /\ UNCHANGED <<text, offset, depth, mem, pc, position, history>>

(* fail: the list that only this call knows of is deleted.                 *)
Abandon ==
    /\ pc = "failed"
    /\ frames # <<>>
    /\ mem' = IF Top.head = NULL THEN mem ELSE cJSON_Delete(mem, Top.head)
    /\ frames' = Pop
    /\ UNCHANGED <<text, offset, depth, pc, position, history>>

(* The parser has returned to its caller.                                  *)
Returned == pc \in {"accepted", "rejected"} /\ UNCHANGED parserVars

-----------------------------------------------------------------------------
Next ==
    \/ Begin \/ NoText \/ Reject
    \/ ParseLiteral(Null, "NULL") \/ ParseLiteral(False, "False") \/ ParseLiteral(True, "True")
    \/ ParseNumber \/ ParseString \/ NoValue
    \/ \E kind \in Containers : TooDeep(kind) \/ Empty(kind) \/ Enter(kind)
    \/ NoMemoryForElement \/ Element \/ Member
    \/ NextElement \/ EndOfContainer \/ NeitherCommaNorEnd \/ Abandon
    \/ Returned

ParserSpec == Init /\ [][Next]_parserVars

-----------------------------------------------------------------------------
(* No character behind the end of the text is read, though neither         *)
(* parse_string nor parse_array look where they start: whoever calls them  *)
(* has been there, or relies on buffer_skip_whitespace stepping back.      *)
ReadsStayInside == ~overread

(* The depth counter is the number of calls in progress, so the limit is   *)
(* neither passed nor used up by siblings (parse_array, parse_object).     *)
DepthIsNesting ==
    /\ pc \in {"value", "element", "more", "accepted"} => depth = Len(frames)
    /\ Len(frames) <= NestingLimit

(* An error is reported at a character of the text (global_error, which    *)
(* cJSON_GetErrorPtr adds to the text's address).                          *)
ErrorIsInsideText ==
    pc = "rejected" => position \in {0} \cup 0..(Len(text) - 1)

(* Every step gets further in the text, or gives up a call after a failure,*)
(* or goes from a value to the next element, which then gets further: as   *)
(* the text ends, so do the do-while loops of parse_array and parse_object,*)
(* whose turns begin with a step back.                                     *)
Advances ==
    \/ pc = "start" \/ pc' \in {"accepted", "rejected"}
    \/ offset' > offset /\ pc # "failed"
    \/ pc' = "failed" /\ (pc = "failed" => Len(frames') < Len(frames))
    \/ offset' = offset /\ pc # "element" /\ pc' = "element"

(* The block that a string is decoded into is asked for after a pass that  *)
(* only counts: what the second pass writes, and the terminator, fit in it *)
(* wherever in the text the string starts, and also if an escape at its    *)
(* end is refused when most of it has been written (parse_string).         *)
StringsFit ==
    pc = "start" =>
        \A i \in 0..(Len(text) - 1) :
            LET s == parse_string(text, i)
            IN  s.allocates => Len(s.bytes) + 1 <= s.room

(* All at once: no offset that is read, written or reported is outside the *)
(* text or outside its block.                                              *)
OffsetsStayInside == ReadsStayInside /\ ErrorIsInsideText /\ StringsFit

(* Whatever fails, wherever, an allocation included: all that was allocated*)
(* is given back, and nothing twice, as a list belongs to the call that    *)
(* builds it until its container is closed, and then to the container's    *)
(* item.  On success the caller gives everything back by deleting the tree *)
(* (the fail labels).                                                      *)
NothingLeaks ==
    /\ mem.faults = {}
    /\ pc = "rejected" => mem = EmptyMemory
    /\ pc = "accepted" => cJSON_Delete(mem, Root) = EmptyMemory

(* What the parser hands over can be edited: in every list, whatever the   *)
(* text, prev leads back to the item before and from the head to the last, *)
(* where cJSON_AddItemToArray, cJSON_DetachItemViaPointer and its callers  *)
(* find it without walking the list (head->prev = current_item, once it is *)
(* known where the list ends, and the links of each new item).             *)
ListsAreLinked ==
    pc = "accepted" => \A a \in DOMAIN mem.items : WellLinked(mem, mem.items[a].child)
=============================================================================
