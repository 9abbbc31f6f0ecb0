----------------------------- MODULE JsonPrinter ----------------------------
(***************************************************************************)
(* Rendering a tree to text (print, cJSON_PrintBuffered and                *)
(* cJSON_PrintPreallocated).  The functions under print_value make room in *)
(* a buffer for one piece of text after the other; some move the offset    *)
(* behind what they wrote, others leave that to update_offset, which looks *)
(* for the terminator.  The buffer grows, or cannot, or must not.          *)
(***************************************************************************)
EXTENDS Integers, SequencesExt

CONSTANTS
    Values,         \* <<type>>, <<"Number", n>>, <<"String", bytes>>, <<"Array", elements>>,
                    \* <<"Object", members>> with members <<name, value>>
    Nesting,        \* of a value: more than that of what is in it
    Trees,          \* the values that are printed
    Sizes,          \* of the buffers that callers provide or guess
    DefaultSize,    \* default_buffer_size: 256
    IntMax          \* INT_MAX

Within(values, value) == \A n \in DOMAIN values : values[n] \in Values /\ Nesting[values[n]] < Nesting[value]

IsValue(value) ==
    \/ value[1] \in {"NULL", "False", "True"}
    \/ value[1] = "Number" /\ value[2] \in Int
    \/ value[1] = "String" /\ value[2] \in Seq(1..255)
    \/ value[1] = "Array"  /\ value[2] \in Seq(Values) /\ Within(value[2], value)
    \/ value[1] = "Object" /\ value[2] \in Seq(Seq(1..255) \X Values)
                           /\ Within([n \in DOMAIN value[2] |-> value[2][n][2]], value)

ASSUME ValuesAssumption ==
    Trees \subseteq Values /\ Nesting \in [Values -> Nat] /\ \A value \in Values : IsValue(value)

ASSUME SizesAssumption == Sizes \subseteq Nat \ {0} /\ DefaultSize \in Nat \ {0} /\ IntMax \in Nat

VARIABLES
    tree, format, method,
    reallocates,    \* the hooks have a realloc
    steps,          \* what print_value has still to do
    offset,
    buffer,         \* the bytes of the buffer
    present,        \* printbuffer.buffer is not NULL
    blocks,         \* history: blocks that are allocated
    outOfMemory,    \* history: an allocation failed
    inside,         \* history: only bytes of the buffer were used
    pc,
    result          \* [ok, text]: what the call returned

fixed       == <<tree, format, method, reallocates>>
printerVars == <<fixed, steps, offset, buffer, present, blocks, outOfMemory, inside, pc, result>>

Nul == 0
Stale == -1      \* what is in a buffer that nobody has written to

-----------------------------------------------------------------------------
(* The pieces of text: how many bytes are asked for, which are written,    *)
(* whether the terminator is, and whether the offset is moved behind the   *)
(* text at once; and the calls of update_offset.                           *)

Piece(needs, text, ends, moves) ==
    [update |-> FALSE, needs |-> needs, text |-> text, ends |-> ends, moves |-> moves]
UpdateOffset == [update |-> TRUE, needs |-> 0, text |-> <<>>, ends |-> FALSE, moves |-> FALSE]

If(condition, s) == IF condition THEN s ELSE <<>>
BytesOf(piece) == piece.text \o If(piece.ends, <<Nul>>)

Numeral(n) ==
    LET digits[m \in Nat] == IF m < 10 THEN <<48 + m>> ELSE digits[m \div 10] \o <<48 + (m % 10)>>
    IN  IF n < 0 THEN <<45>> \o digits[-n] ELSE digits[n]

print_number(n) ==
    <<Piece(Len(Numeral(n)) + 1, Numeral(n), TRUE, TRUE)>>

Letter == [c \in {8, 9, 10, 12, 13} |->
    CASE c = 8 -> 98 [] c = 9 -> 116 [] c = 10 -> 110 [] c = 12 -> 102 [] c = 13 -> 114]

Hex(d) == IF d < 10 THEN 48 + d ELSE 87 + d

Escaped(c) ==
    IF c \in {34, 92} THEN <<92, c>>
    ELSE IF c \in DOMAIN Letter THEN <<92, Letter[c]>>
    ELSE IF c < 32 THEN <<92, 117, 48, 48, Hex(c \div 16), Hex(c % 16)>>
    ELSE <<c>>

EscapedBytes(s) == FlattenSeq([n \in DOMAIN s |-> Escaped(s[n])])

Quoted(s) == <<34>> \o s \o <<34>>

print_string_ptr_Fault(s) == <<Piece(Len(s) + 3, Quoted(EscapedBytes(s)), TRUE, FALSE)>>

print_string_ptr_Raw(s) == <<Piece(Len(s) + 3, Quoted(s), TRUE, FALSE)>>

print_string_ptr(s) == <<Piece(Len(EscapedBytes(s)) + 3, Quoted(EscapedBytes(s)), TRUE, FALSE)>>

Tabs(n) == [k \in 1..n |-> 9]

Literal(word) == <<Piece(Len(word) + 1, word, TRUE, FALSE)>>

(* The pieces of a container, with those of what is in it.                 *)
print_array(printed, formatted) ==
    LET separator == <<44>> \o If(formatted, <<32>>)
        element(n) ==
            printed[n] \o <<UpdateOffset>>
              \o If(n < Len(printed), <<Piece(Len(separator) + 1, separator, TRUE, TRUE)>>)
    IN  <<Piece(1, <<91>>, FALSE, TRUE)>>
          \o FlattenSeq([n \in DOMAIN printed |-> element(n)])
          \o <<Piece(2, <<93>>, TRUE, FALSE)>>

print_object(members, printed, formatted, depth) ==
    LET opening == <<123>> \o If(formatted, <<10>>)
        colon   == <<58>> \o If(formatted, <<9>>)
        ending(n) == If(n < Len(members), <<44>>) \o If(formatted, <<10>>)
        member(n) ==
            If(formatted, <<Piece(depth + 1, Tabs(depth + 1), FALSE, TRUE)>>)
              \o print_string_ptr(members[n][1]) \o <<UpdateOffset>>
              \o <<Piece(Len(colon), colon, FALSE, TRUE)>>
              \o printed[n] \o <<UpdateOffset>>
              \o <<Piece(Len(ending(n)) + 1, ending(n), TRUE, TRUE)>>
    IN  <<Piece(Len(opening) + 1, opening, FALSE, TRUE)>>
          \o FlattenSeq([n \in DOMAIN members |-> member(n)])
          \o <<Piece(IF formatted THEN depth + 2 ELSE 2, If(formatted, Tabs(depth)) \o <<125>>, TRUE, FALSE)>>

(* One value, given how those in it are printed.                           *)
print_type(print, value, depth, formatted) ==
    CASE value[1] = "NULL"   -> Literal(<<110, 117, 108, 108>>)
      [] value[1] = "False"  -> Literal(<<102, 97, 108, 115, 101>>)
      [] value[1] = "True"   -> Literal(<<116, 114, 117, 101>>)
      [] value[1] = "Number" -> print_number(value[2])
      [] value[1] = "String" -> print_string_ptr(value[2])
      [] value[1] = "Array"  ->
            print_array([n \in DOMAIN value[2] |-> print[value[2][n]][depth + 1]], formatted)
      [] value[1] = "Object" ->
            print_object(value[2], [n \in DOMAIN value[2] |-> print[value[2][n][2]][depth + 1]],
                         formatted, depth)

print_value(root, formatted) ==
    LET print[value \in Values] == [depth \in Nat |-> print_type(print, value, depth, formatted)]
    IN  print[root][0]

-----------------------------------------------------------------------------
(* The calls *)

Methods == {"Print"} \X {DefaultSize} \cup {"PrintBuffered", "PrintPreallocated"} \X Sizes
Preallocated == method[1] = "PrintPreallocated"

Blank(n) == [k \in 1..n |-> Stale]

Init ==
    /\ tree \in Trees /\ format \in BOOLEAN /\ method \in Methods
    /\ reallocates \in BOOLEAN
    /\ steps = print_value(tree, format)
    /\ offset = 0
    /\ buffer = <<>> /\ present = FALSE
    /\ blocks = 0
    /\ outOfMemory = FALSE /\ inside = TRUE
    /\ pc = "start"
    /\ result = [ok |-> FALSE, text |-> <<>>]

(* The buffer is created, or the caller's is used.                         *)
Start ==
    /\ pc = "start"
    /\ buffer' = Blank(method[2])
    /\ present' = TRUE
    /\ blocks' = IF Preallocated THEN 0 ELSE 1
    /\ pc' = "printing"
    /\ UNCHANGED <<fixed, steps, offset, outOfMemory, inside, result>>

NoBuffer ==
    /\ pc = "start" /\ ~Preallocated
    /\ outOfMemory' = TRUE
    /\ pc' = "returned"
    /\ UNCHANGED <<fixed, steps, offset, buffer, present, blocks, inside, result>>

-----------------------------------------------------------------------------
(* ensure, and the writing that follows it *)

Next1 == Head(steps)
Needed == Next1.needs + offset + 1

Written(b, bytes) ==
    [k \in DOMAIN b |-> IF k - offset \in DOMAIN bytes THEN bytes[k - offset] ELSE b[k]]

PrintPiece(room) ==
    /\ inside' = (inside /\ offset + Len(BytesOf(Next1)) <= Len(room))
    /\ buffer' = Written(room, BytesOf(Next1))
    /\ offset' = IF Next1.moves THEN offset + Len(Next1.text) ELSE offset
    /\ steps' = Tail(steps)
    /\ UNCHANGED <<fixed, present, blocks, outOfMemory, pc, result>>

AtPiece == pc = "printing" /\ steps # <<>> /\ ~Next1.update

Fits ==
    /\ AtPiece
    /\ Needed <= Len(buffer)
    /\ PrintPiece(buffer)

NewSize == IF Needed > IntMax \div 2 THEN IntMax ELSE 2 * Needed

Grown_Fault == [k \in 1..NewSize |-> IF k <= Len(buffer) /\ reallocates THEN buffer[k] ELSE Stale]

(* Without realloc only what is in front of the offset is copied, and one  *)
(* byte more.                                                              *)
Grown ==
    [k \in 1..NewSize |->
        IF k <= (IF reallocates THEN Len(buffer) ELSE offset + 1) THEN buffer[k] ELSE Stale]

Grow ==
    /\ AtPiece
    /\ Needed > Len(buffer) /\ ~Preallocated /\ Needed <= IntMax
    /\ PrintPiece(Grown)

(* The buffer is gone, and every caller returns false.                     *)
CannotGrow ==
    /\ AtPiece
    /\ Needed > Len(buffer) /\ ~Preallocated /\ Needed <= IntMax
    /\ outOfMemory' = TRUE
    /\ present' = FALSE /\ buffer' = <<>>
    /\ blocks' = blocks - 1
    /\ pc' = "failed"
    /\ UNCHANGED <<fixed, steps, offset, inside, result>>

MustNotGrow ==
    /\ AtPiece
    /\ Needed > Len(buffer) /\ (Preallocated \/ Needed > IntMax)
    /\ pc' = "failed"
    /\ UNCHANGED <<fixed, steps, offset, buffer, present, blocks, outOfMemory, inside, result>>

(* From the offset on: strlen.                                             *)
Ends == {k \in offset..(Len(buffer) - 1) : buffer[k + 1] = Nul}

Measure ==
    /\ inside' = (inside /\ Ends # {})
    /\ offset' = IF Ends = {} THEN offset ELSE Min(Ends)

update_offset ==
    /\ pc = "printing" /\ steps # <<>> /\ Next1.update
    /\ Measure
    /\ steps' = Tail(steps)
    /\ UNCHANGED <<fixed, buffer, present, blocks, outOfMemory, pc, result>>

-----------------------------------------------------------------------------
(* Returning *)

CString(b) ==
    LET ends == {k \in DOMAIN b : b[k] = Nul} IN SubSeq(b, 1, (IF ends = {} THEN Len(b) ELSE Min(ends) - 1))

Return(ok) ==
    /\ result' = [ok |-> ok, text |-> IF ok THEN CString(buffer) ELSE <<>>]
    /\ pc' = "returned"
    /\ UNCHANGED <<fixed, steps, buffer>>

Printed == pc = "printing" /\ steps = <<>>

ReturnBuffer ==
    /\ Printed
    /\ method[1] # "Print"
    /\ Return(TRUE)
    /\ UNCHANGED <<offset, present, blocks, outOfMemory, inside>>

(* print gives back a block that is just large enough.                     *)
Shrink ==
    /\ Printed
    /\ method[1] = "Print"
    /\ Measure
    /\ \/ /\ present' = FALSE
          /\ Return(TRUE)
          /\ UNCHANGED <<blocks, outOfMemory>>
       \/ /\ outOfMemory' = TRUE
          /\ pc' = "failed"
          /\ UNCHANGED <<fixed, steps, buffer, present, blocks, result>>

(* A buffer that is still there is freed, unless it is the caller's.       *)
GiveUp ==
    /\ pc = "failed"
    /\ blocks' = IF present /\ ~Preallocated THEN blocks - 1 ELSE blocks
    /\ present' = FALSE
    /\ Return(FALSE)
    /\ UNCHANGED <<offset, outOfMemory, inside>>

Returned == pc = "returned" /\ UNCHANGED printerVars

PrinterNext ==
    \/ Start \/ NoBuffer
    \/ Fits \/ Grow \/ CannotGrow \/ MustNotGrow \/ update_offset
    \/ ReturnBuffer \/ Shrink \/ GiveUp
    \/ Returned

PrinterSpec == Init /\ [][PrinterNext]_printerVars

-----------------------------------------------------------------------------
PrintedText(value, formatted) ==
    LET all == print_value(value, formatted) IN FlattenSeq([n \in DOMAIN all |-> all[n].text])

Text == PrintedText(tree, format)

(* Nothing is written behind the end of the buffer, and update_offset finds *)
(* its terminator in it: each piece asks for enough, and whoever leaves the *)
(* offset to update_offset has written a terminator.                        *)
WritesStayInside == inside

(* All pieces arrive, in order, none over another, whether the buffer grows *)
(* by realloc or by hand, which keeps less of it.                           *)
AllPiecesArrive == result.ok => result.text = Text

(* A text that is returned is the only block left, and after a failure at   *)
(* any point there is none: ensure, print and cJSON_PrintBuffered each free *)
(* the buffer on some paths.                                                *)
BufferIsFreedOnce == blocks = IF result.ok /\ ~Preallocated THEN 1 ELSE 0

(* cJSON_PrintPreallocated succeeds if the buffer has one byte more than    *)
(* text and terminator need (cJSON.h says five, "to be safe"), and never if *)
(* they do not fit; the others fail only without memory, or at INT_MAX.     *)
EnoughRoomIsEnough ==
    /\ Preallocated /\ ~result.ok => method[2] < Len(Text) + 2
    /\ Preallocated /\ result.ok => method[2] >= Len(Text) + 1
    /\ ~Preallocated /\ ~result.ok => outOfMemory \/ Len(Text) + 2 > IntMax

(* Printing gives all of the text, and fails for no other reason than that  *)
(* there is no room, without leaving a block behind (ensure, update_offset, *)
(* print, cJSON_PrintBuffered and cJSON_PrintPreallocated).                 *)
PrintsAllOrFails ==
    pc = "returned" => AllPiecesArrive /\ BufferIsFreedOnce /\ EnoughRoomIsEnough
=============================================================================
