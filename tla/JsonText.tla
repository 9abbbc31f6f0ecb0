------------------------------ MODULE JsonText ------------------------------
(***************************************************************************)
(* The leaves of the JSON parser (cJSON.c): white space, literals, numbers *)
(* and strings, as operators on a text and an offset into it.  A text is a *)
(* sequence of character codes; offsets count from 0 as in the code.  The  *)
(* limits that no run could reach at their real size are constants.        *)
(***************************************************************************)
EXTENDS Integers, Sequences

CONSTANTS
    NumberBuffer,   \* sizeof(number_c_string): 64
    IntMax          \* INT_MAX

ASSUME NumberBufferAssumption == NumberBuffer \in Nat \ {0}
ASSUME IntMaxAssumption == IntMax \in Nat \ {0}

IntMin == -IntMax - 1

Quote == 34  Comma == 44  Colon == 58
Backslash == 92
LBracket == 91  RBracket == 93  LBrace == 123  RBrace == 125

can_access(text, i) == i < Len(text)
At(text, i) == text[i + 1]
IsAt(text, i, c) == can_access(text, i) /\ At(text, i) = c

(* The text from offset i up to, not including, offset j.                  *)
Slice(text, i, j) == SubSeq(text, i + 1, j)

Spells(text, i, word) == i + Len(word) <= Len(text) /\ Slice(text, i, i + Len(word)) = word

Null  == <<110, 117, 108, 108>>
False == <<102, 97, 108, 115, 101>>
True  == <<116, 114, 117, 101>>
Bom   == <<239, 187, 191>>

(* The first offset from i on at which there is no such character.         *)
PastAll(text, i, chars) ==
    CHOOSE j \in i..Len(text) :
        /\ \A k \in i..(j - 1) : At(text, k) \in chars
        /\ j = Len(text) \/ At(text, j) \notin chars

-----------------------------------------------------------------------------
(* Between the values *)

Blanks == 0..32

buffer_skip_whitespace_Fault(text, i) ==
    IF can_access(text, i) THEN PastAll(text, i, Blanks) ELSE i

(* At the end of the text it steps back on the last white space, so that   *)
(* there is a character to look at.                                        *)
buffer_skip_whitespace(text, i) ==
    LET j == PastAll(text, i, Blanks)
    IN  IF can_access(text, i) /\ j = Len(text) THEN j - 1
        ELSE IF can_access(text, i) THEN j
        ELSE i

skip_utf8_bom(text) == IF can_access(text, 4) /\ Spells(text, 0, Bom) THEN 3 ELSE 0

-----------------------------------------------------------------------------
(* Numbers *)

Digit == 48..57
Sign  == {43, 45}
Dot   == 46
Exponent == {69, 101}
NumberChar == Digit \cup Sign \cup {Dot} \cup Exponent

(* What is copied for strtod: as much as fits of what can be in a number.  *)
NumberChars(text, i) ==
    LET room  == IF i + NumberBuffer - 1 < Len(text) THEN i + NumberBuffer - 1 ELSE Len(text)
        fits  == Slice(text, 0, room)
    IN  Slice(text, i, PastAll(fits, i, NumberChar))

(* Behind one such character, if there is one.                             *)
Past(s, i, chars) == IF can_access(s, i) /\ At(s, i) \in chars THEN i + 1 ELSE i

(* The C library's strtod: how long the longest number is that s starts    *)
(* with, as sign, digits, fraction and exponent; 0 if there is none.       *)
StrtodParts(s) ==
    LET sign  == Past(s, 0, Sign)
        whole == PastAll(s, sign, Digit)
        dot   == Past(s, whole, {Dot})
        frac  == PastAll(s, dot, Digit)
        none  == whole = sign /\ frac = dot
        e     == Past(s, frac, Exponent)
        esign == Past(s, e, IF e > frac THEN Sign ELSE {})
        exp   == PastAll(s, esign, Digit)
    IN  [sign |-> sign, whole |-> whole, dot |-> dot, frac |-> frac, esign |-> esign,
         end |-> IF none THEN 0 ELSE IF e > frac /\ exp > esign THEN exp ELSE frac,
         scaled |-> e > frac /\ exp > esign]

DigitsValue(s) ==
    LET upTo[n \in 0..Len(s)] == IF n = 0 THEN 0 ELSE 10 * upTo[n - 1] + s[n] - 48
    IN  upTo[Len(s)]

Negative(s) == s # <<>> /\ s[1] = 45

(* The double as the exact number mantissa * 10^scale: rounding to 53 bits *)
(* shows only above the sizes that are told apart here.                    *)
ValueOfParts(s, p) ==
    LET exponent == IF p.scaled THEN DigitsValue(Slice(s, p.esign, p.end)) ELSE 0
        minus == p.scaled /\ At(s, p.esign - 1) = 45
        sized == DigitsValue(Slice(s, p.sign, p.whole) \o Slice(s, p.dot, p.frac))
    IN  [length |-> p.end,
         mantissa |-> IF Negative(s) THEN -sized ELSE sized,
         scale |-> (IF minus THEN -exponent ELSE exponent) - (p.frac - p.dot)]

Strtod(s) == ValueOfParts(s, StrtodParts(s))

(* (int) number, saturated at both ends.  The conversion of C cuts towards *)
(* zero.                                                                   *)
Saturated(n) == IF n >= IntMax THEN IntMax ELSE IF n <= IntMin THEN IntMin ELSE n

Cut(m, d) == IF m < 0 THEN -((-m) \div d) ELSE m \div d

ToInt_Fault(v) ==
    Saturated(IF v.scale >= 0 THEN v.mantissa * 10^v.scale ELSE v.mantissa \div 10^(-v.scale))

ToInt(v) ==
    Saturated(IF v.scale >= 0 THEN v.mantissa * 10^v.scale ELSE Cut(v.mantissa, 10^(-v.scale)))

NumberAt(i, v) == [ok |-> v.length > 0, offset |-> i + v.length, valueint |-> ToInt(v)]

parse_number(text, i) == NumberAt(i, Strtod(NumberChars(text, i)))

-----------------------------------------------------------------------------
(* Strings *)

(* A second half of a surrogate pair, and both halves' ranges.             *)
HighSurrogate == 55296..56319
LowSurrogate  == 56320..57343

HexValue(c) ==
    IF c \in Digit THEN c - 48
    ELSE IF c \in 65..70 THEN c - 55
    ELSE IF c \in 97..102 THEN c - 87
    ELSE -1

(* Four hexadecimal digits; 0 if there is something else among them.       *)
parse_hex4(text, i) ==
    LET h == [n \in 0..3 |-> HexValue(At(text, i + n))]
    IN  IF \E n \in 0..3 : h[n] < 0 THEN 0
        ELSE 4096 * h[0] + 256 * h[1] + 16 * h[2] + h[3]

Continuation(c) == 128 + (c % 64)

Utf8(c) ==
    IF c < 128 THEN <<c>>
    ELSE IF c < 2048 THEN <<192 + (c \div 64), Continuation(c)>>
    ELSE IF c < 65536 THEN <<224 + (c \div 4096), Continuation(c \div 64), Continuation(c)>>
    ELSE <<240 + (c \div 262144), Continuation(c \div 4096), Continuation(c \div 64), Continuation(c)>>

(* How many characters an escape takes up (0: it is refused) and the bytes *)
(* it stands for.                                                          *)
Unit(length, bytes) == [length |-> length, bytes |-> bytes]
Refused == Unit(0, <<>>)

Utf16Pair(text, i, end, first, second) ==
    IF end - i < 6 \/ first \in LowSurrogate THEN Refused
    ELSE IF first \notin HighSurrogate THEN Unit(6, Utf8(first))
    ELSE IF \/ end - i < 12
            \/ ~Spells(text, i + 6, <<Backslash, 117>>)
            \/ second \notin LowSurrogate
         THEN Refused
    ELSE Unit(12, Utf8(65536 + 1024 * (first % 1024) + (second % 1024)))

utf16_literal_to_utf8(text, i, end) ==
    Utf16Pair(text, i, end, parse_hex4(text, i + 2), parse_hex4(text, i + 8))

SimpleEscape ==
    [c \in {98, 102, 110, 114, 116, 34, 92, 47} |->
        CASE c = 98 -> 8 [] c = 102 -> 12 [] c = 110 -> 10 [] c = 114 -> 13 [] c = 116 -> 9
          [] OTHER -> c]

CharAt(text, i, end) ==
    IF At(text, i) # Backslash THEN Unit(1, <<At(text, i)>>)
    ELSE IF At(text, i + 1) \in DOMAIN SimpleEscape THEN Unit(2, <<SimpleEscape[At(text, i + 1)]>>)
    ELSE IF At(text, i + 1) = 117 THEN utf16_literal_to_utf8(text, i, end)
    ELSE Refused

(* The first pass: the offset of the quote that closes the literal opened  *)
(* at i, and how many characters were skipped as escaped.  Without such a  *)
(* quote the end is that of the text.                                      *)
Scan(text, i) ==
    LET from[k \in (i + 1)..(Len(text) + 1)] ==
            IF ~can_access(text, k) THEN [end |-> Len(text), skipped |-> 0]
            ELSE IF At(text, k) = Quote THEN [end |-> k, skipped |-> 0]
            ELSE IF At(text, k) # Backslash THEN from[k + 1]
            ELSE [from[k + 2] EXCEPT !.skipped = @ + 1]
    IN  from[i + 1]

(* The second pass: the bytes up to the end, and where it stopped.         *)
Decode(text, i, end) ==
    LET from[k \in i..(end + 12)] ==
            IF k >= end THEN [ok |-> TRUE, at |-> end, bytes |-> <<>>]
            ELSE LET c == CharAt(text, k, end)
                 IN  IF c.length = 0 THEN [ok |-> FALSE, at |-> k, bytes |-> <<>>]
                     ELSE LET rest == from[k + c.length]
                          IN  [rest EXCEPT !.bytes = c.bytes \o @]
    IN  from[i]

Allocated_Fault(i, s) == (s.end - i) - (2 * s.skipped) + 1
Allocated(i, s) == (s.end - i) - s.skipped + 1

(* allocates: whether memory is asked for; offset: where parsing goes on,  *)
(* or what the error is reported at.                                       *)
LiteralRead(text, i, s, d) ==
    IF ~IsAt(text, i, Quote) \/ ~can_access(text, s.end)
    THEN [ok |-> FALSE, allocates |-> FALSE, room |-> 0, bytes |-> <<>>, offset |-> i + 1]
    ELSE [ok |-> d.ok, allocates |-> TRUE, room |-> Allocated(i, s), bytes |-> d.bytes,
          offset |-> IF d.ok THEN s.end + 1 ELSE d.at]

parse_string(text, i) ==
    LET s == Scan(text, i)
    IN  LiteralRead(text, i, s, Decode(text, i + 1, s.end))
=============================================================================
