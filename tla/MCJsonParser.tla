---------------------------- MODULE MCJsonParser ----------------------------
(***************************************************************************)
(* The texts of the run.  Documents: everything that can be put together   *)
(* from a few pieces, and whatever is one edit away from documents that    *)
(* nest, end in the wrong place, or fail late.  Strings: put together from *)
(* pieces with a known meaning, also cut off, or from any two \u escapes.  *)
(* Numbers: everything that can be put together from their characters.     *)
(***************************************************************************)
EXTENDS JsonProperties

CONSTANTS
    MaxPieces,          \* bound: pieces of a document
    MaxStringPieces,    \* bound: pieces of a string
    MaxCutPieces,       \* bound: pieces of a string that is cut off
    MaxNumber           \* bound: characters of a number

VARIABLE source     \* history: where the text comes from

-----------------------------------------------------------------------------
(* Documents *)

Space == 32
A == <<Quote, 97, Quote>>
One == <<49>>

Tokens == { <<LBracket>>, <<RBracket>>, <<LBrace>>, <<RBrace>>, <<Comma>>, <<Space>>,
            A, A \o <<Colon>>, One, Null, <<Quote>> }

Composed == {FlattenSeq(s) : s \in BoundedSeq(Tokens, MaxPieces)}

Array(s)  == <<LBracket>> \o s \o <<RBracket>>
Object(s) == <<LBrace>> \o s \o <<RBrace>>
Name(c)   == <<Quote, c, Quote, Colon>>

Documents ==
    { Array(Object(Name(97) \o Array(One \o <<Comma>> \o Null)) \o <<Comma>> \o A),
      Object(Name(97) \o <<45, 49, 50>> \o <<Comma, Space>> \o Name(98) \o Object(<<>>)),
      Object(<<Space>> \o Name(97) \o <<Space>> \o True \o <<Comma>> \o Name(97) \o False) \o <<Space>>,
      Array(Array(<<>>) \o <<Comma>> \o Array(Array(One))),
      Object(Name(97) \o A \o <<Comma>> \o Name(98) \o <<Quote, Backslash, 120, Quote>>),
      Bom \o Array(One \o <<Comma>> \o <<49, 49, 49, 49, 49>>),
      Bom \o One }

Edited(s) ==
    {SubSeq(s, 1, n) : n \in DOMAIN s}
    \cup {SubSeq(s, 1, n - 1) \o SubSeq(s, n + 1, Len(s)) : n \in DOMAIN s}
    \cup {[s EXCEPT ![n] = c] : n \in DOMAIN s, c \in {Space, Quote, LBracket, RBracket, RBrace, Comma}}

-----------------------------------------------------------------------------
(* Strings *)

U(h) == <<Backslash, 117>> \o h
HexOf(n) ==
    LET digit(d) == IF d < 10 THEN d + 48 ELSE d + 87
    IN  <<digit(n \div 4096), digit((n \div 256) % 16), digit((n \div 16) % 16), digit(n % 16)>>

(* How it is written, and what it stands for; <<>> for a piece that is no  *)
(* string content, in any company.                                         *)
Piece(written, means) == [written |-> written, means |-> means]

(* No hexadecimal digits: it means nothing, but is read as U+0000.         *)
NoHexDigits == Piece(U(<<122, 122, 122, 122>>), <<0>>)             \* \uzzzz

Pieces ==
    { Piece(<<97>>, <<97>>),                                       \* a
      Piece(<<195, 169>>, <<195, 169>>),                           \* raw UTF-8
      Piece(<<Backslash, 110>>, <<10>>),
      Piece(<<Backslash, Quote>>, <<Quote>>),
      Piece(<<Backslash, Backslash>>, <<Backslash>>),
      Piece(U(HexOf(233)), <<195, 169>>),
      Piece(U(HexOf(55357)) \o U(HexOf(56832)), <<240, 159, 152, 128>>),
      Piece(U(HexOf(55357)), <<>>),                                \* half a pair
      Piece(<<97>> \o U(HexOf(57343)), <<>>),                      \* the other half
      Piece(<<Backslash, 120>>, <<>>),                             \* \x
      NoHexDigits }

Literal(s) == <<Quote>> \o FlattenSeq([n \in DOMAIN s |-> s[n].written]) \o <<Quote>>

Boundaries == {0, 65, 127, 128, 2047, 2048, 55295, 55296, 56319, 56320, 57343, 57344, 65535}
FirstUnits == Boundaries \cup {100 * n : n \in 0..655} \cup {55296 + n : n \in 0..40}
Escapes(units) == <<Quote>> \o U(HexOf(units[1])) \o U(HexOf(units[2])) \o <<Quote>>

-----------------------------------------------------------------------------
(* Numbers.  parse_value knows them by a digit or a minus; two digits of an*)
(* exponent would be more than TLC's integers can hold.                    *)

NumberAlphabet == {48, 49, 55, 45, 43, Dot, 101}

Numbers ==
    {s \in BoundedSeq(NumberAlphabet, MaxNumber) \ {<<>>} :
        /\ s[1] \in Digit \cup {45}
        /\ \A k \in DOMAIN s : s[k] \in Exponent =>
              Cardinality({n \in k..Len(s) : s[n] \in Digit}) <= 1}

-----------------------------------------------------------------------------
Comes(kind, parts, cut, from) ==
    /\ source = [kind |-> kind, parts |-> parts, cut |-> cut]
    /\ text = from

ComesFromDocuments ==
    \/ \E s \in Composed : Comes("document", <<>>, 0, s)
    \/ \E d \in Documents : \E s \in Edited(d) : Comes("document", <<>>, 0, s)

ComesFromPieces ==
    \E s \in BoundedSeq(Pieces, MaxStringPieces) :
        \E n \in IF Len(s) > MaxCutPieces THEN {0} ELSE 0..(Len(Literal(s)) - 1) :
            Comes("string", s, n, SubSeq(Literal(s), 1, Len(Literal(s)) - n))

ComesFromEscapes == \E first \in FirstUnits, second \in Boundaries :
                  Comes("escapes", <<first, second>>, 0, Escapes(<<first, second>>))

ComesFromDigits == \E s \in Numbers : Comes("number", <<>>, 0, s)

MCChar == 0..255

MCInit == (ComesFromDocuments \/ ComesFromPieces \/ ComesFromEscapes \/ ComesFromDigits) /\ Init

MCSpec == MCInit /\ [][Next /\ UNCHANGED source]_<<parserVars, source>>

-----------------------------------------------------------------------------
(* The tree is the text: every value at its place, in order, under its own *)
(* name, and nothing else, in lists as the functions that edit trees rely  *)
(* on them (the loops that attach items, "head->prev = current_item", and  *)
(* the swap of name and value in parse_object).                            *)
TreeIsText ==
    /\ source.kind = "document" /\ pc = "accepted" =>
           Rendered(Root) = Dense(SubSeq(text, BomLength + 1, offset))
    /\ ListsAreLinked

-----------------------------------------------------------------------------
(* Strings *)

(* Reference: the code points of two UTF-16 units, and UTF-8 read back by  *)
(* lead byte with only shortest forms allowed.                             *)
Surrogate(u) == u \in 55296..57343

CodePoints(units) ==
    LET a == units[1]  b == units[2]
    IN  IF ~Surrogate(a) /\ ~Surrogate(b) THEN <<a, b>>
        ELSE IF a \in HighSurrogate /\ b \in LowSurrogate
             THEN <<65536 + (a - 55296) * 1024 + (b - 56320)>>
        ELSE <<>>

Utf8Length(lead) ==
    IF lead < 128 THEN 1 ELSE IF lead \in 194..223 THEN 2 ELSE IF lead \in 224..239 THEN 3
    ELSE IF lead \in 240..244 THEN 4 ELSE 0

LeastOfLength == <<0, 128, 2048, 65536>>
LeadMark == <<0, 192, 224, 240>>

ReadBack(bytes) ==
    LET from[k \in 1..(Len(bytes) + 1)] ==
            IF k > Len(bytes) THEN <<>>
            ELSE LET n == Utf8Length(bytes[k])
                     tail == [m \in 1..(n - 1) |-> bytes[k + m] - 128]
                     point == FoldLeft(LAMBDA acc, six : 64 * acc + six, bytes[k] - LeadMark[n], tail)
                 IN  IF n = 0 \/ k + n - 1 > Len(bytes) THEN <<-1>>
                     ELSE IF (\E m \in DOMAIN tail : tail[m] \notin 0..63) \/ point < LeastOfLength[n]
                          THEN <<-1>>
                     ELSE <<point>> \o from[k + n]
    IN  from[1]


Means ==
    IF source.kind = "escapes" THEN CodePoints(source.parts)
    ELSE FlattenSeq([n \in DOMAIN source.parts |-> source.parts[n].means])

Meaningless ==
    \/ source.cut > 0
    \/ source.kind = "escapes" /\ Means = <<>>
    \/ source.kind = "string" /\ \E n \in DOMAIN source.parts : source.parts[n].means = <<>>

(* A string literal is accepted unless it is cut off, be it inside or      *)
(* behind an escape, or it has an unknown escape or half a surrogate pair; *)
(* a \u without four hexadecimal digits is accepted as U+0000, which is    *)
(* MeaninglessEscapesAreRefused's matter.  The value is then what the      *)
(* characters and escapes stand for, in order, and for two \u escapes the  *)
(* well-formed UTF-8 of the code points that they are the well-formed      *)
(* UTF-16 of.  The value and its terminator fit in what was allocated,     *)
(* also when decoding fails half-way, though the size is estimated in a    *)
(* pass of its own (parse_string, parse_hex4, utf16_literal_to_utf8).      *)
StringsAreDecoded ==
    source.kind \in {"string", "escapes"} =>
        /\ pc = "start" => LET s == parse_string(text, 0) IN s.allocates => Len(s.bytes) + 1 <= s.room
        /\ pc = "rejected" => Meaningless \/ outOfMemory
        /\ pc = "accepted" =>
              LET value == mem.strings[mem.items[Root].valuestring]
              IN  /\ ~Meaningless
                  /\ Means = IF source.kind = "escapes" THEN ReadBack(value) ELSE value
                  /\ offset = Len(text)

(* No literal with a \u whose four characters are no digits is accepted:   *)
(* "invalid" (parse_hex4), "check that the code is valid" (its caller).    *)
MeaninglessEscapesAreRefused ==
    source.kind = "string" /\ pc = "accepted" => NoHexDigits \notin Range(source.parts)

-----------------------------------------------------------------------------
(* Numbers *)

Digits(s) == s # <<>> /\ Range(s) \subseteq Digit

(* Reference: a number of C with an optional fraction and exponent.        *)
IsUnsigned(s) ==
    \/ Digits(s)
    \/ \E k \in DOMAIN s :
          /\ s[k] = Dot /\ Len(s) > 1
          /\ Range(SubSeq(s, 1, k - 1)) \cup Range(SubSeq(s, k + 1, Len(s))) \subseteq Digit
Unsign(s) == IF s # <<>> /\ s[1] \in Sign THEN Tail(s) ELSE s
IsCNumber(s) ==
    \/ IsUnsigned(Unsign(s))
    \/ \E k \in DOMAIN s :
          /\ s[k] \in Exponent
          /\ IsUnsigned(Unsign(SubSeq(s, 1, k - 1)))
          /\ Digits(Unsign(SubSeq(s, k + 1, Len(s))))


(* valueint is the number without its fraction, whichever its sign, or the *)
(* end of the range on its side.                                           *)
IsCutAndSaturated(n, v) ==
    LET up == IF v.scale > 0 THEN 10^v.scale ELSE 1
        down == IF v.scale < 0 THEN 10^(-v.scale) ELSE 1
        magnitude(x) == IF x < 0 THEN -x ELSE x
    IN  /\ n > 0 => v.mantissa > 0
        /\ n < 0 => v.mantissa < 0
        /\ magnitude(n) * down <= magnitude(v.mantissa) * up
        /\ n \notin {IntMin, IntMax} => magnitude(v.mantissa) * up < (magnitude(n) + 1) * down
        /\ n \in IntMin..IntMax

(* A number is as long as a C number can be that fits the temporary buffer *)
(* with its terminator, and nothing is written outside that buffer; it is  *)
(* cut towards zero, and at the ends of the range saturated (parse_number, *)
(* "use saturation in case of overflow").                                  *)
NumbersAreTaken ==
    source.kind = "number" =>
        LET fitting == {n \in 1..Len(text) : n < NumberBuffer /\ IsCNumber(Slice(text, 0, n))}
        IN  /\ pc = "start" => Len(NumberChars(text, 0)) + 1 <= NumberBuffer
            /\ pc = "rejected" => fitting = {} \/ outOfMemory
            /\ pc = "accepted" =>
                  /\ offset \in fitting /\ \A n \in fitting : n <= offset
                  /\ IsCutAndSaturated(mem.items[Root].valueint, Strtod(Slice(text, 0, offset)))
=============================================================================
