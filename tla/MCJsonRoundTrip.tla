-------------------------- MODULE MCJsonRoundTrip ---------------------------
(***************************************************************************)
(* Trees to print: small ones with every kind of piece, for all calls with *)
(* buffers of every size up to the longest text, and others with every     *)
(* value of up to two children within each other, every kind of byte in    *)
(* strings, and names that need escapes.  Texts to minify: what is printed *)
(* with white space, and texts put together from pieces for which it is    *)
(* known what is left of them: white space, comments that look like        *)
(* strings, strings that look like comments, and both with escapes.        *)
(***************************************************************************)
EXTENDS JsonRoundTrip

CONSTANTS
    MaxPieces,          \* bound: pieces of a text to minify
    EscapedBackslash    \* whether strings that end in a backslash are minified

VARIABLE pieces         \* history: what the text to minify was put together from

vars == <<roundTripVars, pieces>>

MCChar == 1..255
MCSizes == 1..34

-----------------------------------------------------------------------------
(* Trees *)

Lists(values) == UNION {[1..n -> values] : n \in 0..2}
Arrays(values) == {<<"Array", list>> : list \in Lists(values)}
Objects(names, values) == {<<"Object", list>> : list \in Lists(names \X values)}

A == {<<97>>}
SmallLeaves == {<<"NULL">>, <<"Number", -12>>, <<"String", <<>>>>, <<"String", <<34, 97, 1>>>>}

SmallTrees ==
    SmallLeaves \cup Arrays(SmallLeaves) \cup Objects(A, SmallLeaves)
      \cup Arrays({<<"Object", << <<<<98>>, <<"True">>>> >>>>, <<"Array", <<<<"Number", 0>>>>>>})
      \cup Objects(A, {<<"False">>, <<"Number", 7>>, <<"Array", <<>>>>, <<"Object", <<>>>>})

Strings == {<<>>, <<Backslash, Quote>>, <<8, 12, 10>>, <<13, 9, Slash>>, <<1, 31>>,
            <<195, 169, 127>>, <<117, 48>>, <<Slash, Star, 32>>}
Leaves  == {<<"NULL">>, <<"True">>, <<"False">>, <<"Number", -12>>, <<"Number", 0>>}
             \cup {<<"String", s>> : s \in Strings}
Few == {<<"False">>, <<"String", <<93, 44>>>>, <<"Array", <<>>>>, <<"Object", <<>>>>,
        <<"Array", <<<<"Number", 1>>>>>>, <<"Object", << <<<<Quote>>, <<"True">>>> >>>>}

(* ["\\", "a b"]                                                           *)
EndsInBackslash == <<"Array", << <<"String", <<Backslash>>>>, <<"String", <<97, 32, 98>>>> >>>>

MCTrees ==
    SmallTrees \cup Leaves \cup Arrays(Leaves) \cup Arrays(Few) \cup Objects({<<97>>, <<10, 58>>}, Few)
      \cup {EndsInBackslash}

(* They and everything in them.                                            *)
In(value) ==
    CASE value[1] = "Array"  -> {value[2][n] : n \in DOMAIN value[2]}
      [] value[1] = "Object" -> {value[2][n][2] : n \in DOMAIN value[2]}
      [] OTHER               -> {}

WithParts(values) == values \cup UNION {In(value) : value \in values}
PrintedValues == WithParts(WithParts(MCTrees))

(* TLC evaluates a definition once, what a .cfg substitutes at every use.  *)
MCValues == PrintedValues

MCNesting[value \in MCValues] == 1 + Max({0} \cup {MCNesting[part] : part \in In(value)})

-----------------------------------------------------------------------------
(* Texts to minify *)

Kept(s)         == [written |-> s, left |-> s]
Replaced(s, by) == [written |-> s, left |-> by]
String(s)       == Kept(<<Quote>> \o s \o <<Quote>>)

Pieces ==
    { Kept(<<91, 49>>), Kept(<<44>>),
      Replaced(<<32>>, <<>>), Replaced(<<13, Newline>>, <<>>),
      Replaced(<<Slash, Slash, Quote, Newline>>, <<>>),
      Replaced(<<Slash, Star, Quote, Star, 32, Star, Slash>>, <<>>),
      Replaced(<<Slash, 49>>, <<49>>),
      String(<<97, 32>>), String(<<Slash, Slash>>), String(<<Slash, Star>>),
      String(<<Backslash, Quote, 32>>), String(<<Backslash, 110, 9>>) }

(* Whatever else the text ends with, a comment or string may be cut off.   *)
CutOff == { Replaced(<<>>, <<>>), Replaced(<<Slash, Slash, 49>>, <<>>),
            Replaced(<<Slash, Star, 32, Star>>, <<>>), Kept(<<Quote, 32, Backslash>>) }

(* The printer has nothing to do then.                                     *)
OnlyMinifying ==
    /\ tree = <<"NULL">> /\ format = FALSE /\ method = <<"Print", DefaultSize>>
    /\ reallocates = FALSE
    /\ steps = <<>> /\ offset = 0 /\ buffer = <<>> /\ present = FALSE /\ blocks = 0
    /\ outOfMemory = FALSE /\ inside = TRUE
    /\ pc = "idle" /\ result = [ok |-> FALSE, text |-> <<>>]
    /\ pieces \in {Append(s, last) : s \in BoundedSeq(Pieces, MaxPieces), last \in CutOff}
    /\ Begin(FlattenSeq([n \in DOMAIN pieces |-> pieces[n].written]))
    /\ NotYetParsing

MCInit ==
    \/ OnlyMinifying
    \/ /\ pieces = <<>>
       /\ tree \in Trees /\ method \in Methods
       /\ tree \in SmallTrees \/ method[1] = "Print"
       /\ RoundTripInit
       /\ tree = EndsInBackslash /\ format => EscapedBackslash

MCSpec == MCInit /\ [][RoundTripNext /\ UNCHANGED pieces]_vars

-----------------------------------------------------------------------------
Left ==
    IF pieces # <<>> THEN FlattenSeq([n \in DOMAIN pieces |-> pieces[n].left])
    ELSE IF original = <<>> THEN <<>>
    ELSE PrintedText(tree, FALSE)

(* White space and comments go, and a slash on its own; everything else     *)
(* stays, strings with what looks like any of these included: a formatted   *)
(* text turns into the unformatted one of the same tree ("remove blank      *)
(* characters(such as ' ', '\t', '\r', '\n') from strings", cJSON.h, of     *)
(* texts).  No string ends in an escaped backslash here: see ParsesBack.    *)
MinifiedIsDense == mode = "done" => Minified = Left
=============================================================================
