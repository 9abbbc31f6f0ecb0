---------------------------- MODULE JsonRoundTrip ---------------------------
(***************************************************************************)
(* The printer's text goes to the parser, as when a program stores a tree  *)
(* and another one reads it, or through cJSON_Minify first.  Memory may run*)
(* out on both sides.                                                      *)
(***************************************************************************)
EXTENDS JsonPrinter, JsonMinify

CONSTANTS NumberBuffer, NestingLimit

VARIABLES parsed, position, depth, frames, mem, parserPc, error, parserOutOfMemory, overread

Parser == INSTANCE JsonParser WITH
    text <- parsed, offset <- position, pc <- parserPc, position <- error,
    outOfMemory <- parserOutOfMemory

parsing == <<parsed, position, depth, frames, mem, parserPc, error, parserOutOfMemory, overread>>
roundTripVars == <<printerVars, minifyVars, parsing>>

NotYetParsing ==
    /\ parsed = <<>>
    /\ position = 0 /\ depth = 0 /\ frames = <<>>
    /\ mem = Parser!EmptyMemory
    /\ parserPc = "waiting"
    /\ error = -1
    /\ parserOutOfMemory = FALSE /\ overread = FALSE

NotYetMinifying ==
    /\ original = <<>> /\ text = <<Terminator>>
    /\ json = 0 /\ into = 0
    /\ mode = "done"

RoundTripInit == Init /\ NotYetMinifying /\ NotYetParsing

(* All calls print the same text; one will do to go on with.               *)
Handable == pc = "returned" /\ result.ok /\ method[1] = "Print" /\ parserPc = "waiting"

Minify ==
    /\ Handable /\ format
    /\ original = <<>>
    /\ original' = result.text /\ text' = result.text \o <<Terminator>>
    /\ mode' = "text"
    /\ UNCHANGED <<printerVars, json, into, parsing>>

Parse ==
    /\ Handable
    /\ mode = "done"
    /\ parsed' = IF original = <<>> THEN result.text ELSE Minified
    /\ parserPc' = "start"
    /\ UNCHANGED <<printerVars, minifyVars, position, depth, frames, mem, error, parserOutOfMemory, overread>>

RoundTripNext ==
    \/ PrinterNext /\ UNCHANGED <<minifyVars, parsing>>
    \/ Minify
    \/ MinifyNext /\ UNCHANGED <<printerVars, parsing>>
    \/ Parse
    \/ Parser!Next /\ UNCHANGED <<printerVars, minifyVars>>

-----------------------------------------------------------------------------
(* The value of a parsed item, in the form that trees to print have.       *)
ValueOf(i) ==
    LET of[j \in DOMAIN mem.items] ==
            LET list == Parser!Children(mem, j)
                it   == mem.items[j]
            IN  CASE it.type = "Number" -> <<"Number", it.valueint>>
                  [] it.type = "String" -> <<"String", mem.strings[it.valuestring]>>
                  [] it.type = "Array"  -> <<"Array", [n \in DOMAIN list |-> of[list[n]]]>>
                  [] it.type = "Object" ->
                        <<"Object", [n \in DOMAIN list |->
                                        <<mem.strings[mem.items[list[n]].string], of[list[n]]>>]>>
                  [] OTHER -> <<it.type>>
    IN  of[i]

(* What was printed, formatted or not, or formatted and then minified,      *)
(* parses, as a whole, to the tree that was printed, escapes, names and     *)
(* order included; only memory can prevent that, for trees within the       *)
(* parser's nesting limit (print_value, cJSON_Minify and parse_value).      *)
(* Minifying can as well, where a string ends in a backslash: a run of its  *)
(* own shows how, and the others do not minify such strings.                *)
ParsesBack ==
    /\ parserPc = "accepted" => ValueOf(Parser!Root) = tree /\ position = Len(parsed)
    /\ parserPc = "rejected" => parserOutOfMemory
=============================================================================
