----------------------------- MODULE JsonMinify -----------------------------
(***************************************************************************)
(* cJSON_Minify: a text is copied over itself without its white space and  *)
(* comments.  One step for each turn of a loop.                            *)
(***************************************************************************)
EXTENDS Integers, Sequences

CONSTANT Char    \* what a text consists of

ASSUME CharAssumption == Char \subseteq 1..255

VARIABLES
    original, \* history: the text as it was
    text,     \* the array, the terminator included
    json,     \* where it is read
    into,     \* where it is written
    mode      \* the function and the loop: "text", "line", "block", "string", "done"

minifyVars == <<original, text, json, into, mode>>

Terminator == 0  Newline == 10  Quote == 34  Star == 42  Slash == 47  Backslash == 92
White == {32, 9, 13, Newline}

(* The character n behind json.                                            *)
Peek(n) == text[json + n + 1]

Begin(s) ==
    /\ original = s
    /\ text = s \o <<Terminator>>
    /\ json = 0 /\ into = 0
    /\ mode = "text"

(* n characters are read and not written, or written as they are.          *)
Drop(n, next) == json' = json + n /\ mode' = next /\ UNCHANGED <<original, text, into>>

Copy(n, next) ==
    /\ text' = [k \in DOMAIN text |-> IF k - 1 \in into..(into + n - 1) THEN text[k + json - into] ELSE text[k]]
    /\ json' = json + n /\ into' = into + n
    /\ mode' = next
    /\ UNCHANGED original

SkipWhite == mode = "text" /\ Peek(0) \in White /\ Drop(1, "text")

AtSlash == mode = "text" /\ Peek(0) = Slash

OpenLineComment  == AtSlash /\ Peek(1) = Slash /\ Drop(2, "line")
OpenBlockComment == AtSlash /\ Peek(1) = Star /\ Drop(2, "block")
LoneSlash        == AtSlash /\ Peek(1) \notin {Slash, Star} /\ Drop(1, "text")

skip_oneline_comment ==
    /\ mode = "line"
    /\ \/ Peek(0) = Terminator /\ Drop(0, "text")
       \/ Peek(0) = Newline /\ Drop(1, "text")
       \/ Peek(0) \notin {Terminator, Newline} /\ Drop(1, "line")

EndsBlock == Peek(0) = Star /\ Peek(1) = Slash

skip_multiline_comment_Fault ==
    /\ mode = "block"
    /\ \/ Peek(0) = Terminator /\ Drop(0, "text")
       \/ Peek(0) = Star /\ Drop(2, "text")
       \/ Peek(0) \notin {Terminator, Star} /\ Drop(1, "block")

skip_multiline_comment ==
    /\ mode = "block"
    /\ \/ Peek(0) = Terminator /\ Drop(0, "text")
       \/ EndsBlock /\ Drop(2, "text")
       \/ Peek(0) # Terminator /\ ~EndsBlock /\ Drop(1, "block")

OpenString == mode = "text" /\ Peek(0) = Quote /\ Copy(1, "string")

EscapesQuote == Peek(0) = Backslash /\ Peek(1) = Quote

minify_string_Fault ==
    /\ mode = "string"
    /\ \/ Peek(0) = Terminator /\ Drop(0, "text")
       \/ Peek(0) = Quote /\ Copy(1, "text")
       \/ Peek(0) \notin {Terminator, Quote} /\ Copy(1, "string")

minify_string ==
    /\ mode = "string"
    /\ \/ Peek(0) = Terminator /\ Drop(0, "text")
       \/ Peek(0) = Quote /\ Copy(1, "text")
       \/ EscapesQuote /\ Copy(2, "string")
       \/ Peek(0) \notin {Terminator, Quote} /\ ~EscapesQuote /\ Copy(1, "string")

CopyOther ==
    /\ mode = "text"
    /\ Peek(0) \notin White \cup {Slash, Quote, Terminator}
    /\ Copy(1, "text")

Terminate ==
    /\ mode = "text" /\ Peek(0) = Terminator
    /\ text' = [text EXCEPT ![into + 1] = Terminator]
    /\ mode' = "done"
    /\ UNCHANGED <<original, json, into>>

HasMinified == mode = "done" /\ UNCHANGED minifyVars

MinifyNext ==
    \/ SkipWhite \/ OpenLineComment \/ OpenBlockComment \/ LoneSlash
    \/ skip_oneline_comment \/ skip_multiline_comment
    \/ OpenString \/ minify_string \/ CopyOther
    \/ Terminate \/ HasMinified

MinifySpec == (\E s \in Seq(Char) : Begin(s)) /\ [][MinifyNext]_minifyVars

-----------------------------------------------------------------------------
(* The caller gets what is in front of the terminator.                     *)
Minified == SubSeq(text, 1, into)

(* Nothing is read behind the terminator, also by those that look one       *)
(* character ahead, and the text written in place never gets ahead of what  *)
(* is still to be read (the pointers that minify_string moves by two).      *)
WritesBehindReads ==
    /\ into <= json /\ json < Len(text)
    /\ mode # "done" => \A k \in json+1..Len(text) : text[k] = (original \o <<Terminator>>)[k]
=============================================================================
