--------------------------- MODULE StructuredAnswer ---------------------------
(***************************************************************************)
(* How version 1 finds the JSON in what a model answers                    *)
(* (OllamaService.parse_structured_content, ollama_service.py): the whole  *)
(* answer if it is JSON, else what _extract_balanced_json cuts out of it.  *)
(* Characters are those it distinguishes, and "x" for the others.          *)
(***************************************************************************)
EXTENDS Naturals, Sequences, SequencesExt

CONSTANTS
    Values,         \* texts of JSON objects and arrays
    Before,         \* what a model may write before one,
    After           \* and after it

VARIABLES
    value,          \* the value in the answer
    answer,         \* the answer: a sequence of characters
    place,          \* the next character
    start,          \* where the value was taken to start; 0 before
    depth, inString, escaped,
    cut             \* what has been cut out: a set of at most one text

answerVars == <<value, answer, place, start, depth, inString, escaped, cut>>

\* _remove_json_code_fence and strip have been there.
AnswerInit ==
    /\ value \in Values
    /\ answer \in {b \o value \o a : b \in Before, a \in After}
    /\ place = 1 /\ start = 0 /\ depth = 0
    /\ inString = FALSE /\ escaped = FALSE /\ cut = {}

Here == answer[place]
Opening == answer[start]
Closing == IF Opening = "{" THEN "}" ELSE "]"

\* json.loads takes the whole answer.
TakeWhole ==
    /\ place = 1 /\ cut = {} /\ answer = value
    /\ cut' = {answer}
    /\ UNCHANGED <<value, answer, place, start, depth, inString, escaped>>

Scanning == cut = {} /\ place <= Len(answer) /\ answer # value
Advance == place' = place + 1

Seek ==
    /\ Scanning /\ start = 0 /\ Advance
    /\ IF Here \in {"{", "["} THEN start' = place /\ depth' = 1
       ELSE UNCHANGED <<start, depth>>
    /\ UNCHANGED <<value, answer, inString, escaped, cut>>

InText ==
    /\ Scanning /\ start > 0 /\ inString /\ Advance
    /\ escaped' = (~escaped /\ Here = "\\")
    /\ inString' = (escaped \/ Here # "\"")
    /\ UNCHANGED <<value, answer, start, depth, cut>>
Bracket ==
    /\ Scanning /\ start > 0 /\ ~inString /\ Advance
    /\ inString' = (Here = "\"")
    /\ depth' = IF Here = Opening THEN depth + 1
                ELSE IF Here = Closing THEN depth - 1 ELSE depth
    /\ cut' = IF depth' = 0 THEN {SubSeq(answer, start, place)} ELSE cut
    /\ UNCHANGED <<value, answer, start, escaped>>

AnswerNext == TakeWhole \/ Seek \/ InText \/ Bracket

(* ----------------------------- properties ----------------------------- *)

\* A value that is the first with a bracket is cut out whole, whatever strings
\* and brackets are in it and whatever follows, and it is always found.
ValueIsCut == (\A text \in cut : text = value) /\ (place > Len(answer) => cut # {})
=============================================================================
