------------------------------- MODULE PatchText -------------------------------
(***************************************************************************)
(* What PatchService of Code Builder V1 makes of a file's text             *)
(* (patch_service.py, _prepare_text_result): exact replacement, insertion  *)
(* at an anchor, replacement of lines, appending, and unified diffs, which *)
(* are applied line by line.  A text is a sequence of characters, "cr" and *)
(* "lf" among them, and "ff" for the others that end a line to splitlines  *)
(* (\x0b, \x0c, \x1c to \x1e, \x85, \u2028, \u2029); it may begin with  *)
(* "bom".                                                                  *)
(***************************************************************************)
EXTENDS Naturals, Sequences, FiniteSets, FiniteSetsExt, SequencesExt

CONSTANTS
    TextFiles,      \* texts of the file as it is stored
    TextRequests    \* operations: see NoOperation

\* ProposedPatchOperation.  `expect' is expected_occurrences, 0 for none
\* (nothing is found 0 times without a conflict); `mode' the newline mode and
\* `final' preserve_final_newline, "was" for none.
NoOperation ==
    [kind |-> "none", search |-> <<>>, content |-> <<>>, expect |-> 0,
     first |-> 1, last |-> 1, hunks |-> <<>>, mode |-> "was", final |-> "was"]

VARIABLES
    file,           \* the text as it is read
    operation,
    phase,          \* "idle", "asked", "diff", "made", "done" or "refused"
    result,         \* the text as it is to be
    hunk,           \* the hunk of the diff, and
    at,             \* the line of the hunk that comes next
    index           \* source_index: lines of the file that are dealt with

textVars == <<file, operation, phase, result, hunk, at, index>>

\* _decode_utf8: the mark is dropped, and no text is written with one.
Decoded(text) == IF text # <<>> /\ text[1] = "bom" THEN Tail(text) ELSE text

TextInit ==
    /\ file \in {Decoded(t) : t \in TextFiles} /\ operation = NoOperation
    /\ phase = "idle" /\ result = <<>>
    /\ hunk = 1 /\ at = 0 /\ index = 0

RefuseText == phase' = "refused" /\ UNCHANGED <<file, operation, result, hunk, at, index>>

(* ------------------------------- newlines ----------------------------- *)

LF == <<"lf">>
CRLF == <<"cr", "lf">>

\* _normalize_newlines
NormalNewlines(text, newline) ==
    LET made[i \in 0 .. Len(text)] ==
            IF i = 0 THEN <<>>
            ELSE IF text[i] \notin {"cr", "lf"} THEN Append(made[i - 1], text[i])
            ELSE IF text[i] = "lf" /\ i > 1 /\ text[i - 1] = "cr" THEN made[i - 1]
            ELSE made[i - 1] \o newline
    IN made[Len(text)]

\* _detect_newline: the one there is most of, CRLF before LF before CR.
Pairs(text) == {i \in 1 .. Len(text) - 1 : text[i] = "cr" /\ text[i + 1] = "lf"}
Newline(text) ==
    LET crlf == Cardinality(Pairs(text))
        lf == Cardinality({i \in DOMAIN text : text[i] = "lf"}) - crlf
        cr == Cardinality({i \in DOMAIN text : text[i] = "cr"}) - crlf
    IN IF crlf > 0 /\ crlf >= lf /\ crlf >= cr THEN CRLF
       ELSE IF cr > 0 /\ cr > lf THEN <<"cr">>
       ELSE LF

\* _select_output_newline
OutputNewline ==
    CASE operation.mode = "lf" -> LF
      [] operation.mode = "crlf" -> CRLF
      [] OTHER -> Newline(file)

EndsLine(text) == text # <<>> /\ Last(text) \in {"cr", "lf"}

\* All newlines at the end of a text are one to _set_final_newline.
Trimmed(text) ==
    SubSeq(text, 1, Max({0} \cup {i \in DOMAIN text : text[i] \notin {"cr", "lf"}}))

\* The lines of a text with their ends: str.splitlines(keepends=True) breaks it not at
\* newlines alone, split at "lf" only.
Breaks == {"lf", "ff"}
LinesOf(text, breaks) ==
    LET ends == {i \in DOMAIN text : text[i] \in breaks \/ i = Len(text)}
    IN [n \in 1 .. Cardinality(ends) |->
           LET to == CHOOSE i \in ends : Cardinality({j \in ends : j <= i}) = n
           IN SubSeq(text, Max({0} \cup {j \in ends : j < to}) + 1, to)]
WithoutEnd(line) == IF EndsLine(line) THEN Front(line) ELSE line

(* --------------------------- replace and insert ------------------------ *)

Found(s, i) == i + Len(s) - 1 <= Len(file) /\ SubSeq(file, i, i + Len(s) - 1) = s

\* Where str.replace replaces: from the left, never two over each other.
Places(s) ==
    LET taken[i \in 0 .. Len(file)] ==
            IF i = 0 THEN {}
            ELSE IF /\ Found(s, i)
                    /\ \A j \in taken[i - 1] : j + Len(s) <= i
            THEN taken[i - 1] \cup {i} ELSE taken[i - 1]
    IN taken[Len(file)]

Substituted(s, new) ==
    LET places == Places(s)
        made[i \in 0 .. Len(file)] ==
            IF i = 0 THEN <<>>
            ELSE IF \E p \in places : i = p + Len(s) - 1
            THEN made[i - 1] \o new
            ELSE IF \E p \in places : i \in p .. p + Len(s) - 1 THEN made[i - 1]
            ELSE Append(made[i - 1], file[i])
    IN made[Len(file)]

\* Without a number the text must be there once.
AsOftenAsExpected ==
    Cardinality(Places(operation.search))
        = IF operation.expect = 0 THEN 1 ELSE operation.expect

Asked(kinds) == phase = "asked" /\ operation.kind \in kinds
Make(text) ==
    /\ result' = text /\ phase' = "made"
    /\ UNCHANGED <<file, operation, hunk, at, index>>

\* _replace_text_exact and _insert_relative_to_text
Inserted ==
    CASE operation.kind = "replace_text" -> operation.content
      [] operation.kind = "insert_before" -> operation.content \o operation.search
      [] operation.kind = "insert_after" -> operation.search \o operation.content
Substitute ==
    /\ Asked({"replace_text", "insert_before", "insert_after"})
    /\ IF AsOftenAsExpected THEN Make(Substituted(operation.search, Inserted))
       ELSE RefuseText

\* append_text, prepend_text, create and replace_file
PutText ==
    /\ Asked({"append_text", "prepend_text", "replace_file"})
    /\ Make(CASE operation.kind = "append_text" -> file \o operation.content
              [] operation.kind = "prepend_text" -> operation.content \o file
              [] OTHER -> operation.content)

\* Lines are joined with a newline between them.
Joined(lines, newline) ==
    LET made[n \in 0 .. Len(lines)] ==
            IF n = 0 THEN <<>>
            ELSE IF n = 1 THEN lines[1] ELSE made[n - 1] \o newline \o lines[n]
    IN made[Len(lines)]
Logical(text) ==
    LET lines == LinesOf(NormalNewlines(text, LF), {"lf"})
    IN [n \in DOMAIN lines |-> WithoutEnd(lines[n])]

\* No text is one empty line.
LogicalLines(text) == IF text = <<>> THEN <<<<>>>> ELSE Logical(text)

ReplacedLines(lines) ==
    SubSeq(lines, 1, operation.first - 1) \o LogicalLines(operation.content)
    \o SubSeq(lines, operation.last + 1, Len(lines))

\* _replace_line_range
ReplaceRange ==
    /\ Asked({"replace_range"})
    /\ LET lines == LogicalLines(file)
       IN IF operation.last < operation.first \/ operation.last > Len(lines) THEN RefuseText
          ELSE Make(Joined(ReplacedLines(lines), OutputNewline)
                    \o IF EndsLine(file) THEN OutputNewline ELSE <<>>)

(* ------------------------------ unified diff --------------------------- *)

\* UnifiedDiffHunk: `start' is old_start, `honest' whether the counts of its header
\* are those of its lines; `text' is what is below the header, newlines being "lf".
\* A line is a mark and, as they are, the rest and the end, if it has one; that there
\* is no newline, which a line with a mark of its own says, is left out.
MarkOf(line) == line[1]
PayloadOf(line) == Tail(line)
HunkLines(h) == SelectSeq(LinesOf(h.text, Breaks), LAMBDA l : MarkOf(l) # "\\")
Source == LinesOf(NormalNewlines(file, LF), Breaks)
Hunk == operation.hunks[hunk]
Mark == MarkOf(HunkLines(Hunk)[at])
Payload == PayloadOf(HunkLines(Hunk)[at])
Offset(h) == IF h.start = 0 THEN 0 ELSE h.start - 1

\* _parse_unified_diff
WellMarked(h) == \A n \in DOMAIN HunkLines(h) : MarkOf(HunkLines(h)[n]) \in {" ", "-", "+"}
BeginDiff ==
    /\ Asked({"unified_diff"})
    /\ IF \E n \in DOMAIN operation.hunks : ~WellMarked(operation.hunks[n]) THEN RefuseText
       ELSE /\ phase' = "diff" /\ result' = <<>>
            /\ UNCHANGED <<file, operation, hunk, at, index>>

Diffing == phase = "diff" /\ hunk <= Len(operation.hunks)

\* Mutant: a hunk may start before what is dealt with.
BeginHunkAnywhere ==
    /\ Diffing /\ at = 0
    /\ IF Offset(Hunk) > Len(Source) THEN RefuseText
       ELSE /\ result' = result \o FlattenSeq(SubSeq(Source, index + 1, Offset(Hunk)))
            /\ index' = Offset(Hunk) /\ at' = 1
            /\ UNCHANGED <<file, operation, phase, hunk>>

\* Hunks are in order and do not overlap; what is between them is copied.
BeginHunk ==
    /\ Diffing /\ at = 0
    /\ IF Offset(Hunk) < index \/ Offset(Hunk) > Len(Source) THEN RefuseText
       ELSE /\ result' = result \o FlattenSeq(SubSeq(Source, index + 1, Offset(Hunk)))
            /\ index' = Offset(Hunk) /\ at' = 1
            /\ UNCHANGED <<file, operation, phase, hunk>>

InHunk == Diffing /\ at \in DOMAIN HunkLines(Hunk)

\* Context and deleted lines must be the file's; context is kept.
OldLine ==
    /\ InHunk /\ Mark \in {" ", "-"}
    /\ IF index >= Len(Source) \/ Source[index + 1] # Payload THEN RefuseText
       ELSE /\ result' = IF Mark = " " THEN result \o Payload ELSE result
            /\ index' = index + 1 /\ at' = at + 1
            /\ UNCHANGED <<file, operation, phase, hunk>>
NewLine ==
    /\ InHunk /\ Mark = "+"
    /\ result' = result \o Payload /\ at' = at + 1
    /\ UNCHANGED <<file, operation, phase, hunk, index>>

\* The counts of the header are compared at the end.
EndHunk ==
    /\ Diffing /\ at > Len(HunkLines(Hunk))
    /\ IF ~Hunk.honest THEN RefuseText
       ELSE hunk' = hunk + 1 /\ at' = 0 /\ UNCHANGED <<file, operation, phase, result, index>>

EndDiff ==
    /\ phase = "diff" /\ hunk > Len(operation.hunks)
    /\ Make(result \o FlattenSeq(SubSeq(Source, index + 1, Len(Source))))

(* -------------------------------------------------------------------- *)

AskText ==
    /\ phase = "idle" /\ operation' \in TextRequests /\ phase' = "asked"
    /\ UNCHANGED <<file, result, hunk, at, index>>

\* _select_final_newline_behavior
FinalNewline ==
    IF operation.final = "was" THEN EndsLine(file) ELSE operation.final = "yes"

\* The newlines of the whole text become one kind, and those at its end one.
FinishText ==
    /\ phase = "made" /\ phase' = "done"
    /\ result' = Trimmed(NormalNewlines(result, OutputNewline))
                 \o IF FinalNewline THEN OutputNewline ELSE <<>>
    /\ UNCHANGED <<file, operation, hunk, at, index>>

TextNext ==
    \/ AskText
    \/ Substitute
    \/ PutText
    \/ ReplaceRange
    \/ BeginDiff
    \/ BeginHunk
    \/ OldLine
    \/ NewLine
    \/ EndHunk
    \/ EndDiff
    \/ FinishText

(* ----------------------------- properties ----------------------------- *)

\* Texts are compared by their lines.
SameText(a, b) == Trimmed(NormalNewlines(a, LF)) = Trimmed(NormalNewlines(b, LF))
Done(kinds) == phase = "done" /\ operation.kind \in kinds

\* A text that cannot overlap itself and whose number is not given is replaced,
\* or inserted at, in the only place where it is, and the rest is kept.
Border(s, k) == SubSeq(s, 1, k) = SubSeq(s, Len(s) - k + 1, Len(s))
OnlyPlaceChanged ==
    /\ Done({"replace_text", "insert_before", "insert_after"}) /\ operation.expect = 0
    /\ \A k \in 1 .. Len(operation.search) - 1 : ~Border(operation.search, k)
    => \E i \in DOMAIN file :
          /\ {j \in DOMAIN file : Found(operation.search, j)} = {i}
          /\ SameText(result, SubSeq(file, 1, i - 1) \o Inserted
                              \o SubSeq(file, i + Len(operation.search), Len(file)))

\* Whatever newlines the file and the new lines have, lines outside a range
\* that is replaced are kept, in their places.
OtherLinesKept ==
    Done({"replace_range"}) /\ operation.content # <<>> =>
        LET lines == Logical(file) IN
        SameText(result, Joined(SubSeq(lines, 1, operation.first - 1)
                                \o Logical(operation.content)
                                \o SubSeq(lines, operation.last + 1, Len(lines)), LF))

\* What a diff says, from its last hunk to its first, so that none moves the
\* lines of another.  Its lines, and the file's, are those of splitlines.
OldLines(h) == SelectSeq(HunkLines(h), LAMBDA l : MarkOf(l) # "+")
NewLines(h) == SelectSeq(HunkLines(h), LAMBDA l : MarkOf(l) # "-")
Lines(marked) == [n \in DOMAIN marked |-> PayloadOf(marked[n])]
Fits(h) ==
    /\ h.honest /\ Offset(h) + Len(OldLines(h)) <= Len(Source)
    /\ SubSeq(Source, Offset(h) + 1, Offset(h) + Len(OldLines(h))) = Lines(OldLines(h))
Spliced ==
    LET hunks == operation.hunks
        made[n \in 0 .. Len(hunks)] ==
            IF n = 0 THEN Source
            ELSE LET h == hunks[Len(hunks) + 1 - n]
                 IN SubSeq(made[n - 1], 1, Offset(h)) \o Lines(NewLines(h))
                    \o SubSeq(made[n - 1], Offset(h) + Len(OldLines(h)) + 1,
                              Len(made[n - 1]))
    IN FlattenSeq(made[Len(hunks)])

\* A diff whose hunks all have a line of the file is refused, or every hunk is
\* found where it says and replaced, and the rest of the file is kept.  A diff
\* is refused only if a line of it has no mark, a hunk is not found, or they are not in
\* order.  If file and hunks end in a newline and nothing else ends lines, each line that
\* is made is one of the file or of the diff; a last line without one is joined to what
\* follows.
EndedByNewlines ==
    /\ "ff" \notin ToSet(file) /\ (file # <<>> => EndsLine(file))
    /\ \A n \in DOMAIN operation.hunks :
          LET text == operation.hunks[n].text
          IN "ff" \notin ToSet(text) /\ (text # <<>> => Last(text) = "lf")
LinesSaid ==
    ToSet(Logical(file)) \cup
        UNION {{WithoutEnd(Lines(NewLines(operation.hunks[n]))[i]) :
                   i \in DOMAIN NewLines(operation.hunks[n])} : n \in DOMAIN operation.hunks}
DiffSplices ==
    /\ Done({"unified_diff"}) /\ (\A n \in DOMAIN operation.hunks :
                                     OldLines(operation.hunks[n]) # <<>>) =>
          /\ \A n \in DOMAIN operation.hunks : Fits(operation.hunks[n])
          /\ SameText(result, Spliced)
    /\ Done({"unified_diff"}) /\ EndedByNewlines =>
          ToSet(Logical(Trimmed(result))) \subseteq LinesSaid \cup {<<>>}
    /\ phase = "refused" /\ operation.kind = "unified_diff" =>
          \/ \E n \in DOMAIN operation.hunks : ~WellMarked(operation.hunks[n])
          \/ \E n \in DOMAIN operation.hunks : ~Fits(operation.hunks[n])
          \/ \E n \in 2 .. Len(operation.hunks) :
                Offset(operation.hunks[n])
                    < Offset(operation.hunks[n - 1]) + Len(OldLines(operation.hunks[n - 1]))

\* The text that is made has newlines of one kind.
OneNewline == phase = "done" => NormalNewlines(result, OutputNewline) = result
=============================================================================
