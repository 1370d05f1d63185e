---------------------------- MODULE UnifiedDiff ----------------------------
(***************************************************************************)
(* Patches of the constitution in unified diff format: how the chain        *)
(* validates and applies them (x/gov/types/unified_diff.go) and how the     *)
(* client drafts them (x/gov/client/utils/unified_diff.go).                 *)
(*                                                                          *)
(* A text is the sequence of its lines (strings.Split at the line breaks),  *)
(* so it has at least one line, and its last line is empty when it ends     *)
(* with a line break.  A patch is a sequence of hunks, each with the lines  *)
(* and spans of its header as written, counting lines from 1.               *)
(***************************************************************************)
EXTENDS Integers, SequencesExt

\* The line with nothing on it.  It is a string, which the provers do not know.
EmptyLine == ""

ASSUME EmptyLineAssumption == EmptyLine \in STRING

\* The mark of a line of a hunk: "=" is the blank in front of a line of context.  An
\* empty line has no mark and stands for nothing.
Marks == {"=", "-", "+", "none"}

HunkLine(texts) == [mark : Marks, content : texts]

Hunk(texts) ==
    [srcLine : Int, srcSpan : Nat, dstLine : Int, dstSpan : Nat,
     lines : Seq(HunkLine(texts))]

\* The text of the lines with these marks.
Side(lines, marks) ==
    FlattenSeq([i \in DOMAIN lines |->
                   IF lines[i].mark \in marks THEN <<lines[i].content>> ELSE <<>>])

\* What a hunk requires of the source, and what it puts in its place.
Before(hunk) == Side(hunk.lines, {"=", "-"})
After(hunk)  == Side(hunk.lines, {"=", "+"})

\* The header counts the lines of the hunk.
ValidateHunk(hunk) ==
    /\ Len(Before(hunk)) = hunk.srcSpan
    /\ Len(After(hunk)) = hunk.dstSpan

\* ParseUnifiedDiff returns no error: the lines have marks, the spans are not negative.
ParseUnifiedDiff(patch) ==
    /\ patch \in Seq(Hunk(STRING)) \ {<<>>}
    /\ \A i \in DOMAIN patch : ValidateHunk(patch[i])

\* Hunk.SrcLine: the header's line number, turned into a 0-based index.
ParseHunkHeader(hunk) == hunk.srcLine - 1

-----------------------------------------------------------------------------
(* applyHunks works through the source; it has copied or dropped srcIndex   *)
(* of its lines and collected the result so far, or has failed.             *)

Begin == [ok |-> TRUE, srcIndex |-> 0, result |-> <<>>]

Failed(st) == [st EXCEPT !.ok = FALSE]

\* Mutant of CopyUpTo: a hunk that starts behind the current line goes back to it.
CopyUpTo_Rewinds(src, st, n) ==
    [st EXCEPT !.result   = @ \o SubSeq(src, st.srcIndex + 1, n),
               !.srcIndex = n]

\* The unchanged lines before line n; none if the source is already past it.
CopyUpTo(src, st, n) ==
    [st EXCEPT !.result   = @ \o SubSeq(src, st.srcIndex + 1, n),
               !.srcIndex = IF n > @ THEN n ELSE @]

\* The current line of the source exists and reads text.
AtLine(src, st, text) == st.srcIndex < Len(src) /\ src[st.srcIndex + 1] = text

\* Mutant of ApplyLine: a deletion does not compare the line it deletes.
ApplyLine_DeletesAny(src, st, line) ==
    CASE ~st.ok \/ line.mark = "none" -> st
      [] line.mark = "+"           -> [st EXCEPT !.result = Append(@, line.content)]
      [] line.mark = "=" /\ AtLine(src, st, line.content)
                                   -> [st EXCEPT !.result = Append(@, line.content),
                                                 !.srcIndex = @ + 1]
      [] line.mark = "-" /\ st.srcIndex < Len(src)
                                   -> [st EXCEPT !.srcIndex = @ + 1]
      [] OTHER                     -> Failed(st)

\* One line of a hunk: context and deletions must match the source.
ApplyLine(src, st, line) ==
    CASE ~st.ok \/ line.mark = "none" -> st
      [] line.mark = "+"           -> [st EXCEPT !.result = Append(@, line.content)]
      [] line.mark = "=" /\ AtLine(src, st, line.content)
                                   -> [st EXCEPT !.result = Append(@, line.content),
                                                 !.srcIndex = @ + 1]
      [] line.mark = "-" /\ AtLine(src, st, line.content)
                                   -> [st EXCEPT !.srcIndex = @ + 1]
      [] OTHER                     -> Failed(st)

\* The states before the first and after each of the lines of a hunk.
LineStates(src, st, lines) ==
    LET after[i \in 0 .. Len(lines)] ==
          IF i = 0 THEN st ELSE ApplyLine(src, after[i - 1], lines[i])
    IN  after

ApplyHunk(src, st, hunk) ==
    IF ~st.ok \/ ParseHunkHeader(hunk) > Len(src)
    THEN Failed(st)
    ELSE LineStates(src, CopyUpTo(src, st, ParseHunkHeader(hunk)), hunk.lines)[Len(hunk.lines)]

\* The states before the first and after each of the hunks, in the order of the patch.
HunkStates(src, patch) ==
    LET after[i \in 0 .. Len(patch)] ==
          IF i = 0 THEN Begin ELSE ApplyHunk(src, after[i - 1], patch[i])
    IN  after

\* Mutant of ApplyHunks: the lines after the last hunk are lost.
ApplyHunks_DropsRest(src, patch) == HunkStates(src, patch)[Len(patch)]

\* The hunks, then the remaining lines of the source.
ApplyHunks(src, patch) ==
    LET end == HunkStates(src, patch)[Len(patch)]
    IN  [end EXCEPT !.result = @ \o SubSeq(src, end.srcIndex + 1, Len(src))]

\* Mutant of AsText: a text may have no lines.
AsText_NoLines(lines) == lines

\* The text the lines make when they are joined; no lines make the empty text.
AsText(lines) == IF lines = <<>> THEN <<EmptyLine>> ELSE lines

\* ApplyUnifiedDiff: the patched text, if ok.
ApplyUnifiedDiff(src, patch) ==
    IF ParseUnifiedDiff(patch)
    THEN LET end == ApplyHunks(src, patch)
         IN  [ok |-> end.ok, result |-> AsText(end.result)]
    ELSE [ok |-> FALSE, result |-> src]

-----------------------------------------------------------------------------
(* What a patch says, without walking through the source.                   *)

\* The last line of the source that a hunk is about, and that the first i hunks are about.
LastLine(hunk)    == hunk.srcLine + hunk.srcSpan - 1
HunkEnd(patch, i) == IF i = 0 THEN 0 ELSE LastLine(patch[i])

\* The hunks of a patch follow each other in the source.
InOrder(patch) ==
    \A i \in DOMAIN patch : HunkEnd(patch, i - 1) < patch[i].srcLine

\* What a hunk requires stands in the source at its line.
HunkFits(src, hunk) ==
    /\ LastLine(hunk) <= Len(src)
    /\ SubSeq(src, hunk.srcLine, LastLine(hunk)) = Before(hunk)

Fits(src, patch) == \A i \in DOMAIN patch : HunkFits(src, patch[i])

\* The text between the previous hunk and hunk i, and what hunk i puts after it.
Piece(src, patch, i) ==
    SubSeq(src, HunkEnd(patch, i - 1) + 1, patch[i].srcLine - 1) \o After(patch[i])

\* The source with every hunk replaced, the text between the hunks untouched.
Patched(src, patch) ==
    FlattenSeq([i \in DOMAIN patch |-> Piece(src, patch, i)])
      \o SubSeq(src, HunkEnd(patch, Len(patch)) + 1, Len(src))

-----------------------------------------------------------------------------
(* The client.                                                              *)

\* The text ends with a line break.
EndsWithBreak(text) == Len(text) > 1 /\ Last(text) = EmptyLine

\* The lines of a text after GenerateUnifiedDiff has added a missing line break.
ClientLines(text) == IF EndsWithBreak(text) THEN Front(text) ELSE text

\* What the text has after those lines.
FinalBreak(text) == IF EndsWithBreak(text) THEN <<EmptyLine>> ELSE <<>>

Marked(mark, content) == [mark |-> mark, content |-> content]

(***************************************************************************)
(* The edit scripts from a to b: the lines of both in order, each marked    *)
(* as kept, deleted or inserted.  Myers' algorithm returns one of the       *)
(* shortest.                                                                *)
(***************************************************************************)
EditScripts(a, b) ==
    LET script[p \in (0 .. Len(a)) \X (0 .. Len(b))] ==
          LET i == p[1]
              j == p[2]
          IN  IF i = 0 /\ j = 0 THEN {<<>>}
              ELSE (IF i > 0 /\ j > 0 /\ a[i] = b[j]
                      THEN {Append(s, Marked("=", a[i])) : s \in script[<<i - 1, j - 1>>]} ELSE {})
              \cup (IF i > 0
                      THEN {Append(s, Marked("-", a[i])) : s \in script[<<i - 1, j>>]} ELSE {})
              \cup (IF j > 0
                      THEN {Append(s, Marked("+", b[j])) : s \in script[<<i, j - 1>>]} ELSE {})
    IN  script[<<Len(a), Len(b)>>]

ShortestScripts(a, b) ==
    LET scripts == EditScripts(a, b)
    IN  {s \in scripts : \A t \in scripts : Len(s) <= Len(t)}

\* The lines of a script that are printed: each change with up to context unchanged
\* lines on either side.
Printed(script, context) ==
    {i \in 1 .. Len(script) :
        \E j \in 1 .. Len(script) : script[j].mark # "=" /\ j - i \in -context .. context}

\* Where the runs of consecutive numbers in S begin, and where the run from i ends.
RunStarts(S) == {i \in S : i - 1 \notin S}
RunEnd(S, i) == CHOOSE j \in S : j >= i /\ i .. j \subseteq S /\ j + 1 \notin S

\* The numbers of S up to n in ascending order.
Ascending(S, n) == FlattenSeq([i \in 1 .. n |-> IF i \in S THEN <<i>> ELSE <<>>])

\* The lines i .. j of a script as a hunk.
ScriptHunk(script, i, j) ==
    [srcLine |-> Len(Side(SubSeq(script, 1, i - 1), {"=", "-"})) + 1,
     srcSpan |-> Len(Side(SubSeq(script, i, j), {"=", "-"})),
     dstLine |-> Len(Side(SubSeq(script, 1, i - 1), {"=", "+"})) + 1,
     dstSpan |-> Len(Side(SubSeq(script, i, j), {"=", "+"})),
     lines   |-> SubSeq(script, i, j)]

\* A script as a patch: the runs of printed lines are the hunks.
ToUnified(script, context) ==
    LET printed == Printed(script, context)
        starts  == Ascending(RunStarts(printed), Len(script))
    IN  [k \in DOMAIN starts |-> ScriptHunk(script, starts[k], RunEnd(printed, starts[k]))]

\* The patches GenerateUnifiedDiff may return for the two texts.
GenerateUnifiedDiff(src, dst, context) ==
    {ToUnified(s, context) : s \in ShortestScripts(ClientLines(src), ClientLines(dst))}
=============================================================================
