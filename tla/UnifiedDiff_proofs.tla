------------------------- MODULE UnifiedDiff_proofs -------------------------
(***************************************************************************)
(* What a patch does to a text, for every text and every patch, and what    *)
(* the drafts of the client do to the text they are drafted from.           *)
(***************************************************************************)
EXTENDS UnifiedDiff, Sums_proofs, SequenceTheorems

-----------------------------------------------------------------------------
(* Iteration *)

\* f carries a state in S from base through the steps F[1] .. F[n].
Carries(f, S, n, base, F) ==
    /\ f \in [0 .. n -> S]
    /\ f[0] = base
    /\ \A i \in 1 .. n : f[i] = F[i][f[i - 1]]

LEMMA IterationExists ==
    ASSUME NEW S, NEW n \in Nat, NEW base \in S, NEW F \in [1 .. n -> [S -> S]]
    PROVE  \E f : Carries(f, S, n, base, F)
<1> DEFINE Good(m) == \E f \in [0 .. m -> S] :
                         f[0] = base /\ \A i \in 1 .. m : f[i] = F[i][f[i - 1]]
           P == {m \in 0 .. n : Good(m)}
<1>1. 0 \in P
  <2> DEFINE f == [i \in 0 .. 0 |-> base]
  <2>1. f \in [0 .. 0 -> S] /\ f[0] = base /\ \A i \in 1 .. 0 : f[i] = F[i][f[i - 1]]
    OBVIOUS
  <2>2. Good(0)
    BY <2>1
  <2> QED
    BY <2>2
<1>2. ASSUME NEW m \in 1 .. n, m - 1 \in P PROVE m \in P
  <2>1. PICK f \in [0 .. m - 1 -> S] :
           f[0] = base /\ \A i \in 1 .. m - 1 : f[i] = F[i][f[i - 1]]
    BY <1>2
  <2> DEFINE g == [i \in 0 .. m |-> IF i = m THEN F[m][f[m - 1]] ELSE f[i]]
  <2>2. F[m][f[m - 1]] \in S
    BY <2>1
  <2>3. g \in [0 .. m -> S]
    BY <2>1, <2>2
  <2>4. g[0] = base
    BY <2>1
  <2>5. \A i \in 1 .. m : g[i] = F[i][g[i - 1]]
    BY <2>1
  <2>6. Good(m)
    BY <2>3, <2>4, <2>5
  <2> HIDE DEF Good
  <2> QED
    BY <2>6
<1> HIDE DEF P
<1>3. \A i \in 0 .. n : i \in P
  BY <1>1, <1>2, InductionUpTo
<1>4. n \in P
  BY <1>3
<1> QED
  BY <1>4 DEF P, Carries

-----------------------------------------------------------------------------
(* The states of applyHunks *)

\* A line is a string.  The provers do not know that the empty one is.
Line == STRING \cup {EmptyLine}
Text == Seq(Line)

State(src) == [ok : BOOLEAN, srcIndex : 0 .. Len(src), result : Text]

\* A state is its three fields.
LEMMA StateFields ==
    ASSUME NEW src \in Text, NEW st \in State(src)
    PROVE  /\ st = [ok |-> st.ok, srcIndex |-> st.srcIndex, result |-> st.result]
           /\ st.ok \in BOOLEAN /\ st.srcIndex \in 0 .. Len(src) /\ st.result \in Text
           /\ Len(src) \in Nat
BY DEF State, Text

LEMMA FailedType ==
    ASSUME NEW src \in Text, NEW st \in State(src)
    PROVE  Failed(st) \in State(src) /\ ~Failed(st).ok
BY DEF State, Failed

\* What a line does to a state.
LEMMA ApplyLineType ==
    ASSUME NEW src \in Text, NEW st \in State(src), NEW line \in HunkLine(STRING)
    PROVE  ApplyLine(src, st, line) \in State(src)
<1> DEFINE new == ApplyLine(src, st, line)
<1>1. /\ st.ok \in BOOLEAN /\ st.srcIndex \in 0 .. Len(src) /\ st.result \in Text
      /\ Len(src) \in Nat /\ line.content \in Line
  BY StateFields DEF HunkLine, Line
<1>2. Append(st.result, line.content) \in Text
  BY <1>1 DEF Text
<1>3. AtLine(src, st, line.content) => st.srcIndex + 1 \in 0 .. Len(src)
  BY <1>1 DEF AtLine
<1>4. [st EXCEPT !.result = Append(@, line.content)] \in State(src)
  BY <1>1, <1>2 DEF State
<1>5. AtLine(src, st, line.content) =>
         /\ [st EXCEPT !.result = Append(@, line.content), !.srcIndex = @ + 1] \in State(src)
         /\ [st EXCEPT !.srcIndex = @ + 1] \in State(src)
  BY <1>1, <1>2, <1>3 DEF State
<1> QED
  BY <1>4, <1>5, FailedType DEF ApplyLine

\* The lines of a hunk are applied one after the other.
LEMMA LineStatesDef ==
    ASSUME NEW src \in Text, NEW st \in State(src), NEW lines \in Seq(HunkLine(STRING)),
           NEW f, f = LineStates(src, st, lines)
    PROVE  /\ f \in [0 .. Len(lines) -> State(src)]
           /\ f[0] = st
           /\ \A i \in 1 .. Len(lines) : f[i] = ApplyLine(src, f[i - 1], lines[i])
<1> DEFINE n == Len(lines)
           S == State(src)
           F == [i \in 1 .. n |-> [s \in S |-> ApplyLine(src, s, lines[i])]]
<1>1. n \in Nat /\ \A i \in 1 .. n : lines[i] \in HunkLine(STRING)
  OBVIOUS
<1>2. F \in [1 .. n -> [S -> S]]
  BY <1>1, ApplyLineType
<1> HIDE DEF n, S
<1>3. PICK g : Carries(g, S, n, st, F)
  <2>1. st \in S /\ n \in Nat
    BY <1>1 DEF S
  <2> HIDE DEF F
  <2> QED
    BY <1>2, <2>1, IterationExists
<1>4. /\ g \in [0 .. n -> S] /\ g[0] = st
      /\ \A i \in 1 .. n : g[i] = F[i][g[i - 1]]
  BY <1>3, Zenon DEF Carries
<1>5. g = [i \in 0 .. n |-> IF i = 0 THEN st ELSE ApplyLine(src, g[i - 1], lines[i])]
  <2>1. \A i \in 1 .. n : g[i] = ApplyLine(src, g[i - 1], lines[i])
    BY <1>1, <1>4
  <2> QED
    BY <1>1, <1>4, <2>1
<1> DEFINE Rec(h) == h = [i \in 0 .. n |-> IF i = 0 THEN st
                                           ELSE ApplyLine(src, h[i - 1], lines[i])]
<1>6. f = CHOOSE h : Rec(h)
  BY DEF LineStates, n
<1>7. Rec(f)
  BY <1>5, <1>6
<1>8. f[0] = st /\ \A i \in 1 .. n : f[i] = ApplyLine(src, f[i - 1], lines[i])
  BY <1>1, <1>7
<1> DEFINE P == {i \in 0 .. n : f[i] \in S}
<1>9. \A i \in 0 .. n : i \in P
  <2>1. 0 \in P
    BY <1>1, <1>8 DEF S
  <2>2. \A i \in 1 .. n : i - 1 \in P => i \in P
    BY <1>1, <1>8, ApplyLineType DEF S
  <2> HIDE DEF P
  <2> QED
    BY <1>1, <2>1, <2>2, InductionUpTo
<1>10. f \in [0 .. n -> S]
  BY <1>7, <1>9
<1> QED
  BY <1>8, <1>10 DEF n, S

LEMMA TextAssociative ==
    ASSUME NEW r \in Text, NEW s \in Text, NEW t \in Text
    PROVE  (r \o s) \o t = r \o (s \o t)
<1>1. r \in Seq(Line) /\ s \in Seq(Line) /\ t \in Seq(Line)
  BY DEF Text
<1> QED
  BY <1>1, ConcatAssociative

\* The text before a line is copied from the source, which is not yet past it.
LEMMA CopyUpToType ==
    ASSUME NEW src \in Text, NEW st \in State(src), NEW n \in Int, n <= Len(src)
    PROVE  /\ CopyUpTo(src, st, n) \in State(src)
           /\ CopyUpTo(src, st, n).ok = st.ok
           /\ CopyUpTo(src, st, n).srcIndex = IF n > st.srcIndex THEN n ELSE st.srcIndex
           /\ CopyUpTo(src, st, n).result = st.result \o SubSeq(src, st.srcIndex + 1, n)
           /\ SubSeq(src, st.srcIndex + 1, n) \in Text
<1>1. /\ st.ok \in BOOLEAN /\ st.srcIndex \in 0 .. Len(src) /\ st.result \in Text
      /\ Len(src) \in Nat
  BY StateFields
<1>2. SubSeq(src, st.srcIndex + 1, n) \in Text
  <2>1. CASE n < st.srcIndex + 1
    BY <1>1, <2>1, SubSeqEmpty, EmptySeq DEF Text
  <2>2. CASE ~(n < st.srcIndex + 1)
    BY <1>1, <2>2, SubSeqProperties DEF Text
  <2> QED
    BY <2>1, <2>2
<1>3. st.result \o SubSeq(src, st.srcIndex + 1, n) \in Text
  BY <1>1, <1>2, ConcatProperties DEF Text
<1> DEFINE text == st.result \o SubSeq(src, st.srcIndex + 1, n)
           at   == IF n > st.srcIndex THEN n ELSE st.srcIndex
<1>4. at \in 0 .. Len(src)
  BY <1>1
<1>5. CopyUpTo(src, st, n) = [st EXCEPT !.result = text, !.srcIndex = at]
  BY DEF CopyUpTo
<1>6. text \in Text
  BY <1>3
<1> HIDE DEF text, at
<1>7. /\ CopyUpTo(src, st, n) \in State(src) /\ CopyUpTo(src, st, n).ok = st.ok
      /\ CopyUpTo(src, st, n).srcIndex = at /\ CopyUpTo(src, st, n).result = text
  <2> DEFINE new == [st EXCEPT !.result = text, !.srcIndex = at]
  <2>1. /\ new \in State(src) /\ new.ok = st.ok
        /\ new.srcIndex = at /\ new.result = text
    BY <1>4, <1>6 DEF State
  <2> HIDE DEF new
  <2>2. CopyUpTo(src, st, n) = new
    BY <1>5 DEF new
  <2> QED
    BY <2>1, <2>2
<1> QED
  BY <1>2, <1>7 DEF text, at

LEMMA HunkParts ==
    ASSUME NEW hunk \in Hunk(STRING)
    PROVE  /\ hunk.lines \in Seq(HunkLine(STRING)) /\ Len(hunk.lines) \in Nat
           /\ hunk.srcLine \in Int /\ ParseHunkHeader(hunk) \in Int
           /\ hunk.srcSpan \in Nat
BY DEF Hunk, ParseHunkHeader

LEMMA ApplyHunkType ==
    ASSUME NEW src \in Text, NEW st \in State(src), NEW hunk \in Hunk(STRING)
    PROVE  ApplyHunk(src, st, hunk) \in State(src)
<1> DEFINE n     == ParseHunkHeader(hunk)
           start == CopyUpTo(src, st, n)
           f     == LineStates(src, start, hunk.lines)
<1>1. /\ hunk.lines \in Seq(HunkLine(STRING)) /\ Len(hunk.lines) \in Nat /\ n \in Int
      /\ Len(src) \in Nat
  BY HunkParts, StateFields
<1> HIDE DEF n
<1>2. CASE ~st.ok \/ n > Len(src)
  BY <1>2, FailedType DEF ApplyHunk, n
<1>3. CASE ~(~st.ok \/ n > Len(src))
  <2>1. start \in State(src)
    BY <1>1, <1>3, CopyUpToType
  <2>2. f[Len(hunk.lines)] \in State(src)
    <3> HIDE DEF start
    <3>1. f \in [0 .. Len(hunk.lines) -> State(src)]
      BY <1>1, <2>1, LineStatesDef
    <3> HIDE DEF f
    <3> QED
      BY <1>1, <3>1
  <2>3. ApplyHunk(src, st, hunk) = f[Len(hunk.lines)]
    BY <1>3 DEF ApplyHunk, n
  <2> QED
    BY <2>2, <2>3
<1> QED
  BY <1>2, <1>3

LEMMA BeginType ==
    ASSUME NEW src \in Text
    PROVE  Begin \in State(src)
BY DEF Begin, State, Text

\* The hunks of a patch are applied one after the other.
LEMMA HunkStatesDef ==
    ASSUME NEW src \in Text, NEW patch \in Seq(Hunk(STRING)),
           NEW f, f = HunkStates(src, patch)
    PROVE  /\ f \in [0 .. Len(patch) -> State(src)]
           /\ f[0] = Begin
           /\ \A i \in 1 .. Len(patch) : f[i] = ApplyHunk(src, f[i - 1], patch[i])
<1> DEFINE n == Len(patch)
           S == State(src)
           F == [i \in 1 .. n |-> [s \in S |-> ApplyHunk(src, s, patch[i])]]
<1>1. n \in Nat /\ \A i \in 1 .. n : patch[i] \in Hunk(STRING)
  OBVIOUS
<1>2. F \in [1 .. n -> [S -> S]]
  BY <1>1, ApplyHunkType
<1> HIDE DEF n, S
<1>3. PICK g : Carries(g, S, n, Begin, F)
  <2>1. Begin \in S /\ n \in Nat
    BY <1>1, BeginType DEF S
  <2> HIDE DEF F
  <2> QED
    BY <1>2, <2>1, IterationExists
<1>4. /\ g \in [0 .. n -> S] /\ g[0] = Begin
      /\ \A i \in 1 .. n : g[i] = F[i][g[i - 1]]
  BY <1>3, Zenon DEF Carries
<1>5. g = [i \in 0 .. n |-> IF i = 0 THEN Begin ELSE ApplyHunk(src, g[i - 1], patch[i])]
  <2>1. \A i \in 1 .. n : g[i] = ApplyHunk(src, g[i - 1], patch[i])
    BY <1>1, <1>4
  <2> QED
    BY <1>1, <1>4, <2>1
<1> DEFINE Rec(h) == h = [i \in 0 .. n |-> IF i = 0 THEN Begin
                                           ELSE ApplyHunk(src, h[i - 1], patch[i])]
<1>6. f = CHOOSE h : Rec(h)
  BY DEF HunkStates, n
<1>7. Rec(f)
  BY <1>5, <1>6
<1>8. f[0] = Begin /\ \A i \in 1 .. n : f[i] = ApplyHunk(src, f[i - 1], patch[i])
  BY <1>1, <1>7
<1> DEFINE P == {i \in 0 .. n : f[i] \in S}
<1>9. \A i \in 0 .. n : i \in P
  <2>1. 0 \in P
    BY <1>1, <1>8, BeginType DEF S
  <2>2. \A i \in 1 .. n : i - 1 \in P => i \in P
    BY <1>1, <1>8, ApplyHunkType DEF S
  <2> HIDE DEF P
  <2> QED
    BY <1>1, <2>1, <2>2, InductionUpTo
<1>10. f \in [0 .. n -> S]
  BY <1>7, <1>9
<1> QED
  BY <1>8, <1>10 DEF n, S

-----------------------------------------------------------------------------
(* The text in progress *)

\* What is collected so far and what is left of the source, taken together.
Whole(src, st) == st.result \o SubSeq(src, st.srcIndex + 1, Len(src))

\* Copying lines does not change it, whether the hunk starts at, behind or before the
\* current line.
LEMMA CopyKeepsWhole ==
    ASSUME NEW src \in Text, NEW st \in State(src), NEW n \in Int, n <= Len(src)
    PROVE  Whole(src, CopyUpTo(src, st, n)) = Whole(src, st)
<1> DEFINE k == st.srcIndex
           r == st.result
<1>1. /\ k \in 0 .. Len(src) /\ r \in Text /\ Len(src) \in Nat
  BY StateFields
<1> HIDE DEF k, r
<1>2. /\ CopyUpTo(src, st, n).srcIndex = IF n > k THEN n ELSE k
      /\ CopyUpTo(src, st, n).result = r \o SubSeq(src, k + 1, n)
  BY CopyUpToType DEF k, r
<1>3. CASE n <= k
  <2>1. SubSeq(src, k + 1, n) = <<>>
    BY <1>1, <1>3, SubSeqEmpty
  <2>2. r \o <<>> = r
    BY <1>1, ConcatEmptySeq DEF Text
  <2>3. CopyUpTo(src, st, n).srcIndex = k /\ CopyUpTo(src, st, n).result = r
    <3>1. (IF n > k THEN n ELSE k) = k
      BY <1>1, <1>3
    <3>2. CopyUpTo(src, st, n).srcIndex = k
      BY <1>2, <3>1, Zenon
    <3> QED
      BY <1>2, <2>1, <2>2, <3>2, Zenon
  <2> QED
    BY <2>3 DEF Whole, k, r
<1>4. CASE n > k
  <2> DEFINE a == SubSeq(src, k + 1, n)
             b == SubSeq(src, n + 1, Len(src))
  <2>1. a \in Text /\ b \in Text
    <3>1. a \in Text
      BY <1>1, <1>4, SubSeqProperties DEF Text
    <3>2. b \in Text
      <4>1. CASE n = Len(src)
        BY <1>1, <4>1, SubSeqEmpty, EmptySeq DEF Text
      <4>2. CASE n < Len(src)
        BY <1>1, <1>4, <4>2, SubSeqProperties DEF Text
      <4> QED
        BY <1>1, <4>1, <4>2
    <3> QED
      BY <3>1, <3>2
  <2>2. a \o b = SubSeq(src, k + 1, Len(src))
    <3>1. src \in Seq(Line) /\ Len(src) \in n .. Len(src)
      BY <1>1 DEF Text
    <3>2. k + 1 \in 1 .. Len(src) + 1 /\ n \in (k + 1) - 1 .. Len(src)
      BY <1>1, <1>4
    <3> QED
      BY <3>1, <3>2, ConcatAdjacentSubSeq, Zenon
  <2> HIDE DEF a, b
  <2>3. (r \o a) \o b = r \o (a \o b)
    BY <1>1, <2>1, TextAssociative
  <2> QED
    BY <1>2, <1>4, <2>2, <2>3 DEF Whole, a, b, k, r
<1> QED
  BY <1>1, <1>3, <1>4

-----------------------------------------------------------------------------
(* Counting lines *)

\* How often y occurs among the first n elements.
OccursUpTo(seq, n, y) == Cardinality({i \in 1 .. n : seq[i] = y})

LEMMA OccursUpToStep ==
    ASSUME NEW seq, NEW n \in Nat \ {0}, NEW y
    PROVE  /\ OccursUpTo(seq, n - 1, y) \in Nat /\ OccursUpTo(seq, n, y) \in Nat
           /\ OccursUpTo(seq, n, y) = OccursUpTo(seq, n - 1, y) + (IF seq[n] = y THEN 1 ELSE 0)
<1> DEFINE A == {i \in 1 .. n - 1 : seq[i] = y}
           B == {i \in 1 .. n : seq[i] = y}
<1>1. IsFiniteSet(A) /\ Cardinality(A) \in Nat
  <2>1. IsFiniteSet(1 .. n - 1)
    BY FS_Interval
  <2> QED
    BY <2>1, FS_Subset, FS_CardinalityType
<1>2. n \notin A
  OBVIOUS
<1>3. CASE seq[n] = y
  <2>1. B = A \cup {n}
    BY <1>3
  <2>2. Cardinality(A \cup {n}) = Cardinality(A) + 1
    BY <1>1, <1>2, FS_AddElement
  <2> QED
    BY <1>1, <1>3, <2>1, <2>2 DEF OccursUpTo
<1>4. CASE seq[n] # y
  <2>1. B = A
    BY <1>4
  <2> QED
    BY <1>1, <1>4, <2>1 DEF OccursUpTo
<1> QED
  BY <1>3, <1>4

LEMMA OccursUpToZero ==
    ASSUME NEW seq, NEW y
    PROVE  OccursUpTo(seq, 0, y) = 0
<1>1. {i \in 1 .. 0 : seq[i] = y} = {}
  OBVIOUS
<1> QED
  BY <1>1, FS_EmptySet DEF OccursUpTo

LEMMA OccurrencesAll ==
    ASSUME NEW S, NEW seq \in Seq(S), NEW y
    PROVE  /\ Len(seq) \in Nat
           /\ Occurrences(seq, y) = OccursUpTo(seq, Len(seq), y)
           /\ Occurrences(seq, y) \in Nat
<1>1. DOMAIN seq = 1 .. Len(seq) /\ Len(seq) \in Nat
  OBVIOUS
<1>2. IsFiniteSet(1 .. Len(seq))
  BY <1>1, FS_Interval
<1>3. IsFiniteSet({i \in 1 .. Len(seq) : seq[i] = y})
  BY <1>2, FS_Subset
<1> QED
  BY <1>1, <1>3, FS_CardinalityType DEF Occurrences, OccursUpTo

\* One sequence behind the other.
LEMMA OccurrencesConcat ==
    ASSUME NEW S, NEW s \in Seq(S), NEW t \in Seq(S), NEW y
    PROVE  Occurrences(s \o t, y) = Occurrences(s, y) + Occurrences(t, y)
<1> DEFINE m == Len(s)
           n == Len(t)
           c == s \o t
           P == {j \in 0 .. n : OccursUpTo(c, m + j, y) = Occurrences(s, y) + OccursUpTo(t, j, y)}
<1>1. /\ m \in Nat /\ n \in Nat /\ c \in Seq(S) /\ Len(c) = m + n
      /\ \A i \in 1 .. m : c[i] = s[i]
      /\ \A j \in 1 .. n : c[m + j] = t[j]
  OBVIOUS
<1> HIDE DEF m, n, c
<1>2. 0 \in P
  <2>1. {i \in 1 .. m + 0 : c[i] = y} = {i \in 1 .. m : s[i] = y}
    BY <1>1
  <2>2. OccursUpTo(c, m + 0, y) = OccursUpTo(s, m, y)
    BY <2>1 DEF OccursUpTo
  <2>3. Occurrences(s, y) = OccursUpTo(s, m, y) /\ Occurrences(s, y) \in Nat
    BY OccurrencesAll DEF m
  <2> QED
    BY <1>1, <2>2, <2>3, OccursUpToZero
<1>3. ASSUME NEW j \in 1 .. n, j - 1 \in P PROVE j \in P
  <2>1. m + j \in Nat \ {0} /\ (m + j) - 1 = m + (j - 1) /\ j \in Nat \ {0}
    BY <1>1
  <2>2. OccursUpTo(c, m + j, y) = OccursUpTo(c, m + (j - 1), y) + (IF c[m + j] = y THEN 1 ELSE 0)
    BY <2>1, OccursUpToStep
  <2>3. OccursUpTo(t, j, y) = OccursUpTo(t, j - 1, y) + (IF t[j] = y THEN 1 ELSE 0)
    BY <2>1, OccursUpToStep
  <2>4. c[m + j] = t[j] /\ Occurrences(s, y) \in Nat /\ OccursUpTo(t, j - 1, y) \in Nat
    BY <1>1, <2>1, OccurrencesAll, OccursUpToStep
  <2>5. OccursUpTo(c, m + (j - 1), y) = Occurrences(s, y) + OccursUpTo(t, j - 1, y)
    BY <1>3
  <2> QED
    BY <2>2, <2>3, <2>4, <2>5
<1> HIDE DEF P
<1>4. \A j \in 0 .. n : j \in P
  BY <1>1, <1>2, <1>3, InductionUpTo
<1>5. OccursUpTo(c, m + n, y) = Occurrences(s, y) + OccursUpTo(t, n, y)
  BY <1>1, <1>4 DEF P
<1>6. Occurrences(c, y) = OccursUpTo(c, m + n, y) /\ Occurrences(t, y) = OccursUpTo(t, n, y)
  BY <1>1, OccurrencesAll DEF n
<1> QED
  BY <1>5, <1>6 DEF c

LEMMA OccurrencesOne ==
    ASSUME NEW c, NEW y
    PROVE  Occurrences(<<c>>, y) = IF c = y THEN 1 ELSE 0
<1>1. CASE c = y
  <2>1. {i \in DOMAIN <<c>> : <<c>>[i] = y} = {1}
    BY <1>1
  <2> QED
    BY <1>1, <2>1, FS_Singleton DEF Occurrences
<1>2. CASE c # y
  <2>1. {i \in DOMAIN <<c>> : <<c>>[i] = y} = {}
    BY <1>2
  <2> QED
    BY <1>2, <2>1, FS_EmptySet DEF Occurrences
<1> QED
  BY <1>1, <1>2

\* What a line of a hunk that applies does: it inserts a line, passes one over, copies one
\* or stands for nothing.
LineDoes(src, st, line, new) ==
    /\ st.ok
    /\ \/ line.mark = "none" /\ new = st
       \/ /\ line.mark = "+"
          /\ new.result = st.result \o <<line.content>>
          /\ new.srcIndex = st.srcIndex
       \/ /\ line.mark = "=" /\ AtLine(src, st, line.content)
          /\ new.result = st.result \o <<line.content>>
          /\ new.srcIndex = st.srcIndex + 1
       \/ /\ line.mark = "-" /\ AtLine(src, st, line.content)
          /\ new.result = st.result
          /\ new.srcIndex = st.srcIndex + 1

LEMMA ApplyLineCases ==
    ASSUME NEW src \in Text, NEW st \in State(src), NEW line \in HunkLine(STRING),
           NEW new, new = ApplyLine(src, st, line), new.ok
    PROVE  LineDoes(src, st, line, new)
<1> USE DEF LineDoes
<1>1. /\ st = [ok |-> st.ok, srcIndex |-> st.srcIndex, result |-> st.result]
      /\ st.ok \in BOOLEAN /\ st.result \in Text
  BY StateFields
<1>2. /\ line.mark \in Marks /\ line.content \in Line
  BY DEF HunkLine, Line
<1>3. Append(st.result, line.content) = st.result \o <<line.content>>
  BY <1>1, <1>2, AppendIsConcat DEF Text
<1>4. st.ok
  <2>1. ~st.ok => new = st
    BY DEF ApplyLine
  <2> QED
    BY <2>1
<1>5. ~Failed(st).ok
  BY FailedType
<1>6. CASE line.mark = "none"
  BY <1>4, <1>6 DEF ApplyLine
<1>7. CASE line.mark = "+"
  <2>1. new = [st EXCEPT !.result = Append(@, line.content)]
    BY <1>4, <1>7 DEF ApplyLine
  <2> QED
    BY <1>1, <1>3, <1>4, <1>7, <2>1
<1>8. CASE line.mark = "="
  <2>1. AtLine(src, st, line.content)
    <3>1. ~AtLine(src, st, line.content) => new = Failed(st)
      BY <1>4, <1>8 DEF ApplyLine
    <3> QED
      BY <1>5, <3>1
  <2>2. new = [st EXCEPT !.result = Append(@, line.content), !.srcIndex = @ + 1]
    BY <1>4, <1>8, <2>1 DEF ApplyLine
  <2> QED
    BY <1>1, <1>3, <1>4, <1>8, <2>1, <2>2
<1>9. CASE line.mark = "-"
  <2>1. AtLine(src, st, line.content)
    <3>1. ~AtLine(src, st, line.content) => new = Failed(st)
      BY <1>4, <1>9 DEF ApplyLine
    <3> QED
      BY <1>5, <3>1
  <2>2. new = [st EXCEPT !.srcIndex = @ + 1]
    BY <1>4, <1>9, <2>1 DEF ApplyLine
  <2> QED
    BY <1>1, <1>4, <1>9, <2>1, <2>2
<1> QED
  BY <1>2, <1>6, <1>7, <1>8, <1>9 DEF Marks

LEMMA ApplyLineOk ==
    ASSUME NEW src \in Text, NEW st \in State(src), NEW line \in HunkLine(STRING),
           ApplyLine(src, st, line).ok
    PROVE  st.ok
BY ApplyLineCases, Zenon DEF LineDoes

\* The rest of the source from the current line on.
LEMMA RestType ==
    ASSUME NEW src \in Text, NEW k \in 0 .. Len(src)
    PROVE  /\ SubSeq(src, k + 1, Len(src)) \in Text
           /\ k < Len(src) => /\ SubSeq(src, k + 1, Len(src))
                                   = <<src[k + 1]>> \o SubSeq(src, (k + 1) + 1, Len(src))
                              /\ <<src[k + 1]>> \in Text /\ k + 1 \in 0 .. Len(src)
<1>1. Len(src) \in Nat /\ \A i \in k + 1 .. Len(src) : src[i] \in Line
  BY DEF Text
<1>2. SubSeq(src, k + 1, Len(src)) \in Text
  BY <1>1, SubSeqProperties DEF Text
<1>3. ASSUME k < Len(src)
      PROVE  /\ SubSeq(src, k + 1, Len(src))
                  = <<src[k + 1]>> \o SubSeq(src, (k + 1) + 1, Len(src))
             /\ <<src[k + 1]>> \in Text /\ k + 1 \in 0 .. Len(src)
  <2>1. k + 1 \in 1 .. Len(src) /\ Len(src) \in k + 1 .. Len(src)
    BY <1>1, <1>3
  <2>2. src[k + 1] \in Line
    BY <2>1 DEF Text
  <2> DEFINE m == k + 1
             l == Len(src)
  <2>3. src \in Seq(Line) /\ m \in 1 .. Len(src) /\ l \in m .. Len(src)
    BY <2>1 DEF Text
  <2> HIDE DEF m, l
  <2>4. SubSeq(src, m, l) = <<src[m]>> \o SubSeq(src, m + 1, l)
    BY <2>3, SubSeqRecursiveFirst
  <2> QED
    BY <1>1, <1>3, <2>2, <2>4 DEF m, l, Text
<1> QED
  BY <1>2, <1>3

\* Insertions and deletions account for the difference a line makes.
LEMMA LineAccountedFor ==
    ASSUME NEW src \in Text, NEW st \in State(src), NEW line \in HunkLine(STRING),
           NEW new, new = ApplyLine(src, st, line), new.ok, NEW x
    PROVE  /\ Occurrences(Whole(src, st), x) \in Nat
           /\ Occurrences(Whole(src, new), x) \in Nat
           /\ Occurrences(Whole(src, new), x) + (IF line = Marked("-", x) THEN 1 ELSE 0)
                = Occurrences(Whole(src, st), x) + (IF line = Marked("+", x) THEN 1 ELSE 0)
<1> DEFINE r == st.result
           k == st.srcIndex
           c == line.content
           t == SubSeq(src, k + 1, Len(src))
           u == SubSeq(src, (k + 1) + 1, Len(src))
           here == IF c = x THEN 1 ELSE 0
<1>1. r \in Text /\ k \in 0 .. Len(src) /\ Len(src) \in Nat
  BY StateFields
<1>2. c \in Line /\ line = Marked(line.mark, c) /\ <<c>> \in Text
  <2>1. c \in Line /\ line = Marked(line.mark, c)
    BY DEF HunkLine, Marked, Line
  <2> HIDE DEF c
  <2> QED
    BY <2>1 DEF Text
<1>3. t \in Text
  BY <1>1, RestType
<1>4. Whole(src, st) = r \o t
  BY DEF Whole
<1>5. Occurrences(<<c>>, x) = here
  BY OccurrencesOne
<1>6. /\ Occurrences(r, x) \in Nat /\ Occurrences(t, x) \in Nat
      /\ Occurrences(r \o t, x) = Occurrences(r, x) + Occurrences(t, x)
  BY <1>1, <1>3, OccurrencesConcat, OccurrencesAll DEF Text
<1>7. r \o <<c>> \in Text /\ Occurrences(r \o <<c>>, x) = Occurrences(r, x) + here
  <2> HIDE DEF r, c, here
  <2>1. r \in Seq(Line) /\ <<c>> \in Seq(Line)
    BY <1>1, <1>2 DEF Text
  <2>2. Occurrences(r \o <<c>>, x) = Occurrences(r, x) + Occurrences(<<c>>, x)
    BY <2>1, OccurrencesConcat, Zenon
  <2>3. r \o <<c>> \in Seq(Line)
    BY <2>1, ConcatProperties, Zenon
  <2> QED
    BY <1>5, <2>2, <2>3 DEF Text
<1>8. /\ line = Marked("-", x) <=> line.mark = "-" /\ c = x
      /\ line = Marked("+", x) <=> line.mark = "+" /\ c = x
  BY <1>2 DEF Marked
<1>9. ASSUME AtLine(src, st, c)
      PROVE  /\ u \in Text /\ Occurrences(u, x) \in Nat
             /\ Occurrences(t, x) = here + Occurrences(u, x)
  <2>1. k < Len(src) /\ src[k + 1] = c
    BY <1>9 DEF AtLine
  <2>2. t = <<c>> \o u /\ k + 1 \in 0 .. Len(src)
    BY <1>1, <2>1, RestType
  <2>3. u \in Text
    BY <2>2, RestType
  <2> HIDE DEF t, u, c, here
  <2>4. u \in Seq(Line) /\ <<c>> \in Seq(Line)
    BY <1>2, <2>3 DEF Text
  <2>5. Occurrences(<<c>> \o u, x) = Occurrences(<<c>>, x) + Occurrences(u, x)
    BY <2>4, OccurrencesConcat, Zenon
  <2>6. Occurrences(u, x) \in Nat
    BY <2>4, OccurrencesAll, Zenon
  <2> QED
    BY <1>5, <2>2, <2>3, <2>5, <2>6
<1> HIDE DEF r, k, t, u, c
<1>10. CASE line.mark = "none" /\ new = st
  <2>1. line # Marked("-", x) /\ line # Marked("+", x)
    BY <1>8, <1>10
  <2>2. Occurrences(Whole(src, st), x) \in Nat
    BY <1>4, <1>6
  <2>3. Whole(src, new) = Whole(src, st)
    BY <1>10, Zenon
  <2> QED
    BY <2>1, <2>2, <2>3
<1>11. CASE line.mark = "+" /\ new.result = r \o <<c>> /\ new.srcIndex = k
  <2>1. Whole(src, new) = (r \o <<c>>) \o t
    BY <1>11 DEF Whole, t
  <2>2. Occurrences(Whole(src, new), x) = Occurrences(r, x) + here + Occurrences(t, x)
    <3> HIDE DEF here
    <3>1. r \o <<c>> \in Seq(Line) /\ t \in Seq(Line)
      BY <1>3, <1>7 DEF Text
    <3>2. Occurrences((r \o <<c>>) \o t, x) = Occurrences(r \o <<c>>, x) + Occurrences(t, x)
      BY <3>1, OccurrencesConcat, Zenon
    <3> QED
      BY <1>7, <2>1, <3>2
  <2> QED
    BY <1>4, <1>6, <1>8, <1>11, <2>2
<1>12. CASE /\ line.mark = "=" /\ AtLine(src, st, c)
            /\ new.result = r \o <<c>> /\ new.srcIndex = k + 1
  <2>1. Whole(src, new) = (r \o <<c>>) \o u
    BY <1>12 DEF Whole, u
  <2>2. Occurrences(Whole(src, new), x) = Occurrences(r, x) + here + Occurrences(u, x)
    <3> HIDE DEF here
    <3>1. r \o <<c>> \in Seq(Line) /\ u \in Seq(Line)
      BY <1>7, <1>9, <1>12 DEF Text
    <3>2. Occurrences((r \o <<c>>) \o u, x) = Occurrences(r \o <<c>>, x) + Occurrences(u, x)
      BY <3>1, OccurrencesConcat, Zenon
    <3> QED
      BY <1>7, <2>1, <3>2
  <2> QED
    BY <1>4, <1>6, <1>8, <1>9, <1>12, <2>2
<1>13. CASE /\ line.mark = "-" /\ AtLine(src, st, c)
            /\ new.result = r /\ new.srcIndex = k + 1
  <2>1. Whole(src, new) = r \o u
    BY <1>13 DEF Whole, u
  <2>2. Occurrences(Whole(src, new), x) = Occurrences(r, x) + Occurrences(u, x)
    BY <1>1, <1>9, <1>13, <2>1, OccurrencesConcat DEF Text
  <2> QED
    BY <1>4, <1>6, <1>8, <1>9, <1>13, <2>2
<1> QED
  BY <1>10, <1>11, <1>12, <1>13, ApplyLineCases DEF r, k, c, LineDoes

\* A hunk that applies accounts for its insertions and deletions, wherever it applies.
LEMMA HunkAccountedFor ==
    ASSUME NEW src \in Text, NEW st \in State(src), NEW hunk \in Hunk(STRING),
           ApplyHunk(src, st, hunk).ok, NEW x
    PROVE  /\ st.ok
           /\ Occurrences(Whole(src, ApplyHunk(src, st, hunk)), x) + Occurrences(hunk.lines, Marked("-", x))
                = Occurrences(Whole(src, st), x) + Occurrences(hunk.lines, Marked("+", x))
<1> DEFINE new    == ApplyHunk(src, st, hunk)
           lines  == hunk.lines
           n      == Len(lines)
           at     == ParseHunkHeader(hunk)
           start  == CopyUpTo(src, st, at)
           f      == LineStates(src, start, lines)
           out(s) == Occurrences(Whole(src, s), x)
           del(j) == OccursUpTo(lines, j, Marked("-", x))
           ins(j) == OccursUpTo(lines, j, Marked("+", x))
           P      == {j \in 0 .. n : f[j].ok => start.ok /\ out(f[j]) + del(j) = out(start) + ins(j)}
<1>1. /\ lines \in Seq(HunkLine(STRING)) /\ n \in Nat /\ at \in Int
      /\ Len(src) \in Nat /\ \A j \in 1 .. n : lines[j] \in HunkLine(STRING)
  BY HunkParts, StateFields
<1>2. st.ok /\ ~(at > Len(src))
  <2>1. ~st.ok \/ at > Len(src) => new = Failed(st)
    BY DEF ApplyHunk
  <2> QED
    BY <2>1, FailedType
<1>3. new = f[n] /\ new.ok
  BY <1>2 DEF ApplyHunk
<1> HIDE DEF at, new
<1>4. start \in State(src) /\ Whole(src, start) = Whole(src, st)
  <2>1. at \in Int /\ at <= Len(src)
    BY <1>1, <1>2
  <2> QED
    BY <2>1, CopyUpToType, CopyKeepsWhole
<1> HIDE DEF start, lines
<1>5. /\ f \in [0 .. n -> State(src)] /\ f[0] = start
      /\ \A j \in 1 .. n : f[j] = ApplyLine(src, f[j - 1], lines[j])
  BY <1>1, <1>4, LineStatesDef
<1> HIDE DEF f
<1>6. 0 \in P
  BY <1>1, <1>5, OccursUpToZero
<1>7. ASSUME NEW j \in 1 .. n, j - 1 \in P PROVE j \in P
  <2> SUFFICES ASSUME f[j].ok PROVE start.ok /\ out(f[j]) + del(j) = out(start) + ins(j)
    BY <1>1
  <2>1. /\ f[j - 1] \in State(src) /\ lines[j] \in HunkLine(STRING)
        /\ f[j] = ApplyLine(src, f[j - 1], lines[j])
        /\ j \in Nat \ {0}
    BY <1>1, <1>5
  <2>2. f[j - 1].ok
    <3>1. ApplyLine(src, f[j - 1], lines[j]).ok
      BY <2>1
    <3> QED
      BY <2>1, <3>1, ApplyLineOk
  <2>3. start.ok /\ out(f[j - 1]) + del(j - 1) = out(start) + ins(j - 1)
    BY <1>7, <2>2
  <2>4. /\ out(f[j - 1]) \in Nat /\ out(f[j]) \in Nat
        /\ out(f[j]) + (IF lines[j] = Marked("-", x) THEN 1 ELSE 0)
             = out(f[j - 1]) + (IF lines[j] = Marked("+", x) THEN 1 ELSE 0)
    BY <2>1, LineAccountedFor
  <2>5. /\ del(j - 1) \in Nat /\ ins(j - 1) \in Nat
        /\ del(j) = del(j - 1) + (IF lines[j] = Marked("-", x) THEN 1 ELSE 0)
        /\ ins(j) = ins(j - 1) + (IF lines[j] = Marked("+", x) THEN 1 ELSE 0)
    BY <2>1, OccursUpToStep
  <2>6. out(start) \in Nat
    <3>1. Whole(src, start) \in Text
      <4>1. start.result \in Text /\ start.srcIndex \in 0 .. Len(src)
        BY <1>4, StateFields
      <4> QED
        BY <4>1, RestType, ConcatProperties DEF Whole, Text
    <3> QED
      BY <3>1, OccurrencesAll DEF Text
  <2> DEFINE d == IF lines[j] = Marked("-", x) THEN 1 ELSE 0
             i == IF lines[j] = Marked("+", x) THEN 1 ELSE 0
  <2>7. d \in Nat /\ i \in Nat
    OBVIOUS
  <2> HIDE DEF out, del, ins, d, i
  <2>8. out(f[j]) + d = out(f[j - 1]) + i /\ del(j) = del(j - 1) + d /\ ins(j) = ins(j - 1) + i
    BY <2>4, <2>5 DEF d, i
  <2>9. /\ out(f[j - 1]) \in Nat /\ out(f[j]) \in Nat /\ del(j - 1) \in Nat /\ ins(j - 1) \in Nat
        /\ out(f[j - 1]) + del(j - 1) = out(start) + ins(j - 1)
    BY <2>3, <2>4, <2>5, Zenon
  <2>10. out(f[j]) + del(j) = out(start) + ins(j)
    <3> DEFINE A == out(f[j])
               B == out(f[j - 1])
               D == del(j - 1)
               I == ins(j - 1)
               W == out(start)
    <3>1. /\ A \in Nat /\ B \in Nat /\ D \in Nat /\ I \in Nat /\ W \in Nat
          /\ A + d = B + i /\ B + D = W + I
          /\ del(j) = D + d /\ ins(j) = I + i
      BY <2>6, <2>8, <2>9, Zenon
    <3> HIDE DEF A, B, D, I, W
    <3>2. A + (D + d) = W + (I + i)
      BY <2>7, <3>1
    <3> QED
      BY <3>1, <3>2, Zenon DEF A, W
  <2> QED
    BY <2>3, <2>10
<1> HIDE DEF P
<1>8. n \in P
  <2>1. \A j \in 0 .. n : j \in P
    BY <1>1, <1>6, <1>7, InductionUpTo
  <2> QED
    BY <1>1, <2>1
<1>9. /\ Occurrences(lines, Marked("-", x)) = del(n)
      /\ Occurrences(lines, Marked("+", x)) = ins(n)
  BY <1>1, OccurrencesAll
<1>10. out(f[n]) + del(n) = out(start) + ins(n)
  BY <1>3, <1>8 DEF P
<1> QED
  BY <1>2, <1>3, <1>4, <1>9, <1>10 DEF lines, new

LEMMA WholeType ==
    ASSUME NEW src \in Text, NEW st \in State(src), NEW x
    PROVE  Whole(src, st) \in Text /\ Occurrences(Whole(src, st), x) \in Nat
<1>1. st.result \in Text /\ st.srcIndex \in 0 .. Len(src)
  BY StateFields
<1>2. Whole(src, st) \in Text
  BY <1>1, RestType, ConcatProperties DEF Whole, Text
<1> QED
  BY <1>2, OccurrencesAll DEF Text

\* The state behind an applied patch: its last, in which the patch is complete.
LEMMA ApplyParts ==
    ASSUME NEW src \in Text, NEW patch, ParseUnifiedDiff(patch),
           NEW end, end = HunkStates(src, patch)[Len(patch)]
    PROVE  /\ patch \in Seq(Hunk(STRING)) /\ Len(patch) \in Nat \ {0} /\ DOMAIN patch = 1 .. Len(patch)
           /\ \A i \in 1 .. Len(patch) : patch[i] \in Hunk(STRING)
           /\ end \in State(src)
           /\ ApplyUnifiedDiff(src, patch).ok = end.ok
           /\ ApplyUnifiedDiff(src, patch).result = AsText(Whole(src, end))
<1>1. patch \in Seq(Hunk(STRING)) /\ patch # <<>>
  BY DEF ParseUnifiedDiff
<1>2. /\ Len(patch) \in Nat \ {0} /\ DOMAIN patch = 1 .. Len(patch)
      /\ \A i \in 1 .. Len(patch) : patch[i] \in Hunk(STRING)
  <2>1. Len(patch) \in Nat \ {0}
    BY <1>1, EmptySeq
  <2> QED
    BY <1>1, <2>1
<1>3. end \in State(src)
  <2>1. HunkStates(src, patch) \in [0 .. Len(patch) -> State(src)]
    BY <1>1, HunkStatesDef
  <2> QED
    BY <1>2, <2>1
<1> DEFINE whole == [end EXCEPT !.result = @ \o SubSeq(src, end.srcIndex + 1, Len(src))]
<1>4. ApplyHunks(src, patch) = whole
  BY DEF ApplyHunks
<1>5. end = [ok |-> end.ok, srcIndex |-> end.srcIndex, result |-> end.result]
  BY <1>3, StateFields
<1>6. whole.ok = end.ok /\ whole.result = Whole(src, end)
  BY <1>5 DEF Whole
<1> HIDE DEF whole
<1>7. ApplyUnifiedDiff(src, patch) = [ok |-> whole.ok, result |-> AsText(whole.result)]
  BY <1>4 DEF ApplyUnifiedDiff
<1> QED
  BY <1>1, <1>2, <1>3, <1>6, <1>7

\* The patched text is a text.
LEMMA PatchedType ==
    ASSUME NEW src \in Text \ {<<>>}, NEW patch
    PROVE  ApplyUnifiedDiff(src, patch).result \in Text \ {<<>>}
<1>1. CASE ~ParseUnifiedDiff(patch)
  BY <1>1 DEF ApplyUnifiedDiff
<1>2. CASE ParseUnifiedDiff(patch)
  <2> DEFINE end == HunkStates(src, patch)[Len(patch)]
  <2>1. /\ end \in State(src)
        /\ ApplyUnifiedDiff(src, patch).result = AsText(Whole(src, end))
    BY <1>2, ApplyParts
  <2> HIDE DEF end
  <2>2. Whole(src, end) \in Text
    BY <2>1, WholeType
  <2>3. <<EmptyLine>> \in Text /\ <<EmptyLine>> # <<>>
    BY DEF Text, Line
  <2> QED
    BY <2>1, <2>2, <2>3 DEF AsText
<1> QED
  BY <1>1, <1>2

\* How often a line occurs in the hunks of a patch.
LinesIn(patch, line) ==
    SumOver([i \in DOMAIN patch |-> Occurrences(patch[i].lines, line)], DOMAIN patch)

LEMMA LinesInType ==
    ASSUME NEW patch \in Seq(Hunk(STRING)), NEW line
    PROVE  LinesIn(patch, line) \in Nat
<1> DEFINE f == [i \in DOMAIN patch |-> Occurrences(patch[i].lines, line)]
<1>1. /\ Len(patch) \in Nat /\ DOMAIN patch = 1 .. Len(patch)
      /\ \A i \in 1 .. Len(patch) : patch[i] \in Hunk(STRING)
  OBVIOUS
<1>2. \A i \in 1 .. Len(patch) : patch[i].lines \in Seq(HunkLine(STRING))
  BY <1>1, HunkParts
<1>3. \A i \in 1 .. Len(patch) : f[i] \in Nat
  BY <1>1, <1>2, OccurrencesAll
<1>4. IsFiniteSet(1 .. Len(patch))
  BY <1>1, FS_Interval
<1> HIDE DEF f
<1>5. SumOver(f, 1 .. Len(patch)) \in Nat
  BY <1>3, <1>4, SumType
<1> QED
  BY <1>1, <1>5 DEF LinesIn, f

(***************************************************************************)
(* A patch that applies accounts for all the lines but the empty ones: what *)
(* it inserts is in the result, what it deletes no longer is, and every     *)
(* other line of the source is still there, wherever its hunks start.       *)
(***************************************************************************)
THEOREM PatchAccountsForLines ==
    ASSUME NEW src \in Text, NEW patch, ApplyUnifiedDiff(src, patch).ok, NEW x, x # EmptyLine
    PROVE  /\ LinesIn(patch, Marked("-", x)) \in Nat /\ LinesIn(patch, Marked("+", x)) \in Nat
           /\ Occurrences(ApplyUnifiedDiff(src, patch).result, x) + LinesIn(patch, Marked("-", x))
                = Occurrences(src, x) + LinesIn(patch, Marked("+", x))
<1> DEFINE n      == Len(patch)
           f      == HunkStates(src, patch)
           out(s) == Occurrences(Whole(src, s), x)
           minus  == [i \in DOMAIN patch |-> Occurrences(patch[i].lines, Marked("-", x))]
           plus   == [i \in DOMAIN patch |-> Occurrences(patch[i].lines, Marked("+", x))]
           del(j) == SumOver(minus, 1 .. j)
           ins(j) == SumOver(plus, 1 .. j)
           P      == {j \in 0 .. n : f[j].ok => out(f[j]) + del(j) = Occurrences(src, x) + ins(j)}
<1>1. ParseUnifiedDiff(patch)
  BY DEF ApplyUnifiedDiff
<1>2. /\ patch \in Seq(Hunk(STRING)) /\ n \in Nat \ {0} /\ DOMAIN patch = 1 .. n
      /\ \A i \in 1 .. n : patch[i] \in Hunk(STRING)
      /\ f[n] \in State(src) /\ f[n].ok
      /\ ApplyUnifiedDiff(src, patch).result = AsText(Whole(src, f[n]))
  BY <1>1, ApplyParts
<1>3. /\ f \in [0 .. n -> State(src)] /\ f[0] = Begin
      /\ \A i \in 1 .. n : f[i] = ApplyHunk(src, f[i - 1], patch[i])
  BY <1>2, HunkStatesDef
<1> HIDE DEF f, n
<1>4. Occurrences(src, x) \in Nat
  BY OccurrencesAll DEF Text
<1>5. \A i \in 1 .. n : minus[i] \in Nat /\ plus[i] \in Nat
  <2>1. \A i \in 1 .. n : patch[i].lines \in Seq(HunkLine(STRING))
    BY <1>2, HunkParts
  <2> QED
    BY <1>2, <2>1, OccurrencesAll
<1>6. 0 \in P
  <2>1. Whole(src, Begin) = src
    <3>1. SubSeq(src, 0 + 1, Len(src)) = src
      <4>1. SubSeq(src, 1, Len(src)) = src
        BY SubSeqFull DEF Text
      <4> QED
        BY <4>1
    <3>2. <<>> \o src = src
      BY ConcatEmptySeq DEF Text
    <3> QED
      BY <3>1, <3>2 DEF Whole, Begin
  <2>2. 1 .. 0 = {}
    OBVIOUS
  <2>3. del(0) = 0 /\ ins(0) = 0
    BY <2>2, SumEmpty
  <2> HIDE DEF del, ins
  <2> QED
    BY <1>2, <1>3, <1>4, <2>1, <2>3
<1>7. ASSUME NEW j \in 1 .. n, j - 1 \in P PROVE j \in P
  <2> SUFFICES ASSUME f[j].ok PROVE out(f[j]) + del(j) = Occurrences(src, x) + ins(j)
    BY <1>2
  <2>1. /\ f[j - 1] \in State(src) /\ f[j] \in State(src) /\ patch[j] \in Hunk(STRING)
        /\ f[j] = ApplyHunk(src, f[j - 1], patch[j])
        /\ j \in Nat \ {0} /\ \A i \in 1 .. j : i \in 1 .. n
    BY <1>2, <1>3
  <2>2. /\ f[j - 1].ok
        /\ out(f[j]) + minus[j] = out(f[j - 1]) + plus[j]
    <3>1. /\ minus[j] = Occurrences(patch[j].lines, Marked("-", x))
          /\ plus[j] = Occurrences(patch[j].lines, Marked("+", x))
      BY <1>2
    <3> HIDE DEF minus, plus
    <3>2. ApplyHunk(src, f[j - 1], patch[j]).ok
      BY <2>1
    <3> DEFINE a == f[j - 1]
               h == patch[j]
    <3>3. a \in State(src) /\ h \in Hunk(STRING) /\ ApplyHunk(src, a, h).ok
      BY <2>1, <3>2
    <3> HIDE DEF a, h
    <3>4. /\ a.ok
          /\ Occurrences(Whole(src, ApplyHunk(src, a, h)), x) + Occurrences(h.lines, Marked("-", x))
               = Occurrences(Whole(src, a), x) + Occurrences(h.lines, Marked("+", x))
      BY <3>3, HunkAccountedFor
    <3> QED
      BY <2>1, <3>1, <3>4, Zenon DEF a, h
  <2>3. out(f[j - 1]) \in Nat /\ out(f[j]) \in Nat
    BY <2>1, WholeType
  <2>4. out(f[j - 1]) + del(j - 1) = Occurrences(src, x) + ins(j - 1)
    BY <1>7, <2>2
  <2> HIDE DEF minus, plus
  <2>5. /\ del(j - 1) \in Nat /\ del(j) = del(j - 1) + minus[j]
        /\ ins(j - 1) \in Nat /\ ins(j) = ins(j - 1) + plus[j]
    BY <1>5, <2>1, SumUpTo
  <2> HIDE DEF out, del, ins
  <2> QED
    BY <1>4, <1>5, <2>2, <2>3, <2>4, <2>5
<1> HIDE DEF P
<1>8. n \in P
  <2>1. \A j \in 0 .. n : j \in P
    BY <1>2, <1>6, <1>7, InductionUpTo
  <2> QED
    BY <1>2, <2>1
<1>9. out(f[n]) + del(n) = Occurrences(src, x) + ins(n)
  BY <1>2, <1>8 DEF P
<1>10. Occurrences(AsText(Whole(src, f[n])), x) = out(f[n])
  <2>1. Occurrences(<<EmptyLine>>, x) = 0
    BY OccurrencesOne
  <2>2. Occurrences(<<>>, x) = 0
    <3>1. {i \in DOMAIN <<>> : <<>>[i] = x} = {}
      OBVIOUS
    <3> QED
      BY <3>1, FS_EmptySet DEF Occurrences
  <2> QED
    BY <2>1, <2>2 DEF AsText
<1>11. LinesIn(patch, Marked("-", x)) = del(n) /\ LinesIn(patch, Marked("+", x)) = ins(n)
  BY <1>2 DEF LinesIn
<1>12. del(n) \in Nat /\ ins(n) \in Nat
  <2> HIDE DEF minus, plus
  <2> QED
    BY <1>2, <1>5, SumUpTo
<1> QED
  BY <1>2, <1>9, <1>10, <1>11, <1>12

-----------------------------------------------------------------------------
(* Flattening *)

\* g is the sequences put together one by one, in FlattenSeq's order.
Flattens(g, S, seqs) ==
    /\ g \in [0 .. Len(seqs) -> Seq(S)]
    /\ g[0] = <<>>
    /\ \A i \in 1 .. Len(seqs) : g[i] = g[i - 1] \o seqs[i]
    /\ FlattenSeq(seqs) = g[Len(seqs)]

LEMMA FlattenExists ==
    ASSUME NEW S, NEW seqs \in Seq(Seq(S))
    PROVE  \E g : Flattens(g, S, seqs)
<1> DEFINE n == Len(seqs)
           T == Seq(S)
           F == [i \in 1 .. n |-> [s \in T |-> s \o seqs[i]]]
<1>1. n \in Nat /\ DOMAIN seqs = 1 .. n /\ \A i \in 1 .. n : seqs[i] \in T
  OBVIOUS
<1>2. F \in [1 .. n -> [T -> T]]
  <2>1. \A i \in 1 .. n : \A s \in T : s \o seqs[i] \in T
    BY <1>1, ConcatProperties
  <2> QED
    BY <2>1
<1>3. <<>> \in T /\ \A s \in T : <<>> \o s = s
  BY ConcatEmptySeq, EmptySeq
<1> HIDE DEF n, T
<1>4. PICK g : Carries(g, T, n, <<>>, F)
  <2> HIDE DEF F
  <2> QED
    BY <1>1, <1>2, <1>3, IterationExists
<1>5. /\ g \in [0 .. n -> T] /\ g[0] = <<>>
      /\ \A i \in 1 .. n : g[i] = F[i][g[i - 1]]
  BY <1>4, Zenon DEF Carries
<1>6. ASSUME NEW i \in 1 .. n PROVE g[i] = g[i - 1] \o seqs[i]
  <2>1. i - 1 \in 0 .. n
    BY <1>1
  <2>2. g[i - 1] \in T
    BY <1>5, <2>1
  <2>3. F[i] = [s \in T |-> s \o seqs[i]]
    OBVIOUS
  <2>4. F[i][g[i - 1]] = g[i - 1] \o seqs[i]
    BY <2>2, <2>3
  <2> QED
    BY <1>5, <2>4, Zenon
<1> HIDE DEF F
<1>7. FlattenSeq(seqs) = g[n]
  <2>1. CASE n = 0
    <3>1. seqs = <<>>
      BY <2>1, EmptySeq DEF n, T
    <3> QED
      BY <1>5, <2>1, <3>1 DEF FlattenSeq
  <2>2. CASE n # 0
    <3> DEFINE Rec(h) == h = [i \in 1 .. n |-> IF i = 1 THEN seqs[i] ELSE h[i - 1] \o seqs[i]]
               e == [i \in 1 .. n |-> g[i]]
               f == CHOOSE h : Rec(h)
    <3>1. FlattenSeq(seqs) = f[n]
      BY <2>2 DEF FlattenSeq, n
    <3>2. Rec(e)
      <4>1. g[1] = seqs[1]
        <5>1. 1 \in 1 .. n /\ 1 - 1 = 0
          BY <1>1, <2>2
        <5>2. g[1] = g[0] \o seqs[1] /\ seqs[1] \in T
          BY <1>1, <1>6, <5>1
        <5> QED
          BY <1>3, <1>5, <5>2
      <4>2. ASSUME NEW i \in 1 .. n
            PROVE  e[i] = IF i = 1 THEN seqs[i] ELSE e[i - 1] \o seqs[i]
        <5>1. e[i] = g[i] /\ (i # 1 => e[i - 1] = g[i - 1])
          BY <1>1
        <5>2. g[i] = g[i - 1] \o seqs[i]
          BY <1>6
        <5> QED
          BY <4>1, <5>1, <5>2, Zenon
      <4> QED
        BY <4>2
    <3>3. Rec(f)
      BY <3>2
    <3> HIDE DEF f
    <3>4. \A i \in 1 .. n : f[i] = IF i = 1 THEN seqs[i] ELSE f[i - 1] \o seqs[i]
      BY <3>3
    <3> DEFINE P == {i \in 0 .. n : i = 0 \/ f[i] = g[i]}
    <3>5. \A i \in 1 .. n : i - 1 \in P => i \in P
      <4> SUFFICES ASSUME NEW i \in 1 .. n, i - 1 \in P PROVE f[i] = g[i]
        BY <1>1
      <4>1. CASE i = 1
        <5>1. g[1] = <<>> \o seqs[1] /\ seqs[1] \in T
          <6>1. 1 \in 1 .. n /\ 1 - 1 = 0
            BY <4>1
          <6> QED
            BY <1>1, <1>5, <1>6, <6>1
        <5> QED
          BY <1>3, <3>4, <4>1, <5>1
      <4>2. CASE i # 1
        <5>1. f[i - 1] = g[i - 1]
          BY <1>1, <4>2
        <5> QED
          BY <1>6, <3>4, <4>2, <5>1
      <4> QED
        BY <4>1, <4>2
    <3>6. 0 \in P
      BY <1>1
    <3> HIDE DEF P
    <3>7. \A i \in 0 .. n : i \in P
      BY <1>1, <3>5, <3>6, InductionUpTo
    <3>8. n \in P
      BY <1>1, <3>7
    <3> QED
      BY <2>2, <3>1, <3>8 DEF P
  <2> QED
    BY <2>1, <2>2
<1> QED
  BY <1>5, <1>6, <1>7 DEF Flattens, n, T

-----------------------------------------------------------------------------
(* The two sides of a hunk *)

\* The text B stands in the source behind its first k lines.
Stands(src, k, B) == k + Len(B) <= Len(src) /\ \A i \in 1 .. Len(B) : src[k + i] = B[i]

LEMMA StandsSubSeq ==
    ASSUME NEW src \in Text, NEW k \in 0 .. Len(src), NEW B \in Text
    PROVE  Stands(src, k, B) <=>
              k + Len(B) <= Len(src) /\ SubSeq(src, k + 1, k + Len(B)) = B
<1>1. Len(src) \in Nat /\ Len(B) \in Nat /\ DOMAIN B = 1 .. Len(B)
  BY DEF Text
<1> SUFFICES ASSUME k + Len(B) <= Len(src)
             PROVE  (\A i \in 1 .. Len(B) : src[k + i] = B[i])
                      <=> SubSeq(src, k + 1, k + Len(B)) = B
  BY DEF Stands
<1> DEFINE u == SubSeq(src, k + 1, k + Len(B))
<1>2. /\ u \in Seq(Line) /\ Len(u) = Len(B)
      /\ \A i \in 1 .. Len(B) : u[i] = src[k + i]
  <2>1. \A i \in k + 1 .. k + Len(B) : src[i] \in Line
    BY <1>1 DEF Text
  <2>2. /\ u \in Seq(Line)
        /\ Len(u) = IF k + 1 <= k + Len(B) THEN (k + Len(B)) - (k + 1) + 1 ELSE 0
        /\ \A i \in 1 .. (k + Len(B)) - (k + 1) + 1 : u[i] = src[(k + 1) + i - 1]
    BY <1>1, <2>1, SubSeqProperties
  <2> HIDE DEF u
  <2>3. Len(u) = Len(B) /\ (k + Len(B)) - (k + 1) + 1 = Len(B)
    BY <1>1, <2>2
  <2>4. \A i \in 1 .. Len(B) : (k + 1) + i - 1 = k + i
    BY <1>1
  <2> QED
    BY <2>2, <2>3, <2>4
<1> HIDE DEF u
<1>3. B \in Seq(Line)
  BY DEF Text
<1>4. (\A i \in 1 .. Len(B) : u[i] = B[i]) => u = B
  BY <1>1, <1>2, <1>3, SeqEqual
<1> QED
  BY <1>2, <1>4 DEF u

LEMMA StandsAppend ==
    ASSUME NEW src \in Text, NEW k \in 0 .. Len(src), NEW B \in Text, NEW c \in Line
    PROVE  Stands(src, k, B \o <<c>>) <=>
              Stands(src, k, B) /\ k + Len(B) < Len(src) /\ src[k + Len(B) + 1] = c
<1>1. Len(src) \in Nat /\ Len(B) \in Nat
  BY DEF Text
<1> DEFINE D == B \o <<c>>
<1>2. /\ Len(D) = Len(B) + 1
      /\ \A i \in 1 .. Len(B) : D[i] = B[i]
      /\ D[Len(B) + 1] = c
  BY <1>1 DEF Text
<1> HIDE DEF D
<1>3. \A i \in 1 .. Len(B) + 1 : i \in 1 .. Len(B) \/ i = Len(B) + 1
  BY <1>1
<1>4. k + (Len(B) + 1) = k + Len(B) + 1 /\ (k + (Len(B) + 1) <= Len(src) <=> k + Len(B) < Len(src))
  BY <1>1
<1>5. Len(B) + 1 \in 1 .. Len(B) + 1 /\ \A i \in 1 .. Len(B) : i \in 1 .. Len(B) + 1
  BY <1>1
<1>6. k + Len(B) < Len(src) => k + Len(B) <= Len(src)
  BY <1>1
<1> QED
  BY <1>2, <1>3, <1>4, <1>5, <1>6 DEF Stands, D

\* The side of a hunk line by line.
SideOf(g, lines, marks) ==
    /\ g \in [0 .. Len(lines) -> Text]
    /\ g[0] = <<>>
    /\ \A i \in 1 .. Len(lines) :
          g[i] = IF lines[i].mark \in marks THEN g[i - 1] \o <<lines[i].content>> ELSE g[i - 1]
    /\ Side(lines, marks) = g[Len(lines)]

LEMMA SideExists ==
    ASSUME NEW lines \in Seq(HunkLine(STRING)), NEW marks
    PROVE  \E g : SideOf(g, lines, marks)
<1> DEFINE p == [i \in DOMAIN lines |->
                    IF lines[i].mark \in marks THEN <<lines[i].content>> ELSE <<>>]
<1>1. /\ Len(lines) \in Nat /\ DOMAIN lines = 1 .. Len(lines)
      /\ \A i \in 1 .. Len(lines) : lines[i].content \in Line
  <2>1. /\ Len(lines) \in Nat /\ DOMAIN lines = 1 .. Len(lines)
        /\ \A i \in 1 .. Len(lines) : lines[i] \in HunkLine(STRING)
    OBVIOUS
  <2>2. \A l \in HunkLine(STRING) : l.content \in Line
    BY DEF HunkLine, Line
  <2> QED
    BY <2>1, <2>2
<1>2. \A i \in 1 .. Len(lines) : p[i] \in Seq(Line)
  <2>1. \A c \in Line : <<c>> \in Seq(Line)
    OBVIOUS
  <2>2. <<>> \in Seq(Line)
    OBVIOUS
  <2> QED
    BY <1>1, <2>1, <2>2
<1>3. p \in Seq(Seq(Line)) /\ Len(p) = Len(lines)
  BY <1>1, <1>2
<1>4. PICK g : Flattens(g, Line, p)
  <2> HIDE DEF p
  <2> QED
    BY <1>3, FlattenExists
<1>5. Side(lines, marks) = g[Len(lines)]
  BY <1>3, <1>4 DEF Flattens, Side
<1>6. /\ g \in [0 .. Len(lines) -> Seq(Line)] /\ g[0] = <<>>
      /\ \A i \in 1 .. Len(lines) : g[i] = g[i - 1] \o p[i]
  <2> HIDE DEF p
  <2> QED
    BY <1>3, <1>4 DEF Flattens
<1>7. ASSUME NEW i \in 1 .. Len(lines)
      PROVE  g[i] = IF lines[i].mark \in marks THEN g[i - 1] \o <<lines[i].content>> ELSE g[i - 1]
  <2>1. g[i - 1] \in Seq(Line)
    BY <1>1, <1>6
  <2>2. g[i - 1] \o <<>> = g[i - 1]
    BY <2>1, ConcatEmptySeq
  <2>3. p[i] = IF lines[i].mark \in marks THEN <<lines[i].content>> ELSE <<>>
    BY <1>1
  <2>4. g[i] = g[i - 1] \o p[i]
    BY <1>6
  <2> HIDE DEF p
  <2> QED
    BY <2>2, <2>3, <2>4
<1> QED
  BY <1>5, <1>6, <1>7, Zenon DEF SideOf, Text

\* A line applies if the source reads what it requires.
LEMMA ApplyLineSucceeds ==
    ASSUME NEW src \in Text, NEW st \in State(src), st.ok, NEW line \in HunkLine(STRING),
           line.mark \in {"=", "-"} => AtLine(src, st, line.content)
    PROVE  ApplyLine(src, st, line).ok
<1>1. st.ok = TRUE /\ line.mark \in {"=", "-", "+", "none"}
  BY StateFields DEF HunkLine, Marks
<1> DEFINE c == line.content
<1>2. [st EXCEPT !.result = Append(@, c)].ok
  BY <1>1, StateFields DEF State
<1>3. [st EXCEPT !.result = Append(@, c), !.srcIndex = @ + 1].ok
  BY <1>1, StateFields DEF State
<1>4. [st EXCEPT !.srcIndex = @ + 1].ok
  BY <1>1, StateFields DEF State
<1>5. CASE line.mark = "none"
  <2>1. ApplyLine(src, st, line) = st
    BY <1>5 DEF ApplyLine
  <2> QED
    BY <2>1
<1>6. CASE line.mark = "+"
  <2>1. ApplyLine(src, st, line) = [st EXCEPT !.result = Append(@, c)]
    BY <1>1, <1>6 DEF ApplyLine
  <2> QED
    BY <1>2, <2>1
<1>7. CASE line.mark = "="
  <2>1. AtLine(src, st, c)
    BY <1>7
  <2>2. ApplyLine(src, st, line) = [st EXCEPT !.result = Append(@, c), !.srcIndex = @ + 1]
    BY <1>1, <1>7, <2>1 DEF ApplyLine
  <2> QED
    BY <1>3, <2>2
<1>8. CASE line.mark = "-"
  <2>1. AtLine(src, st, c)
    BY <1>8
  <2>2. ApplyLine(src, st, line) = [st EXCEPT !.srcIndex = @ + 1]
    BY <1>1, <1>8, <2>1 DEF ApplyLine
  <2> QED
    BY <1>4, <2>2
<1> QED
  BY <1>1, <1>5, <1>6, <1>7, <1>8

\* From line k on, with r collected before, the source has read B and A has replaced it.
Agrees(src, st, k, r, B, A) ==
    /\ st.ok <=> Stands(src, k, B)
    /\ st.ok => st.srcIndex = k + Len(B) /\ st.result = r \o A

WithLine(line, marks, B) == IF line.mark \in marks THEN B \o <<line.content>> ELSE B

LEMMA LineProgress ==
    ASSUME NEW src \in Text, NEW st \in State(src), NEW line \in HunkLine(STRING),
           NEW k \in 0 .. Len(src), NEW r \in Text, NEW B \in Text, NEW A \in Text,
           Agrees(src, st, k, r, B, A)
    PROVE  Agrees(src, ApplyLine(src, st, line), k, r,
                  WithLine(line, {"=", "-"}, B), WithLine(line, {"=", "+"}, A))
<1> DEFINE c   == line.content
           new == ApplyLine(src, st, line)
           B2  == WithLine(line, {"=", "-"}, B)
           A2  == WithLine(line, {"=", "+"}, A)
<1>1. c \in Line /\ line.mark \in {"=", "-", "+", "none"}
  BY DEF HunkLine, Line, Marks
<1>2. Len(B) \in Nat /\ Len(src) \in Nat
  BY DEF Text
<1>3. B2 = IF line.mark \in {"=", "-"} THEN B \o <<c>> ELSE B
  BY DEF WithLine
<1>4. A2 = IF line.mark \in {"=", "+"} THEN A \o <<c>> ELSE A
  BY DEF WithLine
<1>5. (r \o A) \o <<c>> = r \o (A \o <<c>>) /\ Len(B \o <<c>>) = Len(B) + 1
  <2>1. <<c>> \in Text
    BY <1>1 DEF Text
  <2>2. (r \o A) \o <<c>> = r \o (A \o <<c>>)
    BY <2>1, TextAssociative
  <2>3. B \in Seq(Line) /\ <<c>> \in Seq(Line) /\ Len(<<c>>) = 1
    BY <2>1 DEF Text
  <2>4. Len(B \o <<c>>) = Len(B) + Len(<<c>>)
    BY <2>3, ConcatProperties, Zenon
  <2> QED
    BY <2>2, <2>3, <2>4
<1>6. /\ st.ok <=> Stands(src, k, B)
      /\ st.ok => st.srcIndex = k + Len(B) /\ st.result = r \o A
  BY DEF Agrees
<1>7. Stands(src, k, B \o <<c>>) <=>
         Stands(src, k, B) /\ k + Len(B) < Len(src) /\ src[k + Len(B) + 1] = c
  BY <1>1, StandsAppend
<1>8. st.ok => (AtLine(src, st, c) <=> Stands(src, k, B \o <<c>>))
  BY <1>6, <1>7 DEF AtLine
<1> HIDE DEF c, new, B2, A2
<1>9. new.ok => LineDoes(src, st, line, new)
  BY ApplyLineCases, Zenon DEF new
<1>10. st.ok /\ (line.mark \in {"=", "-"} => AtLine(src, st, c)) => new.ok
  BY ApplyLineSucceeds DEF new, c
<1>11. new.ok <=> Stands(src, k, B2)
  <2>1. Stands(src, k, B \o <<c>>) => Stands(src, k, B)
    BY <1>7
  <2>2. CASE line.mark \in {"=", "-"}
    <3>1. B2 = B \o <<c>>
      BY <1>3, <2>2
    <3>2. new.ok => st.ok /\ AtLine(src, st, c)
      BY <1>9, <2>2 DEF LineDoes, c
    <3> QED
      BY <1>6, <1>8, <1>10, <2>1, <3>1, <3>2, Zenon
  <2>3. CASE line.mark \notin {"=", "-"}
    <3>1. B2 = B
      BY <1>3, <2>3
    <3>2. new.ok <=> st.ok
      BY <1>9, <1>10, <2>3, Zenon DEF LineDoes
    <3> QED
      BY <1>6, <3>1, <3>2, Zenon
  <2> QED
    BY <2>2, <2>3
<1>12. ASSUME new.ok PROVE new.srcIndex = k + Len(B2) /\ new.result = r \o A2
  <2>1. st.ok /\ st.srcIndex = k + Len(B) /\ st.result = r \o A
    BY <1>6, <1>9, <1>12 DEF LineDoes
  <2>2. CASE line.mark = "none" /\ new = st
    <3>1. B2 = B /\ A2 = A
      BY <1>3, <1>4, <2>2
    <3> QED
      BY <2>1, <2>2, <3>1, Zenon
  <2>3. CASE line.mark = "+" /\ new.result = st.result \o <<c>> /\ new.srcIndex = st.srcIndex
    <3>1. B2 = B /\ A2 = A \o <<c>>
      BY <1>3, <1>4, <2>3
    <3> QED
      BY <1>5, <2>1, <2>3, <3>1, Zenon
  <2>4. CASE /\ line.mark = "=" /\ new.result = st.result \o <<c>>
             /\ new.srcIndex = st.srcIndex + 1
    <3>1. B2 = B \o <<c>> /\ A2 = A \o <<c>>
      BY <1>3, <1>4, <2>4
    <3>2. (k + Len(B)) + 1 = k + (Len(B) + 1)
      BY <1>2
    <3> QED
      BY <1>5, <2>1, <2>4, <3>1, <3>2, Zenon
  <2>5. CASE line.mark = "-" /\ new.result = st.result /\ new.srcIndex = st.srcIndex + 1
    <3>1. B2 = B \o <<c>> /\ A2 = A
      BY <1>3, <1>4, <2>5
    <3>2. (k + Len(B)) + 1 = k + (Len(B) + 1)
      BY <1>2
    <3> QED
      BY <1>5, <2>1, <2>5, <3>1, <3>2, Zenon
  <2> QED
    BY <1>9, <1>12, <2>2, <2>3, <2>4, <2>5 DEF LineDoes, c
<1> QED
  BY <1>11, <1>12 DEF Agrees, new, B2, A2

\* The lines of a hunk apply just if the source reads what they require, and put what
\* they say in its place.
LEMMA LinesProgress ==
    ASSUME NEW src \in Text, NEW st \in State(src), st.ok, NEW lines \in Seq(HunkLine(STRING))
    PROVE  /\ Side(lines, {"=", "-"}) \in Text /\ Side(lines, {"=", "+"}) \in Text
           /\ Agrees(src, LineStates(src, st, lines)[Len(lines)], st.srcIndex, st.result,
                     Side(lines, {"=", "-"}), Side(lines, {"=", "+"}))
<1> DEFINE n == Len(lines)
           k == st.srcIndex
           r == st.result
           f == LineStates(src, st, lines)
<1>1. /\ n \in Nat /\ \A j \in 1 .. n : lines[j] \in HunkLine(STRING)
      /\ k \in 0 .. Len(src) /\ r \in Text /\ Len(src) \in Nat
  BY StateFields
<1>2. PICK b : SideOf(b, lines, {"=", "-"})
  BY SideExists
<1>3. PICK a : SideOf(a, lines, {"=", "+"})
  BY SideExists
<1>4. /\ f \in [0 .. n -> State(src)] /\ f[0] = st
      /\ \A j \in 1 .. n : f[j] = ApplyLine(src, f[j - 1], lines[j])
  BY LineStatesDef
<1> HIDE DEF n, k, r, f
<1>5. /\ b \in [0 .. n -> Text] /\ b[0] = <<>> /\ Side(lines, {"=", "-"}) = b[n]
      /\ a \in [0 .. n -> Text] /\ a[0] = <<>> /\ Side(lines, {"=", "+"}) = a[n]
  BY <1>2, <1>3, Zenon DEF SideOf, n
<1>6. \A j \in 1 .. n : /\ b[j] = WithLine(lines[j], {"=", "-"}, b[j - 1])
                        /\ a[j] = WithLine(lines[j], {"=", "+"}, a[j - 1])
  BY <1>2, <1>3, Zenon DEF SideOf, WithLine, n
<1> DEFINE P == {j \in 0 .. n : Agrees(src, f[j], k, r, b[j], a[j])}
<1>7. 0 \in P
  <2>1. Len(<<>>) = 0 /\ k + 0 = k
    BY <1>1
  <2>2. r \o <<>> = r
    BY <1>1, ConcatEmptySeq DEF Text
  <2>3. Stands(src, k, <<>>)
    BY <1>1, <2>1 DEF Stands
  <2>4. st.ok = TRUE /\ st.srcIndex = k /\ st.result = r
    BY StateFields DEF k, r
  <2>5. Agrees(src, st, k, r, <<>>, <<>>)
    BY <2>1, <2>2, <2>3, <2>4 DEF Agrees
  <2>6. 0 \in 0 .. n
    BY <1>1
  <2> QED
    BY <1>4, <1>5, <2>5, <2>6, Zenon
<1>8. ASSUME NEW j \in 1 .. n, j - 1 \in P PROVE j \in P
  <2>1. j - 1 \in 0 .. n /\ j \in 0 .. n
    BY <1>1
  <2>2. f[j - 1] \in State(src) /\ lines[j] \in HunkLine(STRING) /\ b[j - 1] \in Text /\ a[j - 1] \in Text
    BY <1>1, <1>4, <1>5, <2>1
  <2>3. Agrees(src, f[j - 1], k, r, b[j - 1], a[j - 1])
    BY <1>8
  <2>4. Agrees(src, ApplyLine(src, f[j - 1], lines[j]), k, r,
               WithLine(lines[j], {"=", "-"}, b[j - 1]), WithLine(lines[j], {"=", "+"}, a[j - 1]))
    BY <1>1, <2>2, <2>3, LineProgress
  <2>5. Agrees(src, f[j], k, r, b[j], a[j])
    BY <1>4, <1>6, <2>4, Zenon
  <2> QED
    BY <2>1, <2>5
<1> HIDE DEF P
<1>9. n \in P
  <2>1. \A j \in 0 .. n : j \in P
    BY <1>1, <1>7, <1>8, InductionUpTo
  <2> QED
    BY <1>1, <2>1
<1>10. b[n] \in Text /\ a[n] \in Text
  BY <1>1, <1>5
<1> QED
  BY <1>5, <1>9, <1>10, Zenon DEF P, n, k, r, f

-----------------------------------------------------------------------------
(* What a patch says is what it does *)

HunkDoes(src, st, hunk, new) ==
    /\ new.srcIndex = LastLine(hunk)
    /\ new.result = st.result \o (SubSeq(src, st.srcIndex + 1, hunk.srcLine - 1) \o After(hunk))
    /\ SubSeq(src, st.srcIndex + 1, hunk.srcLine - 1) \o After(hunk) \in Text

\* A hunk ahead of the current line applies just if it fits, and replaces its lines.
LEMMA HunkProgress ==
    ASSUME NEW src \in Text, NEW st \in State(src), st.ok,
           NEW hunk \in Hunk(STRING), ValidateHunk(hunk), st.srcIndex < hunk.srcLine
    PROVE  /\ ApplyHunk(src, st, hunk).ok <=> HunkFits(src, hunk)
           /\ ApplyHunk(src, st, hunk).ok => HunkDoes(src, st, hunk, ApplyHunk(src, st, hunk))
<1> DEFINE new   == ApplyHunk(src, st, hunk)
           at    == ParseHunkHeader(hunk)
           start == CopyUpTo(src, st, at)
           end   == LineStates(src, start, hunk.lines)[Len(hunk.lines)]
           gap   == SubSeq(src, st.srcIndex + 1, at)
           B     == Before(hunk)
           A     == After(hunk)
<1>1. /\ hunk.lines \in Seq(HunkLine(STRING)) /\ hunk.srcLine \in Int /\ hunk.srcSpan \in Nat
      /\ at \in Int /\ at = hunk.srcLine - 1 /\ Len(src) \in Nat
      /\ st.srcIndex \in 0 .. Len(src) /\ st.result \in Text
  BY HunkParts, StateFields DEF ParseHunkHeader
<1>2. Len(B) = hunk.srcSpan
  BY DEF ValidateHunk
<1>3. at >= st.srcIndex /\ at \in Nat
  BY <1>1
<1>4. LastLine(hunk) = at + Len(B) /\ hunk.srcLine = at + 1
  <2> HIDE DEF at, B
  <2> QED
    BY <1>1, <1>2 DEF LastLine
<1>5. CASE at > Len(src)
  <2>1. ~new.ok
    BY <1>5, FailedType DEF ApplyHunk
  <2>2. ~(at + hunk.srcSpan <= Len(src))
    BY <1>1, <1>5
  <2>3. ~HunkFits(src, hunk)
    BY <1>2, <1>4, <2>2 DEF HunkFits
  <2> QED
    BY <2>1, <2>3
<1>6. CASE ~(at > Len(src))
  <2>1. at \in Int /\ at <= Len(src) /\ at \in 0 .. Len(src)
    BY <1>1, <1>3, <1>6
  <2>2. new = end
    BY <1>6 DEF ApplyHunk
  <2> HIDE DEF at
  <2>3. /\ start \in State(src) /\ start.ok = st.ok
        /\ start.srcIndex = IF at > st.srcIndex THEN at ELSE st.srcIndex
        /\ start.result = st.result \o gap /\ gap \in Text
    BY <2>1, CopyUpToType
  <2> HIDE DEF start, gap
  <2>4. start.srcIndex = at
    BY <1>1, <1>3, <2>3
  <2>5. /\ Side(hunk.lines, {"=", "-"}) \in Text /\ Side(hunk.lines, {"=", "+"}) \in Text
        /\ Agrees(src, end, start.srcIndex, start.result,
                  Side(hunk.lines, {"=", "-"}), Side(hunk.lines, {"=", "+"}))
    BY <1>1, <2>3, LinesProgress
  <2>6. B \in Text /\ A \in Text /\ Agrees(src, end, at, st.result \o gap, B, A)
    <3>1. B = Side(hunk.lines, {"=", "-"}) /\ A = Side(hunk.lines, {"=", "+"})
      BY DEF Before, After
    <3> HIDE DEF end
    <3> QED
      BY <2>3, <2>4, <2>5, <3>1, Zenon
  <2> HIDE DEF new, end, B, A
  <2>7. /\ end.ok <=> Stands(src, at, B)
        /\ end.ok => end.srcIndex = at + Len(B) /\ end.result = (st.result \o gap) \o A
    BY <2>6 DEF Agrees
  <2>8. Stands(src, at, B) <=> HunkFits(src, hunk)
    <3>1. Stands(src, at, B) <=> at + Len(B) <= Len(src) /\ SubSeq(src, at + 1, at + Len(B)) = B
      BY <2>1, <2>6, StandsSubSeq
    <3> QED
      BY <1>4, <3>1, Zenon DEF HunkFits, B
  <2>9. (st.result \o gap) \o A = st.result \o (gap \o A)
    BY <1>1, <2>3, <2>6, TextAssociative
  <2>10. gap \o A \in Text
    BY <2>3, <2>6, ConcatProperties DEF Text
  <2>11. gap = SubSeq(src, st.srcIndex + 1, hunk.srcLine - 1)
    BY <1>1 DEF gap
  <2>12. ASSUME new.ok PROVE HunkDoes(src, st, hunk, new)
    <3>1. end.ok /\ end.srcIndex = at + Len(B) /\ end.result = st.result \o (gap \o A)
      BY <2>2, <2>7, <2>9, <2>12, Zenon
    <3> QED
      BY <1>4, <2>2, <2>10, <2>11, <3>1, Zenon DEF HunkDoes, A
  <2> QED
    BY <2>2, <2>7, <2>8, <2>12, Zenon DEF new
<1> QED
  BY <1>5, <1>6

\* A hunk does nothing to a patch that has failed.
LEMMA ApplyHunkOk ==
    ASSUME NEW src \in Text, NEW st \in State(src), NEW hunk \in Hunk(STRING),
           ApplyHunk(src, st, hunk).ok
    PROVE  st.ok
<1>1. ~st.ok => ApplyHunk(src, st, hunk) = Failed(st)
  BY DEF ApplyHunk
<1> QED
  BY <1>1, FailedType

\* The hunks of a patch whose hunks follow each other apply as long as they fit.
LEMMA HunksProgress ==
    ASSUME NEW src \in Text, NEW patch, ParseUnifiedDiff(patch), InOrder(patch),
           NEW f, f = HunkStates(src, patch), NEW j \in 0 .. Len(patch)
    PROVE  /\ f[j] \in State(src)
           /\ f[j].ok <=> \A i \in 1 .. j : HunkFits(src, patch[i])
           /\ f[j].ok => f[j].srcIndex = HunkEnd(patch, j)
           /\ f[j].ok /\ j # 0 => /\ f[j].result = f[j - 1].result \o Piece(src, patch, j)
                                  /\ Piece(src, patch, j) \in Text
<1> DEFINE n == Len(patch)
           Good(m) == /\ f[m].ok <=> \A i \in 1 .. m : HunkFits(src, patch[i])
                      /\ f[m].ok => f[m].srcIndex = HunkEnd(patch, m)
                      /\ f[m].ok /\ m # 0 => /\ f[m].result = f[m - 1].result \o Piece(src, patch, m)
                                             /\ Piece(src, patch, m) \in Text
           P == {m \in 0 .. n : Good(m)}
<1>1. /\ patch \in Seq(Hunk(STRING)) /\ n \in Nat /\ DOMAIN patch = 1 .. n
      /\ \A i \in 1 .. n : patch[i] \in Hunk(STRING) /\ ValidateHunk(patch[i])
                           /\ HunkEnd(patch, i - 1) < patch[i].srcLine
  <2>1. patch \in Seq(Hunk(STRING)) /\ \A i \in DOMAIN patch : ValidateHunk(patch[i])
    BY DEF ParseUnifiedDiff
  <2>2. n \in Nat /\ DOMAIN patch = 1 .. n /\ \A i \in 1 .. n : patch[i] \in Hunk(STRING)
    BY <2>1
  <2> QED
    BY <2>1, <2>2 DEF InOrder
<1>2. /\ f \in [0 .. n -> State(src)] /\ f[0] = Begin
      /\ \A i \in 1 .. n : f[i] = ApplyHunk(src, f[i - 1], patch[i])
  BY <1>1, HunkStatesDef
<1> HIDE DEF n
<1>3. 0 \in P
  <2>1. f[0].ok /\ f[0].srcIndex = 0
    BY <1>2 DEF Begin
  <2>2. HunkEnd(patch, 0) = 0
    BY DEF HunkEnd
  <2>3. Good(0)
    BY <2>1, <2>2
  <2> HIDE DEF Good
  <2> QED
    BY <1>1, <2>3
<1>4. ASSUME NEW m \in 1 .. n, m - 1 \in P PROVE m \in P
  <2> DEFINE st   == f[m - 1]
             hunk == patch[m]
             new  == f[m]
  <2>1. /\ m - 1 \in 0 .. n /\ m \in 0 .. n /\ m # 0
        /\ \A i \in 1 .. m : i = m \/ i \in 1 .. m - 1
        /\ m \in 1 .. m /\ \A i \in 1 .. m - 1 : i \in 1 .. m
    BY <1>1
  <2>2. /\ st \in State(src) /\ new \in State(src) /\ hunk \in Hunk(STRING)
        /\ ValidateHunk(hunk) /\ new = ApplyHunk(src, st, hunk)
        /\ HunkEnd(patch, m - 1) < hunk.srcLine
    BY <1>1, <1>2, <2>1
  <2>3. /\ st.ok <=> \A i \in 1 .. m - 1 : HunkFits(src, patch[i])
        /\ st.ok => st.srcIndex = HunkEnd(patch, m - 1)
    BY <1>4, Zenon
  <2>4. HunkEnd(patch, m) = LastLine(hunk)
    BY <2>1 DEF HunkEnd
  <2>5. (\A i \in 1 .. m : HunkFits(src, patch[i]))
           <=> (\A i \in 1 .. m - 1 : HunkFits(src, patch[i])) /\ HunkFits(src, patch[m])
    BY <2>1, Zenon
  <2>6. Piece(src, patch, m)
           = SubSeq(src, HunkEnd(patch, m - 1) + 1, hunk.srcLine - 1) \o After(hunk)
    BY DEF Piece
  <2> HIDE DEF st, hunk, new
  <2>7. CASE ~st.ok
    <3>1. ~new.ok
      BY <2>2, <2>7, ApplyHunkOk
    <3> QED
      BY <2>1, <2>3, <2>5, <2>7, <3>1, Zenon DEF new
  <2>8. CASE st.ok
    <3>1. st.srcIndex = HunkEnd(patch, m - 1) /\ st.srcIndex < hunk.srcLine
      BY <2>2, <2>3, <2>8, Zenon
    <3>2. (new.ok <=> HunkFits(src, hunk)) /\ (new.ok => HunkDoes(src, st, hunk, new))
      BY <2>2, <2>8, <3>1, HunkProgress
    <3>3. new.ok <=> \A i \in 1 .. m : HunkFits(src, patch[i])
      BY <2>3, <2>5, <2>8, <3>2, Zenon DEF hunk
    <3>4. ASSUME new.ok
          PROVE  /\ new.srcIndex = HunkEnd(patch, m)
                 /\ new.result = st.result \o Piece(src, patch, m)
                 /\ Piece(src, patch, m) \in Text
      <4>1. HunkDoes(src, st, hunk, new)
        BY <3>2, <3>4
      <4>2. Piece(src, patch, m) = SubSeq(src, st.srcIndex + 1, hunk.srcLine - 1) \o After(hunk)
        BY <2>6, <3>1, Zenon
      <4> QED
        BY <2>4, <4>1, <4>2, Zenon DEF HunkDoes
    <3>5. Good(m)
      BY <3>3, <3>4, Zenon DEF new, st
    <3> HIDE DEF Good
    <3> QED
      BY <2>1, <3>5
  <2> QED
    BY <2>7, <2>8
<1> HIDE DEF P
<1>5. j \in P
  <2>1. \A m \in 0 .. n : m \in P
    BY <1>1, <1>3, <1>4, InductionUpTo
  <2> QED
    BY <2>1 DEF n
<1>6. Good(j) /\ f[j] \in State(src)
  BY <1>2, <1>5 DEF P, n
<1> QED
  BY <1>6

(***************************************************************************)
(* A patch whose hunks follow each other does what it says, for every text  *)
(* and every patch: it applies just if all that its hunks require stands at *)
(* their lines, and then the hunks are replaced and nothing else.           *)
(***************************************************************************)
THEOREM PatchDoesWhatItSays ==
    ASSUME NEW src \in Text, NEW patch, ParseUnifiedDiff(patch), InOrder(patch)
    PROVE  /\ ApplyUnifiedDiff(src, patch).ok <=> Fits(src, patch)
           /\ ApplyUnifiedDiff(src, patch).ok =>
                 ApplyUnifiedDiff(src, patch).result = AsText(Patched(src, patch))
<1> DEFINE n   == Len(patch)
           f   == HunkStates(src, patch)
           res == ApplyUnifiedDiff(src, patch)
           p   == [i \in DOMAIN patch |-> Piece(src, patch, i)]
<1>1. /\ n \in Nat /\ DOMAIN patch = 1 .. n
      /\ res.ok = f[n].ok /\ res.result = AsText(Whole(src, f[n]))
  BY ApplyParts
<1>2. f = HunkStates(src, patch)
  OBVIOUS
<1>3. f[0] = Begin
  <2>1. patch \in Seq(Hunk(STRING))
    BY DEF ParseUnifiedDiff
  <2> QED
    BY <2>1, HunkStatesDef
<1> HIDE DEF f, res
<1>4. ASSUME NEW j \in 0 .. n
      PROVE  /\ f[j] \in State(src)
             /\ f[j].ok <=> \A i \in 1 .. j : HunkFits(src, patch[i])
             /\ f[j].ok => f[j].srcIndex = HunkEnd(patch, j)
             /\ f[j].ok /\ j # 0 => /\ f[j].result = f[j - 1].result \o Piece(src, patch, j)
                                    /\ Piece(src, patch, j) \in Text
  BY <1>2, HunksProgress
<1> HIDE DEF n
<1>5. res.ok <=> Fits(src, patch)
  <2>1. n \in 0 .. n
    BY <1>1
  <2>2. f[n].ok <=> \A i \in 1 .. n : HunkFits(src, patch[i])
    BY <1>4, <2>1
  <2> QED
    BY <1>1, <2>2, Zenon DEF Fits
<1>6. ASSUME res.ok PROVE Whole(src, f[n]) = Patched(src, patch)
  <2>1. ASSUME NEW j \in 1 .. n
        PROVE  /\ f[j].result = f[j - 1].result \o Piece(src, patch, j)
               /\ Piece(src, patch, j) \in Text
    <3>1. j \in 0 .. n /\ j # 0 /\ \A i \in 1 .. j : i \in 1 .. n
      BY <1>1
    <3>2. \A i \in 1 .. n : HunkFits(src, patch[i])
      BY <1>1, <1>5, <1>6 DEF Fits
    <3>3. f[j].ok
      BY <1>4, <3>1, <3>2
    <3> QED
      BY <1>4, <3>1, <3>3
  <2>2. p \in Seq(Seq(Line)) /\ Len(p) = n
    BY <1>1, <2>1 DEF Text
  <2>3. \A j \in 1 .. n : p[j] = Piece(src, patch, j)
    BY <1>1
  <2> HIDE DEF p
  <2>4. PICK g : Flattens(g, Line, p)
    BY <2>2, FlattenExists
  <2>5. /\ g[0] = <<>> /\ FlattenSeq(p) = g[n]
        /\ \A j \in 1 .. n : g[j] = g[j - 1] \o p[j]
    BY <2>2, <2>4, Zenon DEF Flattens
  <2> DEFINE P == {j \in 0 .. n : f[j].result = g[j]}
  <2>6. 0 \in P
    BY <1>1, <1>3, <2>5 DEF Begin
  <2>7. ASSUME NEW j \in 1 .. n, j - 1 \in P PROVE j \in P
    <3>1. f[j - 1].result = g[j - 1]
      BY <2>7
    <3>2. f[j].result = g[j]
      BY <2>1, <2>3, <2>5, <3>1, Zenon
    <3> QED
      BY <1>1, <3>2
  <2> HIDE DEF P
  <2>8. n \in P
    <3>1. \A j \in 0 .. n : j \in P
      BY <1>1, <2>6, <2>7, InductionUpTo
    <3> QED
      BY <1>1, <3>1
  <2>9. f[n].result = FlattenSeq(p)
    BY <2>5, <2>8 DEF P
  <2>10. f[n].srcIndex = HunkEnd(patch, n)
    <3>1. n \in 0 .. n /\ f[n].ok
      BY <1>1, <1>6
    <3> QED
      BY <1>4, <3>1
  <2> QED
    BY <2>9, <2>10, Zenon DEF Whole, Patched, p, n
<1> QED
  BY <1>1, <1>5, <1>6 DEF res

-----------------------------------------------------------------------------
(* The sides of consecutive lines *)

LEMMA SideType ==
    ASSUME NEW lines \in Seq(HunkLine(STRING)), NEW marks
    PROVE  Side(lines, marks) \in Text /\ Len(Side(lines, marks)) \in Nat
<1>1. PICK g : SideOf(g, lines, marks)
  BY SideExists
<1>2. Len(lines) \in 0 .. Len(lines)
  BY LenProperties
<1>3. Side(lines, marks) \in Text
  BY <1>1, <1>2 DEF SideOf
<1> QED
  BY <1>3, LenProperties DEF Text

LEMMA SideEmpty ==
    ASSUME NEW marks
    PROVE  Side(<<>>, marks) = <<>>
<1>1. <<>> \in Seq(HunkLine(STRING)) /\ Len(<<>>) = 0
  OBVIOUS
<1>2. PICK g : SideOf(g, <<>>, marks)
  BY <1>1, SideExists
<1> QED
  BY <1>1, <1>2 DEF SideOf

\* The side of one line.
LEMMA SideOne ==
    ASSUME NEW line \in HunkLine(STRING), NEW marks
    PROVE  Side(<<line>>, marks) = IF line.mark \in marks THEN <<line.content>> ELSE <<>>
<1> DEFINE lines == <<line>>
<1>1. lines \in Seq(HunkLine(STRING)) /\ Len(lines) = 1 /\ lines[1] = line
  OBVIOUS
<1> HIDE DEF lines
<1>2. PICK g : SideOf(g, lines, marks)
  BY <1>1, SideExists
<1>3. /\ g[0] = <<>> /\ Side(lines, marks) = g[1]
      /\ g[1] = IF line.mark \in marks THEN g[0] \o <<line.content>> ELSE g[0]
  <2>1. 1 \in 1 .. Len(lines) /\ 1 - 1 = 0
    BY <1>1
  <2> QED
    BY <1>1, <1>2, <2>1 DEF SideOf
<1>4. line.content \in STRING
  BY DEF HunkLine
<1>5. <<>> \o <<line.content>> = <<line.content>>
  BY <1>4, ConcatEmptySeq
<1> QED
  BY <1>3, <1>5 DEF lines

\* The side of lines behind others is their side behind that of the others.
LEMMA SideConcat ==
    ASSUME NEW s \in Seq(HunkLine(STRING)), NEW t \in Seq(HunkLine(STRING)), NEW marks
    PROVE  Side(s \o t, marks) = Side(s, marks) \o Side(t, marks)
<1> DEFINE m == Len(s)
           n == Len(t)
           c == s \o t
<1>1. /\ m \in Nat /\ n \in Nat /\ c \in Seq(HunkLine(STRING)) /\ Len(c) = m + n
      /\ \A i \in 1 .. m : c[i] = s[i]
      /\ \A j \in 1 .. n : c[m + j] = t[j]
  OBVIOUS
<1> HIDE DEF m, n, c
<1>2. PICK f : SideOf(f, s, marks)
  BY SideExists
<1>3. PICK g : SideOf(g, t, marks)
  BY SideExists
<1>4. PICK h : SideOf(h, c, marks)
  BY <1>1, SideExists
<1>5. /\ f \in [0 .. m -> Text] /\ f[0] = <<>> /\ Side(s, marks) = f[m]
      /\ \A i \in 1 .. m : f[i] = WithLine(s[i], marks, f[i - 1])
  BY <1>2, Zenon DEF SideOf, WithLine, m
<1>6. /\ g \in [0 .. n -> Text] /\ g[0] = <<>> /\ Side(t, marks) = g[n]
      /\ \A i \in 1 .. n : g[i] = WithLine(t[i], marks, g[i - 1])
  BY <1>3, Zenon DEF SideOf, WithLine, n
<1>7. /\ h[0] = <<>> /\ Side(c, marks) = h[m + n]
      /\ \A i \in 1 .. m + n : h[i] = WithLine(c[i], marks, h[i - 1])
  BY <1>1, <1>4, Zenon DEF SideOf, WithLine
<1> DEFINE P == {i \in 0 .. m : h[i] = f[i]}
<1>8. h[m] = f[m]
  <2>1. 0 \in P
    BY <1>1, <1>5, <1>7
  <2>2. ASSUME NEW i \in 1 .. m, i - 1 \in P PROVE i \in P
    <3>1. i \in 1 .. m + n /\ i \in 0 .. m
      BY <1>1
    <3>2. h[i - 1] = f[i - 1]
      BY <2>2
    <3>3. h[i] = f[i]
      BY <1>1, <1>5, <1>7, <3>1, <3>2, Zenon
    <3> QED
      BY <3>1, <3>3
  <2> HIDE DEF P
  <2>3. m \in P
    <3>1. \A i \in 0 .. m : i \in P
      BY <1>1, <2>1, <2>2, InductionUpTo
    <3> QED
      BY <1>1, <3>1
  <2> QED
    BY <2>3 DEF P
<1> DEFINE Q == {j \in 0 .. n : h[m + j] = f[m] \o g[j]}
<1>9. f[m] \in Text
  BY <1>1, <1>5
<1>10. h[m + n] = f[m] \o g[n]
  <2>1. 0 \in Q
    <3>1. f[m] \o <<>> = f[m]
      BY <1>9, ConcatEmptySeq DEF Text
    <3>2. m + 0 = m /\ 0 \in 0 .. n
      BY <1>1
    <3>3. h[m + 0] = f[m] \o g[0]
      BY <1>6, <1>8, <3>1, <3>2, Zenon
    <3> QED
      BY <3>2, <3>3
  <2>2. ASSUME NEW j \in 1 .. n, j - 1 \in Q PROVE j \in Q
    <3>1. m + j \in 1 .. m + n /\ j \in 0 .. n /\ m + j - 1 = m + (j - 1) /\ j - 1 \in 0 .. n
      BY <1>1
    <3>2. h[m + (j - 1)] = f[m] \o g[j - 1]
      BY <2>2
    <3>3. h[m + j] = WithLine(t[j], marks, f[m] \o g[j - 1])
      <4> DEFINE x == m + j
      <4>1. x \in 1 .. m + n /\ x - 1 = m + (j - 1) /\ c[x] = t[j]
        BY <1>1, <3>1
      <4> HIDE DEF x
      <4>2. h[x] = WithLine(c[x], marks, h[x - 1])
        BY <1>7, <4>1
      <4>3. h[x] = WithLine(t[j], marks, f[m] \o g[j - 1])
        BY <3>2, <4>1, <4>2, Zenon
      <4> QED
        BY <4>3 DEF x
    <3>4. g[j] = WithLine(t[j], marks, g[j - 1]) /\ g[j - 1] \in Text
      BY <1>6, <3>1
    <3>5. <<t[j].content>> \in Text
      <4>1. t[j] \in HunkLine(STRING)
        BY DEF n
      <4>2. t[j].content \in Line
        BY <4>1 DEF HunkLine, Line
      <4> QED
        BY <4>2 DEF Text
    <3>6. (f[m] \o g[j - 1]) \o <<t[j].content>> = f[m] \o (g[j - 1] \o <<t[j].content>>)
      BY <1>9, <3>4, <3>5, TextAssociative
    <3>7. h[m + j] = f[m] \o g[j]
      BY <3>3, <3>4, <3>6, Zenon DEF WithLine
    <3> QED
      BY <3>1, <3>7
  <2> HIDE DEF Q
  <2>3. n \in Q
    <3>1. \A j \in 0 .. n : j \in Q
      BY <1>1, <2>1, <2>2, InductionUpTo
    <3> QED
      BY <1>1, <3>1
  <2> QED
    BY <2>3 DEF Q
<1> QED
  BY <1>5, <1>6, <1>7, <1>10, Zenon DEF c

\* Lines that are all kept have the same two sides.
LEMMA SideKept ==
    ASSUME NEW lines \in Seq(HunkLine(STRING)), \A i \in 1 .. Len(lines) : lines[i].mark = "="
    PROVE  Side(lines, {"=", "-"}) = Side(lines, {"=", "+"})
<1>1. DOMAIN lines = 1 .. Len(lines)
  OBVIOUS
<1>2. [i \in DOMAIN lines |-> IF lines[i].mark \in {"=", "-"} THEN <<lines[i].content>> ELSE <<>>]
        = [i \in DOMAIN lines |-> IF lines[i].mark \in {"=", "+"} THEN <<lines[i].content>> ELSE <<>>]
  BY <1>1
<1> QED
  BY <1>2, Zenon DEF Side

-----------------------------------------------------------------------------
(* From a script to the text it makes *)

\* The lines i .. j of a script in the source, and in the text that replaces it.
Old(s, i, j) == Side(SubSeq(s, i, j), {"=", "-"})
New(s, i, j) == Side(SubSeq(s, i, j), {"=", "+"})

LEMMA LinesBetween ==
    ASSUME NEW S, NEW s \in Seq(S), NEW i \in 1 .. Len(s) + 1, NEW j \in i - 1 .. Len(s)
    PROVE  /\ SubSeq(s, i, j) \in Seq(S)
           /\ Len(SubSeq(s, i, j)) = j - i + 1
           /\ \A x \in 1 .. j - i + 1 : SubSeq(s, i, j)[x] = s[i + x - 1]
<1>1. Len(s) \in Nat /\ \A x \in 1 .. Len(s) : s[x] \in S
  OBVIOUS
<1>2. i \in Int /\ j \in Int /\ \A x \in i .. j : s[x] \in S
  BY <1>1
<1>3. /\ SubSeq(s, i, j) \in Seq(S)
      /\ Len(SubSeq(s, i, j)) = IF i <= j THEN j - i + 1 ELSE 0
      /\ \A x \in 1 .. j - i + 1 : SubSeq(s, i, j)[x] = s[i + x - 1]
  BY <1>2, SubSeqProperties
<1>4. (IF i <= j THEN j - i + 1 ELSE 0) = j - i + 1
  BY <1>1
<1> QED
  BY <1>3, <1>4

LEMMA SideSplit ==
    ASSUME NEW s \in Seq(HunkLine(STRING)), NEW marks,
           NEW i \in 1 .. Len(s) + 1, NEW k \in i - 1 .. Len(s), NEW j \in k .. Len(s)
    PROVE  Side(SubSeq(s, i, k), marks) \o Side(SubSeq(s, k + 1, j), marks)
             = Side(SubSeq(s, i, j), marks)
<1>1. SubSeq(s, i, k) \o SubSeq(s, k + 1, j) = SubSeq(s, i, j)
  BY ConcatAdjacentSubSeq
<1>2. /\ Len(s) \in Nat /\ k + 1 \in 1 .. Len(s) + 1
      /\ j \in (k + 1) - 1 .. Len(s) /\ j \in i - 1 .. Len(s)
  <2>1. Len(s) \in Nat
    OBVIOUS
  <2> QED
    BY <2>1
<1>3. SubSeq(s, i, k) \in Seq(HunkLine(STRING)) /\ SubSeq(s, k + 1, j) \in Seq(HunkLine(STRING))
  BY <1>2, LinesBetween
<1> DEFINE u == SubSeq(s, i, k)
           v == SubSeq(s, k + 1, j)
<1>4. u \in Seq(HunkLine(STRING)) /\ v \in Seq(HunkLine(STRING)) /\ u \o v = SubSeq(s, i, j)
  BY <1>1, <1>3
<1> HIDE DEF u, v
<1>5. Side(u \o v, marks) = Side(u, marks) \o Side(v, marks)
  BY <1>4, SideConcat
<1> QED
  BY <1>4, <1>5 DEF u, v

\* The two sides of the lines i .. j.
LEMMA SidesType ==
    ASSUME NEW s \in Seq(HunkLine(STRING)), NEW i \in 1 .. Len(s) + 1, NEW j \in i - 1 .. Len(s)
    PROVE  /\ Old(s, i, j) \in Text /\ Len(Old(s, i, j)) \in Nat
           /\ New(s, i, j) \in Text /\ Len(New(s, i, j)) \in Nat
BY LinesBetween, SideType DEF Old, New

LEMMA SidesKept ==
    ASSUME NEW s \in Seq(HunkLine(STRING)), NEW i \in 1 .. Len(s) + 1, NEW j \in i - 1 .. Len(s),
           \A x \in i .. j : s[x].mark = "="
    PROVE  Old(s, i, j) = New(s, i, j)
<1> DEFINE t == SubSeq(s, i, j)
<1>1. /\ t \in Seq(HunkLine(STRING)) /\ Len(t) = j - i + 1
      /\ \A x \in 1 .. j - i + 1 : t[x] = s[i + x - 1]
  BY LinesBetween
<1>2. Len(s) \in Nat
  OBVIOUS
<1>3. \A x \in 1 .. j - i + 1 : i + x - 1 \in i .. j
  BY <1>2
<1> HIDE DEF t
<1>4. \A x \in 1 .. Len(t) : t[x].mark = "="
  BY <1>1, <1>3
<1>5. Side(t, {"=", "-"}) = Side(t, {"=", "+"})
  BY <1>1, <1>4, SideKept
<1> QED
  BY <1>5 DEF Old, New, t

\* The middle of three texts.
LEMMA MiddleText ==
    ASSUME NEW x \in Text, NEW y \in Text, NEW z \in Text
    PROVE  /\ SubSeq(x \o (y \o z), Len(x) + 1, Len(x) + Len(y)) = y
           /\ Len(x) + Len(y) <= Len(x \o (y \o z))
<1> DEFINE w == x \o (y \o z)
           v == y \o z
<1>1. Len(x) \in Nat /\ Len(y) \in Nat /\ Len(z) \in Nat
  BY DEF Text
<1>2. /\ v \in Text /\ Len(v) = Len(y) + Len(z)
      /\ \A i \in 1 .. Len(y) : v[i] = y[i]
  BY <1>1 DEF Text
<1> HIDE DEF v
<1>3. /\ x \o v \in Text /\ Len(x \o v) = Len(x) + Len(v)
      /\ \A i \in 1 .. Len(v) : (x \o v)[Len(x) + i] = v[i]
  <2>1. x \in Seq(Line) /\ v \in Seq(Line)
    BY <1>2 DEF Text
  <2>2. /\ x \o v \in Seq(Line) /\ Len(x \o v) = Len(x) + Len(v)
        /\ \A i \in 1 .. Len(v) : (x \o v)[Len(x) + i] = v[i]
    BY <2>1
  <2> QED
    BY <2>2 DEF Text
<1>4. w = x \o v
  BY DEF v
<1> HIDE DEF w
<1>5. w \in Text /\ Len(x) \in 0 .. Len(w) /\ Len(x) + Len(y) <= Len(w)
  BY <1>1, <1>2, <1>3, <1>4
<1>6. \A i \in 1 .. Len(y) : w[Len(x) + i] = y[i]
  <2>1. \A i \in 1 .. Len(y) : i \in 1 .. Len(v)
    BY <1>1, <1>2
  <2> QED
    BY <1>2, <1>3, <1>4, <2>1
<1>7. Stands(w, Len(x), y)
  BY <1>5, <1>6 DEF Stands
<1>8. SubSeq(w, Len(x) + 1, Len(x) + Len(y)) = y
  BY <1>5, <1>7, StandsSubSeq
<1> QED
  BY <1>5, <1>8 DEF w

\* Putting texts together is associative, stated as predicates for the provers' sake.
Assoc(x, y, z) == (x \o y) \o z = x \o (y \o z)

LEMMA AssocTexts ==
    ASSUME NEW x \in Text, NEW y \in Text, NEW z \in Text
    PROVE  Assoc(x, y, z) /\ x \o y \in Text
<1>1. x \o y \in Text
  BY ConcatProperties DEF Text
<1> QED
  BY <1>1, TextAssociative DEF Assoc

AssocFive(x, g, y, z, r) ==
    /\ (((x \o g) \o y) \o z) \o r = (x \o g) \o (y \o (z \o r))
    /\ (((x \o g) \o y) \o z) \o r = x \o (g \o (y \o (z \o r)))

LEMMA FiveTexts ==
    ASSUME NEW x \in Text, NEW g \in Text, NEW y \in Text, NEW z \in Text, NEW r \in Text
    PROVE  AssocFive(x, g, y, z, r)
<1> DEFINE xg  == x \o g
           xgy == xg \o y
           w   == z \o r
           v   == y \o w
<1>1. xg \in Text /\ w \in Text
  BY AssocTexts
<1>2. xgy \in Text /\ v \in Text
  <2> HIDE DEF xg, w
  <2> QED
    BY <1>1, AssocTexts
<1>3. Assoc(x, g, v) /\ Assoc(xg, y, w) /\ Assoc(xgy, z, r)
  <2> HIDE DEF xg, w, xgy, v
  <2> QED
    BY <1>1, <1>2, AssocTexts
<1>4. xg \o v = x \o (g \o v) /\ xgy \o w = xg \o v /\ (xgy \o z) \o r = xgy \o w
  BY <1>3, Zenon DEF Assoc
<1> HIDE DEF xg, xgy, w, v
<1>5. (xgy \o z) \o r = xg \o v /\ (xgy \o z) \o r = x \o (g \o v)
  BY <1>4, Zenon
<1> QED
  BY <1>5, Zenon DEF xg, xgy, w, v, AssocFive

\* The hunk of the lines i .. j, when all lines of the script from p to i are kept: it
\* fits the source, and with the text before it makes the new text from p to j.
CutDoes(src, s, p, i, j) ==
    LET hunk == ScriptHunk(s, i, j)
    IN  /\ hunk \in Hunk(STRING)
        /\ ValidateHunk(hunk)
        /\ LastLine(hunk) = Len(Old(s, 1, j))
        /\ Len(Old(s, 1, p)) < hunk.srcLine
        /\ HunkFits(src, hunk)
        /\ SubSeq(src, Len(Old(s, 1, p)) + 1, hunk.srcLine - 1) \o After(hunk) = New(s, p + 1, j)

LEMMA CutFits ==
    ASSUME NEW s \in Seq(HunkLine(STRING)), NEW rest \in Text,
           NEW src, src = Side(s, {"=", "-"}) \o rest,
           NEW p \in 0 .. Len(s), NEW i \in p + 1 .. Len(s), NEW j \in i .. Len(s),
           \A x \in p + 1 .. i - 1 : s[x].mark = "="
    PROVE  CutDoes(src, s, p, i, j)
<1> DEFINE N    == Len(s)
           hunk == ScriptHunk(s, i, j)
           X    == Old(s, 1, p)
           G    == Old(s, p + 1, i - 1)
           Y    == Old(s, i, j)
           Z    == Old(s, j + 1, N)
           A    == New(s, i, j)
<1>1. /\ N \in Nat /\ p \in Nat /\ i \in Nat /\ j \in Nat
      /\ p < i /\ i <= j /\ j <= N
  <2>1. N \in Nat
    OBVIOUS
  <2> QED
    BY <2>1
<1> HIDE DEF N
<1>2. /\ 1 \in 1 .. N + 1 /\ p \in 1 - 1 .. N /\ p \in 0 .. N
      /\ p + 1 \in 1 .. N + 1 /\ i - 1 \in (p + 1) - 1 .. N
      /\ i \in 1 .. N + 1 /\ j \in i - 1 .. N
      /\ j + 1 \in 1 .. N + 1 /\ N \in (j + 1) - 1 .. N
      /\ i - 1 \in 1 - 1 .. N /\ j \in 1 - 1 .. N /\ i - 1 \in p .. N /\ j \in i - 1 .. N
      /\ N \in j .. N /\ (i - 1) + 1 = i /\ j \in (p + 1) - 1 .. N
  BY <1>1
<1>3. /\ X \in Text /\ Len(X) \in Nat /\ G \in Text /\ Len(G) \in Nat
      /\ Y \in Text /\ Len(Y) \in Nat /\ Z \in Text /\ A \in Text /\ Len(A) \in Nat
      /\ New(s, i, j) \in Text
  BY <1>2, SidesType DEF N
<1>4. Old(s, 1, i - 1) = X \o G
  BY <1>2, SideSplit DEF Old, N
<1>5. Old(s, 1, j) = (X \o G) \o Y
  <2>1. Old(s, 1, i - 1) \o Old(s, (i - 1) + 1, j) = Old(s, 1, j)
    BY <1>2, SideSplit DEF Old, N
  <2> QED
    BY <1>2, <1>4, <2>1, Zenon
<1>6. Side(s, {"=", "-"}) = ((X \o G) \o Y) \o Z
  <2>1. Old(s, 1, j) \o Old(s, j + 1, N) = Old(s, 1, N)
    BY <1>2, SideSplit DEF Old, N
  <2>2. Old(s, 1, N) = Side(s, {"=", "-"})
    BY SubSeqFull DEF Old, N
  <2> QED
    BY <1>5, <2>1, <2>2, Zenon
<1>7. G \o A = New(s, p + 1, j)
  <2>1. G = New(s, p + 1, i - 1)
    BY <1>2, SidesKept DEF N
  <2>2. New(s, p + 1, i - 1) \o New(s, (i - 1) + 1, j) = New(s, p + 1, j)
    BY <1>2, SideSplit DEF New, N
  <2> QED
    BY <1>2, <2>1, <2>2, Zenon
<1>8. /\ hunk.srcLine = Len(Old(s, 1, i - 1)) + 1 /\ hunk.srcSpan = Len(Y)
      /\ hunk.dstLine = Len(New(s, 1, i - 1)) + 1 /\ hunk.dstSpan = Len(A)
      /\ hunk.lines = SubSeq(s, i, j)
      /\ Before(hunk) = Y /\ After(hunk) = A
  BY DEF ScriptHunk, Old, New, Before, After
<1>9. hunk \in Hunk(STRING)
  <2>1. SubSeq(s, i, j) \in Seq(HunkLine(STRING))
    BY <1>2, LinesBetween DEF N
  <2>2. Len(Old(s, 1, i - 1)) \in Nat /\ Len(New(s, 1, i - 1)) \in Nat
    BY <1>2, SidesType DEF N
  <2> DEFINE o == Len(Old(s, 1, i - 1))
             n == Len(New(s, 1, i - 1))
             l == SubSeq(s, i, j)
             y == Len(Y)
             a == Len(A)
  <2>3. hunk = [srcLine |-> o + 1, srcSpan |-> y, dstLine |-> n + 1, dstSpan |-> a, lines |-> l]
    BY DEF ScriptHunk, Old, New
  <2>4. o + 1 \in Int /\ n + 1 \in Int /\ y \in Nat /\ a \in Nat /\ l \in Seq(HunkLine(STRING))
    BY <1>3, <2>1, <2>2
  <2> HIDE DEF o, n, l, y, a, hunk
  <2> QED
    BY <2>3, <2>4 DEF Hunk
<1>10. ValidateHunk(hunk)
  BY <1>8 DEF ValidateHunk
<1> HIDE DEF hunk, X, G, Y, Z, A
<1>11. Len(X \o G) = Len(X) + Len(G) /\ X \o G \in Text
  BY <1>3, ConcatProperties DEF Text
<1>12. Len((X \o G) \o Y) = Len(X \o G) + Len(Y)
  BY <1>3, <1>11, ConcatProperties DEF Text
<1>13. /\ hunk.srcLine = Len(X \o G) + 1 /\ LastLine(hunk) = Len(X \o G) + Len(Y)
       /\ LastLine(hunk) = Len(Old(s, 1, j))
       /\ Len(X) < hunk.srcLine /\ hunk.srcLine - 1 = Len(X) + Len(G)
  <2>1. hunk.srcLine = Len(X \o G) + 1 /\ hunk.srcSpan = Len(Y)
    BY <1>4, <1>8
  <2>2. LastLine(hunk) = Len(X \o G) + Len(Y)
    BY <1>3, <1>11, <2>1 DEF LastLine
  <2>3. Len(X) < hunk.srcLine /\ hunk.srcLine - 1 = Len(X) + Len(G)
    BY <1>3, <1>11, <2>1
  <2> QED
    BY <1>5, <1>12, <2>1, <2>2, <2>3, Zenon
<1>14. src = (X \o G) \o (Y \o (Z \o rest)) /\ src = X \o (G \o (Y \o (Z \o rest)))
  <2>1. src = (((X \o G) \o Y) \o Z) \o rest
    BY <1>6, Zenon
  <2>2. src = (X \o G) \o (Y \o (Z \o rest)) /\ src = X \o (G \o (Y \o (Z \o rest)))
    <3>1. X \in Text /\ G \in Text /\ Y \in Text /\ Z \in Text /\ rest \in Text
      BY <1>3
    <3>2. AssocFive(X, G, Y, Z, rest)
      BY <3>1, FiveTexts
    <3> QED
      BY <2>1, <3>2, Zenon DEF AssocFive
  <2> QED
    BY <2>2
<1> DEFINE W == Z \o rest
           V == Y \o W
<1>15. W \in Text
  BY <1>3, ConcatProperties DEF Text
<1>16. src = (X \o G) \o (Y \o W) /\ src = X \o (G \o V)
  BY <1>14
<1> HIDE DEF W
<1>17. V \in Text
  BY <1>3, <1>15, ConcatProperties DEF Text
<1> HIDE DEF V
<1>18. HunkFits(src, hunk)
  <2> DEFINE XG == X \o G
  <2>1. XG \in Text
    BY <1>11
  <2> HIDE DEF XG
  <2>2. /\ SubSeq(XG \o (Y \o W), Len(XG) + 1, Len(XG) + Len(Y)) = Y
        /\ Len(XG) + Len(Y) <= Len(XG \o (Y \o W))
    BY <1>3, <1>15, <2>1, MiddleText
  <2> QED
    BY <1>8, <1>13, <1>16, <2>2, Zenon DEF HunkFits, XG
<1>19. SubSeq(src, Len(X) + 1, hunk.srcLine - 1) = G
  <2>1. SubSeq(X \o (G \o V), Len(X) + 1, Len(X) + Len(G)) = G
    BY <1>3, <1>17, MiddleText
  <2> QED
    BY <1>13, <1>16, <2>1, Zenon
<1>20. SubSeq(src, Len(X) + 1, hunk.srcLine - 1) \o After(hunk) = New(s, p + 1, j)
  BY <1>7, <1>8, <1>19, Zenon
<1> QED
  BY <1>9, <1>10, <1>13, <1>18, <1>20, Zenon DEF CutDoes, hunk, X

\* The text after the first of two.
LEMMA EndText ==
    ASSUME NEW x \in Text, NEW y \in Text
    PROVE  SubSeq(x \o y, Len(x) + 1, Len(x \o y)) = y
<1>1. y \o <<>> = y /\ <<>> \in Text
  BY ConcatEmptySeq, EmptySeq DEF Text
<1>2. Len(x \o y) = Len(x) + Len(y)
  BY ConcatProperties DEF Text
<1>3. SubSeq(x \o (y \o <<>>), Len(x) + 1, Len(x) + Len(y)) = y
  BY <1>1, MiddleText
<1> QED
  BY <1>1, <1>2, <1>3, Zenon

\* The n runs st[k] .. e[k] of lines of a script, one after the other, have every change.
Cuts(s, n, st, e) ==
    /\ n \in Nat \ {0}
    /\ st \in [1 .. n -> 1 .. Len(s)]
    /\ e \in [0 .. n -> 0 .. Len(s)]
    /\ e[0] = 0
    /\ \A k \in 1 .. n : /\ e[k - 1] < st[k] /\ st[k] <= e[k]
                         /\ \A x \in e[k - 1] + 1 .. st[k] - 1 : s[x].mark = "="
    /\ \A x \in e[n] + 1 .. Len(s) : s[x].mark = "="

\* The hunks of the runs.
CutPatch(s, n, st, e) == [k \in 1 .. n |-> ScriptHunk(s, st[k], e[k])]

\* The patch fits the source and makes the text of it.
Makes(src, patch, text) ==
    /\ ParseUnifiedDiff(patch) /\ InOrder(patch) /\ Fits(src, patch)
    /\ Patched(src, patch) = text

\* The hunks of such runs are a patch that fits the source and makes the new text.
LEMMA CutsMakeText ==
    ASSUME NEW s \in Seq(HunkLine(STRING)), NEW rest \in Text,
           NEW src, src = Side(s, {"=", "-"}) \o rest,
           NEW n, NEW st, NEW e, Cuts(s, n, st, e),
           NEW patch, patch = CutPatch(s, n, st, e)
    PROVE  Makes(src, patch, Side(s, {"=", "+"}) \o rest)
<1> DEFINE N == Len(s)
<1>1. /\ N \in Nat /\ n \in Nat \ {0}
      /\ st \in [1 .. n -> 1 .. N] /\ e \in [0 .. n -> 0 .. N] /\ e[0] = 0
      /\ \A k \in 1 .. n : /\ e[k - 1] < st[k] /\ st[k] <= e[k]
                           /\ \A x \in e[k - 1] + 1 .. st[k] - 1 : s[x].mark = "="
      /\ \A x \in e[n] + 1 .. N : s[x].mark = "="
  <2>1. N \in Nat
    OBVIOUS
  <2> QED
    BY <2>1, Zenon DEF Cuts
<1> HIDE DEF N
<1>2. ASSUME NEW k \in 1 .. n
      PROVE  /\ k - 1 \in 0 .. n /\ k \in 0 .. n
             /\ e[k - 1] \in 0 .. N /\ st[k] \in e[k - 1] + 1 .. N /\ e[k] \in st[k] .. N
             /\ e[k] \in 0 .. N
  <2>1. k - 1 \in 0 .. n /\ k \in 0 .. n
    BY <1>1
  <2>2. e[k - 1] \in 0 .. N /\ e[k] \in 0 .. N /\ st[k] \in 1 .. N
    BY <1>1, <2>1
  <2>3. e[k - 1] < st[k] /\ st[k] <= e[k]
    BY <1>1
  <2> QED
    BY <1>1, <2>1, <2>2, <2>3
<1>3. \A k \in 1 .. n : CutDoes(src, s, e[k - 1], st[k], e[k])
  <2> TAKE k \in 1 .. n
  <2> DEFINE p == e[k - 1]
             i == st[k]
             j == e[k]
  <2>1. /\ p \in 0 .. Len(s) /\ i \in p + 1 .. Len(s) /\ j \in i .. Len(s)
        /\ \A x \in p + 1 .. i - 1 : s[x].mark = "="
    BY <1>1, <1>2 DEF N
  <2> HIDE DEF p, i, j
  <2>2. CutDoes(src, s, p, i, j)
    BY <2>1, CutFits
  <2> QED
    BY <2>2 DEF p, i, j
<1>4. \A k \in 1 .. n :
         /\ patch[k] \in Hunk(STRING) /\ ValidateHunk(patch[k])
         /\ LastLine(patch[k]) = Len(Old(s, 1, e[k]))
         /\ Len(Old(s, 1, e[k - 1])) < patch[k].srcLine
         /\ HunkFits(src, patch[k])
         /\ SubSeq(src, Len(Old(s, 1, e[k - 1])) + 1, patch[k].srcLine - 1) \o After(patch[k])
              = New(s, e[k - 1] + 1, e[k])
  <2> TAKE k \in 1 .. n
  <2>1. patch[k] = ScriptHunk(s, st[k], e[k])
    BY DEF CutPatch
  <2>2. CutDoes(src, s, e[k - 1], st[k], e[k])
    BY <1>3
  <2> QED
    BY <2>1, <2>2, Zenon DEF CutDoes
<1>5. /\ DOMAIN patch = 1 .. n /\ Len(patch) = n /\ patch \in Seq(Hunk(STRING)) /\ patch # <<>>
  <2>1. DOMAIN patch = 1 .. n
    BY DEF CutPatch
  <2>2. patch \in [1 .. n -> Hunk(STRING)]
    BY <1>4 DEF CutPatch
  <2> HIDE DEF Hunk
  <2>3. patch \in Seq(Hunk(STRING)) /\ Len(patch) = n
    BY <1>1, <2>2
  <2>4. patch # <<>>
    BY <1>1, <2>3, EmptySeq
  <2> QED
    BY <2>1, <2>3, <2>4
<1>6. Old(s, 1, 0) = <<>> /\ New(s, 1, 0) = <<>>
  <2>1. SubSeq(s, 1, 0) = <<>>
    BY SubSeqEmpty
  <2> QED
    BY <2>1, SideEmpty DEF Old, New
<1>7. \A k \in 0 .. n : HunkEnd(patch, k) = Len(Old(s, 1, e[k]))
  <2> TAKE k \in 0 .. n
  <2>1. CASE k = 0
    <3>1. HunkEnd(patch, 0) = 0
      BY DEF HunkEnd
    <3>2. Len(Old(s, 1, e[0])) = 0
      BY <1>1, <1>6
    <3> QED
      BY <2>1, <3>1, <3>2
  <2>2. CASE k # 0
    <3>1. k \in 1 .. n
      BY <1>1, <2>2
    <3>2. HunkEnd(patch, k) = LastLine(patch[k])
      BY <2>2 DEF HunkEnd
    <3> QED
      BY <1>4, <3>1, <3>2, Zenon
  <2> QED
    BY <2>1, <2>2
<1>8. \A k \in 1 .. n : k - 1 \in 0 .. n /\ HunkEnd(patch, k - 1) = Len(Old(s, 1, e[k - 1]))
  <2> TAKE k \in 1 .. n
  <2>1. k - 1 \in 0 .. n
    BY <1>1
  <2> QED
    BY <1>7, <2>1
<1>9. ParseUnifiedDiff(patch)
  BY <1>4, <1>5, Zenon DEF ParseUnifiedDiff
<1>10. InOrder(patch)
  BY <1>4, <1>5, <1>8, Zenon DEF InOrder
<1>11. Fits(src, patch)
  BY <1>4, <1>5, Zenon DEF Fits
<1>12. \A k \in 1 .. n : Piece(src, patch, k) = New(s, e[k - 1] + 1, e[k])
  BY <1>4, <1>8, Zenon DEF Piece
<1>13. \A k \in 1 .. n : New(s, e[k - 1] + 1, e[k]) \in Text
  <2> TAKE k \in 1 .. n
  <2> DEFINE p == e[k - 1] + 1
             j == e[k]
  <2>1. p \in 1 .. Len(s) + 1 /\ j \in p - 1 .. Len(s)
    BY <1>1, <1>2 DEF N
  <2> HIDE DEF p, j
  <2>2. New(s, p, j) \in Text
    BY <2>1, SidesType
  <2> QED
    BY <2>2 DEF p, j
<1> DEFINE pieces == [k \in DOMAIN patch |-> Piece(src, patch, k)]
<1>14. FlattenSeq(pieces) = New(s, 1, e[n])
  <2>1. pieces \in Seq(Seq(Line)) /\ Len(pieces) = n
    <3>1. pieces \in [1 .. n -> Seq(Line)]
      BY <1>5, <1>12, <1>13 DEF Text
    <3> HIDE DEF pieces
    <3> QED
      BY <1>1, <3>1
  <2>2. \A k \in 1 .. n : pieces[k] = New(s, e[k - 1] + 1, e[k])
    BY <1>5, <1>12
  <2> HIDE DEF pieces
  <2>3. PICK g : Flattens(g, Line, pieces)
    BY <2>1, FlattenExists
  <2>4. /\ g[0] = <<>> /\ FlattenSeq(pieces) = g[n]
        /\ \A k \in 1 .. n : g[k] = g[k - 1] \o New(s, e[k - 1] + 1, e[k])
    BY <2>1, <2>2, <2>3, Zenon DEF Flattens
  <2> DEFINE P == {k \in 0 .. n : g[k] = New(s, 1, e[k])}
  <2>5. 0 \in P
    BY <1>1, <1>6, <2>4
  <2>6. ASSUME NEW k \in 1 .. n, k - 1 \in P PROVE k \in P
    <3>1. g[k - 1] = New(s, 1, e[k - 1])
      BY <2>6
    <3>2. New(s, 1, e[k - 1]) \o New(s, e[k - 1] + 1, e[k]) = New(s, 1, e[k])
      <4> DEFINE p == e[k - 1]
                 j == e[k]
      <4>1. 1 \in 1 .. Len(s) + 1 /\ p \in 1 - 1 .. Len(s) /\ j \in p .. Len(s)
        BY <1>1, <1>2 DEF N
      <4> HIDE DEF p, j
      <4>2. New(s, 1, p) \o New(s, p + 1, j) = New(s, 1, j)
        BY <4>1, SideSplit DEF New
      <4> QED
        BY <4>2 DEF p, j
    <3>3. g[k] = New(s, 1, e[k])
      BY <2>4, <3>1, <3>2, Zenon
    <3> QED
      BY <1>1, <3>3
  <2> HIDE DEF P
  <2>7. n \in P
    <3>1. \A k \in 0 .. n : k \in P
      BY <1>1, <2>5, <2>6, InductionUpTo
    <3> QED
      BY <1>1, <3>1
  <2> QED
    BY <2>4, <2>7 DEF P
<1> DEFINE l == e[n]
           X == Old(s, 1, l)
           Z == Old(s, l + 1, N)
           B == New(s, 1, l)
<1>15. l \in 0 .. N /\ \A x \in l + 1 .. N : s[x].mark = "="
  BY <1>1
<1> HIDE DEF l
<1>16. /\ 1 \in 1 .. N + 1 /\ l \in 1 - 1 .. N /\ N \in l .. N
       /\ l + 1 \in 1 .. N + 1 /\ N \in (l + 1) - 1 .. N
  BY <1>1, <1>15
<1>17. /\ X \in Text /\ Z \in Text /\ B \in Text
       /\ X \o Z = Side(s, {"=", "-"}) /\ B \o Z = Side(s, {"=", "+"})
  <2>1. X \in Text /\ Z \in Text /\ B \in Text
    BY <1>16, SidesType DEF N
  <2>2. SubSeq(s, 1, N) = s
    BY SubSeqFull DEF N
  <2>3. X \o Z = Side(s, {"=", "-"})
    BY <1>16, <2>2, SideSplit DEF Old, N
  <2>4. Z = New(s, l + 1, N)
    BY <1>15, <1>16, SidesKept DEF N
  <2>5. B \o New(s, l + 1, N) = Side(s, {"=", "+"})
    BY <1>16, <2>2, SideSplit DEF New, N
  <2> QED
    BY <2>1, <2>3, <2>4, <2>5, Zenon
<1>18. HunkEnd(patch, Len(patch)) = Len(X)
  <2>1. n \in 0 .. n
    BY <1>1
  <2> QED
    BY <1>5, <1>7, <2>1 DEF l
<1>19. FlattenSeq(pieces) = B
  BY <1>14 DEF l
<1>20. Patched(src, patch) = B \o SubSeq(src, Len(X) + 1, Len(src))
  BY <1>18, <1>19, Zenon DEF Patched
<1> HIDE DEF X, Z, B, pieces
<1>21. Z \o rest \in Text /\ Assoc(X, Z, rest) /\ Assoc(B, Z, rest)
  BY <1>17, AssocTexts
<1>22. SubSeq(src, Len(X) + 1, Len(src)) = Z \o rest
  <2> DEFINE y == Z \o rest
  <2>1. y \in Text /\ src = X \o y
    BY <1>17, <1>21 DEF Assoc
  <2> HIDE DEF y
  <2>2. SubSeq(X \o y, Len(X) + 1, Len(X \o y)) = y
    BY <1>17, <2>1, EndText
  <2> QED
    BY <2>1, <2>2 DEF y
<1>23. Patched(src, patch) = Side(s, {"=", "+"}) \o rest
  BY <1>17, <1>20, <1>21, <1>22, Zenon DEF Assoc
<1> QED
  BY <1>9, <1>10, <1>11, <1>23, Zenon DEF Makes

-----------------------------------------------------------------------------
(* Runs of consecutive numbers *)

\* g has the numbers of S up to m in ascending order.
Ascends(g, S, m) ==
    /\ g \in Seq(S)
    /\ \A k, l \in 1 .. Len(g) : k < l => g[k] < g[l]
    /\ \A k \in 1 .. Len(g) : g[k] <= m
    /\ \A x \in S : x <= m => \E k \in 1 .. Len(g) : g[k] = x

LEMMA AscendsNext ==
    ASSUME NEW n \in Nat, NEW S \in SUBSET (1 .. n), NEW m \in 1 .. n, NEW g, NEW h,
           Ascends(g, S, m - 1), h = g \o (IF m \in S THEN <<m>> ELSE <<>>)
    PROVE  Ascends(h, S, m)
<1>1. /\ g \in Seq(S) /\ Len(g) \in Nat
      /\ \A k \in 1 .. Len(g) : g[k] \in S
      /\ \A k, l \in 1 .. Len(g) : k < l => g[k] < g[l]
      /\ \A k \in 1 .. Len(g) : g[k] <= m - 1
      /\ \A x \in S : x <= m - 1 => \E k \in 1 .. Len(g) : g[k] = x
  BY DEF Ascends
<1>2. (\A k \in 1 .. Len(g) : g[k] \in Nat) /\ m \in Nat
  <2>1. (\A x \in S : x \in Nat) /\ m \in Nat
    OBVIOUS
  <2> QED
    BY <1>1, <2>1, Zenon
<1>3. CASE m \notin S
  <2>1. g \o <<>> = g
    BY <1>1, ConcatEmptySeq
  <2>2. h = g
    BY <1>3, <2>1
  <2>3. \A x \in S : x <= m => x <= m - 1
    BY <1>3
  <2>4. \A k \in 1 .. Len(g) : g[k] <= m
    BY <1>1, <1>2
  <2> QED
    BY <1>1, <2>2, <2>3, <2>4 DEF Ascends
<1>4. CASE m \in S
  <2> DEFINE c == Len(g)
  <2>1. /\ h \in Seq(S) /\ Len(h) = c + 1
        /\ \A k \in 1 .. c : h[k] = g[k]
        /\ h[c + 1] = m
    BY <1>1, <1>4
  <2>2. c \in Nat
    BY <1>1
  <2> HIDE DEF c
  <2>3. /\ \A k \in 1 .. c : h[k] \in Nat /\ h[k] <= m - 1
        /\ \A k, l \in 1 .. c : k < l => h[k] < h[l]
        /\ \A x \in S : x <= m - 1 => \E k \in 1 .. c : h[k] = x
    BY <1>1, <1>2, <2>1 DEF c
  <2>4. \A k \in 1 .. c + 1 : k = c + 1 \/ k \in 1 .. c
    BY <2>2
  <2>5. \A k \in 1 .. c : k \in 1 .. c + 1
    BY <2>2
  <2>6. c + 1 \in 1 .. c + 1
    BY <2>2
  <2>7. ASSUME NEW k \in 1 .. c + 1, NEW l \in 1 .. c + 1, k < l PROVE h[k] < h[l]
    <3>1. k \in 1 .. c
      BY <2>2, <2>7
    <3>2. CASE l \in 1 .. c
      BY <2>3, <2>7, <3>1, <3>2
    <3>3. CASE l = c + 1
      BY <1>2, <2>1, <2>3, <3>1, <3>3
    <3> QED
      BY <2>4, <3>2, <3>3
  <2>8. \A k \in 1 .. c + 1 : h[k] <= m
    BY <1>2, <2>1, <2>3, <2>4
  <2>9. ASSUME NEW x \in S, x <= m PROVE \E k \in 1 .. c + 1 : h[k] = x
    <3>1. x = m \/ x <= m - 1
      BY <2>9
    <3> QED
      BY <2>1, <2>3, <2>5, <2>6, <3>1
  <2> QED
    BY <2>1, <2>7, <2>8, <2>9 DEF Ascends
<1> QED
  BY <1>3, <1>4

LEMMA AscendingAscends ==
    ASSUME NEW n \in Nat, NEW S \in SUBSET (1 .. n)
    PROVE  Ascends(Ascending(S, n), S, n)
<1> DEFINE p == [i \in 1 .. n |-> IF i \in S THEN <<i>> ELSE <<>>]
<1>1. p \in [1 .. n -> Seq(S)]
  <2>1. \A i \in 1 .. n : (IF i \in S THEN <<i>> ELSE <<>>) \in Seq(S)
    <3> TAKE i \in 1 .. n
    <3>1. <<>> \in Seq(S)
      OBVIOUS
    <3>2. i \in S => <<i>> \in Seq(S)
      OBVIOUS
    <3> QED
      BY <3>1, <3>2
  <2> QED
    BY <2>1
<1>2. \A i \in 1 .. n : p[i] = IF i \in S THEN <<i>> ELSE <<>>
  OBVIOUS
<1>3. Ascending(S, n) = FlattenSeq(p)
  BY DEF Ascending
<1> HIDE DEF p
<1>4. p \in Seq(Seq(S)) /\ Len(p) = n
  BY <1>1
<1>5. PICK g : Flattens(g, S, p)
  BY <1>4, FlattenExists
<1>6. /\ g[0] = <<>> /\ FlattenSeq(p) = g[n]
      /\ \A i \in 1 .. n : g[i] = g[i - 1] \o (IF i \in S THEN <<i>> ELSE <<>>)
  BY <1>2, <1>4, <1>5, Zenon DEF Flattens
<1> DEFINE P == {i \in 0 .. n : Ascends(g[i], S, i)}
<1>7. 0 \in P
  <2>1. <<>> \in Seq(S) /\ Len(<<>>) = 0
    OBVIOUS
  <2>2. Ascends(<<>>, S, 0)
    BY <2>1 DEF Ascends
  <2> QED
    BY <1>6, <2>2
<1>8. ASSUME NEW i \in 1 .. n, i - 1 \in P PROVE i \in P
  <2>1. Ascends(g[i - 1], S, i - 1)
    BY <1>8
  <2>2. g[i] = g[i - 1] \o (IF i \in S THEN <<i>> ELSE <<>>)
    BY <1>6
  <2>3. Ascends(g[i], S, i)
    BY <2>1, <2>2, AscendsNext
  <2> QED
    BY <2>3
<1> HIDE DEF P
<1>9. n \in P
  <2>1. \A i \in 0 .. n : i \in P
    BY <1>7, <1>8, InductionUpTo
  <2> QED
    BY <2>1
<1> QED
  BY <1>3, <1>6, <1>9 DEF P

\* A run ends.
LEMMA RunEnds ==
    ASSUME NEW n \in Nat, NEW S \in SUBSET (1 .. n), NEW i \in S
    PROVE  /\ RunEnd(S, i) \in S /\ RunEnd(S, i) >= i
           /\ i .. RunEnd(S, i) \subseteq S
           /\ RunEnd(S, i) + 1 \notin S
<1> DEFINE T == {j \in i .. n : j + 1 \notin S}
<1>1. T \in SUBSET Nat /\ n \in T
  OBVIOUS
<1>2. PICK j \in T : \A k \in T : j <= k
  <2> HIDE DEF T
  <2> QED
    BY <1>1, LeastNat
<1>3. j \in i .. n /\ j + 1 \notin S /\ i \in 1 .. n
  BY <1>2
<1>4. \A x \in i .. j : x \in S
  <2> TAKE x \in i .. j
  <2> SUFFICES ASSUME x # i PROVE x \in S
    OBVIOUS
  <2>1. x - 1 \in i .. n /\ ~(j <= x - 1) /\ (x - 1) + 1 = x
    BY <1>3
  <2>2. x - 1 \notin T
    BY <1>2, <2>1
  <2> QED
    BY <2>1, <2>2
<1>5. j \in S /\ j >= i /\ i .. j \subseteq S
  BY <1>3, <1>4
<1> DEFINE Q(k) == k >= i /\ i .. k \subseteq S /\ k + 1 \notin S
<1>6. j \in S /\ Q(j)
  BY <1>3, <1>5
<1>7. RunEnd(S, i) = CHOOSE k \in S : Q(k)
  BY DEF RunEnd
<1> HIDE DEF Q
<1>8. RunEnd(S, i) \in S /\ Q(RunEnd(S, i))
  BY <1>6, <1>7
<1> QED
  BY <1>8 DEF Q

\* A number of S is in the run from one of the starts.
LEMMA RunStartsBefore ==
    ASSUME NEW n \in Nat, NEW S \in SUBSET (1 .. n), NEW x \in S
    PROVE  \E i \in RunStarts(S) : i <= x /\ i .. x \subseteq S
<1> DEFINE T == {i \in 1 .. x : i .. x \subseteq S}
<1>1. x \in 1 .. n
  OBVIOUS
<1>2. T \in SUBSET Nat /\ x \in T
  BY <1>1
<1>3. PICK i \in T : \A k \in T : i <= k
  <2> HIDE DEF T
  <2> QED
    BY <1>2, LeastNat
<1>4. i \in 1 .. x /\ i .. x \subseteq S /\ i \in S
  BY <1>1, <1>3
<1>5. i - 1 \notin S
  <2> SUFFICES ASSUME i - 1 \in S PROVE FALSE
    OBVIOUS
  <2>1. i - 1 \in 1 .. x
    BY <1>1, <1>4
  <2>2. \A y \in i - 1 .. x : y = i - 1 \/ y \in i .. x
    BY <1>1, <1>4
  <2>3. i - 1 \in T
    BY <1>4, <2>1, <2>2
  <2> QED
    BY <1>1, <1>3, <1>4, <2>3
<1> QED
  BY <1>1, <1>4, <1>5 DEF RunStarts

-----------------------------------------------------------------------------
(* The hunks of a script *)

LEMMA PrintedFacts ==
    ASSUME NEW s, Len(s) \in Nat, NEW context \in Nat
    PROVE  /\ Printed(s, context) \in SUBSET (1 .. Len(s))
           /\ \A x \in 1 .. Len(s) : x \notin Printed(s, context) => s[x].mark = "="
<1>1. Printed(s, context) \in SUBSET (1 .. Len(s))
  BY DEF Printed
<1>2. ASSUME NEW x \in 1 .. Len(s), s[x].mark # "=" PROVE x \in Printed(s, context)
  <2>1. x - x \in -context .. context
    OBVIOUS
  <2> QED
    BY <1>2, <2>1 DEF Printed
<1> QED
  BY <1>1, <1>2

\* The runs of a set, in ascending order: apart from each other, and all of the set.
LEMMA RunsCover ==
    ASSUME NEW n \in Nat, NEW S \in SUBSET (1 .. n), NEW starts, starts = Ascending(RunStarts(S), n)
    PROVE  /\ starts \in Seq(S) /\ Len(starts) \in Nat
           /\ \A k \in 1 .. Len(starts) :
                 /\ starts[k] \in 1 .. n /\ RunEnd(S, starts[k]) \in starts[k] .. n
                 /\ \A l \in 1 .. Len(starts) : l < k => RunEnd(S, starts[l]) < starts[k]
           /\ \A x \in S : \E k \in 1 .. Len(starts) : starts[k] <= x /\ x <= RunEnd(S, starts[k])
<1> DEFINE R == RunStarts(S)
<1>1. /\ R \in SUBSET S /\ R \in SUBSET (1 .. n) /\ \A i \in R : i - 1 \notin S
  BY DEF RunStarts
<1> HIDE DEF R
<1>2. Ascends(starts, R, n)
  BY <1>1, AscendingAscends DEF R
<1>3. /\ starts \in Seq(R) /\ Len(starts) \in Nat
      /\ \A k \in 1 .. Len(starts) : starts[k] \in R
      /\ \A k, l \in 1 .. Len(starts) : k < l => starts[k] < starts[l]
      /\ \A x \in R : x <= n => \E k \in 1 .. Len(starts) : starts[k] = x
  BY <1>2 DEF Ascends
<1>4. starts \in Seq(S)
  BY <1>1, <1>3, SeqMonotonic
<1>5. ASSUME NEW i \in R
      PROVE  /\ i \in S /\ i \in 1 .. n /\ i - 1 \notin S
             /\ RunEnd(S, i) \in i .. n /\ i .. RunEnd(S, i) \subseteq S /\ RunEnd(S, i) + 1 \notin S
  <2>1. i \in S /\ i \in 1 .. n /\ i - 1 \notin S
    BY <1>1
  <2> DEFINE j == RunEnd(S, i)
  <2>2. j \in S /\ j >= i /\ i .. j \subseteq S /\ j + 1 \notin S
    BY <2>1, RunEnds
  <2> HIDE DEF j
  <2>3. j \in i .. n
    <3>1. j \in 1 .. n
      BY <2>2
    <3> QED
      BY <2>1, <2>2, <3>1
  <2> QED
    BY <2>1, <2>2, <2>3 DEF j
<1>6. ASSUME NEW k \in 1 .. Len(starts)
      PROVE  /\ starts[k] \in 1 .. n /\ RunEnd(S, starts[k]) \in starts[k] .. n
             /\ \A l \in 1 .. Len(starts) : l < k => RunEnd(S, starts[l]) < starts[k]
  <2>1. starts[k] \in R
    BY <1>3
  <2>2. ASSUME NEW l \in 1 .. Len(starts), l < k PROVE RunEnd(S, starts[l]) < starts[k]
    <3> DEFINE a == starts[l]
               b == starts[k]
               e == RunEnd(S, a)
    <3>1. a \in R /\ b \in R /\ a < b
      BY <1>3, <2>2
    <3> HIDE DEF a, b
    <3>2. /\ a \in 1 .. n /\ b \in 1 .. n /\ b - 1 \notin S
          /\ e \in a .. n /\ a .. e \subseteq S
      BY <1>5, <3>1
    <3> HIDE DEF e
    <3>3. ~(b <= e)
      <4> SUFFICES ASSUME b <= e PROVE FALSE
        OBVIOUS
      <4>1. b - 1 \in a .. e
        BY <3>1, <3>2
      <4> QED
        BY <3>2, <4>1
    <3>4. e < b
      BY <3>2, <3>3
    <3> QED
      BY <3>4 DEF a, b, e
  <2> QED
    BY <1>5, <2>1, <2>2
<1>7. ASSUME NEW x \in S
      PROVE  \E k \in 1 .. Len(starts) : starts[k] <= x /\ x <= RunEnd(S, starts[k])
  <2>1. PICK i \in R : i <= x /\ i .. x \subseteq S
    BY RunStartsBefore DEF R
  <2> DEFINE e == RunEnd(S, i)
  <2>2. i \in 1 .. n /\ e \in i .. n /\ e + 1 \notin S
    BY <1>5
  <2> HIDE DEF e
  <2>3. x \in 1 .. n
    OBVIOUS
  <2>4. x <= e
    <3> SUFFICES ASSUME ~(x <= e) PROVE FALSE
      OBVIOUS
    <3>1. e + 1 \in i .. x
      BY <2>2, <2>3
    <3> QED
      BY <2>1, <2>2, <3>1
  <2>5. PICK k \in 1 .. Len(starts) : starts[k] = i
    <3>1. i <= n
      BY <2>2
    <3> QED
      BY <1>3, <3>1
  <2>6. starts[k] <= x /\ x <= RunEnd(S, starts[k])
    BY <2>1, <2>4, <2>5 DEF e
  <2> QED
    BY <2>6
<1> QED
  BY <1>3, <1>4, <1>6, <1>7

\* The hunks of ToUnified are such runs, if the script changes anything.
LEMMA UnifiedCuts ==
    ASSUME NEW s \in Seq(HunkLine(STRING)), NEW context \in Nat,
           \E x \in 1 .. Len(s) : s[x].mark # "="
    PROVE  \E n, st, e : Cuts(s, n, st, e) /\ ToUnified(s, context) = CutPatch(s, n, st, e)
<1> DEFINE N      == Len(s)
           S      == Printed(s, context)
           starts == Ascending(RunStarts(S), N)
           n      == Len(starts)
<1>1. N \in Nat
  OBVIOUS
<1>2. S \in SUBSET (1 .. N) /\ \A x \in 1 .. N : x \notin S => s[x].mark = "="
  BY <1>1, PrintedFacts
<1>3. ToUnified(s, context)
        = [k \in DOMAIN starts |-> ScriptHunk(s, starts[k], RunEnd(S, starts[k]))]
  BY DEF ToUnified
<1> HIDE DEF N, S
<1>4. /\ starts \in Seq(S) /\ n \in Nat
      /\ \A k \in 1 .. n :
            /\ starts[k] \in 1 .. N /\ RunEnd(S, starts[k]) \in starts[k] .. N
            /\ \A l \in 1 .. n : l < k => RunEnd(S, starts[l]) < starts[k]
      /\ \A x \in S : \E k \in 1 .. n : starts[k] <= x /\ x <= RunEnd(S, starts[k])
  BY <1>1, <1>2, RunsCover
<1> HIDE DEF starts, n
<1>5. DOMAIN starts = 1 .. n
  BY <1>4, LenProperties DEF n
<1> DEFINE st == [k \in 1 .. n |-> starts[k]]
           e  == [k \in 0 .. n |-> IF k = 0 THEN 0 ELSE RunEnd(S, starts[k])]
<1>6. n \in Nat \ {0}
  <2>1. PICK x \in 1 .. N : s[x].mark # "="
    BY DEF N
  <2>2. x \in S
    BY <1>2, <2>1
  <2>3. PICK k \in 1 .. n : starts[k] <= x
    BY <1>4, <2>2
  <2> QED
    BY <1>4, <2>3
<1>7. st \in [1 .. n -> 1 .. N] /\ \A k \in 1 .. n : st[k] = starts[k]
  BY <1>4
<1>8. /\ e \in [0 .. n -> 0 .. N] /\ e[0] = 0
      /\ \A k \in 1 .. n : e[k] = RunEnd(S, starts[k]) /\ e[k] \in st[k] .. N
  <2>1. e[0] = 0 /\ \A k \in 1 .. n : e[k] = RunEnd(S, starts[k])
    BY <1>4
  <2> HIDE DEF st, e
  <2>2. \A k \in 1 .. n : e[k] \in st[k] .. N /\ st[k] \in 1 .. N
    BY <1>4, <1>7, <2>1
  <2>3. \A k \in 0 .. n : k = 0 \/ k \in 1 .. n
    BY <1>4
  <2>4. \A k \in 1 .. n : e[k] \in 0 .. N
    BY <1>1, <2>2
  <2>5. \A k \in 0 .. n : e[k] \in 0 .. N
    BY <1>1, <2>1, <2>3, <2>4
  <2>6. e \in [0 .. n -> 0 .. N]
    BY <2>5 DEF e
  <2> QED
    BY <2>1, <2>2, <2>6
<1> HIDE DEF st, e
<1>9. \A k, l \in 1 .. n : l < k => e[l] < st[k]
  BY <1>4, <1>7, <1>8
<1>10. \A x \in S : \E k \in 1 .. n : st[k] <= x /\ x <= e[k]
  BY <1>4, <1>7, <1>8
<1>11. ASSUME NEW k \in 1 .. n PROVE e[k - 1] < st[k] /\ st[k] <= e[k] /\ e[k - 1] \in 0 .. N
  <2>1. st[k] \in 1 .. N /\ e[k] \in st[k] .. N
    BY <1>7, <1>8
  <2>2. CASE k = 1
    BY <1>1, <1>8, <2>1, <2>2
  <2>3. CASE k # 1
    <3>1. k - 1 \in 1 .. n /\ k - 1 < k /\ k - 1 \in 0 .. n
      BY <1>4, <2>3
    <3> QED
      BY <1>8, <1>9, <2>1, <3>1
  <2> QED
    BY <2>2, <2>3
<1>12. \A k, l \in 1 .. n : l < k => e[l] <= e[k - 1]
  <2> TAKE k, l \in 1 .. n
  <2> HAVE l < k
  <2>1. k - 1 \in 1 .. n /\ (l = k - 1 \/ l < k - 1)
    BY <1>4
  <2>2. e[l] \in 0 .. N /\ e[k - 1] \in 0 .. N /\ st[k - 1] \in 1 .. N /\ st[k - 1] <= e[k - 1]
    <3>1. l \in 0 .. n /\ k - 1 \in 0 .. n
      BY <1>4
    <3>2. e[k - 1] \in st[k - 1] .. N
      BY <1>8, <2>1
    <3> QED
      BY <1>7, <1>8, <2>1, <3>1, <3>2
  <2>3. l < k - 1 => e[l] < st[k - 1]
    BY <1>9, <2>1
  <2> QED
    BY <2>1, <2>2, <2>3
<1>13. ASSUME NEW k \in 1 .. n, NEW x \in e[k - 1] + 1 .. st[k] - 1 PROVE s[x].mark = "="
  <2>1. st[k] \in 1 .. N /\ e[k - 1] \in 0 .. N
    BY <1>7, <1>11
  <2>2. x \in 1 .. N /\ e[k - 1] < x /\ x < st[k] /\ x \in Nat
    BY <1>1, <2>1
  <2>3. ASSUME x \in S PROVE FALSE
    <3>1. PICK l \in 1 .. n : st[l] <= x /\ x <= e[l]
      BY <1>10, <2>3
    <3>2. st[l] \in 1 .. N /\ e[l] \in 0 .. N
      BY <1>4, <1>7, <1>8
    <3>3. CASE l < k
      <4>1. e[l] <= e[k - 1]
        BY <1>12, <3>3
      <4> QED
        BY <2>1, <2>2, <3>1, <3>2, <4>1
    <3>4. CASE l >= k
      <4>1. st[k] <= st[l]
        <5>1. l = k \/ k < l
          BY <1>4, <3>4
        <5>2. CASE l = k
          BY <2>1, <5>2
        <5>3. CASE k < l
          <6>1. e[k] < st[l] /\ st[k] <= e[k] /\ e[k] \in 0 .. N
            BY <1>4, <1>8, <1>9, <1>11, <5>3
          <6> QED
            BY <2>1, <3>2, <6>1
        <5> QED
          BY <5>1, <5>2, <5>3
      <4> QED
        BY <2>1, <2>2, <3>1, <3>2, <4>1
    <3> QED
      BY <1>4, <3>3, <3>4
  <2> QED
    BY <1>2, <2>2, <2>3
<1>14. ASSUME NEW x \in e[n] + 1 .. N PROVE s[x].mark = "="
  <2>1. n \in 1 .. n /\ n \in 0 .. n
    BY <1>6
  <2>2. e[n] \in 0 .. N
    BY <1>8, <2>1
  <2>3. x \in 1 .. N /\ e[n] < x
    BY <1>1, <2>2
  <2>4. ASSUME x \in S PROVE FALSE
    <3>1. PICK l \in 1 .. n : st[l] <= x /\ x <= e[l]
      BY <1>10, <2>4
    <3>2. l \in 0 .. n
      BY <1>4
    <3>3. e[l] \in 0 .. N /\ st[n] \in 1 .. N /\ st[n] <= e[n]
      BY <1>7, <1>8, <1>11, <2>1, <3>2
    <3>4. CASE l = n
      BY <2>2, <2>3, <3>1, <3>4
    <3>5. CASE l # n
      <4>1. l < n
        BY <1>4, <3>5
      <4>2. e[l] < st[n]
        BY <1>9, <2>1, <4>1
      <4> QED
        BY <2>2, <2>3, <3>1, <3>3, <4>2
    <3> QED
      BY <3>4, <3>5
  <2> QED
    BY <1>2, <2>3, <2>4
<1>15. Cuts(s, n, st, e)
  <2>1. \A k \in 1 .. n : /\ e[k - 1] < st[k] /\ st[k] <= e[k]
                          /\ \A x \in e[k - 1] + 1 .. st[k] - 1 : s[x].mark = "="
    BY <1>11, <1>13, Zenon
  <2>2. \A x \in e[n] + 1 .. N : s[x].mark = "="
    BY <1>14, Zenon
  <2> QED
    BY <1>6, <1>7, <1>8, <2>1, <2>2, Zenon DEF Cuts, N
<1>16. ToUnified(s, context) = CutPatch(s, n, st, e)
  BY <1>3, <1>5, <1>7, <1>8 DEF CutPatch
<1> WITNESS n, st, e
<1> QED
  BY <1>15, <1>16

-----------------------------------------------------------------------------
(* Edit scripts *)

Positions(a, b) == (0 .. Len(a)) \X (0 .. Len(b))

\* One step of the recursion of EditScripts: the scripts that end at p.
ScriptsAt(a, b, h, p) ==
    LET i == p[1]
        j == p[2]
    IN  IF i = 0 /\ j = 0 THEN {<<>>}
        ELSE (IF i > 0 /\ j > 0 /\ a[i] = b[j]
                THEN {Append(s, Marked("=", a[i])) : s \in h[<<i - 1, j - 1>>]} ELSE {})
        \cup (IF i > 0
                THEN {Append(s, Marked("-", a[i])) : s \in h[<<i - 1, j>>]} ELSE {})
        \cup (IF j > 0
                THEN {Append(s, Marked("+", b[j])) : s \in h[<<i, j - 1>>]} ELSE {})

LEMMA PositionParts ==
    ASSUME NEW S, NEW a \in Seq(S), NEW b \in Seq(S), NEW p \in Positions(a, b)
    PROVE  /\ Len(a) \in Nat /\ Len(b) \in Nat
           /\ p[1] \in 0 .. Len(a) /\ p[2] \in 0 .. Len(b) /\ p = <<p[1], p[2]>>
           /\ p[1] > 0 => p[1] - 1 \in 0 .. Len(a)
           /\ p[2] > 0 => p[2] - 1 \in 0 .. Len(b)
           /\ p[1] + p[2] \in 0 .. Len(a) + Len(b)
<1>1. Len(a) \in Nat /\ Len(b) \in Nat
  OBVIOUS
<1>2. p[1] \in 0 .. Len(a) /\ p[2] \in 0 .. Len(b) /\ p = <<p[1], p[2]>>
  BY DEF Positions
<1> DEFINE i == p[1]
           j == p[2]
<1> HIDE DEF i, j
<1>3. i \in 0 .. Len(a) /\ j \in 0 .. Len(b)
  BY <1>2 DEF i, j
<1>4. /\ i > 0 => i - 1 \in 0 .. Len(a)
      /\ j > 0 => j - 1 \in 0 .. Len(b)
      /\ i + j \in 0 .. Len(a) + Len(b)
  BY <1>1, <1>3
<1> QED
  BY <1>1, <1>2, <1>4 DEF i, j

\* The step looks only at shorter positions.
LEMMA ScriptsAtLocal ==
    ASSUME NEW S, NEW a \in Seq(S), NEW b \in Seq(S), NEW p \in Positions(a, b), NEW h, NEW g,
           \A q \in Positions(a, b) : q[1] + q[2] < p[1] + p[2] => h[q] = g[q]
    PROVE  ScriptsAt(a, b, h, p) = ScriptsAt(a, b, g, p)
<1> DEFINE i == p[1]
           j == p[2]
<1>1. /\ Len(a) \in Nat /\ Len(b) \in Nat
      /\ i \in 0 .. Len(a) /\ j \in 0 .. Len(b)
      /\ i > 0 => i - 1 \in 0 .. Len(a)
      /\ j > 0 => j - 1 \in 0 .. Len(b)
  BY PositionParts
<1>2. ASSUME NEW x \in 0 .. Len(a), NEW y \in 0 .. Len(b), x + y < i + j
      PROVE  h[<<x, y>>] = g[<<x, y>>]
  <2> DEFINE q == <<x, y>>
  <2>1. q \in Positions(a, b) /\ q[1] = x /\ q[2] = y
    BY DEF Positions
  <2> HIDE DEF q
  <2>2. h[q] = g[q]
    BY <1>2, <2>1
  <2> QED
    BY <2>2 DEF q
<1> HIDE DEF i, j
<1>3. i > 0 /\ j > 0 => h[<<i - 1, j - 1>>] = g[<<i - 1, j - 1>>]
  <2>1. i > 0 /\ j > 0 => (i - 1) + (j - 1) < i + j
    BY <1>1
  <2> QED
    BY <1>1, <1>2, <2>1, Zenon
<1>4. i > 0 => h[<<i - 1, j>>] = g[<<i - 1, j>>]
  <2>1. i > 0 => (i - 1) + j < i + j
    BY <1>1
  <2> QED
    BY <1>1, <1>2, <2>1, Zenon
<1>5. j > 0 => h[<<i, j - 1>>] = g[<<i, j - 1>>]
  <2>1. j > 0 => i + (j - 1) < i + j
    BY <1>1
  <2> QED
    BY <1>1, <1>2, <2>1, Zenon
<1> DEFINE kept(f)     == IF i > 0 /\ j > 0 /\ a[i] = b[j]
                            THEN {Append(s, Marked("=", a[i])) : s \in f[<<i - 1, j - 1>>]} ELSE {}
           deleted(f)  == IF i > 0
                            THEN {Append(s, Marked("-", a[i])) : s \in f[<<i - 1, j>>]} ELSE {}
           inserted(f) == IF j > 0
                            THEN {Append(s, Marked("+", b[j])) : s \in f[<<i, j - 1>>]} ELSE {}
<1>6. kept(h) = kept(g)
  BY <1>3, Zenon
<1>7. deleted(h) = deleted(g)
  BY <1>4, Zenon
<1>8. inserted(h) = inserted(g)
  BY <1>5, Zenon
<1>9. \A f : ScriptsAt(a, b, f, p)
                = IF i = 0 /\ j = 0 THEN {<<>>} ELSE kept(f) \cup deleted(f) \cup inserted(f)
  BY Zenon DEF ScriptsAt, i, j
<1> HIDE DEF kept, deleted, inserted
<1> QED
  BY <1>6, <1>7, <1>8, <1>9, Zenon

\* h is the table of scripts that EditScripts computes.
ScriptTable(a, b, h) == h = [p \in Positions(a, b) |-> ScriptsAt(a, b, h, p)]

LEMMA ScriptTableExists ==
    ASSUME NEW S, NEW a \in Seq(S), NEW b \in Seq(S)
    PROVE  \E h : ScriptTable(a, b, h)
<1> DEFINE D == Positions(a, b)
           m == Len(a) + Len(b)
           Upto(n, h) == \A p \in D : p[1] + p[2] <= n => h[p] = ScriptsAt(a, b, h, p)
           P == {n \in 0 .. m : \E h : Upto(n, h)}
<1>1. m \in Nat /\ \A p \in D : p[1] + p[2] \in 0 .. m
  <2>1. Len(a) \in Nat /\ Len(b) \in Nat
    OBVIOUS
  <2>2. \A p \in D : p[1] + p[2] \in 0 .. m
    BY PositionParts
  <2> QED
    BY <2>1, <2>2
<1> HIDE DEF m
<1>2. ASSUME NEW n \in 0 .. m, NEW h,
             \A p \in D : p[1] + p[2] <= n - 1 => h[p] = ScriptsAt(a, b, h, p)
      PROVE  \E f : Upto(n, f)
  <2> DEFINE f == [p \in D |-> ScriptsAt(a, b, h, p)]
  <2>1. \A p \in D : f[p] = ScriptsAt(a, b, h, p)
    OBVIOUS
  <2> HIDE DEF f
  <2>2. ASSUME NEW p \in D, p[1] + p[2] <= n PROVE f[p] = ScriptsAt(a, b, f, p)
    <3>1. ASSUME NEW q \in D, q[1] + q[2] < p[1] + p[2] PROVE h[q] = f[q]
      <4>1. p[1] + p[2] \in 0 .. m /\ q[1] + q[2] \in 0 .. m
        BY <1>1
      <4> DEFINE x == q[1] + q[2]
                 y == p[1] + p[2]
      <4>2. x \in 0 .. m /\ y \in 0 .. m /\ x < y /\ y <= n
        BY <2>2, <3>1, <4>1
      <4> HIDE DEF x, y
      <4>3. x <= n - 1
        BY <1>1, <4>2
      <4>4. h[q] = ScriptsAt(a, b, h, q)
        BY <1>2, <4>3 DEF x
      <4> QED
        BY <2>1, <4>4, Zenon
    <3>2. ScriptsAt(a, b, h, p) = ScriptsAt(a, b, f, p)
      <4> HIDE DEF Upto
      <4> QED
        BY <3>1, ScriptsAtLocal
    <3> QED
      BY <2>1, <3>2, Zenon
  <2>3. Upto(n, f)
    BY <2>2, Zenon
  <2> QED
    BY <2>3, Zenon
<1>3. 0 \in P
  <2>1. \A p \in D : ~(p[1] + p[2] <= 0 - 1)
    BY <1>1
  <2> DEFINE h == <<>>
  <2>2. \A p \in D : p[1] + p[2] <= 0 - 1 => h[p] = ScriptsAt(a, b, h, p)
    BY <2>1, Zenon
  <2>3. 0 \in 0 .. m
    BY <1>1
  <2>4. \E f : Upto(0, f)
    BY <1>2, <2>2, <2>3
  <2> QED
    BY <2>3, <2>4
<1>4. ASSUME NEW n \in 1 .. m, n - 1 \in P PROVE n \in P
  <2>1. PICK h : Upto(n - 1, h)
    BY <1>4
  <2>2. n \in 0 .. m
    BY <1>1
  <2>3. \E f : Upto(n, f)
    BY <1>2, <2>1, <2>2, Zenon
  <2> QED
    BY <2>2, <2>3
<1>5. m \in P
  <2> HIDE DEF P
  <2>1. \A n \in 0 .. m : n \in P
    BY <1>1, <1>3, <1>4, InductionUpTo
  <2> QED
    BY <1>1, <2>1
<1>6. PICK h : Upto(m, h)
  BY <1>5
<1>7. \A p \in D : p[1] + p[2] <= m
  BY <1>1
<1>8. \A p \in D : h[p] = ScriptsAt(a, b, h, p)
  BY <1>6, <1>7, Zenon
<1> DEFINE f == [p \in D |-> h[p]]
<1>9. \A p \in D : f[p] = h[p]
  OBVIOUS
<1>10. ASSUME NEW p \in D PROVE h[p] = ScriptsAt(a, b, f, p)
  <2> HIDE DEF f, Upto
  <2>1. ScriptsAt(a, b, h, p) = ScriptsAt(a, b, f, p)
    BY <1>9, ScriptsAtLocal
  <2> QED
    BY <1>8, <2>1, Zenon
<1>11. f = [p \in D |-> ScriptsAt(a, b, f, p)]
  BY <1>10, Zenon
<1> QED
  BY <1>11, Zenon DEF ScriptTable

LEMMA EditScriptsTable ==
    ASSUME NEW S, NEW a \in Seq(S), NEW b \in Seq(S)
    PROVE  \E h : ScriptTable(a, b, h) /\ EditScripts(a, b) = h[<<Len(a), Len(b)>>]
<1> DEFINE h == CHOOSE f : ScriptTable(a, b, f)
<1>1. EditScripts(a, b) = h[<<Len(a), Len(b)>>]
  BY Zenon DEF EditScripts, ScriptTable, ScriptsAt, Positions
<1>2. ScriptTable(a, b, h)
  BY ScriptTableExists, Zenon
<1> QED
  BY <1>1, <1>2, Zenon

\* The script s turns the first i lines of a into the first j lines of b.
EditsTo(s, a, b, i, j) ==
    /\ s \in Seq(HunkLine(STRING))
    /\ Side(s, {"=", "-"}) = SubSeq(a, 1, i)
    /\ Side(s, {"=", "+"}) = SubSeq(b, 1, j)

LEMMA SideAppend ==
    ASSUME NEW s \in Seq(HunkLine(STRING)), NEW mark \in Marks, NEW c \in STRING, NEW marks
    PROVE  /\ Append(s, Marked(mark, c)) \in Seq(HunkLine(STRING))
           /\ mark \in marks => Side(Append(s, Marked(mark, c)), marks) = Side(s, marks) \o <<c>>
           /\ mark \notin marks => Side(Append(s, Marked(mark, c)), marks) = Side(s, marks)
<1> DEFINE line == Marked(mark, c)
<1>1. line \in HunkLine(STRING) /\ line.mark = mark /\ line.content = c
  BY DEF Marked, HunkLine
<1> HIDE DEF line
<1>2. Append(s, line) = s \o <<line>> /\ Append(s, line) \in Seq(HunkLine(STRING))
      /\ <<line>> \in Seq(HunkLine(STRING))
  BY <1>1, AppendIsConcat, AppendProperties
<1>3. Side(s \o <<line>>, marks) = Side(s, marks) \o Side(<<line>>, marks)
  BY <1>2, SideConcat
<1>4. Side(<<line>>, marks) = IF mark \in marks THEN <<c>> ELSE <<>>
  BY <1>1, SideOne
<1>5. Side(s, marks) \o <<>> = Side(s, marks)
  BY SideType, ConcatEmptySeq DEF Text
<1> QED
  BY <1>2, <1>3, <1>4, <1>5, Zenon DEF line

LEMMA PrefixNext ==
    ASSUME NEW S, NEW a \in Seq(S), NEW i \in 1 .. Len(a)
    PROVE  SubSeq(a, 1, i - 1) \o <<a[i]>> = SubSeq(a, 1, i)
<1>1. Len(a) \in Nat
  OBVIOUS
<1>2. 1 \in 1 .. Len(a) /\ i \in 1 .. Len(a)
  BY <1>1
<1> QED
  BY <1>2, SubSeqRecursiveSecond

\* One more line of a, of b or of both.
LEMMA EditsToNext ==
    ASSUME NEW a \in Seq(STRING), NEW b \in Seq(STRING),
           NEW i \in 0 .. Len(a), NEW j \in 0 .. Len(b), NEW s
    PROVE  /\ i > 0 /\ j > 0 /\ a[i] = b[j] /\ EditsTo(s, a, b, i - 1, j - 1)
                => EditsTo(Append(s, Marked("=", a[i])), a, b, i, j)
           /\ i > 0 /\ EditsTo(s, a, b, i - 1, j)
                => EditsTo(Append(s, Marked("-", a[i])), a, b, i, j)
           /\ j > 0 /\ EditsTo(s, a, b, i, j - 1)
                => EditsTo(Append(s, Marked("+", b[j])), a, b, i, j)
<1>1. Len(a) \in Nat /\ Len(b) \in Nat
  OBVIOUS
<1>2. i > 0 => a[i] \in STRING /\ SubSeq(a, 1, i - 1) \o <<a[i]>> = SubSeq(a, 1, i)
  <2> SUFFICES ASSUME i > 0 PROVE a[i] \in STRING /\ SubSeq(a, 1, i - 1) \o <<a[i]>> = SubSeq(a, 1, i)
    OBVIOUS
  <2>1. i \in 1 .. Len(a)
    BY <1>1
  <2> QED
    BY <2>1, PrefixNext, ElementOfSeq
<1>3. j > 0 => b[j] \in STRING /\ SubSeq(b, 1, j - 1) \o <<b[j]>> = SubSeq(b, 1, j)
  <2> SUFFICES ASSUME j > 0 PROVE b[j] \in STRING /\ SubSeq(b, 1, j - 1) \o <<b[j]>> = SubSeq(b, 1, j)
    OBVIOUS
  <2>1. j \in 1 .. Len(b)
    BY <1>1
  <2> QED
    BY <2>1, PrefixNext, ElementOfSeq
<1>4. /\ "=" \in Marks /\ "-" \in Marks /\ "+" \in Marks
      /\ "-" \notin {"=", "+"} /\ "+" \notin {"=", "-"}
      /\ "=" \in {"=", "-"} /\ "=" \in {"=", "+"} /\ "-" \in {"=", "-"} /\ "+" \in {"=", "+"}
  BY DEF Marks
<1>5. ASSUME i > 0, j > 0, a[i] = b[j], EditsTo(s, a, b, i - 1, j - 1)
      PROVE  EditsTo(Append(s, Marked("=", a[i])), a, b, i, j)
  <2> DEFINE c == a[i]
  <2>1. c \in STRING /\ s \in Seq(HunkLine(STRING))
    BY <1>2, <1>5 DEF EditsTo
  <2> HIDE DEF c
  <2>2. /\ Append(s, Marked("=", c)) \in Seq(HunkLine(STRING))
        /\ Side(Append(s, Marked("=", c)), {"=", "-"}) = Side(s, {"=", "-"}) \o <<c>>
        /\ Side(Append(s, Marked("=", c)), {"=", "+"}) = Side(s, {"=", "+"}) \o <<c>>
    BY <1>4, <2>1, SideAppend
  <2>3. /\ Side(s, {"=", "-"}) \o <<c>> = SubSeq(a, 1, i)
        /\ Side(s, {"=", "+"}) \o <<c>> = SubSeq(b, 1, j)
    BY <1>2, <1>3, <1>5, Zenon DEF EditsTo, c
  <2> QED
    BY <2>2, <2>3, Zenon DEF EditsTo, c
<1>6. ASSUME i > 0, EditsTo(s, a, b, i - 1, j)
      PROVE  EditsTo(Append(s, Marked("-", a[i])), a, b, i, j)
  <2> DEFINE c == a[i]
  <2>1. c \in STRING /\ s \in Seq(HunkLine(STRING))
    BY <1>2, <1>6 DEF EditsTo
  <2> HIDE DEF c
  <2>2. /\ Append(s, Marked("-", c)) \in Seq(HunkLine(STRING))
        /\ Side(Append(s, Marked("-", c)), {"=", "-"}) = Side(s, {"=", "-"}) \o <<c>>
        /\ Side(Append(s, Marked("-", c)), {"=", "+"}) = Side(s, {"=", "+"})
    <3> DEFINE yes == {"=", "-"}
               no  == {"=", "+"}
               mark == "-"
    <3>1. mark \in Marks /\ mark \in yes /\ mark \notin no
      BY <1>4
    <3> HIDE DEF yes, no, mark
    <3>2. /\ Append(s, Marked(mark, c)) \in Seq(HunkLine(STRING))
          /\ Side(Append(s, Marked(mark, c)), yes) = Side(s, yes) \o <<c>>
          /\ Side(Append(s, Marked(mark, c)), no) = Side(s, no)
      BY <2>1, <3>1, SideAppend
    <3> QED
      BY <3>2, Zenon DEF yes, no, mark
  <2>3. Side(s, {"=", "-"}) \o <<c>> = SubSeq(a, 1, i) /\ Side(s, {"=", "+"}) = SubSeq(b, 1, j)
    BY <1>2, <1>6, Zenon DEF EditsTo, c
  <2> QED
    BY <2>2, <2>3, Zenon DEF EditsTo, c
<1>7. ASSUME j > 0, EditsTo(s, a, b, i, j - 1)
      PROVE  EditsTo(Append(s, Marked("+", b[j])), a, b, i, j)
  <2> DEFINE c == b[j]
  <2>1. c \in STRING /\ s \in Seq(HunkLine(STRING))
    BY <1>3, <1>7 DEF EditsTo
  <2> HIDE DEF c
  <2>2. /\ Append(s, Marked("+", c)) \in Seq(HunkLine(STRING))
        /\ Side(Append(s, Marked("+", c)), {"=", "-"}) = Side(s, {"=", "-"})
        /\ Side(Append(s, Marked("+", c)), {"=", "+"}) = Side(s, {"=", "+"}) \o <<c>>
    <3> DEFINE yes == {"=", "+"}
               no  == {"=", "-"}
               mark == "+"
    <3>1. mark \in Marks /\ mark \in yes /\ mark \notin no
      BY <1>4
    <3> HIDE DEF yes, no, mark
    <3>2. /\ Append(s, Marked(mark, c)) \in Seq(HunkLine(STRING))
          /\ Side(Append(s, Marked(mark, c)), yes) = Side(s, yes) \o <<c>>
          /\ Side(Append(s, Marked(mark, c)), no) = Side(s, no)
      BY <2>1, <3>1, SideAppend
    <3> QED
      BY <3>2, Zenon DEF yes, no, mark
  <2>3. Side(s, {"=", "-"}) = SubSeq(a, 1, i) /\ Side(s, {"=", "+"}) \o <<c>> = SubSeq(b, 1, j)
    BY <1>3, <1>7, Zenon DEF EditsTo, c
  <2> QED
    BY <2>2, <2>3, Zenon DEF EditsTo, c
<1> QED
  BY <1>5, <1>6, <1>7, Zenon

\* Every edit script turns a into b.
LEMMA EditScriptsEdit ==
    ASSUME NEW a \in Seq(STRING), NEW b \in Seq(STRING), NEW s \in EditScripts(a, b)
    PROVE  /\ s \in Seq(HunkLine(STRING))
           /\ Side(s, {"=", "-"}) = a /\ Side(s, {"=", "+"}) = b
<1> DEFINE D == Positions(a, b)
           m == Len(a) + Len(b)
<1>1. PICK h : ScriptTable(a, b, h) /\ EditScripts(a, b) = h[<<Len(a), Len(b)>>]
  BY EditScriptsTable
<1>2. \A p \in D : h[p] = ScriptsAt(a, b, h, p)
  BY <1>1 DEF ScriptTable
<1>3. Len(a) \in Nat /\ Len(b) \in Nat /\ m \in Nat
  <2>1. Len(a) \in Nat /\ Len(b) \in Nat
    OBVIOUS
  <2> QED
    BY <2>1
<1> HIDE DEF m
<1> DEFINE P == {n \in 0 .. m : \A i \in 0 .. Len(a), j \in 0 .. Len(b) :
                    i + j <= n => \A t \in h[<<i, j>>] : EditsTo(t, a, b, i, j)}
<1>4. ASSUME NEW n \in 0 .. m, n = 0 \/ n - 1 \in P PROVE n \in P
  <2> SUFFICES ASSUME NEW i \in 0 .. Len(a), NEW j \in 0 .. Len(b), i + j <= n, NEW t \in h[<<i, j>>]
               PROVE  EditsTo(t, a, b, i, j)
    BY Zenon
  <2>1. t \in ScriptsAt(a, b, h, <<i, j>>)
    <3>1. <<i, j>> \in D
      BY DEF Positions
    <3> QED
      BY <1>2, <3>1
  <2>2. \/ i = 0 /\ j = 0 /\ t = <<>>
        \/ i > 0 /\ j > 0 /\ a[i] = b[j]
             /\ \E r \in h[<<i - 1, j - 1>>] : t = Append(r, Marked("=", a[i]))
        \/ i > 0 /\ \E r \in h[<<i - 1, j>>] : t = Append(r, Marked("-", a[i]))
        \/ j > 0 /\ \E r \in h[<<i, j - 1>>] : t = Append(r, Marked("+", b[j]))
    <3>1. <<i, j>>[1] = i /\ <<i, j>>[2] = j
      OBVIOUS
    <3>2. ScriptsAt(a, b, h, <<i, j>>) =
            IF i = 0 /\ j = 0 THEN {<<>>}
            ELSE (IF i > 0 /\ j > 0 /\ a[i] = b[j]
                    THEN {Append(r, Marked("=", a[i])) : r \in h[<<i - 1, j - 1>>]} ELSE {})
            \cup (IF i > 0
                    THEN {Append(r, Marked("-", a[i])) : r \in h[<<i - 1, j>>]} ELSE {})
            \cup (IF j > 0
                    THEN {Append(r, Marked("+", b[j])) : r \in h[<<i, j - 1>>]} ELSE {})
      BY <3>1 DEF ScriptsAt
    <3> QED
      BY <2>1, <3>2, Zenon
  <2>3. ASSUME NEW x \in 0 .. Len(a), NEW y \in 0 .. Len(b), x + y < i + j, NEW r \in h[<<x, y>>]
        PROVE  EditsTo(r, a, b, x, y)
    <3>1. x + y <= n - 1 /\ n # 0
      BY <1>3, <2>3
    <3> QED
      BY <1>4, <3>1
  <2>4. CASE i = 0 /\ j = 0 /\ t = <<>>
    <3>1. SubSeq(a, 1, 0) = <<>> /\ SubSeq(b, 1, 0) = <<>>
      BY SubSeqEmpty
    <3>2. <<>> \in Seq(HunkLine(STRING))
      OBVIOUS
    <3>3. Side(<<>>, {"=", "-"}) = <<>> /\ Side(<<>>, {"=", "+"}) = <<>>
      BY SideEmpty
    <3> QED
      BY <2>4, <3>1, <3>2, <3>3, Zenon DEF EditsTo
  <2>5. CASE i > 0 /\ j > 0 /\ a[i] = b[j]
               /\ \E r \in h[<<i - 1, j - 1>>] : t = Append(r, Marked("=", a[i]))
    <3>1. PICK r \in h[<<i - 1, j - 1>>] : t = Append(r, Marked("=", a[i]))
      BY <2>5
    <3>2. i - 1 \in 0 .. Len(a) /\ j - 1 \in 0 .. Len(b) /\ (i - 1) + (j - 1) < i + j
      BY <1>3, <2>5
    <3>3. EditsTo(r, a, b, i - 1, j - 1)
      BY <2>3, <3>2, Zenon
    <3> QED
      BY <2>5, <3>1, <3>3, EditsToNext, Zenon
  <2>6. CASE i > 0 /\ \E r \in h[<<i - 1, j>>] : t = Append(r, Marked("-", a[i]))
    <3>1. PICK r \in h[<<i - 1, j>>] : t = Append(r, Marked("-", a[i]))
      BY <2>6
    <3>2. i - 1 \in 0 .. Len(a) /\ (i - 1) + j < i + j
      BY <1>3, <2>6
    <3>3. EditsTo(r, a, b, i - 1, j)
      BY <2>3, <3>2, Zenon
    <3> QED
      BY <2>6, <3>1, <3>3, EditsToNext, Zenon
  <2>7. CASE j > 0 /\ \E r \in h[<<i, j - 1>>] : t = Append(r, Marked("+", b[j]))
    <3>1. PICK r \in h[<<i, j - 1>>] : t = Append(r, Marked("+", b[j]))
      BY <2>7
    <3>2. j - 1 \in 0 .. Len(b) /\ i + (j - 1) < i + j
      BY <1>3, <2>7
    <3>3. EditsTo(r, a, b, i, j - 1)
      BY <2>3, <3>2, Zenon
    <3> QED
      BY <2>7, <3>1, <3>3, EditsToNext, Zenon
  <2> QED
    BY <2>2, <2>4, <2>5, <2>6, <2>7, Zenon
<1>5. m \in P
  <2>1. 0 \in P
    <3>1. 0 \in 0 .. m
      BY <1>3
    <3> HIDE DEF P
    <3> QED
      BY <1>4, <3>1
  <2>2. ASSUME NEW n \in 1 .. m, n - 1 \in P PROVE n \in P
    <3>1. n \in 0 .. m
      BY <1>3
    <3> HIDE DEF P
    <3> QED
      BY <1>4, <2>2, <3>1
  <2> HIDE DEF P
  <2>3. \A n \in 0 .. m : n \in P
    BY <1>3, <2>1, <2>2, InductionUpTo
  <2> QED
    BY <1>3, <2>3
<1>6. EditsTo(s, a, b, Len(a), Len(b))
  <2>1. Len(a) \in 0 .. Len(a) /\ Len(b) \in 0 .. Len(b) /\ Len(a) + Len(b) <= m
    BY <1>3 DEF m
  <2>2. s \in h[<<Len(a), Len(b)>>]
    BY <1>1
  <2> QED
    BY <1>5, <2>1, <2>2
<1> QED
  BY <1>6, SubSeqFull DEF EditsTo

\* There are edit scripts between any two texts, and so a shortest one.
LEMMA ShortestScriptsExist ==
    ASSUME NEW a \in Seq(STRING), NEW b \in Seq(STRING)
    PROVE  ShortestScripts(a, b) # {}
<1> DEFINE m == Len(a) + Len(b)
<1>1. PICK h : ScriptTable(a, b, h) /\ EditScripts(a, b) = h[<<Len(a), Len(b)>>]
  BY EditScriptsTable
<1>2. \A p \in Positions(a, b) : h[p] = ScriptsAt(a, b, h, p)
  BY <1>1 DEF ScriptTable
<1>3. Len(a) \in Nat /\ Len(b) \in Nat /\ m \in Nat
  <2>1. Len(a) \in Nat /\ Len(b) \in Nat
    OBVIOUS
  <2> QED
    BY <2>1
<1> HIDE DEF m
<1> DEFINE P == {n \in 0 .. m : \A i \in 0 .. Len(a), j \in 0 .. Len(b) :
                    i + j <= n => h[<<i, j>>] # {}}
<1>4. ASSUME NEW n \in 0 .. m, n = 0 \/ n - 1 \in P PROVE n \in P
  <2> SUFFICES ASSUME NEW i \in 0 .. Len(a), NEW j \in 0 .. Len(b), i + j <= n
               PROVE  \E t : t \in h[<<i, j>>]
    BY Zenon
  <2>1. h[<<i, j>>] = ScriptsAt(a, b, h, <<i, j>>)
    <3>1. <<i, j>> \in Positions(a, b)
      BY DEF Positions
    <3> QED
      BY <1>2, <3>1
  <2>2. <<i, j>>[1] = i /\ <<i, j>>[2] = j
    OBVIOUS
  <2>3. ScriptsAt(a, b, h, <<i, j>>) =
          IF i = 0 /\ j = 0 THEN {<<>>}
          ELSE (IF i > 0 /\ j > 0 /\ a[i] = b[j]
                  THEN {Append(r, Marked("=", a[i])) : r \in h[<<i - 1, j - 1>>]} ELSE {})
          \cup (IF i > 0
                  THEN {Append(r, Marked("-", a[i])) : r \in h[<<i - 1, j>>]} ELSE {})
          \cup (IF j > 0
                  THEN {Append(r, Marked("+", b[j])) : r \in h[<<i, j - 1>>]} ELSE {})
    BY <2>2 DEF ScriptsAt
  <2>4. CASE i = 0 /\ j = 0
    BY <2>1, <2>3, <2>4
  <2>5. CASE i > 0
    <3>1. i - 1 \in 0 .. Len(a) /\ (i - 1) + j <= n - 1 /\ n # 0 /\ ~(i = 0)
      BY <1>3, <2>5
    <3>2. PICK r : r \in h[<<i - 1, j>>]
      BY <1>4, <3>1
    <3>3. Append(r, Marked("-", a[i])) \in ScriptsAt(a, b, h, <<i, j>>)
      BY <2>3, <2>5, <3>1, <3>2, Zenon
    <3> QED
      BY <2>1, <3>3, Zenon
  <2>6. CASE j > 0
    <3>1. j - 1 \in 0 .. Len(b) /\ i + (j - 1) <= n - 1 /\ n # 0 /\ ~(j = 0)
      BY <1>3, <2>6
    <3>2. PICK r : r \in h[<<i, j - 1>>]
      BY <1>4, <3>1
    <3>3. Append(r, Marked("+", b[j])) \in ScriptsAt(a, b, h, <<i, j>>)
      BY <2>3, <2>6, <3>1, <3>2, Zenon
    <3> QED
      BY <2>1, <3>3, Zenon
  <2>7. i > 0 \/ j > 0 \/ (i = 0 /\ j = 0)
    BY <1>3
  <2> QED
    BY <2>4, <2>5, <2>6, <2>7
<1>5. m \in P
  <2>1. 0 \in P
    <3>1. 0 \in 0 .. m
      BY <1>3
    <3> HIDE DEF P
    <3> QED
      BY <1>4, <3>1
  <2>2. ASSUME NEW n \in 1 .. m, n - 1 \in P PROVE n \in P
    <3>1. n \in 0 .. m
      BY <1>3
    <3> HIDE DEF P
    <3> QED
      BY <1>4, <2>2, <3>1
  <2> HIDE DEF P
  <2>3. \A n \in 0 .. m : n \in P
    BY <1>3, <2>1, <2>2, InductionUpTo
  <2> QED
    BY <1>3, <2>3
<1> DEFINE E == EditScripts(a, b)
           L == {Len(t) : t \in E}
<1>6. E # {}
  <2>1. Len(a) \in 0 .. Len(a) /\ Len(b) \in 0 .. Len(b) /\ Len(a) + Len(b) <= m
    BY <1>3 DEF m
  <2> QED
    BY <1>1, <1>5, <2>1
<1>7. \A t \in E : Len(t) \in Nat
  <2>1. \A t \in E : t \in Seq(HunkLine(STRING))
    BY EditScriptsEdit
  <2> QED
    BY <2>1, LenProperties
<1> HIDE DEF E
<1>8. L \in SUBSET Nat /\ L # {}
  BY <1>6, <1>7
<1>9. PICK l \in L : \A k \in L : l <= k
  <2> HIDE DEF L
  <2> QED
    BY <1>8, LeastNat
<1>10. PICK t \in E : l = Len(t)
  BY <1>9
<1>11. \A u \in E : Len(t) <= Len(u)
  BY <1>9, <1>10
<1>12. t \in ShortestScripts(a, b)
  BY <1>10, <1>11, Zenon DEF ShortestScripts, E
<1> QED
  BY <1>12

-----------------------------------------------------------------------------
(* Drafts *)

\* A text is its lines with, perhaps, a line break after them.
LEMMA ClientLinesParts ==
    ASSUME NEW text \in Seq(STRING) \ {<<>>}
    PROVE  /\ ClientLines(text) \in Seq(STRING) \ {<<>>}
           /\ FinalBreak(text) \in Text
           /\ text \in Text
           /\ text = ClientLines(text) \o FinalBreak(text)
<1> DEFINE n == Len(text)
<1>1. n \in Nat \ {0}
  BY EmptySeq
<1>2. text \in Text
  <2>1. STRING \subseteq Line
    BY DEF Line
  <2> QED
    BY <2>1, SeqMonotonic DEF Text
<1>3. CASE ~EndsWithBreak(text)
  <2>1. ClientLines(text) = text /\ FinalBreak(text) = <<>>
    BY <1>3 DEF ClientLines, FinalBreak
  <2>2. text \o <<>> = text
    BY ConcatEmptySeq
  <2>3. <<>> \in Text
    BY EmptySeq DEF Text
  <2> QED
    BY <1>2, <2>1, <2>2, <2>3
<1>4. CASE EndsWithBreak(text)
  <2>1. n > 1 /\ text[n] = EmptyLine
    BY <1>4 DEF EndsWithBreak, Last
  <2>2. ClientLines(text) = SubSeq(text, 1, n - 1) /\ FinalBreak(text) = <<EmptyLine>>
    BY <1>4 DEF ClientLines, FinalBreak, Front
  <2>3. SubSeq(text, 1, n - 1) \o <<text[n]>> = SubSeq(text, 1, n)
    <3>1. n \in 1 .. Len(text)
      BY <1>1
    <3> QED
      BY <3>1, PrefixNext
  <2>4. SubSeq(text, 1, n) = text
    BY SubSeqFull
  <2>5. <<EmptyLine>> \in Text
    BY DEF Text, Line
  <2>6. SubSeq(text, 1, n - 1) \in Seq(STRING) /\ SubSeq(text, 1, n - 1) # <<>>
    <3>1. 1 \in 1 .. Len(text) + 1 /\ n - 1 \in 1 - 1 .. Len(text)
      BY <1>1
    <3>2. SubSeq(text, 1, n - 1) \in Seq(STRING) /\ Len(SubSeq(text, 1, n - 1)) = (n - 1) - 1 + 1
      BY <3>1, LinesBetween
    <3>3. (n - 1) - 1 + 1 # 0
      BY <1>1, <2>1
    <3> QED
      BY <3>2, <3>3, EmptySeq
  <2> HIDE DEF n
  <2> QED
    BY <1>2, <2>1, <2>2, <2>3, <2>4, <2>5, <2>6, Zenon
<1> QED
  BY <1>3, <1>4

(***************************************************************************)
(* A patch the client drafts from one text to another with other lines is   *)
(* accepted by the chain, for all texts and any number of lines of context, *)
(* and whichever shortest script the library picks: the result has the      *)
(* lines of the second text, and ends with a line break just if the first   *)
(* text did.  And there always is a draft.                                  *)
(***************************************************************************)
THEOREM DraftGivesTarget ==
    ASSUME NEW src \in Seq(STRING) \ {<<>>}, NEW dst \in Seq(STRING) \ {<<>>},
           NEW context \in Nat, ClientLines(src) # ClientLines(dst)
    PROVE  /\ GenerateUnifiedDiff(src, dst, context) # {}
           /\ \A patch \in GenerateUnifiedDiff(src, dst, context) :
                 /\ ApplyUnifiedDiff(src, patch).ok
                 /\ ApplyUnifiedDiff(src, patch).result = ClientLines(dst) \o FinalBreak(src)
<1> DEFINE a    == ClientLines(src)
           b    == ClientLines(dst)
           rest == FinalBreak(src)
<1>1. /\ a \in Seq(STRING) /\ b \in Seq(STRING) /\ b # <<>> /\ rest \in Text
      /\ src \in Text /\ src = a \o rest /\ a # b
  BY ClientLinesParts
<1>2. GenerateUnifiedDiff(src, dst, context) = {ToUnified(s, context) : s \in ShortestScripts(a, b)}
  BY DEF GenerateUnifiedDiff
<1> HIDE DEF a, b, rest
<1>3. GenerateUnifiedDiff(src, dst, context) # {}
  BY <1>1, <1>2, ShortestScriptsExist
<1>4. ASSUME NEW patch \in GenerateUnifiedDiff(src, dst, context)
      PROVE  /\ ApplyUnifiedDiff(src, patch).ok
             /\ ApplyUnifiedDiff(src, patch).result = b \o rest
  <2>1. PICK s \in ShortestScripts(a, b) : patch = ToUnified(s, context)
    BY <1>2
  <2>2. s \in EditScripts(a, b)
    BY DEF ShortestScripts
  <2>3. /\ s \in Seq(HunkLine(STRING))
        /\ Side(s, {"=", "-"}) = a /\ Side(s, {"=", "+"}) = b
    BY <1>1, <2>2, EditScriptsEdit
  <2>4. \E x \in 1 .. Len(s) : s[x].mark # "="
    <3> SUFFICES ASSUME \A x \in 1 .. Len(s) : s[x].mark = "=" PROVE FALSE
      OBVIOUS
    <3>1. Side(s, {"=", "-"}) = Side(s, {"=", "+"})
      BY <2>3, SideKept
    <3> QED
      BY <1>1, <2>3, <3>1
  <2>5. PICK n, st, e : Cuts(s, n, st, e) /\ patch = CutPatch(s, n, st, e)
    BY <2>1, <2>3, <2>4, UnifiedCuts
  <2>6. src = Side(s, {"=", "-"}) \o rest
    BY <1>1, <2>3
  <2>7. /\ ParseUnifiedDiff(patch) /\ InOrder(patch) /\ Fits(src, patch)
        /\ Patched(src, patch) = Side(s, {"=", "+"}) \o rest
    <3>1. Makes(src, patch, Side(s, {"=", "+"}) \o rest)
      BY <1>1, <2>3, <2>5, <2>6, CutsMakeText
    <3> QED
      BY <3>1, Zenon DEF Makes
  <2>8. /\ ApplyUnifiedDiff(src, patch).ok <=> Fits(src, patch)
        /\ ApplyUnifiedDiff(src, patch).ok =>
              ApplyUnifiedDiff(src, patch).result = AsText(Patched(src, patch))
    BY <1>1, <2>7, PatchDoesWhatItSays
  <2>9. b \o rest # <<>>
    <3>1. b \in Text
      <4>1. STRING \subseteq Line
        BY DEF Line
      <4> QED
        BY <1>1, <4>1, SeqMonotonic DEF Text
    <3> QED
      BY <1>1, <3>1, ConcatEqualIffEmpty DEF Text
  <2>10. Patched(src, patch) = b \o rest /\ AsText(b \o rest) = b \o rest
    BY <2>3, <2>7, <2>9, Zenon DEF AsText
  <2> QED
    BY <2>7, <2>8, <2>10, Zenon
<1> QED
  BY <1>3, <1>4, Zenon DEF b, rest
=============================================================================
