---------------------------- MODULE MCEnactment ----------------------------
(***************************************************************************)
(* Instances of Enactment for TLC: texts of a few lines over two words, and *)
(* patches that a Context of one line may split into several hunks.         *)
(***************************************************************************)
EXTENDS Enactment

Words == {"x", "y"}

\* Every short text, some that end with a line break or with two, and two long enough
\* for drafts with two hunks.
MCTexts ==
    UNION {[1 .. n -> Words] : n \in 1 .. 3}
      \cup {<<EmptyLine>>, <<"x", EmptyLine>>, <<"x", "y", EmptyLine>>, <<"y", EmptyLine, "x">>,
            <<"y", EmptyLine, EmptyLine>>}
      \cup {<<"x", "y", "y", "y", "x">>, <<"y", "y", "y", "y">>}

Marked1 == {Marked(m, w) : m \in {"=", "-", "+"}, w \in Words}

\* A hunk with a header that counts its lines.
HunkOf(k, lines) ==
    [srcLine |-> k, srcSpan |-> Len(Side(lines, {"=", "-"})),
     dstLine |-> k, dstSpan |-> Len(Side(lines, {"=", "+"})), lines |-> lines]

HunksUpTo(n) ==
    {HunkOf(k, lines) : k \in 0 .. 4, lines \in UNION {[1 .. m -> Marked1] : m \in 1 .. n}}

\* All single hunks of up to three lines, all pairs of hunks of one line, an empty
\* patch and a header that counts wrong.
MCPatches ==
    {<<h>> : h \in HunksUpTo(3)} \cup (HunksUpTo(1) \X HunksUpTo(1))
      \cup {<<>>, <<[HunkOf(1, <<Marked("-", "x")>>) EXCEPT !.srcSpan = 2]>>}

\* Amendments drafted by the client, and two by hand: the second hunk of one lies
\* before the first, the other deletes a whole text.
MCInit == <<"x", "y">>

MCTargets == {<<"x", "x">>, <<"y", "x", "y">>}
MCHand ==
    {<<HunkOf(2, <<Marked("+", "y")>>), HunkOf(1, <<Marked("=", "x")>>)>>,
     <<HunkOf(1, <<Marked("-", "x"), Marked("-", "y")>>)>>}

MCShapes ==
    {<<"amendment">>, <<"daos">>, <<"amendment", "daos">>, <<"law", "amendment">>}

CONSTANT d
MCDaoParams ==
    {[SteeringDaoAddress |-> s, OversightDaoAddress |-> t] : s, t \in {Unset, d}}
=============================================================================
