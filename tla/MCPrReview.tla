---------------------------- MODULE MCPrReview ----------------------------
(* Instances of PrReview for TLC: four files, of which the third does not    *)
(* fit into the chunks and the fourth is past the limit of files; after a    *)
(* push only two of them are changed, one of them a lock file.               *)
EXTENDS PrReview, TLC

Line(kind, new) == [kind |-> kind, new |-> new]
Info(status, changes, patch, size, marks) ==
    [status |-> status, changes |-> changes, patch |-> patch, content |-> size, marks |-> marks]

Patch == <<Line("hunk", 3), Line("context", 0), Line("removed", 0), Line("added", 0)>>
Code(status, changes) == Info(status, changes, Patch, 3, {"text_suffix"})
Lock == Info("modified", 2, Patch, 3, {"lock_name", "text_suffix"})
Binary == Info("added", 1, <<>>, 0, {"low_signal_suffix"})

TwoContents ==
    {(1 :> Code("added", 9) @@ 2 :> Code("modified", 5) @@ 3 :> Code("renamed", 2) @@ 4 :> Code("added", 1)),
     (2 :> Code("removed", 2) @@ 3 :> Lock)}

Says(file, severity, line) == [file |-> file, severity |-> severity, line |-> line, title |-> "t"]
Answer(verdict, findings) == [verdict |-> verdict, findings |-> findings]
ThreeAnswers ==
    {Answer("pass", <<>>),
     Answer("fail", <<Says(2, "high", 5), Says(1, "unknown", -1)>>),
     Answer("warn", <<Says(1, "medium", 3), Says(1, "low", 9)>>)}

Old(file, resolved) == [key |-> <<file, "medium", "t">>, file |-> file, resolved |-> resolved]
NoneOrDoubled == {<<>>, <<Old(1, FALSE), Old(3, FALSE), Old(1, FALSE)>>}

Sections == UNION {[1..n -> {1, 5, 6, 12, 20}] : n \in 0..4}

\* Whatever up to four sections the packing of the model's scope may be given,
\* pack_review_sections cuts them into sound chunks.  It is about no state in
\* particular: the initial ones stand for all.
PackingSound ==
    Init => \A lengths \in Sections :
        PackingIsSound([i \in DOMAIN lengths |-> [file |-> i, length |-> lengths[i]]])
===========================================================================
