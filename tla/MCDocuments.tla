---------------------------- MODULE MCDocuments ----------------------------
(* Instances of Documents for TLC: two processes, what an earlier release   *)
(* may have left, and uploads around the limit of two units.                *)
EXTENDS Documents, TLC

Markdown(size) == [extension |-> ".md", content_type |-> "text/markdown", size |-> size, utf8 |-> TRUE]
Upload == [kind : {"upload"}, name : {PRD_FILENAME}, stage : {PRD_STAGE}, file : {Markdown(2), Markdown(3)}]
Save(name, stage, plans) == [kind |-> "agent", name |-> name, stage |-> stage, plans |-> plans]
Generate == {Save(PRD_FILENAME, PRD_STAGE, TRUE)}
Tool == {Save(PRD_FILENAME, "", FALSE)}
Ears == {Save("ears-tasks.md", "ears", FALSE)}
Reanalyze == {[kind |-> "reanalyze"]}
Download == [kind : {"download"}, by_id : BOOLEAN]

Prd(name, version) == [name |-> name, version |-> version]
Old(id) == [id |-> id, path |-> "object", stage |-> PRD_STAGE]
Renamed == Prd("prd.md", 1) :> Old(-2) @@ Prd(PRD_FILENAME, 2) :> Old(-1)
Twice == Prd(PRD_FILENAME, 1) :> Old(-2) @@ Prd(PRD_FILENAME, 2) :> Old(-1)
Nothing == [k \in {} |-> Nil]

Scenario(left, disk, minio, asked, width, trouble) ==
    [left |-> left, disk |-> disk, minio |-> minio, asked |-> asked, width |-> width, troubles |-> trouble, max_bytes |-> 2]

AllScenarios ==
    {Scenario(Nothing, TRUE, TRUE, <<Generate \cup Ears, Upload \cup Tool, Reanalyze \cup Download>>, 2, 0),
     Scenario(Nothing, TRUE, FALSE, <<Generate, Upload, Reanalyze \cup Download>>, 2, 0),
     Scenario(Nothing, TRUE, TRUE, <<Generate \cup Ears, Upload, Reanalyze \cup Download \cup Upload>>, 1, 2),
     Scenario(Renamed, TRUE, TRUE, <<Ears \cup Upload, Upload \cup Reanalyze, Download>>, 2, 0),
     Scenario(Twice, FALSE, TRUE, <<Upload \cup Reanalyze \cup Generate, Upload \cup Reanalyze \cup Download>>, 2, 1),
     Scenario(Nothing, TRUE, TRUE, <<Generate, Reanalyze, Generate \cup Reanalyze>>, 2, 0)}

ItemsOf == <<{"F-1.1"}, {"F-1.1", "F-1.2"}, {"F-1.1"}, {}>>
Interchangeable == Permutations(Slot) \cup Permutations(Worker)
===========================================================================
