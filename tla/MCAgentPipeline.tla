-------------------------- MODULE MCAgentPipeline --------------------------
(* Instances of AgentPipeline for TLC: two projects that stand at the same    *)
(* point, and the requests that make sense there.                             *)
EXTENDS AgentPipeline, TLC

Stand(requirement, design, pm, sub) ==
    [requirement |-> requirement, design |-> design, pm |-> pm, sub |-> sub]
Scenario(row, files, rows, asked, width, trouble, loose) ==
    [row |-> row, docs |-> files, tables |-> rows, asked |-> asked, width |-> width, troubles |-> trouble,
     loose |-> loose]

New(asked, width, trouble, loose) ==
    Scenario(Stand("pending", "pending", "pending", "none"), {}, {}, asked, width, trouble, loose)
Drafted(asked, width, trouble, loose) ==
    Scenario(Stand("running", "pending", "pending", "prd_draft"), {"requirement.md"}, {"prd_items"},
             asked, width, trouble, loose)
Agreed(asked, width, trouble, loose) ==
    Scenario(Stand("confirmed", "pending", "pending", "prd_confirmed"), {"requirement.md"}, {"prd_items"},
             asked, width, trouble, loose)
Planning(asked, width, trouble, loose) ==
    Scenario(Stand("confirmed", "pending", "pending", "tasks_ready"), {"requirement.md", "ears-tasks.md"}, Tables,
             asked, width, trouble, loose)
Ready(asked, width, trouble, loose) ==
    Scenario(Stand("confirmed", "awaiting_confirmation", "confirmed", "tasks_ready"), Documents, Tables,
             asked, width, trouble, loose)

Halfway(asked, width, trouble, loose) ==
    Scenario(Stand("confirmed", "awaiting_confirmation", "confirmed", "tasks_ready"), Documents, {"prd_items", "tasks"},
             asked, width, trouble, loose)

\* One request at a time, with troubles; and requests that overlap, without.
Talk == {"start", "message", "confirm", "init", "status"}
Build == {"design", "confirm_design", "on_matched"}

AllScenarios ==
    {New(<<Talk, Talk>>, 1, 1, {"generate_prd"}),
     Drafted(<<{"message"}, {"message", "confirm"}>>, 1, 2, {"ask_clarification", "generate_prd"}),
     Agreed(<<{"decompose"}, {"message"}>>, 1, 1, {}),
     Planning(<<Build, Build, Build>>, 1, 2, {"produce_design", "produce_project_plan"}),
     Ready(<<{"decompose"} \cup Build, {"message", "confirm_design", "regenerate", "init"}>>, 1, 1, {}),
     Halfway(<<{"decompose"}, {"decompose"}>>, 1, 0, {"decompose_to_ears", "save_document"}),
     New(<<{"start"}, {"message"}>>, 2, 0, {}),
     Drafted(<<{"message"}, {"message", "confirm", "status"}>>, 2, 0, {}),
     Ready(<<{"decompose"}, {"status", "design"}>>, 2, 0, {}),
     Ready(<<{"decompose"}, {"decompose"}>>, 1, 0, {}),
     Ready(<<{"regenerate", "design"}, {"message", "design"}>>, 2, 0, {"produce_design"}),
     Planning(<<{"design"}, {"design"}>>, 2, 0, {"produce_design", "save_document"})}

\* The fields of an agent nobody runs are set before they are read again.
InUse(a) == \E h \in Slots : Running(h, a)
Visible ==
    <<store, products, handlers, scenario, requests, troubles, seen,
      [agents EXCEPT !.p = [a \in DOMAIN @ |-> IF InUse(a) THEN @[a] ELSE "none"],
                     !.sub = IF InUse("requirement") THEN @ ELSE "none"]>>
Interchangeable == Permutations(Projects) \cup Permutations(Slots)
===========================================================================
