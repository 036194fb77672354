--------------------------- MODULE PipelineState ---------------------------
(***************************************************************************)
(* The state of a project in the AI agent's pipeline (project_state.py):   *)
(* what it holds, how a stage is started, confirmed and marked, and what   *)
(* of it the table ai_project_stages keeps and gives back.                 *)
(***************************************************************************)
EXTENDS Naturals, Sequences, SequencesExt

STAGES == <<"requirement", "design">>
ALL_STAGES == {"requirement", "design", "pm"}
Statuses == {"pending", "running", "awaiting_confirmation", "confirmed", "error"}
SubStages == {"none", "clarifying", "prd_draft", "prd_confirmed", "ears_decomposing", "tasks_ready"}
Documents == {"requirement.md", "ears-tasks.md", "design.md", "project-plan.md"}

Row == [requirement : Statuses, design : Statuses, pm : Statuses, sub : SubStages]
ProjectState == [requirement : Statuses, design : Statuses, pm : Statuses, sub : SubStages,
                 current : ALL_STAGES]

Fresh == [requirement |-> "pending", design |-> "pending", pm |-> "pending", sub |-> "none",
          current |-> "requirement"]

can_start_design(st) == st.requirement = "confirmed"

\* STAGES.index raises for a current stage that is not one of STAGES.
CanAdvance(st) == st.current \in ToSet(STAGES)
advance_to_next_stage(st) ==
    LET idx == SelectInSeq(STAGES, LAMBDA s : s = st.current)
    IN  IF idx = Len(STAGES) THEN st ELSE [st EXCEPT !.current = STAGES[idx + 1]]

\* Mutant: the loop over the stages misses the one that is not in STAGES.
save_project_without_pm(st) ==
    [requirement |-> st.requirement, design |-> st.design, pm |-> "pending", sub |-> st.sub]

\* The row per stage; neither the current stage nor the session is kept.
save_project(st) ==
    [requirement |-> st.requirement, design |-> st.design, pm |-> st.pm, sub |-> st.sub]

\* The current stage is inferred: the last row, in whatever order MySQL
\* gives them, of a stage that has been started and has not failed.
get_project(row) ==
    LET active == {s \in ALL_STAGES : row[s] \in {"running", "awaiting_confirmation", "confirmed"}}
        last == IF active = {} THEN {"requirement"} ELSE active
    IN  {[requirement |-> row.requirement, design |-> row.design, pm |-> row.pm,
          sub |-> row.sub, current |-> s] : s \in last}
===========================================================================
