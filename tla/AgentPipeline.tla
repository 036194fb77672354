--------------------------- MODULE AgentPipeline ---------------------------
(***************************************************************************)
(* The pipeline of the AI agent: requests that talk a project through      *)
(* requirement, decomposition into tasks, design and plan.  A request is a *)
(* coroutine: between two of its awaits other requests run.  The state and *)
(* the history of a project are written to Redis and then to MySQL and     *)
(* read back the other way; the agents are single objects shared by all    *)
(* requests.  `todo' is what a request still has to do, `catch' what it    *)
(* does instead when an exception leaves the step.                         *)
(***************************************************************************)
EXTENDS PipelineState, FiniteSets

CONSTANTS Projects, Slots, Nil,
          Scenarios,       \* where the projects stand, what each request may ask, how many
                           \* run at once, how many troubles come, and which tools are
                           \* loose: may bring less than they should, or another document
          MaxIterations    \* max_agentic_loop_iterations

ASSUME Positive == MaxIterations \in Nat \ {0}
ASSUME Named == "none" \notin Projects

VARIABLES cache, hcache,   \* Redis: state and history of a project, until they expire
          stages, hrows,   \* MySQL: ai_project_stages and the conversation's messages
          docs,            \* which request wrote each document of a project
          tables,          \* which request wrote the PRD items, tasks, milestones
          unsaved,         \* writes to those tables that have been fired off
          agents,          \* the fields of the agent objects
          handlers,        \* the requests under way
          scenario, requests, troubles,
          seen             \* projects for which something special has happened

store == <<cache, hcache, stages, hrows>>
products == <<docs, tables, unsaved>>
vars == <<store, products, agents, handlers, scenario, requests, troubles, seen>>

NoTurn == [p |-> "none", n |-> 0]
Tables == {"prd_items", "tasks", "milestones"}
Plan == {"tasks", "milestones"}
Idle == [todo |-> <<>>]
NoResult == <<NoTurn>>      \* no _stream_result yet

Busy(h) == handlers[h] # Idle
At(h, step) == Busy(h) /\ Head(handlers[h].todo) = step
AtOneOf(h, steps) == Busy(h) /\ Head(handlers[h].todo) \in steps
Own(h) == handlers[h].p
Turn(r) == [p |-> r.p, n |-> r.n]

\* The steps of each request, from one await to the next.
init_project == <<"init_project">>
get_status == <<"get_project">>
start_requirement == <<"init_project", "clarifying", "chat", "save_history", "chatted">>
send_message == <<"get_project", "get_history", "chat", "save_history", "chatted">>
confirm_prd == <<"get_project", "prd_confirmed">>
decompose_ears == <<"get_project", "ears_decomposing", "background", "get_history", "decompose_ears",
                    "save_history", "get_project", "decomposed">>
decompose_ears_stream == <<"get_project", "get_history", "decompose_ears", "save_history", "decomposed">>
start_design == <<"start_stage", "design", "design_done">>
confirm_design == <<"confirm_stage", "design_confirmed">>
on_matched == <<"generate_pm", "pm", "plan_checked">>
regenerate_pm == <<"regenerate_pm">> \o on_matched

Program(kind, stream) ==
    CASE kind = "init"           -> init_project
      [] kind = "status"         -> get_status
      [] kind = "start"          -> start_requirement
      [] kind = "message"        -> send_message
      [] kind = "confirm"        -> confirm_prd
      [] kind = "decompose"      -> IF stream THEN decompose_ears_stream ELSE decompose_ears
      [] kind = "design"         -> start_design
      [] kind = "confirm_design" -> confirm_design
      [] kind = "on_matched"     -> on_matched
      [] kind = "regenerate"     -> regenerate_pm
Kinds == {"init", "status", "start", "message", "confirm", "decompose", "design", "confirm_design",
          "on_matched", "regenerate"}

\* A scenario starts where the program can leave a project: a design that is said to be
\* there has its document.
ASSUME Standing ==
    \A s \in Scenarios :
        /\ s.row \in Row /\ s.docs \subseteq Documents /\ s.asked \in Seq(SUBSET Kinds)
        /\ s.row.design \in {"awaiting_confirmation", "confirmed"} => "design.md" \in s.docs

Streams(kind) == IF kind \in {"start", "message", "decompose", "design"} THEN BOOLEAN ELSE {FALSE}
Safe(kind) == IF kind \in {"start", "message"} THEN BOOLEAN ELSE {TRUE}

Init ==
    \E s \in Scenarios :
        /\ scenario = s
        /\ stages = [p \in Projects |-> s.row]
        /\ hrows = [p \in Projects |-> IF s.row.sub = "none" THEN <<>> ELSE <<[p |-> p, n |-> 0]>>]
        /\ cache = [p \in Projects |-> Nil]
        /\ hcache = [p \in Projects |-> Nil]
        /\ docs = [p \in Projects |-> [f \in Documents |-> IF f \in s.docs THEN p ELSE "none"]]
        /\ tables = [p \in Projects |-> [t \in Tables |-> IF t \in s.tables THEN [p |-> p, n |-> 0] ELSE NoTurn]]
        /\ unsaved = {}
        /\ agents = [p |-> [a \in {"requirement", "design", "pm"} |-> "none"], sub |-> "clarifying", result |-> NoResult]
        /\ handlers = [h \in Slots |-> Idle]
        /\ requests = 0
        /\ troubles = 0
        /\ seen = [crowded |-> {}, mixed |-> {}, refused |-> {}, torn |-> {}, over |-> {}, blind |-> {},
                   halved |-> IF Plan \cap s.tables \in {{}, Plan} THEN {} ELSE Projects]

Written(p, f) == docs[p][f] # "none"
Mark(what, ps) == seen' = [seen EXCEPT ![what] = @ \cup ps]
Goes(h, r) == handlers' = [handlers EXCEPT ![h] = IF r.todo = <<>> THEN Idle ELSE r]
Next_(r) == [r EXCEPT !.todo = Tail(@)]
Then(r, steps) == [r EXCEPT !.todo = steps \o Tail(@)]
Raised(r) == IF r.catch = <<>> THEN Idle
             ELSE [r EXCEPT !.todo = r.catch, !.catch = <<>>, !.agent = "none", !.hist = <<>>]

\* A request comes in.  The check that design.md exists comes before anything else.
\* A bound: with troubles or loose tools, and one request at a time, it waits for what was
\* fired off.
Arrive(h) ==
    /\ ~Busy(h) /\ requests < Len(scenario.asked)
    /\ Cardinality({g \in Slots : Busy(g)}) < scenario.width
    /\ scenario.width = 1 /\ (scenario.troubles > 0 \/ scenario.loose # {}) => unsaved = {}
    /\ requests' = requests + 1
    /\ \E p \in Projects, kind \in scenario.asked[requests + 1] : \E stream \in Streams(kind), safe \in Safe(kind) :
          /\ kind = "confirm_design" => Written(p, "design.md")
          /\ Goes(h, [kind |-> kind, p |-> p, n |-> requests', stream |-> stream, safe |-> safe, todo |-> Program(kind, stream),
                      catch |-> <<>>, st |-> Fresh, hist |-> <<>>, sub |-> "none",
                      agent |-> "none", tools |-> {}, tool |-> "none", iteration |-> 0])
          /\ Mark("crowded", IF \E g \in Slots : Busy(g) /\ Own(g) = p THEN {p} ELSE {})
    /\ UNCHANGED <<store, products, agents, scenario, troubles>>

-----------------------------------------------------------------------------
\* The state of a project: SessionManager.get_project_state and save_project_state.

Reads == {"init_project", "get_project", "start_stage", "confirm_stage", "regenerate_pm", "generate_pm"}

\* What each reader does with the state it got.
Loaded(r, st) ==
    LET step == Head(r.todo)
        go(steps) == Then([r EXCEPT !.st = st], steps)
    IN  CASE step \in {"init_project", "get_project"} -> go(<<>>)
          [] step = "start_stage" ->
                IF ~can_start_design(st) THEN Idle
                ELSE IF st.design = "running" THEN go(<<>>) ELSE go(<<"design_running">>)
          [] step = "confirm_stage" ->
                IF st.design \notin {"running", "awaiting_confirmation"} THEN Idle
                ELSE IF CanAdvance(st) THEN go(<<>>) ELSE [r EXCEPT !.todo = <<"ValueError">>]
          [] step = "regenerate_pm" ->
                IF st.pm \in {"confirmed", "error"} THEN go(<<>>) ELSE Idle
          [] step = "generate_pm" ->
                IF st.requirement = "confirmed" /\ Written(r.p, "requirement.md")
                THEN [go(<<>>) EXCEPT !.catch = <<"pm_error">>] ELSE Idle

\* None: init_project makes a new state, everything else gives up.
Absent(r) == IF Head(r.todo) = "init_project" THEN Then(r, <<"fresh">>) ELSE Idle

GetProject(h) ==
    LET r == handlers[h] IN
    /\ AtOneOf(h, Reads)
    /\ Goes(h, IF cache[r.p] # Nil THEN Loaded(r, cache[r.p]) ELSE [r EXCEPT !.todo = <<"select">> \o @])
    /\ UNCHANGED <<store, products, agents, scenario, requests, troubles, seen>>

SelectProject(h) ==
    LET r == handlers[h] IN
    /\ At(h, "select")
    /\ \E st \in get_project(stages[r.p]) : Goes(h, [Then(r, <<"refill">>) EXCEPT !.st = st])
    /\ UNCHANGED <<store, products, agents, scenario, requests, troubles, seen>>

RefillProject(h) ==
    LET r == handlers[h] IN
    /\ At(h, "refill")
    /\ cache' = [cache EXCEPT ![r.p] = r.st]
    /\ Goes(h, Loaded(Next_(r), r.st))
    /\ UNCHANGED <<hcache, stages, hrows, products, agents, scenario, requests, troubles, seen>>

\* Mutant: a run of the agent that ended counts as a design.
Designed_unchecked(p) == "awaiting_confirmation"

\* Whatever the agent did, the file decides: the document is looked for on the disk.
Designed(p) == IF Written(p, "design.md") THEN "awaiting_confirmation" ELSE "running"

Saves == {"fresh", "clarifying", "chatted", "prd_confirmed", "ears_decomposing", "decomposed", "errored",
          "design_running", "design_done", "design_confirmed", "plan_checked", "planned", "pm_error"}

\* set_stage_status, as each handler calls it before it saves.
Marked(r) ==
    LET step == Head(r.todo) IN
    CASE step = "fresh"            -> Fresh
      [] step = "clarifying"       -> [r.st EXCEPT !.requirement = "running", !.sub = "clarifying"]
      [] step = "chatted"          -> [r.st EXCEPT !.requirement = "running", !.sub = r.sub]
      [] step = "prd_confirmed"    -> [r.st EXCEPT !.requirement = "confirmed", !.sub = "prd_confirmed"]
      [] step = "ears_decomposing" -> [r.st EXCEPT !.requirement = "running", !.sub = "ears_decomposing"]
      [] step = "decomposed"       -> [r.st EXCEPT !.sub = r.sub,
                                         !.requirement = IF r.sub = "tasks_ready" THEN "confirmed" ELSE "running"]
      [] step = "errored"          -> [r.st EXCEPT !.requirement = "error"]
      [] step = "design_running"   -> [r.st EXCEPT !.design = "running", !.current = "design"]
      [] step = "design_done"      -> [r.st EXCEPT !.design = Designed(r.p)]
      [] step = "design_confirmed" -> advance_to_next_stage([r.st EXCEPT !.design = "confirmed"])
      [] step \in {"plan_checked", "planned"} -> [r.st EXCEPT !.pm = "confirmed"]
      [] step = "pm_error"         -> [r.st EXCEPT !.pm = "error"]

\* Mutant: the plan is started before the state has reached MySQL.
Following_unwritten(r) ==
    IF Head(r.todo) = "decomposed" /\ r.sub = "tasks_ready"
    THEN <<"trigger_pm", "pm", "get_project", "planned">> ELSE <<"persist">>

\* A decomposition that brought tasks is followed by the plan, in a task of its own.
Following(r) ==
    IF Head(r.todo) = "decomposed" /\ r.sub = "tasks_ready"
    THEN <<"persist", "trigger_pm", "pm", "get_project", "planned">> ELSE <<"persist">>

SaveProject(h) ==
    LET r == handlers[h] IN
    /\ AtOneOf(h, Saves)
    /\ IF At(h, "plan_checked") /\ ~Written(r.p, "project-plan.md")
       THEN Goes(h, Idle) /\ UNCHANGED cache
       ELSE /\ cache' = [cache EXCEPT ![r.p] = Marked(r)]
            /\ Goes(h, [Then(r, Following(r)) EXCEPT !.st = Marked(r)])
    /\ UNCHANGED <<hcache, stages, hrows, products, agents, scenario, requests, troubles, seen>>

PersistProject(h) ==
    LET r == handlers[h] IN
    /\ At(h, "persist")
    /\ stages' = [stages EXCEPT ![r.p] = save_project(r.st)]
    /\ Goes(h, Next_(r))
    /\ UNCHANGED <<cache, hcache, hrows, products, agents, scenario, requests, troubles, seen>>

-----------------------------------------------------------------------------
\* The history of the conversation: get_history and save_history.

Heard(r, history) == [Next_(r) EXCEPT !.hist = Append(history, Turn(r))]

\* Mutant: an expired history is taken for an empty one.
GetHistory_cache_only(h) ==
    LET r == handlers[h] IN
    /\ At(h, "get_history")
    /\ Goes(h, Heard(r, IF hcache[r.p] # Nil THEN hcache[r.p] ELSE <<>>))
    /\ UNCHANGED <<store, products, agents, scenario, requests, troubles, seen>>

GetHistory(h) ==
    LET r == handlers[h] IN
    /\ At(h, "get_history")
    /\ Goes(h, IF hcache[r.p] # Nil THEN Heard(r, hcache[r.p]) ELSE [r EXCEPT !.todo = <<"select_history">> \o @])
    /\ UNCHANGED <<store, products, agents, scenario, requests, troubles, seen>>

\* Nothing is cached when MySQL has no message.
SelectHistory(h) ==
    LET r == handlers[h] IN
    /\ At(h, "select_history")
    /\ Goes(h, IF hrows[r.p] = <<>> THEN Heard(Next_(r), <<>>)
               ELSE [Then(r, <<"refill_history">>) EXCEPT !.hist = hrows[r.p]])
    /\ UNCHANGED <<store, products, agents, scenario, requests, troubles, seen>>

RefillHistory(h) ==
    LET r == handlers[h] IN
    /\ At(h, "refill_history")
    /\ hcache' = [hcache EXCEPT ![r.p] = r.hist]
    /\ Goes(h, Heard(Next_(r), r.hist))
    /\ UNCHANGED <<cache, stages, hrows, products, agents, scenario, requests, troubles, seen>>

\* Mutant: every request takes its messages from the agent's field.
Messages_shared(r) == agents.result

\* A streamed request stores what the agent's last finished stream left behind.
Messages(r) == IF r.stream THEN agents.result ELSE r.hist

SaveHistory(h) ==
    LET r == handlers[h] IN
    /\ At(h, "save_history")
    /\ IF Messages(r) = NoResult
       THEN Goes(h, Idle) /\ UNCHANGED hcache
       ELSE /\ hcache' = [hcache EXCEPT ![r.p] = Messages(r)]
            /\ Goes(h, [Then(r, <<"persist_history">>) EXCEPT !.hist = Messages(r)])
    /\ UNCHANGED <<cache, stages, hrows, products, agents, scenario, requests, troubles, seen>>

\* A streamed request reads the sub-stage off the agent only now.
HistorySaved(r) ==
    [Next_(r) EXCEPT !.hist = <<>>, !.agent = "none", !.sub = IF r.stream THEN agents.sub ELSE @]

PersistHistory(h) ==
    LET r == handlers[h] IN
    /\ At(h, "persist_history")
    /\ hrows' = [hrows EXCEPT ![r.p] = r.hist]
    /\ Goes(h, HistorySaved(r))
    /\ UNCHANGED <<cache, hcache, stages, products, agents, scenario, requests, troubles, seen>>

-----------------------------------------------------------------------------
\* The agents: ToolUseBaseAgent.run and run_stream.

\* From here on the decomposition runs in a task of its own; an exception marks the stage.
Background(h) ==
    LET r == handlers[h] IN
    /\ At(h, "background")
    /\ Goes(h, [Next_(r) EXCEPT !.catch = <<"get_project", "errored">>])
    /\ UNCHANGED <<store, products, agents, scenario, requests, troubles, seen>>

\* _trigger_pm_generation starts, with a try of its own.
TriggerPm(h) ==
    LET r == handlers[h] IN
    /\ At(h, "trigger_pm")
    /\ Goes(h, IF Written(r.p, "requirement.md") THEN [Next_(r) EXCEPT !.catch = <<>>, !.stream = FALSE] ELSE Idle)
    /\ UNCHANGED <<store, products, agents, scenario, requests, troubles, seen>>

\* Mutant: the agent keeps the first project it was given.
SetProject_once(agent, p) ==
    [agents.p EXCEPT ![agent] = IF @ = "none" THEN p ELSE @]

SetProject(agent, p) == [agents.p EXCEPT ![agent] = p]

Calls == {"chat", "decompose_ears", "design", "pm"}
AgentOf(step) == IF step \in {"chat", "decompose_ears"} THEN "requirement" ELSE step

\* The tools scenario for the whole run: fixed when it starts.
Tools(agent, sub) ==
    CASE agent = "design" -> {"produce_design", "save_document"}
      [] agent = "pm"     -> {"produce_project_plan", "save_document"}
      [] agent = "requirement" /\ sub = "ears_decomposing" -> {"decompose_to_ears", "save_document"}
      [] agent = "requirement" /\ sub # "ears_decomposing" -> {"ask_clarification", "generate_prd"}

\* run returns, and nothing else happens before the agent's fields are read.
\* Only the call of the plan's agent is inside generate_pm's try.
Finished(r, sub) ==
    [Next_(r) EXCEPT !.sub = sub, !.agent = "none", !.tools = {}, !.iteration = 0,
                     !.catch = IF r.agent = "pm" THEN <<>> ELSE @]

\* An unsafe message is refused before the model sees it: run returns at once,
\* run_stream returns without leaving a result.
Begun(r, sub) ==
    IF r.safe THEN [Then(r, <<"answer">>) EXCEPT !.tools = Tools(r.agent, sub)]
    ELSE IF r.stream THEN Next_(r) ELSE Finished(r, sub)

Running(h, agent) == Busy(h) /\ handlers[h].agent = agent

\* chat, decompose_ears, generate and their streams set the agent's fields; a
\* stream is suspended at its first event before the message is checked.
CallAgent(h) ==
    LET r == handlers[h]
        step == Head(r.todo)
        agent == AgentOf(step)
        sub == IF step = "decompose_ears" THEN "ears_decomposing"
               ELSE IF r.st.sub = "none" THEN "clarifying" ELSE r.st.sub
        called == [r EXCEPT !.agent = agent,
                            !.hist = IF step = "chat" /\ r.hist = <<>> THEN <<Turn(r)>> ELSE @]
        others == {Own(g) : g \in {i \in Slots \ {h} : Running(i, agent)}} \ {r.p}
    IN  /\ AtOneOf(h, Calls)
        /\ agents' = [agents EXCEPT !.p = SetProject(agent, r.p), !.sub = IF agent = "requirement" THEN sub ELSE @]
        /\ Goes(h, IF r.stream THEN Then(called, <<"begin">>) ELSE Begun(called, sub))
        /\ Mark("mixed", IF others = {} THEN {} ELSE others \cup {r.p})
        /\ UNCHANGED <<store, products, scenario, requests, troubles>>

BeginStream(h) ==
    LET r == handlers[h] IN
    /\ At(h, "begin")
    /\ Goes(h, Begun(r, agents.sub))
    /\ Mark("refused", IF r.safe THEN {} ELSE {r.p})
    /\ UNCHANGED <<store, products, agents, scenario, requests, troubles>>

DefaultFile == [requirement |-> "requirement.md", design |-> "design.md", pm |-> "project-plan.md"]
FileOf(r, tool) ==
    CASE tool = "generate_prd"         -> "requirement.md"
      [] tool = "decompose_to_ears"    -> "ears-tasks.md"
      [] tool = "produce_design"       -> "design.md"
      [] tool = "produce_project_plan" -> "project-plan.md"
      [] tool = "save_document"        -> DefaultFile[r.agent]

\* The document a call of a tool leaves: none when the model gave no text for it or the
\* tool raises, which the loop swallows.  The model may name what save_document writes.
FilesOf(r, tool) ==
    IF tool = "ask_clarification" THEN {"none"}
    ELSE IF tool \notin scenario.loose THEN {FileOf(r, tool)}
    ELSE {FileOf(r, tool), "none"} \cup IF tool = "save_document" THEN Documents ELSE {}

RowsOf(tool) ==
    CASE tool = "generate_prd"      -> {"prd_items"}
      [] tool = "decompose_to_ears" -> Plan
      [] OTHER                      -> {}

\* The lists a call of a tool brings: the model may leave any of them out.
ListsOf(tool) == IF tool \in scenario.loose THEN SUBSET RowsOf(tool) ELSE {RowsOf(tool)}

\* Mutant: the milestones of a decomposition are not stored.
Stores_no_milestones(r, p, lists) == {[p |-> p, table |-> t, turn |-> Turn(r)] : t \in lists \ {"milestones"}}

\* An empty list is not stored: what was there before stays.
Stores(r, p, lists) == {[p |-> p, table |-> t, turn |-> Turn(r)] : t \in lists}

\* Projects whose last decomposition that brought anything brought half of a plan.
Halved(p, lists) ==
    IF Plan \subseteq lists THEN seen.halved \ {p}
    ELSE IF Plan \cap lists # {} THEN seen.halved \cup {p} ELSE seen.halved

\* Mutant: a stage of the old version of the interface.
SubsAfter_reviewing(tool) ==
    CASE tool = "ask_clarification" -> {"gathering"}
      [] tool = "generate_prd"      -> {"prd_draft"}
      [] tool = "decompose_to_ears" -> {"tasks_ready"}
      [] OTHER                      -> {agents.sub}

\* The sub-stage is set before anything is stored, whatever comes of that; only the
\* cleaning of a question may raise before.
SubsAfter(tool) ==
    CASE tool = "ask_clarification" ->
            {"clarifying"} \cup IF tool \in scenario.loose THEN {agents.sub} ELSE {}
      [] tool = "generate_prd"      -> {"prd_draft"}
      [] tool = "decompose_to_ears" -> {"tasks_ready"}
      [] OTHER                      -> {agents.sub}

\* _execute_tool: the document is written at once, the rows by tasks that are
\* fired off; all of it for the project the agent's field names.
ExecutesTool(r, tool, sub) ==
    \E file \in FilesOf(r, tool), lists \in ListsOf(tool) :
        LET p == agents.p[r.agent]
            writes == Stores(r, p, lists)
            raced == {w.p : w \in {u \in unsaved : \E v \in writes : v.p = u.p /\ v.table = u.table}}
        IN  /\ docs' = IF file = "none" THEN docs ELSE [docs EXCEPT ![p][file] = r.p]
            /\ unsaved' = unsaved \cup writes
            /\ agents' = [agents EXCEPT !.sub = sub]
            /\ seen' = [seen EXCEPT !.crowded = @ \cup raced, !.halved = Halved(p, lists)]
            /\ UNCHANGED tables

\* The model answers without a tool, and the loop ends ...
AnswerText(h) ==
    LET r == handlers[h] IN
    /\ At(h, "answer")
    /\ Goes(h, IF r.stream THEN Then(r, <<"publish">>) ELSE Finished(r, agents.sub))
    /\ UNCHANGED <<store, products, agents, scenario, requests, troubles, seen>>

\* ... or asks for one: run executes it before anything else happens, run_stream
\* announces it first.
AnswerTool(h) ==
    LET r == handlers[h]
        iteration == r.iteration + 1 IN
    /\ At(h, "answer")
    /\ \E tool \in r.tools :
          IF r.stream
          THEN Goes(h, [Then(r, <<"tool">>) EXCEPT !.tool = tool]) /\ UNCHANGED <<products, agents, seen>>
          ELSE \E sub \in SubsAfter(tool) :
                 /\ ExecutesTool(r, tool, sub)
                 /\ Goes(h, IF iteration = MaxIterations THEN Finished(r, sub)
                            ELSE [r EXCEPT !.iteration = iteration])
    /\ UNCHANGED <<store, scenario, requests, troubles>>

\* A stream ends after a question or a document; other tools lead to another answer.
ExecuteTool(h) ==
    LET r == handlers[h]
        iteration == r.iteration + 1
        ends == r.tool \in {"ask_clarification", "generate_prd"} \/ iteration = MaxIterations IN
    /\ At(h, "tool")
    /\ \E sub \in SubsAfter(r.tool) : ExecutesTool(r, r.tool, sub)
    /\ Goes(h, [Then(r, IF ends THEN <<"publish">> ELSE <<"answer">>) EXCEPT !.iteration = iteration, !.tool = "none"])
    /\ UNCHANGED <<store, scenario, requests, troubles>>

\* After its last event the stream leaves its messages on the agent.
Publish(h) ==
    LET r == handlers[h] IN
    /\ At(h, "publish")
    /\ agents' = [agents EXCEPT !.result = IF r.agent = "requirement" THEN r.hist ELSE @]
    /\ Goes(h, [Next_(r) EXCEPT !.agent = IF @ = "requirement" THEN @ ELSE "none", !.tools = {}, !.iteration = 0])
    /\ UNCHANGED <<store, products, scenario, requests, troubles, seen>>

\* A write that was fired off lands.
Land ==
    \E w \in unsaved :
        /\ tables' = [tables EXCEPT ![w.p][w.table] = w.turn]
        /\ unsaved' = unsaved \ {w}
        /\ UNCHANGED <<store, docs, agents, handlers, scenario, requests, troubles, seen>>

\* confirm_design answers with a server error: the exception is not caught.
ServerError(h) ==
    /\ At(h, "ValueError")
    /\ Goes(h, Idle)
    /\ UNCHANGED <<store, products, agents, scenario, requests, troubles, seen>>

-----------------------------------------------------------------------------
\* Troubles.

Trouble == troubles < scenario.troubles /\ troubles' = troubles + 1

\* Writes to MySQL that did not come about: Redis has what MySQL has not, and maybe a
\* conversation that was started over.
Torn(hs) == {Own(h) : h \in {g \in hs : AtOneOf(g, {"persist", "persist_history"})}}
StartedOver(hs) == {Own(h) : h \in {g \in hs : At(g, "persist_history") /\ handlers[g].kind = "start"}}
MarkTorn(hs, ps) == seen' = [seen EXCEPT !.torn = @ \cup Torn(hs) \cup ps, !.over = @ \cup StartedOver(hs)]

\* Redis fails: the exception leaves the step, but a failed refill only means None.
RedisFails(h) ==
    LET r == handlers[h] IN
    /\ Trouble
    /\ \/ /\ AtOneOf(h, Reads \cup Saves \cup {"get_history", "save_history"})
          /\ Goes(h, Raised(r))
       \/ At(h, "refill") /\ Goes(h, Absent(Next_(r)))
       \/ At(h, "refill_history") /\ Goes(h, Heard(Next_(r), <<>>))
    /\ Mark("blind", {r.p})
    /\ UNCHANGED <<store, products, agents, scenario, requests>>

\* MySQL fails: reads find nothing, writes are given up, with a warning.
MySQLFails(h) ==
    LET r == handlers[h] IN
    /\ Trouble
    /\ \/ At(h, "select") /\ Goes(h, Absent(Next_(r))) /\ Mark("blind", {r.p})
       \/ At(h, "select_history") /\ Goes(h, Heard(Next_(r), <<>>)) /\ Mark("blind", {r.p})
       \/ At(h, "persist") /\ Goes(h, Next_(r)) /\ MarkTorn({h}, {})
       \/ At(h, "persist_history") /\ Goes(h, HistorySaved(r)) /\ MarkTorn({h}, {})
    /\ UNCHANGED <<store, products, agents, scenario, requests>>

LoseWrite ==
    /\ Trouble
    /\ \E w \in unsaved : unsaved' = unsaved \ {w} /\ Mark("torn", {w.p})
    /\ UNCHANGED <<store, docs, tables, agents, handlers, scenario, requests>>

\* Every provider fails: create_message raises.
ModelsFail(h) ==
    /\ Trouble
    /\ At(h, "answer")
    /\ Goes(h, Raised(handlers[h]))
    /\ UNCHANGED <<store, products, agents, scenario, requests, seen>>

\* The reader of a stream goes away: the generator is cancelled where it waits.
Disconnect(h) ==
    /\ Trouble
    /\ Busy(h) /\ handlers[h].stream /\ ~At(h, "trigger_pm")
    /\ Goes(h, Idle)
    /\ MarkTorn({h}, {})
    /\ UNCHANGED <<store, products, agents, scenario, requests>>

Expire ==
    /\ Trouble
    /\ \E p \in Projects : \/ cache[p] # Nil /\ cache' = [cache EXCEPT ![p] = Nil] /\ UNCHANGED hcache
                           \/ hcache[p] # Nil /\ hcache' = [hcache EXCEPT ![p] = Nil] /\ UNCHANGED cache
    /\ UNCHANGED <<stages, hrows, products, agents, handlers, scenario, requests, seen>>

Restart ==
    /\ Trouble
    /\ \E h \in Slots : Busy(h)
    /\ handlers' = [h \in Slots |-> Idle]
    /\ unsaved' = {}
    /\ agents' = [p |-> [a \in DOMAIN agents.p |-> "none"], sub |-> "clarifying", result |-> NoResult]
    /\ MarkTorn(Slots, {w.p : w \in unsaved})
    /\ UNCHANGED <<store, docs, tables, scenario, requests>>

-----------------------------------------------------------------------------
Runs(h) ==
    \/ GetProject(h) \/ SelectProject(h) \/ RefillProject(h) \/ SaveProject(h) \/ PersistProject(h)
    \/ GetHistory(h) \/ SelectHistory(h) \/ RefillHistory(h) \/ SaveHistory(h) \/ PersistHistory(h)
    \/ Background(h) \/ TriggerPm(h) \/ CallAgent(h) \/ BeginStream(h)
    \/ AnswerText(h) \/ AnswerTool(h) \/ ExecuteTool(h) \/ Publish(h) \/ ServerError(h)

Next ==
    \/ \E h \in Slots : Arrive(h) \/ Runs(h) \/ RedisFails(h) \/ MySQLFails(h) \/ ModelsFail(h) \/ Disconnect(h)
    \/ Land \/ LoseWrite \/ Expire \/ Restart

Spec == Init /\ [][Next]_vars

-----------------------------------------------------------------------------
Turns == [p : Projects, n : Nat]
TypeOK ==
    /\ cache \in [Projects -> ProjectState \cup {Nil}]
    /\ stages \in [Projects -> Row]
    /\ \A p \in Projects : (hcache[p] = Nil \/ ToSet(hcache[p]) \subseteq Turns) /\ ToSet(hrows[p]) \subseteq Turns
    /\ docs \in [Projects -> [Documents -> Projects \cup {"none"}]]
    /\ tables \in [Projects -> [Tables -> Turns \cup {NoTurn}]]
    /\ unsaved \subseteq [p : Projects, table : Tables, turn : Turns]
    /\ agents.sub \in SubStages
    /\ \A h \in Slots : Busy(h) => handlers[h].st \in ProjectState /\ handlers[h].sub \in SubStages

\* A project's history holds its own messages, unless two projects ran the
\* requirement agent at once or a streamed message was refused (the router then
\* stores the previous stream's result): requirement_router.py 459-461.
HistoryOwn ==
    \A p \in Projects \ (seen.mixed \cup seen.refused) :
        \A history \in {hcache[p], hrows[p]} \ {Nil} : \A i \in DOMAIN history : history[i].p = p

\* Documents and rows of a project come from its own requests, unless two
\* projects ran the same agent at once: base_agent.py 330, requirement_agent.py 368.
ProductsOwn ==
    \A p \in Projects \ seen.mixed :
        /\ \A f \in Documents : docs[p][f] \in {p, "none"}
        /\ \A t \in Tables : tables[p][t].p \in {p, "none"}

\* A design that waits for its confirmation, or has it, is there, whichever project the
\* agent took it for and whatever its tools brought: the file decides when the stage is
\* set and when the request comes in, not the run of the agent: design_router.py 51-56, 79-83.
StatusEarned ==
    \A p \in Projects : \A st \in {cache[p], stages[p]} \ {Nil} :
        st.design \in {"awaiting_confirmation", "confirmed"} => Written(p, "design.md")

Quiet(p) == \A h \in Slots : Busy(h) => Own(h) # p

\* Redis and MySQL agree on a project nobody works on, whatever expired and was
\* read back, unless two of its requests overlapped (a refill may land on a newer
\* state, two writes may cross) or a MySQL write was lost: session/manager.py 62-109.
StoresAgree ==
    \A p \in Projects \ (seen.crowded \cup seen.torn) : Quiet(p) =>
        /\ cache[p] # Nil => save_project(cache[p]) = stages[p]
        /\ hcache[p] # Nil => hcache[p] = hrows[p]

\* The tasks and the milestones of a project are of one and the same decomposition once
\* no write is outstanding, unless the last one that gave either gave only one of them; the
\* next whole one puts that right: requirement_agent.py 166-174, 303-347.
PlanWhole ==
    \A p \in Projects \ (seen.crowded \cup seen.torn \cup seen.halved) :
        (\A w \in unsaved : w.p # p) => tables[p]["tasks"] = tables[p]["milestones"]

\* No stored message is ever lost but by starting over, also when writes are lost,
\* unless requests overlapped, a streamed message was refused, the history could not be
\* read and counts as empty, or a conversation that was started over had not reached
\* MySQL (the next message then does it): requirement_router.py 171-186, manager.py 147-175.
HistoryKept ==
    [][\A p \in Projects \ (seen'.crowded \cup seen'.mixed \cup seen'.refused \cup seen'.blind \cup seen'.over) :
          hrows'[p] # hrows[p] =>
              \/ IsPrefix(hrows[p], hrows'[p])
              \/ \E h \in Slots : At(h, "persist_history") /\ Own(h) = p /\ handlers[h].kind = "start"]_vars

\* Work on one stage leaves the others as they are: the whole state is saved
\* every time, so what is read back must be all of it (repository.py 65-130), unless
\* two requests of the project overlapped, a write was lost or nothing could be read.
StagesApart ==
    [][\A p \in Projects \ (seen'.crowded \cup seen'.torn \cup seen'.blind) : \A h \in Slots :
          At(h, "persist") /\ Own(h) = p /\ handlers'[h] # handlers[h] =>
              Cardinality({s \in ALL_STAGES : stages'[p][s] # stages[p][s]}) <= 1]_vars

===========================================================================
