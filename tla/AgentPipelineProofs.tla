------------------------ MODULE AgentPipelineProofs ------------------------
(***************************************************************************)
(* What TLAPS proves of AgentPipeline, for any projects, slots, scenarios  *)
(* and number of iterations.  The invariant is layered: what a request can *)
(* still have to do (ControlInv); whose the agents, documents and rows are *)
(* (OwnerInv); whose the messages are (HistoryInv); what a stage tells of  *)
(* the design (StatusInv); what a decomposition has left to write          *)
(* (PlanInv).                                                              *)
(* The last part (StoreInv) is how Redis, MySQL and the requests under way *)
(* see one project: that the stores agree on a project nobody works on, no *)
(* stored message is lost, and work on one stage leaves the others alone.  *)
(***************************************************************************)
EXTENDS AgentPipeline, SequenceTheorems, FiniteSetTheorems, TLAPS

Agents == {"requirement", "design", "pm"}
ToolsOf(agent) ==
    CASE agent = "requirement" -> {"ask_clarification", "generate_prd", "decompose_to_ears", "save_document"}
      [] agent = "design"      -> {"produce_design", "save_document"}
      [] agent = "pm"          -> {"produce_project_plan", "save_document"}

Step == {"init_project", "get_project", "start_stage", "confirm_stage", "regenerate_pm", "generate_pm",
         "fresh", "clarifying", "chatted", "prd_confirmed", "ears_decomposing", "decomposed", "errored",
         "design_running", "design_done", "design_confirmed", "plan_checked", "planned", "pm_error",
         "chat", "decompose_ears", "design", "pm", "background", "trigger_pm",
         "get_history", "select_history", "refill_history", "save_history", "persist_history",
         "select", "refill", "persist", "begin", "answer", "tool", "publish", "ValueError"}
ToolNames == {"ask_clarification", "generate_prd", "decompose_to_ears", "save_document", "produce_design",
              "produce_project_plan"}

\* Lists of steps, of which the provers need to know no more than the first and the others.
Todo == Seq(Step)
First(t) == Head(t)
Others(t) == Tail(t)

Request == [kind : Kinds, p : Projects, n : Nat, stream : BOOLEAN, safe : BOOLEAN, todo : Todo,
            catch : Todo, st : ProjectState, hist : Seq(Turns), sub : SubStages,
            agent : Agents \cup {"none"}, tools : SUBSET ToolNames, tool : ToolNames \cup {"none"}, iteration : Nat]
Catches == {<<>>, <<"pm_error">>, <<"get_project", "errored">>}

-----------------------------------------------------------------------------
\* What may be left after each step of a program, by the kind of the request.

Talks == <<"chat", "save_history", "chatted">>
Started == <<"clarifying", "chat", "save_history", "chatted">>
Answers == <<"get_history", "chat", "save_history", "chatted">>
Splits == <<"decompose_ears", "save_history", "get_project", "decomposed">>
SplitsAtOnce == <<"decompose_ears", "save_history", "decomposed">>
Breaks == <<"get_history", "decompose_ears", "save_history", "get_project", "decomposed">>
BreaksAtOnce == <<"get_history", "decompose_ears", "save_history", "decomposed">>
Detached == <<"background", "get_history", "decompose_ears", "save_history", "get_project", "decomposed">>
Announced == <<"ears_decomposing", "background", "get_history", "decompose_ears", "save_history", "get_project",
               "decomposed">>
Keeps == <<"save_history", "chatted">>
KeepsAtOnce == <<"save_history", "decomposed">>
KeepsLater == <<"save_history", "get_project", "decomposed">>
Rereads == <<"get_project", "decomposed">>
Draws == <<"design", "design_done">>
Checks == <<"pm", "plan_checked">>
Plans == <<"trigger_pm", "pm", "get_project", "planned">>
Works == <<"pm", "get_project", "planned">>
Notes == <<"get_project", "planned">>
Fails == <<"get_project", "errored">>
Only(step) == <<step>>
Reports == {Only("chatted"), Only("decomposed"), Rereads}

Final == {"chatted", "prd_confirmed", "decomposed", "errored", "design_done", "plan_checked", "planned", "pm_error"}

Follows(kind, s, t) ==
    \/ s \in Final /\ t = <<>>
    \/ s = "design_confirmed" /\ t = <<>> /\ kind = "confirm_design"
    \/ s = "confirm_stage" /\ t = Only("design_confirmed") /\ kind = "confirm_design"
    \/ s \in {"init_project", "fresh"} /\ (t = <<>> \/ (t = Started /\ kind = "start"))
    \/ s = "clarifying" /\ t = Talks /\ kind = "start"
    \/ s = "chat" /\ t = Keeps
    \/ s \in {"save_history", "persist_history"} /\ t \in Reports
    \/ s = "get_project" /\ (t = <<>> \/ t \in {Only("prd_confirmed"), Only("decomposed"), Only("planned"), Only("errored")})
    \/ s = "get_project" /\ t \in {Answers, BreaksAtOnce, Announced}
    \/ s = "ears_decomposing" /\ t = Detached
    \/ s = "background" /\ t = Breaks
    \/ s = "get_history" /\ t \in {Talks, Splits, SplitsAtOnce}
    \/ s = "decompose_ears" /\ t \in {KeepsLater, KeepsAtOnce}
    \/ s \in {"start_stage", "design_running"} /\ t = Draws
    \/ s = "design" /\ t = Only("design_done")
    \/ s = "regenerate_pm" /\ t = on_matched
    \/ s = "generate_pm" /\ t = Checks
    \/ s = "pm" /\ t \in {Only("plan_checked"), Notes}
    \/ s = "trigger_pm" /\ t = Works
    \/ s = "persist" /\ (t = <<>> \/ t \in {Detached, Draws, Plans})
    \/ s = "persist" /\ t \in {Started, Talks} /\ kind = "start"

AfterCall(agent) ==
    CASE agent = "requirement" -> {Keeps, KeepsAtOnce, KeepsLater}
      [] agent = "design"      -> {Only("design_done")}
      [] agent = "pm"          -> {Only("plan_checked"), Notes}

\* A list of steps that a request may have to do when nothing of a step is half done.
Plain(kind, t) == t \in Todo /\ (t # <<>> => Follows(kind, First(t), Others(t)))

InCall == {"begin", "answer", "tool", "publish"}
Shape(r) ==
    LET s == First(r.todo)
        t == Others(r.todo)
    IN  /\ r.todo # <<>> /\ r.catch \in Catches
        /\ \/ Follows(r.kind, s, t)
           \/ s \in {"select", "refill"} /\ t # <<>> /\ First(t) \in Reads /\ Plain(r.kind, t)
           \/ s \in {"select_history", "refill_history"} /\ t # <<>> /\ First(t) = "get_history" /\ Plain(r.kind, t)
           \/ s \in InCall /\ r.agent \in Agents /\ t \in AfterCall(r.agent)
           \/ s = "ValueError" /\ t = <<>>
        /\ s \in {"answer", "tool"} => r.tools \subseteq ToolsOf(r.agent)
        /\ s = "tool" => r.tool \in ToolsOf(r.agent)
        /\ s \in {"begin", "tool", "publish"} => r.stream
        /\ s \in {"save_history", "persist_history"} /\ r.stream => r.agent = "requirement"
        /\ r.kind = "confirm_design" => Written(r.p, "design.md")

Marks == [crowded : SUBSET Projects, mixed : SUBSET Projects, refused : SUBSET Projects,
          torn : SUBSET Projects, over : SUBSET Projects, blind : SUBSET Projects, halved : SUBSET Projects]

Types ==
    /\ cache \in [Projects -> {Nil} \cup ProjectState] /\ hcache \in [Projects -> {Nil} \cup Seq(Turns)]
    /\ stages \in [Projects -> Row] /\ hrows \in [Projects -> Seq(Turns)]
    /\ docs \in [Projects -> [Documents -> Projects \cup {"none"}]]
    /\ tables \in [Projects -> [Tables -> Turns \cup {NoTurn}]]
    /\ unsaved \subseteq [p : Projects, table : Tables, turn : Turns]
    /\ agents \in [p : [Agents -> Projects \cup {"none"}], sub : SubStages, result : {NoResult} \cup Seq(Turns)]
    /\ scenario \in Scenarios /\ requests \in Nat
    /\ seen \in Marks
ControlInv ==
    /\ Types
    /\ handlers \in [Slots -> {Idle} \cup Request]
    /\ \A h \in Slots : Busy(h) => Shape(handlers[h])
    /\ \A h \in Slots : Busy(h) /\ handlers[h].agent # "none" => agents.p[handlers[h].agent] \in Projects

-----------------------------------------------------------------------------
\* Whose the agents, the documents and the rows are.

Mixed(p, q) == p = q \/ {p, q} \subseteq seen.mixed

\* An agent that runs for a project has that project in its field, or both are known to be mixed.
AgentsOwn ==
    \A h \in Slots : Busy(h) /\ handlers[h].agent # "none" => Mixed(Own(h), agents.p[handlers[h].agent])
PairsMixed ==
    \A g, h \in Slots : Busy(g) /\ Busy(h) /\ handlers[g].agent # "none" /\ handlers[g].agent = handlers[h].agent =>
        Mixed(Own(g), Own(h))
UnsavedOwn == \A w \in unsaved : Mixed(w.turn.p, w.p)
OwnerInv == AgentsOwn /\ PairsMixed /\ UnsavedOwn /\ ProductsOwn

-----------------------------------------------------------------------------
\* Whose the messages are.

Of(p, history) == \A i \in DOMAIN history : history[i].p = p
Unclear == seen.mixed \cup seen.refused
HistoryInv ==
    /\ \A p \in Projects \ Unclear : (hcache[p] # Nil => Of(p, hcache[p])) /\ Of(p, hrows[p])
    /\ \A h \in Slots : Busy(h) /\ Own(h) \notin Unclear =>
          /\ Of(Own(h), handlers[h].hist)
          /\ At(h, "save_history") /\ handlers[h].stream => Of(Own(h), agents.result)

-----------------------------------------------------------------------------
\* What a stage tells of the design.

Earned(p, st) == st.design \in {"awaiting_confirmation", "confirmed"} => Written(p, "design.md")
StatusInv ==
    /\ \A p \in Projects : (cache[p] # Nil => Earned(p, cache[p])) /\ Earned(p, stages[p])
    /\ \A h \in Slots : Busy(h) => Earned(Own(h), handlers[h].st)

-----------------------------------------------------------------------------
\* What a decomposition has left to write.

Other(table) == IF table = "tasks" THEN "milestones" ELSE "tasks"
Outstanding(p) == {w \in unsaved : w.p = p /\ w.table \in Plan}
PlanInv ==
    \A p \in Projects \ (seen.crowded \cup seen.torn \cup seen.halved) :
        /\ Outstanding(p) = {} => tables[p]["tasks"] = tables[p]["milestones"]
        /\ \A v, w \in Outstanding(p) : v.turn = w.turn /\ (v.table = w.table => v = w)
        /\ \A w \in Outstanding(p) : (\E v \in Outstanding(p) : v.table = Other(w.table))
                                     \/ tables[p][Other(w.table)] = w.turn

-----------------------------------------------------------------------------
\* The programs.

\* A step put in front of what is left to do.
LEMMA Push ==
    ASSUME NEW s \in Step, NEW t \in Todo
    PROVE  <<s>> \o t \in Todo /\ <<s>> \o t # <<>> /\ First(<<s>> \o t) = s /\ Others(<<s>> \o t) = t
  BY DEF Todo, First, Others

LEMMA Rest ==
    ASSUME NEW t \in Todo, t # <<>>
    PROVE  First(t) \in Step /\ Others(t) \in Todo
  BY DEF Todo, First, Others

LEMMA Explicit ==
    ASSUME NEW S, NEW a \in S, NEW b \in S, NEW c \in S, NEW d \in S, NEW e \in S, NEW f \in S, NEW g \in S
    PROVE  /\ <<a, b, c, d, e, f, g>> \in Seq(S)
           /\ <<b, c, d, e, f, g>> \in Seq(S)
           /\ <<c, d, e, f, g>> \in Seq(S)
           /\ <<d, e, f, g>> \in Seq(S)
           /\ <<e, f, g>> \in Seq(S)
           /\ <<f, g>> \in Seq(S)
           /\ <<g>> \in Seq(S)
  <1> DEFINE s == <<a, b, c, d, e, f, g>>
  <1>1. s \in [1..7 -> S] OBVIOUS
  <1> HIDE DEF s
  <1>2. \E n \in Nat : s \in [1..n -> S] BY <1>1
  <1>3. s \in Seq(S) BY <1>2, Z3
  <1> USE DEF s
  <1> QED BY <1>3

\* Every list of steps a program can come to.
Lists ==
     {Started, Talks, Answers, Splits, SplitsAtOnce, Breaks, BreaksAtOnce, Detached, Announced, Keeps,
      KeepsAtOnce, KeepsLater, Rereads, Draws, Checks, Plans, Works, Notes, Fails, on_matched,
      Only("chatted"), Only("decomposed"), Only("prd_confirmed"), Only("planned"), Only("errored"),
      Only("design_confirmed"), Only("design_done"), Only("plan_checked"), Only("pm_error")}

LEMMA Listed == Lists \subseteq Todo /\ <<>> \in Todo /\ <<>> \notin Lists
  <1>1. /\ Started \in Todo /\ Started # <<>>
       /\ Talks \in Todo /\ Talks # <<>>
       /\ Answers \in Todo /\ Answers # <<>>
       /\ Splits \in Todo /\ Splits # <<>>
       /\ SplitsAtOnce \in Todo /\ SplitsAtOnce # <<>>
    BY Explicit DEF Todo, Step, Answers, Splits, SplitsAtOnce, Started, Talks
  <1>2. /\ Breaks \in Todo /\ Breaks # <<>>
       /\ BreaksAtOnce \in Todo /\ BreaksAtOnce # <<>>
       /\ Detached \in Todo /\ Detached # <<>>
       /\ Announced \in Todo /\ Announced # <<>>
    BY Explicit DEF Todo, Step, Announced, Breaks, BreaksAtOnce, Detached
  <1>3. /\ Keeps \in Todo /\ Keeps # <<>>
       /\ KeepsAtOnce \in Todo /\ KeepsAtOnce # <<>>
       /\ KeepsLater \in Todo /\ KeepsLater # <<>>
       /\ Rereads \in Todo /\ Rereads # <<>>
       /\ Draws \in Todo /\ Draws # <<>>
    BY Explicit DEF Todo, Step, Draws, Keeps, KeepsAtOnce, KeepsLater, Rereads
  <1>4. /\ Checks \in Todo /\ Checks # <<>>
       /\ Plans \in Todo /\ Plans # <<>>
       /\ Works \in Todo /\ Works # <<>>
       /\ Notes \in Todo /\ Notes # <<>>
       /\ Fails \in Todo /\ Fails # <<>>
       /\ on_matched \in Todo /\ on_matched # <<>>
    BY Explicit DEF Todo, Step, Checks, Fails, Notes, Plans, Works, on_matched
  <1>5. ASSUME NEW x \in Step
        PROVE  Only(x) \in Todo /\ Only(x) # <<>>
    BY DEF Only, Todo
  <1>6. /\ Only("chatted") \in Todo /\ Only("chatted") # <<>>
       /\ Only("decomposed") \in Todo /\ Only("decomposed") # <<>>
       /\ Only("prd_confirmed") \in Todo /\ Only("prd_confirmed") # <<>>
       /\ Only("planned") \in Todo /\ Only("planned") # <<>>
       /\ Only("errored") \in Todo /\ Only("errored") # <<>>
       /\ Only("design_confirmed") \in Todo /\ Only("design_confirmed") # <<>>
       /\ Only("design_done") \in Todo /\ Only("design_done") # <<>>
       /\ Only("plan_checked") \in Todo /\ Only("plan_checked") # <<>>
       /\ Only("pm_error") \in Todo /\ Only("pm_error") # <<>>
    BY <1>5 DEF Step
  <1>7. <<>> \in Todo
    BY DEF Todo
  <1> QED BY <1>1, <1>2, <1>3, <1>4, <1>6, <1>7 DEF Lists

\* The first step of each, and the others.
LEMMA Parts ==
    /\ First(Started) = "clarifying" /\ Others(Started) = Talks
    /\ First(Talks) = "chat" /\ Others(Talks) = Keeps
    /\ First(Answers) = "get_history" /\ Others(Answers) = Talks
    /\ First(Splits) = "decompose_ears" /\ Others(Splits) = KeepsLater
    /\ First(SplitsAtOnce) = "decompose_ears" /\ Others(SplitsAtOnce) = KeepsAtOnce
    /\ First(Breaks) = "get_history" /\ Others(Breaks) = Splits
    /\ First(BreaksAtOnce) = "get_history" /\ Others(BreaksAtOnce) = SplitsAtOnce
    /\ First(Detached) = "background" /\ Others(Detached) = Breaks
    /\ First(Announced) = "ears_decomposing" /\ Others(Announced) = Detached
    /\ First(Keeps) = "save_history" /\ Others(Keeps) = Only("chatted")
    /\ First(KeepsAtOnce) = "save_history" /\ Others(KeepsAtOnce) = Only("decomposed")
    /\ First(KeepsLater) = "save_history" /\ Others(KeepsLater) = Rereads
    /\ First(Rereads) = "get_project" /\ Others(Rereads) = Only("decomposed")
    /\ First(Draws) = "design" /\ Others(Draws) = Only("design_done")
    /\ First(Checks) = "pm" /\ Others(Checks) = Only("plan_checked")
    /\ First(Plans) = "trigger_pm" /\ Others(Plans) = Works
    /\ First(Works) = "pm" /\ Others(Works) = Notes
    /\ First(Notes) = "get_project" /\ Others(Notes) = Only("planned")
    /\ First(Fails) = "get_project" /\ Others(Fails) = Only("errored")
    /\ First(on_matched) = "generate_pm" /\ Others(on_matched) = Checks
    /\ First(Only("chatted")) = "chatted" /\ Others(Only("chatted")) = <<>>
    /\ First(Only("decomposed")) = "decomposed" /\ Others(Only("decomposed")) = <<>>
    /\ First(Only("prd_confirmed")) = "prd_confirmed" /\ Others(Only("prd_confirmed")) = <<>>
    /\ First(Only("planned")) = "planned" /\ Others(Only("planned")) = <<>>
    /\ First(Only("errored")) = "errored" /\ Others(Only("errored")) = <<>>
    /\ First(Only("design_confirmed")) = "design_confirmed" /\ Others(Only("design_confirmed")) = <<>>
    /\ First(Only("design_done")) = "design_done" /\ Others(Only("design_done")) = <<>>
    /\ First(Only("plan_checked")) = "plan_checked" /\ Others(Only("plan_checked")) = <<>>
    /\ First(Only("pm_error")) = "pm_error" /\ Others(Only("pm_error")) = <<>>
  <1>Started. First(Started) = "clarifying" /\ Others(Started) = Talks
    BY DEF First, Others, Started, Talks
  <1>Talks. First(Talks) = "chat" /\ Others(Talks) = Keeps
    BY DEF First, Others, Talks, Keeps
  <1>Answers. First(Answers) = "get_history" /\ Others(Answers) = Talks
    BY DEF First, Others, Answers, Talks
  <1>Splits. First(Splits) = "decompose_ears" /\ Others(Splits) = KeepsLater
    BY DEF First, Others, Splits, KeepsLater
  <1>SplitsAtOnce. First(SplitsAtOnce) = "decompose_ears" /\ Others(SplitsAtOnce) = KeepsAtOnce
    BY DEF First, Others, SplitsAtOnce, KeepsAtOnce
  <1>Breaks. First(Breaks) = "get_history" /\ Others(Breaks) = Splits
    BY DEF First, Others, Breaks, Splits
  <1>BreaksAtOnce. First(BreaksAtOnce) = "get_history" /\ Others(BreaksAtOnce) = SplitsAtOnce
    BY DEF First, Others, BreaksAtOnce, SplitsAtOnce
  <1>Detached. First(Detached) = "background" /\ Others(Detached) = Breaks
    BY DEF First, Others, Detached, Breaks
  <1>Announced. First(Announced) = "ears_decomposing" /\ Others(Announced) = Detached
    BY DEF First, Others, Announced, Detached
  <1>Keeps. First(Keeps) = "save_history" /\ Others(Keeps) = Only("chatted")
    BY DEF First, Others, Keeps, Only
  <1>KeepsAtOnce. First(KeepsAtOnce) = "save_history" /\ Others(KeepsAtOnce) = Only("decomposed")
    BY DEF First, Others, KeepsAtOnce, Only
  <1>KeepsLater. First(KeepsLater) = "save_history" /\ Others(KeepsLater) = Rereads
    BY DEF First, Others, KeepsLater, Rereads
  <1>Rereads. First(Rereads) = "get_project" /\ Others(Rereads) = Only("decomposed")
    BY DEF First, Others, Rereads, Only
  <1>Draws. First(Draws) = "design" /\ Others(Draws) = Only("design_done")
    BY DEF First, Others, Draws, Only
  <1>Checks. First(Checks) = "pm" /\ Others(Checks) = Only("plan_checked")
    BY DEF First, Others, Checks, Only
  <1>Plans. First(Plans) = "trigger_pm" /\ Others(Plans) = Works
    BY DEF First, Others, Plans, Works
  <1>Works. First(Works) = "pm" /\ Others(Works) = Notes
    BY DEF First, Others, Works, Notes
  <1>Notes. First(Notes) = "get_project" /\ Others(Notes) = Only("planned")
    BY DEF First, Others, Notes, Only
  <1>Fails. First(Fails) = "get_project" /\ Others(Fails) = Only("errored")
    BY DEF First, Others, Fails, Only
  <1>on_matched. First(on_matched) = "generate_pm" /\ Others(on_matched) = Checks
    BY DEF First, Others, on_matched, Checks
  <1>alone. ASSUME NEW x
            PROVE  First(Only(x)) = x /\ Others(Only(x)) = <<>>
    BY DEF First, Others, Only
  <1> QED
    BY <1>Started, <1>Talks, <1>Answers, <1>Splits, <1>SplitsAtOnce, <1>Breaks, <1>BreaksAtOnce,
       <1>Detached, <1>Announced, <1>Keeps, <1>KeepsAtOnce, <1>KeepsLater, <1>Rereads, <1>Draws, <1>Checks,
       <1>Plans, <1>Works, <1>Notes, <1>Fails, <1>on_matched, <1>alone

\* What may follow a step is a list of steps, the first of which may itself come before the others.
LEMMA FollowsPlain ==
    ASSUME NEW kind, NEW s, NEW t, Follows(kind, s, t)
    PROVE  Plain(kind, t)
  <1>1. t \in Lists \/ t = <<>>
    BY DEF Follows, Reports, Lists
  <1>2. ASSUME t # <<>>
        PROVE  Follows(kind, First(t), Others(t))
    BY <1>2, Parts DEF Follows, Reports, Final
  <1> QED BY <1>1, <1>2, Listed DEF Plain

LEMMA AfterCallPlain ==
    ASSUME NEW kind, NEW agent \in Agents, NEW t \in AfterCall(agent)
    PROVE  Plain(kind, t) /\ t # <<>>
  <1>1. t \in Lists
    BY DEF AfterCall, Agents, Lists
  <1>2. Follows(kind, First(t), Others(t))
    BY Parts DEF AfterCall, Agents, Follows, Final, Reports
  <1> QED BY <1>1, <1>2, Listed DEF Plain

-----------------------------------------------------------------------------
\* Requests: what each operator of the model makes of one.

\* What a request is for never changes; where it is in an agent's call; and all but its list of steps.
Kin(r, q) == q.kind = r.kind /\ q.p = r.p /\ q.n = r.n /\ q.safe = r.safe
Loop(r, q) == q.agent = r.agent /\ q.tools = r.tools /\ q.tool = r.tool /\ q.iteration = r.iteration
Like(r, q) == /\ Kin(r, q) /\ Loop(r, q) /\ q.stream = r.stream /\ q.catch = r.catch
              /\ q.st = r.st /\ q.hist = r.hist /\ q.sub = r.sub

LEMMA LikeIsRequest ==
    ASSUME NEW r \in Request, NEW t \in Todo
    PROVE  [r EXCEPT !.todo = t] \in Request /\ [r EXCEPT !.todo = t].todo = t /\ Like(r, [r EXCEPT !.todo = t])
  BY DEF Request, Like, Kin, Loop

LEMMA NextStep ==
    ASSUME NEW r \in Request, r.todo # <<>>
    PROVE  Next_(r) \in Request /\ Next_(r).todo = Others(r.todo) /\ Like(r, Next_(r))
  <1>1. r.todo \in Todo
    BY DEF Request
  <1>2. Next_(r) = [r EXCEPT !.todo = Others(r.todo)]
    BY DEF Next_, Others
  <1> QED BY <1>1, <1>2, Rest, LikeIsRequest

LEMMA ThenStep ==
    ASSUME NEW r \in Request, r.todo # <<>>, NEW x \in Step
    PROVE  /\ Then(r, <<x>>) \in Request /\ Like(r, Then(r, <<x>>)) /\ Then(r, <<x>>).todo # <<>>
           /\ First(Then(r, <<x>>).todo) = x /\ Others(Then(r, <<x>>).todo) = Others(r.todo)
  <1>1. r.todo \in Todo /\ Others(r.todo) \in Todo
    BY Rest DEF Request
  <1> DEFINE t == <<x>> \o Others(r.todo)
  <1>2. Then(r, <<x>>) = [r EXCEPT !.todo = t]
    BY DEF Then, Others
  <1>3. t \in Todo /\ t # <<>> /\ First(t) = x /\ Others(t) = Others(r.todo)
    BY <1>1, Push
  <1> HIDE DEF t
  <1> QED BY <1>2, <1>3, LikeIsRequest

LEMMA ThenNothing ==
    ASSUME NEW r \in Request, r.todo # <<>>
    PROVE  Then(r, <<>>) = Next_(r)
  <1>1. Tail(r.todo) \in Seq(Step)
    BY Rest DEF Request, Todo, Others
  <1>2. <<>> \o Tail(r.todo) = Tail(r.todo)
    BY <1>1
  <1> QED BY <1>2 DEF Then, Next_

LEMMA InFront ==
    ASSUME NEW r \in Request, NEW x \in Step
    PROVE  LET q == [r EXCEPT !.todo = <<x>> \o @]
           IN  q \in Request /\ Like(r, q) /\ q.todo # <<>> /\ First(q.todo) = x /\ Others(q.todo) = r.todo
  <1>1. r.todo \in Todo
    BY DEF Request
  <1> DEFINE t == <<x>> \o r.todo
  <1>2. [r EXCEPT !.todo = <<x>> \o @] = [r EXCEPT !.todo = t]
    OBVIOUS
  <1>3. t \in Todo /\ t # <<>> /\ First(t) = x /\ Others(t) = r.todo
    BY <1>1, Push
  <1> HIDE DEF t
  <1> QED BY <1>2, <1>3, LikeIsRequest

LEMMA GoesTo ==
    ASSUME handlers \in [Slots -> {Idle} \cup Request], NEW h \in Slots, NEW q \in {Idle} \cup Request, Goes(h, q)
    PROVE  /\ handlers' \in [Slots -> {Idle} \cup Request]
           /\ \A g \in Slots : g # h => handlers'[g] = handlers[g]
           /\ Busy(h)' => handlers'[h] = q /\ q \in Request /\ q.todo # <<>>
           /\ q # Idle /\ q.todo # <<>> => Busy(h)' /\ handlers'[h] = q
  BY DEF Goes, Idle, Busy

\* What a reader of a state does with the one it gets: it goes on, starts the design first,
\* ends, or answers with an error.
Resumed(r, st, q) ==
    /\ Kin(r, q) /\ Loop(r, q) /\ q.stream = r.stream /\ q.hist = r.hist /\ q.sub = r.sub
    /\ q.catch \in {r.catch, <<"pm_error">>}
    /\ \/ q.todo = Others(r.todo) /\ q.st = st
       \/ /\ First(r.todo) = "start_stage" /\ q.todo # <<>> /\ First(q.todo) = "design_running"
          /\ Others(q.todo) = Others(r.todo) /\ q.st = st
       \/ First(q.todo) = "ValueError" /\ q.todo # <<>> /\ Others(q.todo) = <<>> /\ q.st = r.st
    /\ First(r.todo) = "confirm_stage" => q.st = r.st \/ st.design \in {"running", "awaiting_confirmation"}

LEMMA LoadedStep ==
    ASSUME NEW r \in Request, r.todo # <<>>, First(r.todo) \in Reads, NEW st \in ProjectState
    PROVE  LET q == Loaded(r, st) IN q = Idle \/ (q \in Request /\ Resumed(r, st, q))
  <1> DEFINE l == [r EXCEPT !.st = st]
  <1>1. l \in Request /\ Kin(r, l) /\ Loop(r, l) /\ l.stream = r.stream /\ l.catch = r.catch
        /\ l.st = st /\ l.hist = r.hist /\ l.sub = r.sub /\ l.todo = r.todo
    BY DEF Request, Kin, Loop
  <1> HIDE DEF l
  <1>2. Next_(l) \in Request /\ Next_(l).todo = Others(r.todo) /\ Like(l, Next_(l))
    BY <1>1, NextStep
  <1>3. Then(l, <<>>) = Next_(l)
    BY <1>1, ThenNothing
  <1> DEFINE d == Then(l, <<"design_running">>)
  <1>4. d \in Request /\ Like(l, d) /\ d.todo # <<>> /\ First(d.todo) = "design_running"
        /\ Others(d.todo) = Others(r.todo)
    BY <1>1, ThenStep DEF Step
  <1> DEFINE e == [r EXCEPT !.todo = Only("ValueError")]
  <1>5. e \in Request /\ Like(r, e) /\ e.todo # <<>> /\ First(e.todo) = "ValueError" /\ Others(e.todo) = <<>>
    <2>1. Only("ValueError") \in Todo /\ Only("ValueError") # <<>>
      BY DEF Only, Todo, Step
    <2>2. First(Only("ValueError")) = "ValueError" /\ Others(Only("ValueError")) = <<>>
      BY DEF Only, First, Others
    <2> QED BY <2>1, <2>2, LikeIsRequest
  <1> DEFINE p == [Next_(l) EXCEPT !.catch = Only("pm_error")]
  <1>6. p \in Request /\ Kin(l, p) /\ Loop(l, p) /\ p.stream = l.stream /\ p.hist = l.hist /\ p.sub = l.sub /\ p.st = l.st
        /\ p.todo = Others(r.todo) /\ p.catch = Only("pm_error")
    <2>1. Only("pm_error") \in Todo
      BY Listed DEF Lists
    <2> QED BY <1>2, <2>1 DEF Request, Like, Kin, Loop
  <1>7. Loaded(r, st) \in {Idle, Next_(l), d, e, p}
    BY <1>3, Zenon DEF Loaded, Only, First, Reads, l
  <1>8. First(r.todo) = "confirm_stage" =>
           Loaded(r, st) \in {Idle, e} \/ st.design \in {"running", "awaiting_confirmation"}
    BY DEF Loaded, First, Only
  <1>9. Loaded(r, st) = d => First(r.todo) = "start_stage" \/ d \in {Idle, Next_(l), e, p}
    BY <1>3, Zenon DEF Loaded, Only, First, Reads, l
  <1> HIDE DEF d, e, p
  <1>10. Only("pm_error") = <<"pm_error">>
    BY DEF Only
  <1> QED BY <1>1, <1>2, <1>4, <1>5, <1>6, <1>7, <1>8, <1>9, <1>10 DEF Resumed, Like, Kin, Loop

-----------------------------------------------------------------------------
\* The state of a project.

\* Confirming a stage moves the current one at most: the statuses are kept.
LEMMA Advanced ==
    ASSUME NEW st \in ProjectState
    PROVE  /\ advance_to_next_stage(st) \in ProjectState
           /\ save_project(advance_to_next_stage(st)) = save_project(st)
  <1> DEFINE I == {i \in 1..Len(STAGES) : STAGES[i] = st.current}
  <1> DEFINE idx == IF I # {} THEN Min(I) ELSE 0
  <1>1. advance_to_next_stage(st) = IF idx = Len(STAGES) THEN st ELSE [st EXCEPT !.current = STAGES[idx + 1]]
    BY DEF advance_to_next_stage, SelectInSeq
  <1>2. idx \in {0, 1, 2}
    <2>1. Len(STAGES) = 2
      BY DEF STAGES
    <2>2. I \subseteq {1, 2}
      BY <2>1
    <2>3. I # {} => Min(I) \in I
      <3>1. CASE 1 \in I
        BY <2>2, <3>1 DEF Min
      <3>2. CASE 1 \notin I /\ I # {}
        <4>1. I = {2}
          BY <2>2, <3>2
        <4> HIDE DEF I
        <4> QED BY <4>1 DEF Min
      <3> QED BY <3>1, <3>2
    <2> QED BY <2>2, <2>3
  <1> HIDE DEF idx
  <1>3. idx # Len(STAGES) => STAGES[idx + 1] \in {"requirement", "design"}
    BY <1>2 DEF STAGES
  <1>4. STAGES[idx + 1] \in {"requirement", "design"} =>
           /\ [st EXCEPT !.current = STAGES[idx + 1]] \in ProjectState
           /\ save_project([st EXCEPT !.current = STAGES[idx + 1]]) = save_project(st)
    BY DEF ProjectState, ALL_STAGES, save_project
  <1> QED BY <1>1, <1>3, <1>4

LEMMA SavedIsRow ==
    ASSUME NEW st \in ProjectState
    PROVE  save_project(st) \in Row
  BY DEF ProjectState, Row, save_project

LEMMA ReadBack ==
    ASSUME NEW row \in Row, NEW st \in get_project(row)
    PROVE  st \in ProjectState /\ save_project(st) = row /\ st.sub = row.sub /\ st.design = row.design
  BY DEF ProjectState, Row, get_project, save_project, ALL_STAGES

LEMMA FreshState == Fresh \in ProjectState
  BY DEF Fresh, ProjectState, Statuses, SubStages, ALL_STAGES

\* The two differ in one stage at most.
OneStage(row, st) == \E s \in ALL_STAGES : \A other \in ALL_STAGES \ {s} : row[other] = st[other]

\* The requirement stage may take any status, and its substage with it.
RequirementMark(st, status, sub) == [st EXCEPT !.requirement = status, !.sub = sub]

LEMMA RequirementMarked ==
    ASSUME NEW st \in ProjectState, NEW status \in Statuses, NEW sub \in SubStages
    PROVE  LET d == RequirementMark(st, status, sub) IN
           d \in ProjectState /\ OneStage(st, d) /\ d.sub = sub /\ d.design = st.design
  BY DEF ProjectState, OneStage, ALL_STAGES, RequirementMark

\* What the handlers mark before they save: a state of which at most one stage is another.
LEMMA MarkedStep ==
    ASSUME NEW r \in Request, First(r.todo) \in Saves
    PROVE  /\ Marked(r) \in ProjectState
           /\ First(r.todo) # "fresh" => OneStage(r.st, Marked(r))
           /\ Marked(r).sub \in {"none", "clarifying", "prd_confirmed", "ears_decomposing", r.st.sub}
              \/ (First(r.todo) \in {"chatted", "decomposed"} /\ Marked(r).sub = r.sub)
           /\ Marked(r).design \in {"pending", "running", r.st.design}
              \/ (First(r.todo) = "design_done" /\ Written(r.p, "design.md")) \/ First(r.todo) = "design_confirmed"
  <1>0. r.st \in ProjectState /\ r.sub \in SubStages
    BY DEF Request
  <1>1. CASE First(r.todo) = "fresh"
    <2>1. Marked(r) = Fresh
      BY <1>1 DEF Marked, First
    <2> QED BY <2>1, <1>1, FreshState DEF Fresh
  <1>2. CASE First(r.todo) \in {"clarifying", "chatted", "prd_confirmed", "ears_decomposing", "decomposed"}
    <2>1. CASE First(r.todo) = "clarifying"
      <3>1. Marked(r) = RequirementMark(r.st, "running", "clarifying")
        BY <2>1 DEF Marked, First, RequirementMark
      <3>2. "running" \in Statuses /\ "clarifying" \in SubStages
        BY DEF Statuses, SubStages
      <3>3. LET d == Marked(r) IN d \in ProjectState /\ OneStage(r.st, d) /\ d.sub = "clarifying" /\ d.design = r.st.design
        BY <1>0, <3>1, <3>2, RequirementMarked
      <3> QED BY <2>1, <3>3
    <2>2. CASE First(r.todo) = "chatted"
      <3>1. Marked(r) = RequirementMark(r.st, "running", r.sub)
        BY <2>2 DEF Marked, First, RequirementMark
      <3>2. "running" \in Statuses
        BY DEF Statuses
      <3>3. LET d == Marked(r) IN d \in ProjectState /\ OneStage(r.st, d) /\ d.sub = r.sub /\ d.design = r.st.design
        BY <1>0, <3>1, <3>2, RequirementMarked
      <3> QED BY <2>2, <3>3
    <2>3. CASE First(r.todo) = "prd_confirmed"
      <3>1. Marked(r) = RequirementMark(r.st, "confirmed", "prd_confirmed")
        BY <2>3 DEF Marked, First, RequirementMark
      <3>2. "confirmed" \in Statuses /\ "prd_confirmed" \in SubStages
        BY DEF Statuses, SubStages
      <3>3. LET d == Marked(r) IN d \in ProjectState /\ OneStage(r.st, d) /\ d.sub = "prd_confirmed" /\ d.design = r.st.design
        BY <1>0, <3>1, <3>2, RequirementMarked
      <3> QED BY <2>3, <3>3
    <2>4. CASE First(r.todo) = "ears_decomposing"
      <3>1. Marked(r) = RequirementMark(r.st, "running", "ears_decomposing")
        BY <2>4 DEF Marked, First, RequirementMark
      <3>2. "running" \in Statuses /\ "ears_decomposing" \in SubStages
        BY DEF Statuses, SubStages
      <3>3. LET d == Marked(r) IN d \in ProjectState /\ OneStage(r.st, d) /\ d.sub = "ears_decomposing" /\ d.design = r.st.design
        BY <1>0, <3>1, <3>2, RequirementMarked
      <3> QED BY <2>4, <3>3
    <2>5. CASE First(r.todo) = "decomposed"
      <3> DEFINE status == IF r.sub = "tasks_ready" THEN "confirmed" ELSE "running"
      <3>1. Marked(r) = [r.st EXCEPT !.sub = r.sub, !.requirement = status]
        BY <2>5 DEF Marked, First
      <3>2. status \in Statuses
        BY DEF Statuses
      <3> HIDE DEF status
      <3>3. Marked(r) = RequirementMark(r.st, status, r.sub)
        BY <1>0, <3>1 DEF ProjectState, RequirementMark
      <3>4. LET d == Marked(r) IN d \in ProjectState /\ OneStage(r.st, d) /\ d.sub = r.sub /\ d.design = r.st.design
        BY <1>0, <3>2, <3>3, RequirementMarked
      <3> QED BY <2>5, <3>4
    <2> QED BY <1>2, <2>1, <2>2, <2>3, <2>4, <2>5
  <1>3. CASE First(r.todo) = "errored"
    <2>1. Marked(r) = [r.st EXCEPT !.requirement = "error"]
      BY <1>3 DEF Marked, First
    <2>2. Marked(r) = RequirementMark(r.st, "error", r.st.sub)
      BY <1>0, <2>1 DEF ProjectState, RequirementMark
    <2>3. r.st.sub \in SubStages /\ "error" \in Statuses
      BY <1>0 DEF ProjectState, Statuses
    <2>4. LET d == Marked(r) IN d \in ProjectState /\ OneStage(r.st, d) /\ d.sub = r.st.sub /\ d.design = r.st.design
      BY <1>0, <2>2, <2>3, RequirementMarked
    <2> QED BY <1>3, <2>4
  <1>4. CASE First(r.todo) = "design_running"
    <2> DEFINE d == [r.st EXCEPT !.design = "running", !.current = "design"]
    <2>1. Marked(r) = d
      BY <1>4 DEF Marked, First
    <2>2. d \in ProjectState /\ d.sub = r.st.sub /\ d.design = "running"
      BY <1>0 DEF ProjectState, ALL_STAGES, Statuses
    <2>3. OneStage(r.st, d)
      BY <1>0 DEF ProjectState, OneStage, ALL_STAGES
    <2> HIDE DEF d
    <2> QED BY <1>4, <2>1, <2>2, <2>3
  <1>7. CASE First(r.todo) = "design_done"
    <2> DEFINE status == Designed(r.p)
    <2>1. Marked(r) = [r.st EXCEPT !.design = status]
      BY <1>7 DEF Marked, First
    <2>2. status = "running" \/ (status = "awaiting_confirmation" /\ Written(r.p, "design.md"))
      BY DEF Designed
    <2> HIDE DEF status
    <2> QED BY <1>0, <1>7, <2>1, <2>2 DEF ProjectState, OneStage, ALL_STAGES, Statuses
  <1>5. CASE First(r.todo) \in {"plan_checked", "planned", "pm_error"}
    BY <1>0, <1>5 DEF Marked, First, ProjectState, OneStage, ALL_STAGES, Statuses, SubStages
  <1>6. CASE First(r.todo) = "design_confirmed"
    <2> DEFINE c == [r.st EXCEPT !.design = "confirmed"]
    <2>1. Marked(r) = advance_to_next_stage(c)
      BY <1>6 DEF Marked, First
    <2>2. c \in ProjectState /\ OneStage(r.st, c) /\ c.sub = r.st.sub
      BY <1>0 DEF ProjectState, Statuses, OneStage, ALL_STAGES
    <2> HIDE DEF c
    <2>3. Marked(r) \in ProjectState /\ save_project(Marked(r)) = save_project(c)
      BY <2>1, <2>2, Advanced
    <2>4. Marked(r).requirement = c.requirement /\ Marked(r).design = c.design /\ Marked(r).pm = c.pm /\ Marked(r).sub = c.sub
      BY <2>3 DEF save_project
    <2> QED BY <2>2, <2>3, <2>4, <1>6 DEF OneStage, ALL_STAGES
  <1> QED BY <1>1, <1>2, <1>3, <1>4, <1>5, <1>6, <1>7 DEF Saves

LEMMA FollowingStep ==
    ASSUME NEW r \in Request, r.todo # <<>>, First(r.todo) = "decomposed" => Others(r.todo) = <<>>
    PROVE  LET q == Then(r, Following(r)) IN
           /\ q \in Request /\ Like(r, q) /\ q.todo # <<>> /\ First(q.todo) = "persist"
           /\ Others(q.todo) = Others(r.todo) \/ (Others(q.todo) = Plans /\ First(r.todo) = "decomposed")
  <1>1. CASE First(r.todo) = "decomposed" /\ r.sub = "tasks_ready"
    <2> DEFINE t == <<"persist", "trigger_pm", "pm", "get_project", "planned">>
    <2>1. t \in Seq(Step)
      BY Explicit DEF Step
    <2>2. Following(r) = t /\ Tail(r.todo) = <<>>
      BY <1>1 DEF Following, First, Others
    <2>3. t # <<>> /\ Head(t) = "persist" /\ Tail(t) = Plans
      BY DEF Plans
    <2> HIDE DEF t
    <2>4. t \o <<>> = t
      BY <2>1
    <2>5. Then(r, Following(r)) = [r EXCEPT !.todo = t]
      BY <2>2, <2>4 DEF Then
    <2>6. t \in Todo /\ First(t) = "persist" /\ Others(t) = Plans
      BY <2>1, <2>3 DEF Todo, First, Others
    <2> QED BY <1>1, <2>3, <2>5, <2>6, LikeIsRequest
  <1>2. CASE ~(First(r.todo) = "decomposed" /\ r.sub = "tasks_ready")
    <2>1. Following(r) = <<"persist">>
      BY <1>2 DEF Following, First
    <2> QED BY <2>1, ThenStep DEF Step
  <1> QED BY <1>1, <1>2

LEMMA SavedStep ==
    ASSUME NEW r \in Request, r.todo # <<>>, First(r.todo) \in Saves,
           First(r.todo) = "decomposed" => Others(r.todo) = <<>>
    PROVE  LET q == [Then(r, Following(r)) EXCEPT !.st = Marked(r)] IN
           /\ q \in Request /\ Kin(r, q) /\ Loop(r, q) /\ q.stream = r.stream /\ q.catch = r.catch
           /\ q.hist = r.hist /\ q.sub = r.sub /\ q.st = Marked(r)
           /\ q.todo # <<>> /\ First(q.todo) = "persist"
           /\ Others(q.todo) = Others(r.todo) \/ (Others(q.todo) = Plans /\ First(r.todo) = "decomposed")
  <1> DEFINE f == Then(r, Following(r))
  <1>1. /\ f \in Request /\ Like(r, f) /\ f.todo # <<>> /\ First(f.todo) = "persist"
        /\ Others(f.todo) = Others(r.todo) \/ (Others(f.todo) = Plans /\ First(r.todo) = "decomposed")
    BY FollowingStep
  <1>2. Marked(r) \in ProjectState
    BY MarkedStep
  <1> HIDE DEF f
  <1>3. LET q == [f EXCEPT !.st = Marked(r)] IN
        /\ q \in Request /\ Kin(r, q) /\ Loop(r, q) /\ q.stream = r.stream /\ q.catch = r.catch
        /\ q.hist = r.hist /\ q.sub = r.sub /\ q.st = Marked(r) /\ q.todo = f.todo
    BY <1>1, <1>2 DEF Request, Like, Kin, Loop
  <1> QED BY <1>1, <1>3 DEF f

LEMMA AbsentStep ==
    ASSUME NEW r \in Request, r.todo # <<>>
    PROVE  LET q == Absent(r) IN
           \/ q = Idle
           \/ /\ First(r.todo) = "init_project" /\ q \in Request /\ Like(r, q) /\ q.todo # <<>>
              /\ First(q.todo) = "fresh" /\ Others(q.todo) = Others(r.todo)
  BY ThenStep DEF Absent, First, Step

LEMMA RaisedStep ==
    ASSUME NEW r \in Request, r.catch \in Catches
    PROVE  LET q == Raised(r) IN
           \/ q = Idle
           \/ /\ q \in Request /\ Kin(r, q) /\ q.stream = r.stream /\ q.st = r.st /\ q.sub = r.sub
              /\ q.catch = <<>> /\ q.agent = "none" /\ q.hist = <<>>
              /\ q.todo \in {Only("pm_error"), Fails}
  <1>1. r.catch = <<>> => Raised(r) = Idle
    BY DEF Raised
  <1>2. ASSUME r.catch # <<>>
        PROVE  LET q == Raised(r) IN
               /\ q \in Request /\ Kin(r, q) /\ q.stream = r.stream /\ q.st = r.st /\ q.sub = r.sub
               /\ q.catch = <<>> /\ q.agent = "none" /\ q.hist = <<>> /\ q.todo = r.catch
    <2>1. <<>> \in Todo /\ <<>> \in Seq(Turns) /\ r.catch \in Todo
      BY DEF Todo, Request
    <2>2. Raised(r) = [r EXCEPT !.todo = r.catch, !.catch = <<>>, !.agent = "none", !.hist = <<>>]
      BY <1>2 DEF Raised
    <2> QED BY <2>1, <2>2 DEF Request, Kin
  <1>3. r.catch \in {<<>>, Only("pm_error"), Fails}
    BY DEF Catches, Only, Fails
  <1> QED BY <1>1, <1>2, <1>3

LEMMA HeardStep ==
    ASSUME NEW r \in Request, r.todo # <<>>, NEW history \in Seq(Turns)
    PROVE  LET q == Heard(r, history) IN
           /\ q \in Request /\ Kin(r, q) /\ Loop(r, q) /\ q.stream = r.stream /\ q.catch = r.catch
           /\ q.st = r.st /\ q.sub = r.sub /\ q.todo = Others(r.todo) /\ q.hist = Append(history, Turn(r))
  <1>1. Turn(r) \in Turns
    BY DEF Turn, Turns, Request
  <1>2. Append(history, Turn(r)) \in Seq(Turns)
    BY <1>1
  <1>3. Heard(r, history) = [Next_(r) EXCEPT !.hist = Append(history, Turn(r))]
    BY DEF Heard
  <1>4. Next_(r) \in Request /\ Next_(r).todo = Others(r.todo) /\ Like(r, Next_(r))
    BY NextStep
  <1> QED BY <1>2, <1>3, <1>4 DEF Request, Like, Kin, Loop

LEMMA HistorySavedStep ==
    ASSUME NEW r \in Request, r.todo # <<>>, agents.sub \in SubStages
    PROVE  LET q == HistorySaved(r) IN
           /\ q \in Request /\ Kin(r, q) /\ q.stream = r.stream /\ q.catch = r.catch /\ q.st = r.st
           /\ q.todo = Others(r.todo) /\ q.hist = <<>> /\ q.agent = "none"
           /\ q.sub = IF r.stream THEN agents.sub ELSE r.sub
  <1>1. Next_(r) \in Request /\ Next_(r).todo = Others(r.todo) /\ Like(r, Next_(r))
    BY NextStep
  <1>2. <<>> \in Seq(Turns)
    OBVIOUS
  <1>3. HistorySaved(r) = [Next_(r) EXCEPT !.hist = <<>>, !.agent = "none", !.sub = IF r.stream THEN agents.sub ELSE r.sub]
    BY <1>1 DEF HistorySaved, Like
  <1> QED BY <1>1, <1>2, <1>3 DEF Request, Like, Kin, Loop

LEMMA FinishedStep ==
    ASSUME NEW r \in Request, r.todo # <<>>, NEW sub \in SubStages, r.catch \in Catches
    PROVE  LET q == Finished(r, sub) IN
           /\ q \in Request /\ Kin(r, q) /\ q.stream = r.stream /\ q.catch \in Catches /\ q.st = r.st
           /\ q.todo = Others(r.todo) /\ q.hist = r.hist /\ q.agent = "none" /\ q.sub = sub
  <1>1. Next_(r) \in Request /\ Next_(r).todo = Others(r.todo) /\ Like(r, Next_(r))
    BY NextStep
  <1> DEFINE c == IF r.agent = "pm" THEN <<>> ELSE r.catch
  <1>2. c \in Todo /\ c \in Catches
    <2>1. r.catch \in Todo
      BY DEF Request
    <2>2. <<>> \in Todo /\ <<>> \in Catches
      BY Listed DEF Catches
    <2> QED BY <2>1, <2>2
  <1> DEFINE n == Next_(r)
  <1>3. Finished(r, sub) = [n EXCEPT !.sub = sub, !.agent = "none", !.tools = {}, !.iteration = 0, !.catch = c]
    BY <1>1 DEF Finished, Like
  <1> DEFINE m == [n EXCEPT !.sub = sub, !.agent = "none", !.tools = {}]
  <1>4. Finished(r, sub) = [m EXCEPT !.iteration = 0, !.catch = c] /\ n \in Request /\ Like(r, n) /\ n.todo = Others(r.todo)
    BY <1>1, <1>3
  <1> HIDE DEF c, n
  <1>5. /\ m \in Request /\ Kin(r, m) /\ m.stream = r.stream /\ m.st = r.st /\ m.todo = Others(r.todo) /\ m.hist = r.hist
        /\ m.agent = "none" /\ m.sub = sub
    BY <1>4 DEF Request, Like, Kin
  <1> HIDE DEF m
  <1> DEFINE f == [m EXCEPT !.iteration = 0, !.catch = c]
  <1>6. f \in Request
    BY <1>2, <1>5 DEF Request
  <1>7. /\ Kin(m, f) /\ f.stream = m.stream /\ f.st = m.st /\ f.todo = m.todo /\ f.hist = m.hist
        /\ f.agent = m.agent /\ f.sub = m.sub /\ f.catch = c
    BY <1>5 DEF Request, Kin
  <1>8. Finished(r, sub) = f
    BY <1>4
  <1> HIDE DEF f
  <1> QED BY <1>2, <1>5, <1>6, <1>7, <1>8 DEF Kin

LEMMA ToolsAreAgents ==
    ASSUME NEW agent \in Agents, NEW sub
    PROVE  Tools(agent, sub) \subseteq ToolsOf(agent) /\ ToolsOf(agent) \subseteq ToolNames
  <1>1. CASE agent = "requirement"
    <2>1. CASE sub = "ears_decomposing"
      BY <1>1, <2>1 DEF Tools, ToolsOf, ToolNames
    <2>2. CASE sub # "ears_decomposing"
      BY <1>1, <2>2 DEF Tools, ToolsOf, ToolNames
    <2> QED BY <2>1, <2>2
  <1>2. CASE agent = "design"
    BY <1>2 DEF Tools, ToolsOf, ToolNames
  <1>3. CASE agent = "pm"
    BY <1>3 DEF Tools, ToolsOf, ToolNames
  <1> QED BY <1>1, <1>2, <1>3 DEF Agents

\* A safe message goes to the model, another is refused.
LEMMA BegunStep ==
    ASSUME NEW r \in Request, r.todo # <<>>, NEW sub \in SubStages, r.catch \in Catches, r.agent \in Agents
    PROVE  LET q == Begun(r, sub) IN
           /\ q \in Request /\ Kin(r, q) /\ q.stream = r.stream /\ q.catch \in Catches /\ q.st = r.st /\ q.hist = r.hist
           /\ \/ /\ r.safe /\ q.todo # <<>> /\ First(q.todo) = "answer" /\ Others(q.todo) = Others(r.todo)
                 /\ q.agent = r.agent /\ q.tools \subseteq ToolsOf(r.agent) /\ q.sub = r.sub
              \/ ~r.safe /\ q.todo = Others(r.todo) /\ r.stream /\ q.agent = r.agent /\ q.sub = r.sub
              \/ ~r.safe /\ q.todo = Others(r.todo) /\ ~r.stream /\ q.agent = "none" /\ q.sub = sub
  <1>1. CASE r.safe
    <2> DEFINE a == Then(r, <<"answer">>)
    <2>1. /\ a \in Request /\ Like(r, a) /\ a.todo # <<>> /\ First(a.todo) = "answer"
          /\ Others(a.todo) = Others(r.todo)
      BY ThenStep DEF Step
    <2>2. Begun(r, sub) = [a EXCEPT !.tools = Tools(r.agent, sub)]
      BY <1>1 DEF Begun
    <2>3. Tools(r.agent, sub) \subseteq ToolsOf(r.agent) /\ Tools(r.agent, sub) \in SUBSET ToolNames
      BY ToolsAreAgents
    <2> HIDE DEF a
    <2> DEFINE t == Tools(r.agent, sub)
           b == [a EXCEPT !.tools = t]
    <2>4. t \in SUBSET ToolNames
      BY <2>3
    <2> HIDE DEF t
    <2>5. b \in Request
      BY <2>1, <2>4 DEF Request
    <2>6. /\ b.todo = a.todo /\ b.agent = a.agent /\ b.tools = t /\ b.sub = a.sub /\ b.stream = a.stream
          /\ b.catch = a.catch /\ b.st = a.st /\ b.hist = a.hist /\ Kin(a, b)
      BY <2>1 DEF Request, Kin
    <2>7. Begun(r, sub) = b /\ t \subseteq ToolsOf(r.agent)
      BY <2>2, <2>3 DEF t
    <2> HIDE DEF b
    <2>8. /\ Kin(r, a) /\ a.stream = r.stream /\ a.catch = r.catch /\ a.st = r.st /\ a.hist = r.hist
          /\ a.agent = r.agent /\ a.sub = r.sub
      BY <2>1 DEF Like, Loop
    <2>9. Kin(r, b)
      BY <2>6, <2>8 DEF Kin
    <2> QED BY <1>1, <2>1, <2>5, <2>6, <2>7, <2>8, <2>9
  <1>2. CASE ~r.safe /\ r.stream
    <2>1. Begun(r, sub) = Next_(r)
      BY <1>2 DEF Begun
    <2> QED BY <1>2, <2>1, NextStep DEF Like, Loop
  <1>3. CASE ~r.safe /\ ~r.stream
    <2>1. Begun(r, sub) = Finished(r, sub)
      BY <1>3 DEF Begun
    <2> QED BY <1>3, <2>1, FinishedStep
  <1>4. r.safe \in BOOLEAN /\ r.stream \in BOOLEAN
    BY DEF Request
  <1> QED BY <1>1, <1>2, <1>3, <1>4

\* The request as CallAgent hands it to the agent.
Called(r) ==
    [r EXCEPT !.agent = AgentOf(Head(r.todo)),
              !.hist = IF Head(r.todo) = "chat" /\ r.hist = <<>> THEN <<Turn(r)>> ELSE @]

LEMMA CalledStep ==
    ASSUME NEW r \in Request, First(r.todo) \in Calls
    PROVE  LET q == Called(r) IN
           /\ q \in Request /\ Kin(r, q) /\ q.todo = r.todo /\ q.stream = r.stream /\ q.catch = r.catch
           /\ q.st = r.st /\ q.sub = r.sub
           /\ q.agent = AgentOf(First(r.todo)) /\ q.agent \in Agents
           /\ q.hist = r.hist \/ (First(r.todo) = "chat" /\ r.hist = <<>> /\ q.hist = <<Turn(r)>>)
  <1>1. Turn(r) \in Turns
    BY DEF Turn, Turns, Request
  <1>2. <<Turn(r)>> \in Seq(Turns)
    BY <1>1
  <1>3. AgentOf(First(r.todo)) \in Agents
    BY DEF AgentOf, Calls, Agents
  <1> DEFINE hist == IF First(r.todo) = "chat" /\ r.hist = <<>> THEN <<Turn(r)>> ELSE r.hist
  <1>4. hist \in Seq(Turns) /\ (hist = r.hist \/ (First(r.todo) = "chat" /\ r.hist = <<>> /\ hist = <<Turn(r)>>))
    BY <1>2 DEF Request
  <1>5. Called(r) = [r EXCEPT !.agent = AgentOf(First(r.todo)), !.hist = hist]
    BY DEF Called, First
  <1> HIDE DEF hist
  <1> QED BY <1>3, <1>4, <1>5 DEF Request, Kin

-----------------------------------------------------------------------------
\* Every program starts with reading the state, and goes on as Follows allows.
LEMMA ProgramStep ==
    ASSUME NEW kind \in Kinds, NEW stream \in BOOLEAN
    PROVE  LET t == Program(kind, stream) IN
           t \in Todo /\ t # <<>> /\ First(t) \in Reads /\ Follows(kind, First(t), Others(t))
  <1>1. CASE kind = "init"
    <2>1. Program(kind, stream) = init_project
      BY <1>1 DEF Program
    <2>2. init_project \in Todo /\ init_project # <<>> /\ First(init_project) = "init_project" /\ Others(init_project) = <<>>
      BY Explicit DEF Todo, Step, First, Others, init_project
    <2> QED BY <2>1, <2>2 DEF Reads, Follows
  <1>2. CASE kind = "status"
    <2>1. Program(kind, stream) = get_status
      BY <1>2 DEF Program
    <2>2. get_status \in Todo /\ get_status # <<>> /\ First(get_status) = "get_project" /\ Others(get_status) = <<>>
      BY Explicit DEF Todo, Step, First, Others, get_status
    <2> QED BY <2>1, <2>2 DEF Reads, Follows
  <1>3. CASE kind = "start"
    <2>1. Program(kind, stream) = start_requirement
      BY <1>3 DEF Program
    <2>2. /\ start_requirement \in Todo /\ start_requirement # <<>>
          /\ First(start_requirement) = "init_project" /\ Others(start_requirement) = Started
      BY Explicit DEF Todo, Step, First, Others, start_requirement, Started
    <2> QED BY <1>3, <2>1, <2>2 DEF Reads, Follows
  <1>4. CASE kind = "message"
    <2>1. Program(kind, stream) = send_message
      BY <1>4 DEF Program
    <2>2. /\ send_message \in Todo /\ send_message # <<>>
          /\ First(send_message) = "get_project" /\ Others(send_message) = Answers
      BY Explicit DEF Todo, Step, First, Others, send_message, Answers
    <2> QED BY <2>1, <2>2 DEF Reads, Follows
  <1>5. CASE kind = "confirm"
    <2>1. Program(kind, stream) = confirm_prd
      BY <1>5 DEF Program
    <2>2. /\ confirm_prd \in Todo /\ confirm_prd # <<>>
          /\ First(confirm_prd) = "get_project" /\ Others(confirm_prd) = Only("prd_confirmed")
      BY Explicit DEF Todo, Step, First, Others, confirm_prd, Only
    <2> QED BY <2>1, <2>2 DEF Reads, Follows
  <1>6. CASE kind = "decompose" /\ ~stream
    <2>1. Program(kind, stream) = decompose_ears
      BY <1>6 DEF Program
    <2>2. decompose_ears \in Todo
      <3>1. /\ "get_project" \in Step /\ "ears_decomposing" \in Step /\ "background" \in Step /\ "get_history" \in Step
            /\ "decompose_ears" \in Step /\ "save_history" \in Step /\ "decomposed" \in Step
        BY DEF Step
      <3> DEFINE s == decompose_ears
      <3>2. s \in [1..8 -> Step]
        BY <3>1 DEF decompose_ears
      <3> HIDE DEF s
      <3>3. \E n \in Nat : s \in [1..n -> Step] BY <3>2
      <3>4. s \in Seq(Step) BY <3>3, Z3
      <3> QED BY <3>4 DEF s, Todo
    <2>3. /\ decompose_ears # <<>>
          /\ First(decompose_ears) = "get_project" /\ Others(decompose_ears) = Announced
      BY DEF First, Others, decompose_ears, Announced
    <2> QED BY <2>1, <2>2, <2>3 DEF Reads, Follows
  <1>7. CASE kind = "decompose" /\ stream
    <2>1. Program(kind, stream) = decompose_ears_stream
      BY <1>7 DEF Program
    <2>2. /\ decompose_ears_stream \in Todo /\ decompose_ears_stream # <<>>
          /\ First(decompose_ears_stream) = "get_project" /\ Others(decompose_ears_stream) = BreaksAtOnce
      BY Explicit DEF Todo, Step, First, Others, decompose_ears_stream, BreaksAtOnce
    <2> QED BY <2>1, <2>2 DEF Reads, Follows
  <1>8. CASE kind = "design"
    <2>1. Program(kind, stream) = start_design
      BY <1>8 DEF Program
    <2>2. start_design \in Todo /\ start_design # <<>> /\ First(start_design) = "start_stage" /\ Others(start_design) = Draws
      BY Explicit DEF Todo, Step, First, Others, start_design, Draws
    <2> QED BY <2>1, <2>2 DEF Reads, Follows
  <1>9. CASE kind = "confirm_design"
    <2>1. Program(kind, stream) = confirm_design
      BY <1>9 DEF Program
    <2>2. /\ confirm_design \in Todo /\ confirm_design # <<>>
          /\ First(confirm_design) = "confirm_stage" /\ Others(confirm_design) = Only("design_confirmed")
      BY Explicit DEF Todo, Step, First, Others, confirm_design, Only
    <2> QED BY <1>9, <2>1, <2>2 DEF Reads, Follows
  <1>10. CASE kind = "on_matched"
    <2>1. Program(kind, stream) = on_matched
      BY <1>10 DEF Program
    <2>2. on_matched \in Todo /\ on_matched # <<>>
      BY Listed DEF Lists
    <2>3. First(on_matched) = "generate_pm" /\ Others(on_matched) = Checks
      BY Parts
    <2> QED BY <2>1, <2>2, <2>3 DEF Reads, Follows
  <1>11. CASE kind = "regenerate"
    <2>1. Program(kind, stream) = <<"regenerate_pm">> \o on_matched
      BY <1>11 DEF Program, regenerate_pm
    <2>2. on_matched \in Todo /\ "regenerate_pm" \in Step
      BY Listed DEF Lists, Step
    <2> QED BY <2>1, <2>2, Push DEF Reads, Follows
  <1> QED BY <1>1, <1>2, <1>3, <1>4, <1>5, <1>6, <1>7, <1>8, <1>9, <1>10, <1>11 DEF Kinds

-----------------------------------------------------------------------------
\* What a request is about to do, and what is left then.

Inside == {"select", "refill", "select_history", "refill_history", "ValueError"} \cup InCall

LEMMA WhatIsLeft ==
    ASSUME NEW r \in Request, Shape(r)
    PROVE  LET s == First(r.todo)
               t == Others(r.todo)
           IN  /\ r.todo # <<>> /\ s \in Step /\ t \in Todo
               /\ s \notin Inside => Follows(r.kind, s, t)
               /\ s \in {"select", "refill"} => t # <<>> /\ First(t) \in Reads /\ Follows(r.kind, First(t), Others(t))
               /\ s \in {"select_history", "refill_history"} =>
                     t # <<>> /\ First(t) = "get_history" /\ Follows(r.kind, First(t), Others(t))
               /\ s \in InCall => r.agent \in Agents /\ t \in AfterCall(r.agent)
               /\ s = "ValueError" => t = <<>>
  <1>1. r.todo # <<>> /\ r.todo \in Todo
    BY DEF Shape, Request
  <1>2. \A t : ~Follows(r.kind, "select", t) /\ ~Follows(r.kind, "refill", t) /\ ~Follows(r.kind, "select_history", t)
               /\ ~Follows(r.kind, "refill_history", t) /\ ~Follows(r.kind, "ValueError", t)
    BY DEF Follows, Final
  <1>3. \A s \in InCall : \A t : ~Follows(r.kind, s, t)
    BY DEF Follows, Final, InCall
  <1> QED BY <1>1, <1>2, <1>3, Rest DEF Shape, Inside, InCall, Plain

\* Only a call of the requirement agent is followed by saving the history.
LEMMA Successors ==
    ASSUME NEW kind, NEW s, NEW t, Follows(kind, s, t), t # <<>>
    PROVE  /\ First(t) \notin Inside \cup {"persist", "fresh", "persist_history", "start_stage", "confirm_stage"}
           /\ First(t) = "save_history" => s \in {"chat", "decompose_ears"}
           /\ First(t) = "chat" => s = "get_history" \/ kind = "start"
           /\ s \in {"chat", "decompose_ears"} => t \in AfterCall("requirement")
           /\ s = "design" => t \in AfterCall("design")
           /\ s = "pm" => t \in AfterCall("pm")
  BY Parts DEF Follows, Reports, Final, Inside, InCall, AfterCall

\* What a request may do next once it has read its state.
Ready == {"clarifying", "prd_confirmed", "decomposed", "planned", "errored", "get_history", "ears_decomposing", "design",
          "generate_pm", "pm", "design_confirmed", "design_running", "ValueError"}

LEMMA AfterStep ==
    ASSUME NEW kind, NEW s, NEW t, Follows(kind, s, t)
    PROVE  /\ s \in Reads /\ t # <<>> => First(t) \in Ready
           /\ s = "get_history" => t # <<>> /\ First(t) \in {"chat", "decompose_ears"}
           /\ s = "persist" /\ t # <<>> =>
                 First(t) \in {"background", "design", "trigger_pm", "clarifying"} \/ (First(t) = "chat" /\ kind = "start")
           /\ s = "persist_history" => t # <<>> /\ First(t) \in {"chatted", "decomposed", "get_project"}
           /\ s = "background" => t # <<>> /\ First(t) = "get_history"
           /\ s = "trigger_pm" => t # <<>> /\ First(t) = "pm"
  BY Parts, Listed DEF Follows, Reports, Final, Reads, Ready, Lists

LEMMA AfterAgent ==
    ASSUME NEW agent \in Agents, NEW t \in AfterCall(agent)
    PROVE  /\ t # <<>>
           /\ agent = "requirement" => First(t) = "save_history"
           /\ agent # "requirement" => First(t) \in {"design_done", "plan_checked", "get_project"}
                                      /\ Others(t) # Only("decomposed")
  BY Parts, Listed DEF AfterCall, Agents, Lists, Only

LEMMA PlainShape ==
    ASSUME NEW q \in Request, q.todo # <<>>, Plain(q.kind, q.todo), q.catch \in Catches,
           q.kind = "confirm_design" => Written(q.p, "design.md"),
           First(q.todo) \in {"save_history", "persist_history"} /\ q.stream => q.agent = "requirement"
    PROVE  Shape(q)
  <1>1. Follows(q.kind, First(q.todo), Others(q.todo))
    BY DEF Plain
  <1>2. First(q.todo) \notin {"begin", "answer", "tool", "publish"}
    BY <1>1 DEF Follows, Final
  <1> QED BY <1>1, <1>2 DEF Shape

\* The request goes on with what may follow a step that is not a call.
LEMMA GoesOnShape ==
    ASSUME NEW q \in Request, NEW s, Follows(q.kind, s, q.todo), q.todo # <<>>, s \notin {"chat", "decompose_ears"},
           q.catch \in Catches, q.kind = "confirm_design" => Written(q.p, "design.md")
    PROVE  Shape(q)
  <1>1. Plain(q.kind, q.todo)
    BY FollowsPlain
  <1>2. First(q.todo) \notin {"save_history", "persist_history"}
    BY Successors
  <1> QED BY <1>1, <1>2, PlainShape

LEMMA AtStep ==
    ASSUME ControlInv, NEW h \in Slots, Busy(h)
    PROVE  /\ handlers[h] \in Request /\ Shape(handlers[h]) /\ handlers[h].todo # <<>>
           /\ Head(handlers[h].todo) = First(handlers[h].todo)
           /\ Own(h) = handlers[h].p /\ handlers[h].p \in Projects
  BY DEF ControlInv, Busy, Shape, First, Own, Request

\* The control of the requests, when one of them takes a step.
LEMMA ControlStep ==
    ASSUME ControlInv, Types', NEW h \in Slots, NEW q \in {Idle} \cup Request, Goes(h, q),
           \A p \in Projects, f \in Documents : Written(p, f) => Written(p, f)',
           \A a \in Agents : agents.p[a] \in Projects => agents.p'[a] \in Projects,
           q # Idle /\ q.todo # <<>> => Shape(q) /\ (q.agent # "none" => agents.p'[q.agent] \in Projects)
    PROVE  ControlInv'
  <1>1. /\ handlers' \in [Slots -> {Idle} \cup Request]
        /\ \A g \in Slots : g # h => handlers'[g] = handlers[g]
        /\ Busy(h)' => handlers'[h] = q /\ q \in Request /\ q.todo # <<>>
    BY GoesTo DEF ControlInv
  <1>2. \A r \in Request : Shape(r) => Shape(r)'
    <2>1. "design.md" \in Documents
      BY DEF Documents
    <2> QED BY <2>1 DEF Shape, Request
  <1>3. ASSUME NEW g \in Slots, Busy(g)'
        PROVE  Shape(handlers[g])' /\ (handlers'[g].agent # "none" => agents.p'[handlers'[g].agent] \in Projects)
    <2>1. CASE g = h
      <3>1. handlers'[g] = q /\ q \in Request /\ q.todo # <<>> /\ q # Idle
        BY <1>1, <1>3, <2>1 DEF Idle
      <3>2. Shape(q)'
        BY <3>1, <1>2
      <3> QED BY <3>1, <3>2
    <2>2. CASE g # h
      <3>1. handlers'[g] = handlers[g] /\ Busy(g)
        BY <1>1, <1>3, <2>2 DEF Busy
      <3>2. handlers[g] \in Request /\ Shape(handlers[g]) /\ handlers[g].agent \in Agents \cup {"none"}
        BY <3>1, AtStep DEF Request
      <3>3. handlers[g].agent # "none" => agents.p[handlers[g].agent] \in Projects
        BY <3>1 DEF ControlInv
      <3>4. Shape(handlers[g])'
        BY <3>1, <3>2, <1>2
      <3> QED BY <3>1, <3>2, <3>3, <3>4
    <2> QED BY <2>1, <2>2
  <1> QED BY <1>1, <1>3 DEF ControlInv

-----------------------------------------------------------------------------
\* What each step makes of the request that takes it.

LEMMA ResumedShape ==
    ASSUME NEW r \in Request, r.catch \in Catches, First(r.todo) \in Reads,
           Follows(r.kind, First(r.todo), Others(r.todo)), NEW st, NEW q \in Request, Resumed(r, st, q), q.todo # <<>>,
           r.kind = "confirm_design" => Written(r.p, "design.md")
    PROVE  Shape(q) /\ First(q.todo) \in Ready
  <1>1. q.catch \in Catches /\ q.kind = r.kind /\ q.p = r.p
    BY DEF Resumed, Catches, Kin
  <1>2. CASE q.todo = Others(r.todo)
    <2>1. Shape(q)
      BY <1>1, <1>2, GoesOnShape DEF Reads
    <2>2. First(q.todo) \in Ready
      BY <1>2, AfterStep
    <2> QED BY <2>1, <2>2
  <1>3. CASE First(r.todo) = "start_stage" /\ First(q.todo) = "design_running" /\ Others(q.todo) = Others(r.todo)
    <2>1. Follows(q.kind, First(q.todo), Others(q.todo))
      BY <1>1, <1>3 DEF Follows, Final
    <2>2. q.todo \in Todo
      BY DEF Request
    <2> QED BY <1>1, <1>3, <2>1, <2>2, PlainShape DEF Plain, Ready
  <1>4. CASE First(q.todo) = "ValueError" /\ Others(q.todo) = <<>>
    BY <1>1, <1>4 DEF Shape, Ready
  <1> QED BY <1>2, <1>3, <1>4 DEF Resumed

LEMMA GetProjectStep ==
    ASSUME ControlInv, NEW h \in Slots, GetProject(h)
    PROVE  LET r == handlers[h] IN
           /\ Busy(h) /\ First(r.todo) \in Reads
           /\ \E q \in {Idle} \cup Request :
                 /\ Goes(h, q)
                 /\ q # Idle /\ q.todo # <<>> => Shape(q)
                 /\ \/ q = Idle
                    \/ Like(r, q) /\ First(q.todo) = "select" /\ Others(q.todo) = r.todo
                    \/ /\ cache[r.p] # Nil /\ cache[r.p] \in ProjectState /\ Resumed(r, cache[r.p], q)
                       /\ q.todo # <<>> => First(q.todo) \in Ready
  <1> DEFINE r == handlers[h]
  <1>1. Busy(h) /\ Head(r.todo) \in Reads
    BY DEF GetProject, AtOneOf
  <1>2. r \in Request /\ Shape(r) /\ r.todo # <<>> /\ First(r.todo) \in Reads /\ r.p \in Projects
    BY <1>1, AtStep
  <1>3. Follows(r.kind, First(r.todo), Others(r.todo))
    BY <1>2, WhatIsLeft DEF Reads, Inside, InCall
  <1>4. r.catch \in Catches /\ (r.kind = "confirm_design" => Written(r.p, "design.md")) /\ r.todo \in Todo
    BY <1>2 DEF Shape, Request
  <1>5. CASE cache[r.p] = Nil
    <2> DEFINE q == [r EXCEPT !.todo = <<"select">> \o @]
    <2>1. Goes(h, q)
      BY <1>5 DEF GetProject
    <2>2. q \in Request /\ Like(r, q) /\ q.todo # <<>> /\ First(q.todo) = "select" /\ Others(q.todo) = r.todo
      BY <1>2, InFront DEF Step
    <2> HIDE DEF q
    <2>3. Shape(q)
      BY <1>2, <1>3, <1>4, <2>2 DEF Shape, Plain, Like, Kin
    <2> QED BY <1>1, <1>2, <2>1, <2>2, <2>3
  <1>6. CASE cache[r.p] # Nil
    <2> DEFINE q == Loaded(r, cache[r.p])
    <2>1. Goes(h, q)
      BY <1>6 DEF GetProject
    <2>2. cache[r.p] \in ProjectState
      BY <1>2, <1>6 DEF ControlInv, Types
    <2>3. q = Idle \/ (q \in Request /\ Resumed(r, cache[r.p], q))
      BY <1>2, <2>2, LoadedStep
    <2> HIDE DEF q
    <2>4. q # Idle /\ q.todo # <<>> => Shape(q) /\ First(q.todo) \in Ready
      BY <1>2, <1>3, <1>4, <2>3, ResumedShape
    <2> QED BY <1>1, <1>2, <1>6, <2>1, <2>2, <2>3, <2>4
  <1> QED BY <1>5, <1>6

LEMMA SelectProjectStep ==
    ASSUME ControlInv, NEW h \in Slots, SelectProject(h)
    PROVE  LET r == handlers[h] IN
           /\ Busy(h) /\ First(r.todo) = "select"
           /\ \E q \in Request :
                 /\ Goes(h, q) /\ q.todo # <<>> /\ Shape(q)
                 /\ Kin(r, q) /\ Loop(r, q) /\ q.stream = r.stream /\ q.catch = r.catch /\ q.hist = r.hist /\ q.sub = r.sub
                 /\ First(q.todo) = "refill" /\ Others(q.todo) = Others(r.todo)
                 /\ save_project(q.st) = stages[r.p] /\ q.st.sub = stages[r.p].sub /\ q.st.design = stages[r.p].design
  <1> DEFINE r == handlers[h]
  <1>1. Busy(h) /\ Head(r.todo) = "select"
    BY DEF SelectProject, At
  <1>2. r \in Request /\ Shape(r) /\ r.todo # <<>> /\ First(r.todo) = "select" /\ r.p \in Projects
    BY <1>1, AtStep
  <1>3. PICK st \in get_project(stages[r.p]) : Goes(h, [Then(r, <<"refill">>) EXCEPT !.st = st])
    BY DEF SelectProject
  <1>4. stages[r.p] \in Row
    BY <1>2 DEF ControlInv, Types
  <1>5. st \in ProjectState /\ save_project(st) = stages[r.p] /\ st.sub = stages[r.p].sub /\ st.design = stages[r.p].design
    BY <1>3, <1>4, ReadBack
  <1> DEFINE t == Then(r, <<"refill">>)
  <1>6. t \in Request /\ Like(r, t) /\ t.todo # <<>> /\ First(t.todo) = "refill" /\ Others(t.todo) = Others(r.todo)
    BY <1>2, ThenStep DEF Step
  <1> HIDE DEF t
  <1> DEFINE q == [t EXCEPT !.st = st]
  <1>7. /\ q \in Request /\ q.todo = t.todo /\ q.st = st /\ Kin(r, q) /\ Loop(r, q) /\ q.stream = r.stream
        /\ q.catch = r.catch /\ q.hist = r.hist /\ q.sub = r.sub
    BY <1>5, <1>6 DEF Request, Like, Kin, Loop
  <1>8. Goes(h, q)
    BY <1>3 DEF t
  <1> HIDE DEF q
  <1>9. Shape(q)
    <2>1. Others(r.todo) # <<>> /\ First(Others(r.todo)) \in Reads /\ Plain(r.kind, Others(r.todo))
      BY <1>2, WhatIsLeft DEF Plain
    <2> QED BY <1>2, <1>6, <1>7, <2>1 DEF Shape, Kin
  <1> QED BY <1>1, <1>2, <1>5, <1>6, <1>7, <1>8, <1>9

LEMMA RefillProjectStep ==
    ASSUME ControlInv, NEW h \in Slots, RefillProject(h)
    PROVE  LET r == handlers[h] IN
           /\ Busy(h) /\ First(r.todo) = "refill"
           /\ \E q \in {Idle} \cup Request :
                 /\ Goes(h, q)
                 /\ q # Idle /\ q.todo # <<>> => Shape(q) /\ First(q.todo) \in Ready
                 /\ q = Idle \/ Resumed(Next_(r), r.st, q)
           /\ Next_(r) \in Request /\ Like(r, Next_(r)) /\ Next_(r).todo = Others(r.todo)
           /\ First(Others(r.todo)) \in Reads
  <1> DEFINE r == handlers[h]
  <1>1. Busy(h) /\ Head(r.todo) = "refill" /\ Goes(h, Loaded(Next_(r), r.st))
    BY DEF RefillProject, At
  <1>2. r \in Request /\ Shape(r) /\ r.todo # <<>> /\ First(r.todo) = "refill" /\ r.p \in Projects
    BY <1>1, AtStep
  <1>3. Others(r.todo) # <<>> /\ First(Others(r.todo)) \in Reads /\ Follows(r.kind, First(Others(r.todo)), Others(Others(r.todo)))
    BY <1>2, WhatIsLeft
  <1> DEFINE n == Next_(r)
  <1>4. n \in Request /\ Like(r, n) /\ n.todo = Others(r.todo)
    BY <1>2, NextStep
  <1>5. r.st \in ProjectState /\ r.catch \in Catches /\ (r.kind = "confirm_design" => Written(r.p, "design.md"))
    BY <1>2 DEF Request, Shape
  <1> HIDE DEF n
  <1> DEFINE q == Loaded(n, r.st)
  <1>6. q = Idle \/ (q \in Request /\ Resumed(n, r.st, q))
    BY <1>3, <1>4, <1>5, LoadedStep
  <1> HIDE DEF q
  <1>7. q # Idle /\ q.todo # <<>> => Shape(q) /\ First(q.todo) \in Ready
    BY <1>3, <1>4, <1>5, <1>6, ResumedShape DEF Like, Kin
  <1>8. Goes(h, q)
    BY <1>1 DEF q, n
  <1> USE DEF n
  <1> QED BY <1>1, <1>2, <1>3, <1>4, <1>6, <1>7, <1>8

LEMMA SaveProjectStep ==
    ASSUME ControlInv, NEW h \in Slots, SaveProject(h)
    PROVE  LET r == handlers[h] IN
           /\ Busy(h) /\ First(r.todo) \in Saves
           /\ \/ Goes(h, Idle) /\ UNCHANGED cache
              \/ /\ cache' = [cache EXCEPT ![r.p] = Marked(r)] /\ Marked(r) \in ProjectState
                 /\ \E q \in Request :
                       /\ Goes(h, q) /\ q.todo # <<>> /\ Shape(q) /\ First(q.todo) = "persist"
                       /\ Kin(r, q) /\ Loop(r, q) /\ q.stream = r.stream /\ q.catch = r.catch
                       /\ q.hist = r.hist /\ q.sub = r.sub /\ q.st = Marked(r)
  <1> DEFINE r == handlers[h]
  <1>1. Busy(h) /\ Head(r.todo) \in Saves
    BY DEF SaveProject, AtOneOf
  <1>2. r \in Request /\ Shape(r) /\ r.todo # <<>> /\ First(r.todo) \in Saves /\ r.p \in Projects
    BY <1>1, AtStep
  <1>3. Follows(r.kind, First(r.todo), Others(r.todo))
    BY <1>2, WhatIsLeft DEF Saves, Inside, InCall
  <1>4. First(r.todo) = "decomposed" => Others(r.todo) = <<>>
    BY <1>3 DEF Follows, Final
  <1> DEFINE q == [Then(r, Following(r)) EXCEPT !.st = Marked(r)]
  <1>5. \/ Goes(h, Idle) /\ UNCHANGED cache
        \/ cache' = [cache EXCEPT ![r.p] = Marked(r)] /\ Goes(h, q)
    BY DEF SaveProject
  <1>6. /\ q \in Request /\ Kin(r, q) /\ Loop(r, q) /\ q.stream = r.stream /\ q.catch = r.catch
        /\ q.hist = r.hist /\ q.sub = r.sub /\ q.st = Marked(r)
        /\ q.todo # <<>> /\ First(q.todo) = "persist"
        /\ Others(q.todo) = Others(r.todo) \/ (Others(q.todo) = Plans /\ First(r.todo) = "decomposed")
    BY <1>2, <1>4, SavedStep
  <1> HIDE DEF q
  <1>7. Shape(q)
    <2>1. Follows(q.kind, "persist", Others(q.todo))
      BY <1>2, <1>3, <1>6 DEF Follows, Final, Saves, Kin
    <2>2. q.catch \in Catches /\ (q.kind = "confirm_design" => Written(q.p, "design.md"))
      BY <1>2, <1>6 DEF Shape, Kin
    <2> QED BY <1>6, <2>1, <2>2, PlainShape DEF Plain, Request
  <1>8. Marked(r) \in ProjectState
    BY <1>2, MarkedStep
  <1> QED BY <1>1, <1>2, <1>5, <1>6, <1>7, <1>8

\* A step that only moves the request on.
Moves(r, q) == q = Idle \/ (q \in Request /\ Like(r, q) /\ q.todo = Others(r.todo))

LEMMA MovesShape ==
    ASSUME NEW r \in Request, Shape(r), First(r.todo) \notin Inside \cup {"chat", "decompose_ears"}, NEW q \in Request,
           Kin(r, q), q.catch \in Catches, q.todo = Others(r.todo), q.todo # <<>>
    PROVE  Shape(q)
  <1>1. Follows(q.kind, First(r.todo), q.todo)
    BY WhatIsLeft DEF Kin
  <1>2. q.kind = "confirm_design" => Written(q.p, "design.md")
    BY DEF Shape, Kin
  <1> QED BY <1>1, <1>2, GoesOnShape

LEMMA PersistProjectStep ==
    ASSUME ControlInv, NEW h \in Slots, At(h, "persist"), Goes(h, Next_(handlers[h]))
    PROVE  LET r == handlers[h] IN
           /\ Busy(h) /\ First(r.todo) = "persist"
           /\ \E q \in Request :
                 /\ Goes(h, q) /\ Like(r, q) /\ q.todo = Others(r.todo) /\ (q.todo # <<>> => Shape(q))
                 /\ \/ q.todo = <<>>
                    \/ First(q.todo) \in {"background", "design", "trigger_pm", "clarifying"}
                    \/ First(q.todo) = "chat" /\ r.kind = "start"
  <1> DEFINE r == handlers[h]
  <1>1. Busy(h) /\ Head(r.todo) = "persist"
    BY DEF At
  <1>2. r \in Request /\ Shape(r) /\ r.todo # <<>> /\ First(r.todo) = "persist"
    BY <1>1, AtStep
  <1> DEFINE q == Next_(r)
  <1>3. q \in Request /\ Like(r, q) /\ q.todo = Others(r.todo)
    BY <1>2, NextStep
  <1>4. r.catch \in Catches
    BY <1>2 DEF Shape
  <1> HIDE DEF q
  <1>5. q.todo # <<>> => Shape(q)
    BY <1>2, <1>3, <1>4, MovesShape DEF Inside, InCall, Like
  <1>6. Goes(h, q)
    BY DEF q
  <1>7. Follows(r.kind, "persist", q.todo)
    BY <1>2, <1>3, WhatIsLeft DEF Inside, InCall
  <1>8. \/ q.todo = <<>>
        \/ First(q.todo) \in {"background", "design", "trigger_pm", "clarifying"}
        \/ First(q.todo) = "chat" /\ r.kind = "start"
    BY <1>7, AfterStep
  <1> QED BY <1>1, <1>2, <1>3, <1>5, <1>6, <1>8

\* The request has its history, with its own turn at the end.
Hears(r, history, t, q) ==
    /\ q \in Request /\ Kin(r, q) /\ Loop(r, q) /\ q.stream = r.stream /\ q.catch = r.catch
    /\ q.st = r.st /\ q.sub = r.sub /\ q.todo = Others(t) /\ q.hist = Append(history, Turn(r))
    /\ q.todo # <<>> /\ First(q.todo) \in {"chat", "decompose_ears"} /\ Shape(q)

LEMMA HearsShape ==
    ASSUME NEW r \in Request, Shape(r), NEW t, Follows(r.kind, "get_history", Others(t)), NEW q \in Request,
           Kin(r, q), q.catch = r.catch, q.todo = Others(t)
    PROVE  q.todo # <<>> /\ First(q.todo) \in {"chat", "decompose_ears"} /\ Shape(q)
  <1>1. q.kind = r.kind /\ q.catch \in Catches /\ (q.kind = "confirm_design" => Written(q.p, "design.md"))
    BY DEF Shape, Kin
  <1>2. Follows(q.kind, "get_history", q.todo)
    BY <1>1
  <1>3. Plain(q.kind, q.todo)
    BY <1>2, FollowsPlain
  <1>4. q.todo # <<>> /\ First(q.todo) \in {"chat", "decompose_ears"}
    BY <1>2, AfterStep
  <1> QED BY <1>1, <1>3, <1>4, PlainShape

LEMMA GetHistoryStep ==
    ASSUME ControlInv, NEW h \in Slots, GetHistory(h)
    PROVE  LET r == handlers[h] IN
           /\ Busy(h) /\ First(r.todo) = "get_history"
           /\ \E q \in Request :
                 /\ Goes(h, q)
                 /\ \/ q.todo # <<>> /\ Shape(q) /\ Like(r, q) /\ First(q.todo) = "select_history" /\ Others(q.todo) = r.todo
                    \/ hcache[r.p] # Nil /\ Hears(r, hcache[r.p], r.todo, q)
  <1> DEFINE r == handlers[h]
  <1>1. Busy(h) /\ Head(r.todo) = "get_history"
    BY DEF GetHistory, At
  <1>2. r \in Request /\ Shape(r) /\ r.todo # <<>> /\ First(r.todo) = "get_history" /\ r.p \in Projects
    BY <1>1, AtStep
  <1>3. Follows(r.kind, "get_history", Others(r.todo)) /\ r.todo \in Todo
    BY <1>2, WhatIsLeft DEF Inside, InCall, Request
  <1>4. CASE hcache[r.p] = Nil
    <2> DEFINE q == [r EXCEPT !.todo = <<"select_history">> \o @]
    <2>1. Goes(h, q)
      BY <1>4 DEF GetHistory
    <2>2. q \in Request /\ Like(r, q) /\ q.todo # <<>> /\ First(q.todo) = "select_history" /\ Others(q.todo) = r.todo
      BY <1>2, InFront DEF Step
    <2> HIDE DEF q
    <2>3. Shape(q)
      BY <1>2, <1>3, <2>2 DEF Shape, Plain, Like, Kin
    <2> QED BY <1>1, <1>2, <2>1, <2>2, <2>3
  <1>5. CASE hcache[r.p] # Nil
    <2> DEFINE q == Heard(r, hcache[r.p])
    <2>1. Goes(h, q)
      BY <1>5 DEF GetHistory
    <2>2. hcache[r.p] \in Seq(Turns)
      BY <1>2, <1>5 DEF ControlInv, Types
    <2>3. /\ q \in Request /\ Kin(r, q) /\ Loop(r, q) /\ q.stream = r.stream /\ q.catch = r.catch
          /\ q.st = r.st /\ q.sub = r.sub /\ q.todo = Others(r.todo) /\ q.hist = Append(hcache[r.p], Turn(r))
      BY <1>2, <2>2, HeardStep
    <2> HIDE DEF q
    <2>4. q.todo # <<>> /\ First(q.todo) \in {"chat", "decompose_ears"} /\ Shape(q)
      BY <1>2, <1>3, <2>3, HearsShape
    <2> QED BY <1>1, <1>2, <1>5, <2>1, <2>3, <2>4 DEF Hears
  <1> QED BY <1>4, <1>5

\* Nothing more is known of the history: it is empty, or what was read is taken.
LEMMA HeardLater ==
    ASSUME ControlInv, NEW h \in Slots, Busy(h), First(handlers[h].todo) \in {"select_history", "refill_history"},
           NEW history \in Seq(Turns)
    PROVE  LET r == handlers[h] IN Hears(r, history, Others(r.todo), Heard(Next_(r), history))
  <1> DEFINE r == handlers[h]
             n == Next_(r)
  <1>1. r \in Request /\ Shape(r) /\ r.todo # <<>>
    BY AtStep
  <1>2. /\ Others(r.todo) # <<>> /\ First(Others(r.todo)) = "get_history"
        /\ Follows(r.kind, First(Others(r.todo)), Others(Others(r.todo)))
    BY <1>1, WhatIsLeft
  <1>3. n \in Request /\ Like(r, n) /\ n.todo = Others(r.todo)
    BY <1>1, NextStep
  <1>4. Turn(n) = Turn(r)
    BY <1>3 DEF Turn, Like, Kin
  <1> HIDE DEF n
  <1> DEFINE q == Heard(n, history)
  <1>5. /\ q \in Request /\ Kin(n, q) /\ Loop(n, q) /\ q.stream = n.stream /\ q.catch = n.catch
        /\ q.st = n.st /\ q.sub = n.sub /\ q.todo = Others(n.todo) /\ q.hist = Append(history, Turn(n))
    BY <1>2, <1>3, HeardStep
  <1> HIDE DEF q
  <1>6. q.todo # <<>> /\ First(q.todo) \in {"chat", "decompose_ears"} /\ Shape(q)
    BY <1>1, <1>2, <1>3, <1>5, HearsShape DEF Like, Kin
  <1>7. Hears(r, history, Others(r.todo), q)
    BY <1>3, <1>4, <1>5, <1>6 DEF Hears, Like, Kin, Loop
  <1> USE DEF q, n
  <1> QED BY <1>7

LEMMA SelectHistoryStep ==
    ASSUME ControlInv, NEW h \in Slots, SelectHistory(h)
    PROVE  LET r == handlers[h] IN
           /\ Busy(h) /\ First(r.todo) = "select_history"
           /\ \E q \in Request :
                 /\ Goes(h, q)
                 /\ \/ hrows[r.p] = <<>> /\ Hears(r, <<>>, Others(r.todo), q)
                    \/ /\ q.todo # <<>> /\ Shape(q) /\ Kin(r, q) /\ Loop(r, q) /\ q.stream = r.stream /\ q.catch = r.catch
                       /\ q.st = r.st /\ q.sub = r.sub /\ q.hist = hrows[r.p]
                       /\ First(q.todo) = "refill_history" /\ Others(q.todo) = Others(r.todo)
  <1> DEFINE r == handlers[h]
  <1>1. Busy(h) /\ Head(r.todo) = "select_history"
    BY DEF SelectHistory, At
  <1>2. r \in Request /\ Shape(r) /\ r.todo # <<>> /\ First(r.todo) = "select_history" /\ r.p \in Projects
    BY <1>1, AtStep
  <1>3. CASE hrows[r.p] = <<>>
    <2> DEFINE q == Heard(Next_(r), <<>>)
    <2>1. Goes(h, q)
      BY <1>3 DEF SelectHistory
    <2>2. <<>> \in Seq(Turns)
      OBVIOUS
    <2>3. Hears(r, <<>>, Others(r.todo), q)
      BY <1>1, <1>2, <2>2, HeardLater
    <2> HIDE DEF q
    <2> QED BY <1>1, <1>2, <1>3, <2>1, <2>3 DEF Hears
  <1>4. CASE hrows[r.p] # <<>>
    <2> DEFINE t == Then(r, <<"refill_history">>)
    <2>1. /\ t \in Request /\ Like(r, t) /\ t.todo # <<>> /\ First(t.todo) = "refill_history"
          /\ Others(t.todo) = Others(r.todo)
      BY <1>2, ThenStep DEF Step
    <2>2. Goes(h, [t EXCEPT !.hist = hrows[r.p]])
      BY <1>4 DEF SelectHistory
    <2>3. hrows[r.p] \in Seq(Turns)
      BY <1>2 DEF ControlInv, Types
    <2> HIDE DEF t
    <2> DEFINE q == [t EXCEPT !.hist = hrows[r.p]]
    <2>4. /\ q \in Request /\ Kin(r, q) /\ Loop(r, q) /\ q.stream = r.stream /\ q.catch = r.catch
          /\ q.st = r.st /\ q.sub = r.sub /\ q.hist = hrows[r.p] /\ q.todo = t.todo
      BY <2>1, <2>3 DEF Request, Like, Kin, Loop
    <2>5. Goes(h, q)
      BY <2>2
    <2> HIDE DEF q
    <2>6. Shape(q)
      <3>1. Others(r.todo) # <<>> /\ First(Others(r.todo)) = "get_history" /\ Plain(r.kind, Others(r.todo))
        BY <1>2, WhatIsLeft DEF Plain
      <3> QED BY <1>2, <2>1, <2>4, <3>1 DEF Shape, Kin
    <2> QED BY <1>1, <1>2, <2>1, <2>4, <2>5, <2>6
  <1> QED BY <1>3, <1>4

LEMMA RefillHistoryStep ==
    ASSUME ControlInv, NEW h \in Slots, RefillHistory(h)
    PROVE  LET r == handlers[h] IN
           /\ Busy(h) /\ First(r.todo) = "refill_history" /\ r.hist \in Seq(Turns)
           /\ \E q \in Request : Goes(h, q) /\ Hears(r, r.hist, Others(r.todo), q)
  <1> DEFINE r == handlers[h]
  <1>1. Busy(h) /\ Head(r.todo) = "refill_history" /\ Goes(h, Heard(Next_(r), r.hist))
    BY DEF RefillHistory, At
  <1>2. r \in Request /\ First(r.todo) = "refill_history" /\ r.hist \in Seq(Turns)
    BY <1>1, AtStep DEF Request
  <1>3. Hears(r, r.hist, Others(r.todo), Heard(Next_(r), r.hist))
    BY <1>1, <1>2, HeardLater
  <1> QED BY <1>1, <1>2, <1>3 DEF Hears

LEMMA SaveHistoryStep ==
    ASSUME ControlInv, NEW h \in Slots, SaveHistory(h)
    PROVE  LET r == handlers[h] IN
           /\ Busy(h) /\ First(r.todo) = "save_history" /\ Messages(r) \in {agents.result, r.hist}
           /\ \/ Goes(h, Idle) /\ UNCHANGED hcache
              \/ /\ Messages(r) \in Seq(Turns) /\ hcache' = [hcache EXCEPT ![r.p] = Messages(r)]
                 /\ \E q \in Request :
                       /\ Goes(h, q) /\ q.todo # <<>> /\ Shape(q) /\ Kin(r, q) /\ Loop(r, q)
                       /\ q.stream = r.stream /\ q.catch = r.catch /\ q.st = r.st /\ q.sub = r.sub /\ q.hist = Messages(r)
                       /\ First(q.todo) = "persist_history" /\ Others(q.todo) = Others(r.todo)
  <1> DEFINE r == handlers[h]
  <1>1. Busy(h) /\ Head(r.todo) = "save_history"
    BY DEF SaveHistory, At
  <1>2. r \in Request /\ Shape(r) /\ r.todo # <<>> /\ First(r.todo) = "save_history" /\ r.hist \in Seq(Turns)
    BY <1>1, AtStep DEF Request
  <1>3. Messages(r) \in {agents.result, r.hist}
    BY DEF Messages
  <1>4. CASE Messages(r) = NoResult
    BY <1>1, <1>2, <1>3, <1>4 DEF SaveHistory
  <1>5. CASE Messages(r) # NoResult
    <2>1. Messages(r) \in Seq(Turns)
      BY <1>2, <1>3, <1>5 DEF ControlInv, Types
    <2> DEFINE t == Then(r, <<"persist_history">>)
    <2>2. /\ t \in Request /\ Like(r, t) /\ t.todo # <<>> /\ First(t.todo) = "persist_history"
          /\ Others(t.todo) = Others(r.todo)
      BY <1>2, ThenStep DEF Step
    <2>3. Goes(h, [t EXCEPT !.hist = Messages(r)]) /\ hcache' = [hcache EXCEPT ![r.p] = Messages(r)]
      BY <1>5 DEF SaveHistory
    <2> HIDE DEF t
    <2> DEFINE q == [t EXCEPT !.hist = Messages(r)]
    <2>4. /\ q \in Request /\ Kin(r, q) /\ Loop(r, q) /\ q.stream = r.stream /\ q.catch = r.catch
          /\ q.st = r.st /\ q.sub = r.sub /\ q.hist = Messages(r) /\ q.todo = t.todo
      BY <2>1, <2>2 DEF Request, Like, Kin, Loop
    <2>5. Goes(h, q)
      BY <2>3
    <2> HIDE DEF q
    <2>6. Shape(q)
      <3>1. Follows(q.kind, "persist_history", Others(q.todo))
        <4>1. Follows(r.kind, "save_history", Others(r.todo))
          BY <1>2, WhatIsLeft DEF Inside, InCall
        <4>2. Others(q.todo) \in Reports
          BY <2>2, <2>4, <4>1 DEF Follows, Final
        <4> QED BY <4>2 DEF Follows
      <3>2. q.stream => q.agent = "requirement"
        BY <1>2, <2>4 DEF Shape, Loop
      <3>3. q.catch \in Catches /\ (q.kind = "confirm_design" => Written(q.p, "design.md"))
        BY <1>2, <2>4 DEF Shape, Kin
      <3> QED BY <2>2, <2>4, <3>1, <3>2, <3>3, PlainShape DEF Plain, Request
    <2> QED BY <1>1, <1>2, <1>3, <2>1, <2>2, <2>3, <2>4, <2>5, <2>6
  <1> QED BY <1>4, <1>5

LEMMA PersistHistoryStep ==
    ASSUME ControlInv, NEW h \in Slots, At(h, "persist_history"), Goes(h, HistorySaved(handlers[h]))
    PROVE  LET r == handlers[h] IN
           /\ Busy(h) /\ First(r.todo) = "persist_history"
           /\ \E q \in Request :
                 /\ Goes(h, q) /\ Kin(r, q) /\ q.stream = r.stream /\ q.catch = r.catch /\ q.st = r.st
                 /\ q.todo = Others(r.todo) /\ q.hist = <<>> /\ q.agent = "none"
                 /\ q.sub = IF r.stream THEN agents.sub ELSE r.sub
                 /\ q.todo # <<>> /\ Shape(q) /\ First(q.todo) \in {"chatted", "decomposed", "get_project"}
                 /\ r.stream => r.agent = "requirement"
  <1> DEFINE r == handlers[h]
             q == HistorySaved(r)
  <1>1. Busy(h) /\ Head(r.todo) = "persist_history"
    BY DEF At
  <1>2. r \in Request /\ Shape(r) /\ r.todo # <<>> /\ First(r.todo) = "persist_history"
    BY <1>1, AtStep
  <1>3. agents.sub \in SubStages
    BY DEF ControlInv, Types
  <1>4. /\ q \in Request /\ Kin(r, q) /\ q.stream = r.stream /\ q.catch = r.catch /\ q.st = r.st
        /\ q.todo = Others(r.todo) /\ q.hist = <<>> /\ q.agent = "none"
        /\ q.sub = IF r.stream THEN agents.sub ELSE r.sub
    BY <1>2, <1>3, HistorySavedStep
  <1>5. r.catch \in Catches /\ (r.stream => r.agent = "requirement")
    BY <1>2 DEF Shape
  <1> HIDE DEF q
  <1>6. q.todo # <<>> => Shape(q)
    BY <1>2, <1>4, <1>5, MovesShape DEF Inside, InCall
  <1>7. Goes(h, q)
    BY DEF q
  <1>8. q.todo # <<>> /\ First(q.todo) \in {"chatted", "decomposed", "get_project"}
    <2>1. Follows(r.kind, "persist_history", q.todo)
      BY <1>2, <1>4, WhatIsLeft DEF Inside, InCall
    <2> QED BY <2>1, AfterStep
  <1> QED BY <1>1, <1>2, <1>4, <1>5, <1>6, <1>7, <1>8

LEMMA BackgroundStep ==
    ASSUME ControlInv, NEW h \in Slots, Background(h)
    PROVE  LET r == handlers[h] IN
           /\ Busy(h) /\ First(r.todo) = "background"
           /\ \E q \in Request :
                 /\ Goes(h, q) /\ Kin(r, q) /\ Loop(r, q) /\ q.stream = r.stream /\ q.st = r.st /\ q.hist = r.hist
                 /\ q.sub = r.sub /\ q.todo = Others(r.todo) /\ Shape(q) /\ First(q.todo) = "get_history"
                 /\ q.todo # <<>>
  <1> DEFINE r == handlers[h]
             n == Next_(r)
  <1>1. Busy(h) /\ Head(r.todo) = "background" /\ Goes(h, [n EXCEPT !.catch = Fails])
    BY DEF Background, At, Fails
  <1>2. r \in Request /\ Shape(r) /\ r.todo # <<>> /\ First(r.todo) = "background"
    BY <1>1, AtStep
  <1>3. n \in Request /\ Like(r, n) /\ n.todo = Others(r.todo)
    BY <1>2, NextStep
  <1>4. Fails \in Todo /\ Fails \in Catches
    BY Listed DEF Lists, Catches, Fails
  <1> HIDE DEF n
  <1> DEFINE q == [n EXCEPT !.catch = Fails]
  <1>5. /\ q \in Request /\ Kin(r, q) /\ Loop(r, q) /\ q.stream = r.stream /\ q.st = r.st /\ q.hist = r.hist
        /\ q.sub = r.sub /\ q.todo = Others(r.todo) /\ q.catch = Fails
    BY <1>3, <1>4 DEF Request, Like, Kin, Loop
  <1>6. Goes(h, q)
    BY <1>1
  <1> HIDE DEF q
  <1>7. q.todo # <<>> => Shape(q)
    BY <1>2, <1>4, <1>5, MovesShape DEF Inside, InCall
  <1>8. q.todo # <<>> /\ First(q.todo) = "get_history"
    <2>1. Follows(r.kind, "background", q.todo)
      BY <1>2, <1>5, WhatIsLeft DEF Inside, InCall
    <2> QED BY <2>1, AfterStep
  <1> QED BY <1>1, <1>2, <1>5, <1>6, <1>7, <1>8

LEMMA TriggerPmStep ==
    ASSUME ControlInv, NEW h \in Slots, TriggerPm(h)
    PROVE  LET r == handlers[h] IN
           /\ Busy(h) /\ First(r.todo) = "trigger_pm"
           /\ \E q \in {Idle} \cup Request :
                 /\ Goes(h, q)
                 /\ q = Idle \/ (/\ Kin(r, q) /\ Loop(r, q) /\ q.st = r.st /\ q.hist = r.hist /\ q.sub = r.sub
                                 /\ q.todo = Others(r.todo) /\ Shape(q) /\ q.todo # <<>> /\ First(q.todo) = "pm")
  <1> DEFINE r == handlers[h]
             n == Next_(r)
  <1>1. /\ Busy(h) /\ Head(r.todo) = "trigger_pm"
        /\ Goes(h, Idle) \/ Goes(h, [n EXCEPT !.catch = <<>>, !.stream = FALSE])
    BY DEF TriggerPm, At
  <1>2. r \in Request /\ Shape(r) /\ r.todo # <<>> /\ First(r.todo) = "trigger_pm"
    BY <1>1, AtStep
  <1>3. n \in Request /\ Like(r, n) /\ n.todo = Others(r.todo)
    BY <1>2, NextStep
  <1>4. <<>> \in Todo /\ <<>> \in Catches
    BY Listed DEF Catches
  <1> HIDE DEF n
  <1> DEFINE q == [n EXCEPT !.catch = <<>>, !.stream = FALSE]
  <1>5. /\ q \in Request /\ Kin(r, q) /\ Loop(r, q) /\ q.st = r.st /\ q.hist = r.hist
        /\ q.sub = r.sub /\ q.todo = Others(r.todo) /\ q.catch = <<>>
    BY <1>3, <1>4 DEF Request, Like, Kin, Loop
  <1>6. Goes(h, Idle) \/ Goes(h, q)
    BY <1>1
  <1> HIDE DEF q
  <1>7. q.todo # <<>> => Shape(q)
    BY <1>2, <1>4, <1>5, MovesShape DEF Inside, InCall
  <1>8. q.todo # <<>> /\ First(q.todo) = "pm"
    <2>1. Follows(r.kind, "trigger_pm", q.todo)
      BY <1>2, <1>5, WhatIsLeft DEF Inside, InCall
    <2> QED BY <2>1, AfterStep
  <1> QED BY <1>1, <1>2, <1>5, <1>6, <1>7, <1>8

\* A call of the agent: it starts, or the message is refused at once.
CalledSub(r) ==
    IF First(r.todo) = "decompose_ears" THEN "ears_decomposing"
    ELSE IF r.st.sub = "none" THEN "clarifying" ELSE r.st.sub

LEMMA CallAgentStep ==
    ASSUME ControlInv, NEW h \in Slots, CallAgent(h)
    PROVE  LET r == handlers[h]
               agent == AgentOf(First(r.todo))
           IN
           /\ Busy(h) /\ First(r.todo) \in Calls /\ agent \in Agents /\ CalledSub(r) \in SubStages
           /\ Others(r.todo) \in AfterCall(agent)
           /\ agents' = [agents EXCEPT !.p = [agents.p EXCEPT ![agent] = r.p],
                                       !.sub = IF agent = "requirement" THEN CalledSub(r) ELSE @]
           /\ \E q \in Request :
                 /\ Goes(h, q) /\ Kin(r, q) /\ q.stream = r.stream /\ q.st = r.st
                 /\ q.hist = r.hist \/ (First(r.todo) = "chat" /\ r.hist = <<>> /\ q.hist = <<Turn(r)>>)
                 /\ q.todo # <<>> => Shape(q)
                 /\ \/ /\ q.todo # <<>> /\ First(q.todo) \in {"begin", "answer"} /\ Others(q.todo) = Others(r.todo)
                       /\ q.agent = agent /\ q.sub = r.sub
                    \/ q.todo = Others(r.todo) /\ ~r.stream /\ q.agent = "none" /\ q.sub = CalledSub(r)
  <1> DEFINE r == handlers[h]
             agent == AgentOf(First(r.todo))
             c == Called(r)
  <1>1. Busy(h) /\ Head(r.todo) \in Calls
    BY DEF CallAgent, AtOneOf
  <1>2. r \in Request /\ Shape(r) /\ r.todo # <<>> /\ First(r.todo) \in Calls /\ Head(r.todo) = First(r.todo)
    BY <1>1, AtStep
  <1>3. /\ c \in Request /\ Kin(r, c) /\ c.todo = r.todo /\ c.stream = r.stream /\ c.catch = r.catch
        /\ c.st = r.st /\ c.sub = r.sub /\ c.agent = agent /\ agent \in Agents
        /\ c.hist = r.hist \/ (First(r.todo) = "chat" /\ r.hist = <<>> /\ c.hist = <<Turn(r)>>)
    BY <1>2, CalledStep
  <1>4. CalledSub(r) \in SubStages
    BY <1>2 DEF CalledSub, Request, ProjectState, SubStages
  <1>5. /\ agents' = [agents EXCEPT !.p = [agents.p EXCEPT ![agent] = r.p],
                                    !.sub = IF agent = "requirement" THEN CalledSub(r) ELSE @]
        /\ Goes(h, IF r.stream THEN Then(c, <<"begin">>) ELSE Begun(c, CalledSub(r)))
    BY <1>2 DEF CallAgent, Called, CalledSub, SetProject
  <1>6. Others(r.todo) \in AfterCall(agent) /\ Follows(r.kind, First(r.todo), Others(r.todo))
    <2>1. Follows(r.kind, First(r.todo), Others(r.todo))
      BY <1>2, WhatIsLeft DEF Calls, Inside, InCall
    <2>2. Others(r.todo) \in {Keeps, KeepsLater, KeepsAtOnce, Only("design_done"), Only("plan_checked"), Notes}
      BY <1>2, <2>1 DEF Follows, Calls, Final
    <2>3. Others(r.todo) # <<>>
      BY <2>2, Listed DEF Lists
    <2> QED BY <1>2, <2>1, <2>3, Successors DEF Calls, AgentOf
  <1>7. r.catch \in Catches /\ (r.kind = "confirm_design" => Written(r.p, "design.md"))
    BY <1>2 DEF Shape
  <1> HIDE DEF c
  <1>8. CASE r.stream
    <2> DEFINE q == Then(c, <<"begin">>)
    <2>1. /\ q \in Request /\ Like(c, q) /\ q.todo # <<>> /\ First(q.todo) = "begin" /\ Others(q.todo) = Others(r.todo)
      BY <1>2, <1>3, ThenStep DEF Step
    <2>2. Goes(h, q)
      BY <1>5, <1>8
    <2> HIDE DEF q
    <2>3. Shape(q)
      BY <1>3, <1>6, <1>7, <1>8, <2>1 DEF Shape, InCall, Like, Kin, Loop
    <2>4. Kin(r, q) /\ q.stream = r.stream /\ q.st = r.st /\ q.hist = c.hist /\ q.agent = agent /\ q.sub = r.sub
      BY <1>3, <2>1 DEF Like, Kin, Loop
    <2> QED BY <1>1, <1>2, <1>3, <1>4, <1>5, <1>6, <2>1, <2>2, <2>3, <2>4
  <1>9. CASE ~r.stream
    <2> DEFINE q == Begun(c, CalledSub(r))
    <2>1. /\ q \in Request /\ Kin(c, q) /\ q.stream = c.stream /\ q.catch \in Catches /\ q.st = c.st /\ q.hist = c.hist
          /\ \/ /\ q.todo # <<>> /\ First(q.todo) = "answer" /\ Others(q.todo) = Others(c.todo)
                /\ q.agent = c.agent /\ q.tools \subseteq ToolsOf(c.agent) /\ q.sub = c.sub
             \/ q.todo = Others(c.todo) /\ c.stream /\ q.agent = c.agent /\ q.sub = c.sub
             \/ q.todo = Others(c.todo) /\ ~c.stream /\ q.agent = "none" /\ q.sub = CalledSub(r)
      <3>1. c.todo # <<>> /\ c.catch \in Catches /\ c.agent \in Agents
        BY <1>2, <1>3, <1>7
      <3> QED BY <1>3, <1>4, <3>1, BegunStep
    <2>2. Goes(h, q)
      BY <1>5, <1>9
    <2> HIDE DEF q
    <2>3. Kin(r, q) /\ q.stream = r.stream /\ q.st = r.st /\ q.hist = c.hist
      BY <1>3, <2>1 DEF Kin
    <2>4. CASE /\ q.todo # <<>> /\ First(q.todo) = "answer" /\ Others(q.todo) = Others(c.todo)
               /\ q.agent = c.agent /\ q.tools \subseteq ToolsOf(c.agent) /\ q.sub = c.sub
      <3>1. Shape(q)
        BY <1>3, <1>6, <1>7, <2>1, <2>3, <2>4 DEF Shape, InCall, Kin
      <3> QED BY <1>1, <1>2, <1>3, <1>4, <1>5, <1>6, <2>1, <2>2, <2>3, <2>4, <3>1
    <2>5. CASE q.todo = Others(c.todo) /\ ~c.stream /\ q.agent = "none" /\ q.sub = CalledSub(r)
      <3>1. Plain(q.kind, q.todo)
        BY <1>3, <1>6, <2>3, <2>5, FollowsPlain DEF Kin
      <3>2. q.todo # <<>> => Shape(q)
        BY <1>3, <1>7, <2>1, <2>3, <2>5, <3>1, PlainShape DEF Kin
      <3> QED BY <1>1, <1>2, <1>3, <1>4, <1>5, <1>6, <2>1, <2>2, <2>3, <2>5, <3>2
    <2> QED BY <1>3, <1>9, <2>1, <2>4, <2>5
  <1>10. r.stream \in BOOLEAN
    BY <1>2 DEF Request
  <1> QED BY <1>8, <1>9, <1>10

\* After its agent's call a request that is a stream still has the agent when it saves the history.
LEMMA CalledShape ==
    ASSUME NEW r \in Request, Shape(r), First(r.todo) \in InCall, NEW q \in Request, Kin(r, q), q.catch \in Catches,
           q.todo = Others(r.todo), q.stream /\ r.agent = "requirement" => q.agent = "requirement"
    PROVE  q.todo # <<>> /\ Shape(q)
  <1>1. r.agent \in Agents /\ q.todo \in AfterCall(r.agent)
    BY WhatIsLeft
  <1>2. Plain(q.kind, q.todo) /\ q.todo # <<>>
    BY <1>1, AfterCallPlain
  <1>3. First(q.todo) = "save_history" => r.agent = "requirement"
    BY <1>1, Parts DEF AfterCall, Agents
  <1>4. First(q.todo) # "persist_history"
    BY <1>1, Parts DEF AfterCall, Agents
  <1>5. q.kind = "confirm_design" => Written(q.p, "design.md")
    BY DEF Shape, Kin
  <1> QED BY <1>2, <1>3, <1>4, <1>5, PlainShape

\* The call is over, or goes on.
Ends(r, q, sub) == ~r.stream /\ q.todo = Others(r.todo) /\ q.agent = "none" /\ q.sub = sub
GoesOnTo(r, q, step) ==
    q.todo # <<>> /\ First(q.todo) = step /\ Others(q.todo) = Others(r.todo) /\ q.agent = r.agent /\ q.sub = r.sub

LEMMA BeginStreamStep ==
    ASSUME ControlInv, NEW h \in Slots, BeginStream(h)
    PROVE  LET r == handlers[h] IN
           /\ Busy(h) /\ First(r.todo) = "begin" /\ r.agent \in Agents /\ Others(r.todo) \in AfterCall(r.agent)
           /\ \E q \in Request :
                 /\ Goes(h, q) /\ Kin(r, q) /\ q.stream = r.stream /\ q.st = r.st /\ q.hist = r.hist /\ Shape(q)
                 /\ \/ GoesOnTo(r, q, "answer")
                    \/ ~r.safe /\ q.todo = Others(r.todo) /\ r.stream /\ q.agent = r.agent /\ q.sub = r.sub
                    \/ Ends(r, q, agents.sub)
  <1> DEFINE r == handlers[h]
             q == Begun(r, agents.sub)
  <1>1. Busy(h) /\ Head(r.todo) = "begin" /\ Goes(h, q)
    BY DEF BeginStream, At
  <1>2. r \in Request /\ Shape(r) /\ r.todo # <<>> /\ First(r.todo) = "begin"
    BY <1>1, AtStep
  <1>3. r.agent \in Agents /\ r.catch \in Catches /\ agents.sub \in SubStages /\ Others(r.todo) \in AfterCall(r.agent)
    <2>1. r.agent \in Agents /\ Others(r.todo) \in AfterCall(r.agent)
      BY <1>2, WhatIsLeft DEF InCall
    <2> QED BY <1>2, <2>1 DEF Shape, ControlInv, Types
  <1>4. /\ q \in Request /\ Kin(r, q) /\ q.stream = r.stream /\ q.catch \in Catches /\ q.st = r.st /\ q.hist = r.hist
        /\ \/ /\ r.safe /\ q.todo # <<>> /\ First(q.todo) = "answer" /\ Others(q.todo) = Others(r.todo)
              /\ q.agent = r.agent /\ q.tools \subseteq ToolsOf(r.agent) /\ q.sub = r.sub
           \/ ~r.safe /\ q.todo = Others(r.todo) /\ r.stream /\ q.agent = r.agent /\ q.sub = r.sub
           \/ ~r.safe /\ q.todo = Others(r.todo) /\ ~r.stream /\ q.agent = "none" /\ q.sub = agents.sub
    BY <1>2, <1>3, BegunStep
  <1> HIDE DEF q
  <1>5. Shape(q)
    <2>1. CASE /\ q.todo # <<>> /\ First(q.todo) = "answer" /\ Others(q.todo) = Others(r.todo)
               /\ q.agent = r.agent /\ q.tools \subseteq ToolsOf(r.agent)
      <3>1. q.kind = "confirm_design" => Written(q.p, "design.md")
        BY <1>2, <1>4 DEF Shape, Kin
      <3> QED BY <1>3, <1>4, <2>1, <3>1 DEF Shape, InCall
    <2>2. CASE q.todo = Others(r.todo)
      BY <1>2, <1>4, <2>2, CalledShape DEF InCall
    <2> QED BY <1>4, <2>1, <2>2
  <1> QED BY <1>1, <1>2, <1>3, <1>4, <1>5 DEF Ends, GoesOnTo

LEMMA AnswerTextStep ==
    ASSUME ControlInv, NEW h \in Slots, AnswerText(h)
    PROVE  LET r == handlers[h] IN
           /\ Busy(h) /\ First(r.todo) = "answer" /\ r.agent \in Agents /\ Others(r.todo) \in AfterCall(r.agent)
           /\ \E q \in Request :
                 /\ Goes(h, q) /\ Kin(r, q) /\ q.stream = r.stream /\ q.st = r.st /\ q.hist = r.hist /\ Shape(q)
                 /\ GoesOnTo(r, q, "publish") \/ Ends(r, q, agents.sub)
  <1> DEFINE r == handlers[h]
  <1>1. Busy(h) /\ Head(r.todo) = "answer" /\ Goes(h, IF r.stream THEN Then(r, <<"publish">>) ELSE Finished(r, agents.sub))
    BY DEF AnswerText, At
  <1>2. r \in Request /\ Shape(r) /\ r.todo # <<>> /\ First(r.todo) = "answer"
    BY <1>1, AtStep
  <1>3. r.agent \in Agents /\ r.catch \in Catches /\ agents.sub \in SubStages /\ Others(r.todo) \in AfterCall(r.agent)
    <2>1. r.agent \in Agents /\ Others(r.todo) \in AfterCall(r.agent)
      BY <1>2, WhatIsLeft DEF InCall
    <2> QED BY <1>2, <2>1 DEF Shape, ControlInv, Types
  <1>4. CASE r.stream
    <2> DEFINE q == Then(r, <<"publish">>)
    <2>1. q \in Request /\ Like(r, q) /\ q.todo # <<>> /\ First(q.todo) = "publish" /\ Others(q.todo) = Others(r.todo)
      BY <1>2, ThenStep DEF Step
    <2>2. Goes(h, q)
      BY <1>1, <1>4
    <2> HIDE DEF q
    <2>3. Shape(q)
      BY <1>2, <1>3, <1>4, <2>1 DEF Shape, InCall, Like, Kin, Loop
    <2> QED BY <1>1, <1>2, <1>3, <2>1, <2>2, <2>3 DEF GoesOnTo, Like, Kin, Loop
  <1>5. CASE ~r.stream
    <2> DEFINE q == Finished(r, agents.sub)
    <2>1. /\ q \in Request /\ Kin(r, q) /\ q.stream = r.stream /\ q.catch \in Catches /\ q.st = r.st
          /\ q.todo = Others(r.todo) /\ q.hist = r.hist /\ q.agent = "none" /\ q.sub = agents.sub
      BY <1>2, <1>3, FinishedStep
    <2>2. Goes(h, q)
      BY <1>1, <1>5
    <2> HIDE DEF q
    <2>3. Shape(q)
      BY <1>2, <1>5, <2>1, CalledShape DEF InCall
    <2> QED BY <1>1, <1>2, <1>3, <1>5, <2>1, <2>2, <2>3 DEF Ends
  <1> QED BY <1>4, <1>5

\* What has happened is not forgotten; only that half of a plan was given is, in the end.
Remembered ==
    /\ seen.crowded \subseteq seen'.crowded /\ seen.mixed \subseteq seen'.mixed /\ seen.refused \subseteq seen'.refused
    /\ seen.torn \subseteq seen'.torn /\ seen.over \subseteq seen'.over /\ seen.blind \subseteq seen'.blind

LEMMA MarkStep ==
    ASSUME seen \in Marks, NEW what \in {"crowded", "mixed", "refused", "blind", "torn"}, NEW ps \in SUBSET Projects, Mark(what, ps)
    PROVE  /\ seen' \in Marks /\ Remembered /\ seen'[what] = seen[what] \cup ps
           /\ \A other \in {"crowded", "mixed", "refused", "blind", "torn", "over", "halved"} \ {what} : seen'[other] = seen[other]
  BY DEF Mark, Marks, Remembered

LEMMA MarkTornStep ==
    ASSUME ControlInv, NEW hs \in SUBSET Slots, NEW ps \in SUBSET Projects, MarkTorn(hs, ps)
    PROVE  /\ seen' \in Marks /\ Remembered
           /\ seen'.torn = seen.torn \cup Torn(hs) \cup ps /\ seen'.over = seen.over \cup StartedOver(hs)
           /\ seen'.crowded = seen.crowded /\ seen'.mixed = seen.mixed /\ seen'.refused = seen.refused
           /\ seen'.blind = seen.blind /\ seen'.halved = seen.halved
  <1>1. Torn(hs) \in SUBSET Projects /\ StartedOver(hs) \in SUBSET Projects
    BY AtStep DEF Torn, StartedOver, AtOneOf, At
  <1>2. seen' = [seen EXCEPT !.torn = @ \cup Torn(hs) \cup ps, !.over = @ \cup StartedOver(hs)] /\ seen \in Marks
    BY DEF MarkTorn, ControlInv, Types
  <1> QED BY <1>1, <1>2 DEF Marks, Remembered

\* What is fired off with the lists a tool gives, and what is noted about it.
RacedBy(r, lists) ==
    {w.p : w \in {u \in unsaved : \E v \in Stores(r, agents.p[r.agent], lists) : v.p = u.p /\ v.table = u.table}}
FiresOff(r, lists) ==
    /\ unsaved' = unsaved \cup Stores(r, agents.p[r.agent], lists)
    /\ seen' = [seen EXCEPT !.crowded = @ \cup RacedBy(r, lists), !.halved = Halved(agents.p[r.agent], lists)]

LEMMA FiresOffStep ==
    ASSUME Types, NEW r \in Request, agents.p[r.agent] \in Projects, NEW lists \in SUBSET Tables, FiresOff(r, lists)
    PROVE  /\ unsaved' \subseteq [p : Projects, table : Tables, turn : Turns]
           /\ seen' \in Marks /\ Remembered
           /\ seen'.crowded = seen.crowded \cup RacedBy(r, lists) /\ seen'.mixed = seen.mixed
           /\ seen'.refused = seen.refused /\ seen'.torn = seen.torn /\ seen'.over = seen.over
           /\ seen'.blind = seen.blind /\ seen'.halved = Halved(agents.p[r.agent], lists)
  <1>1. Turn(r) \in Turns
    BY DEF Turn, Turns, Request
  <1>2. Stores(r, agents.p[r.agent], lists) \subseteq [p : Projects, table : Tables, turn : Turns]
    BY <1>1 DEF Stores
  <1>3. RacedBy(r, lists) \in SUBSET Projects
    BY DEF RacedBy, Types
  <1>4. seen \in Marks
    BY DEF Types
  <1>5. Halved(agents.p[r.agent], lists) \in SUBSET Projects
    BY <1>4 DEF Halved, Marks
  <1>6. /\ unsaved' = unsaved \cup Stores(r, agents.p[r.agent], lists)
        /\ seen' = [seen EXCEPT !.crowded = @ \cup RacedBy(r, lists), !.halved = Halved(agents.p[r.agent], lists)]
    BY DEF FiresOff
  <1>7. unsaved' \subseteq [p : Projects, table : Tables, turn : Turns]
    BY <1>2, <1>6 DEF Types
  <1> HIDE DEF RacedBy
  <1> QED BY <1>3, <1>4, <1>5, <1>6, <1>7 DEF Marks, Remembered

\* What a tool leaves behind: maybe a document, rows to be written, the agent's sub-stage.
LEMMA ExecutesStep ==
    ASSUME Types, NEW r \in Request, r.agent \in Agents, agents.p[r.agent] \in Projects,
           NEW tool \in ToolsOf(r.agent), NEW sub \in SubsAfter(tool), ExecutesTool(r, tool, sub)
    PROVE  /\ \/ docs' = docs
              \/ \E f \in Documents :
                    docs' = [docs EXCEPT ![agents.p[r.agent]] = [docs[agents.p[r.agent]] EXCEPT ![f] = r.p]]
           /\ docs' \in [Projects -> [Documents -> Projects \cup {"none"}]]
           /\ \A p \in Projects, f \in Documents : Written(p, f) => Written(p, f)'
           /\ \E lists \in SUBSET Tables : lists \subseteq RowsOf(tool) /\ FiresOff(r, lists)
           /\ unsaved' \subseteq [p : Projects, table : Tables, turn : Turns]
           /\ seen' \in Marks /\ Remembered
           /\ agents' = [agents EXCEPT !.sub = sub]
           /\ agents'.p = agents.p /\ agents'.result = agents.result /\ sub \in SubStages
           /\ agents' \in [p : [Agents -> Projects \cup {"none"}], sub : SubStages, result : {NoResult} \cup Seq(Turns)]
           /\ UNCHANGED tables
  <1> DEFINE a == agents.p[r.agent]
  <1>1. PICK f \in FilesOf(r, tool), lists \in ListsOf(tool) :
          /\ docs' = IF f = "none" THEN docs ELSE [docs EXCEPT ![a][f] = r.p]
          /\ FiresOff(r, lists)
          /\ agents' = [agents EXCEPT !.sub = sub]
          /\ UNCHANGED tables
    BY DEF ExecutesTool, FiresOff, RacedBy
  <1>2. f \in Documents \cup {"none"}
    <2>1. FileOf(r, tool) \in Documents \/ tool = "ask_clarification"
      <3>1. CASE r.agent = "requirement"
        BY <3>1 DEF ToolsOf, FileOf, DefaultFile, Documents
      <3>2. CASE r.agent = "design"
        BY <3>2 DEF ToolsOf, FileOf, DefaultFile, Documents
      <3>3. CASE r.agent = "pm"
        BY <3>3 DEF ToolsOf, FileOf, DefaultFile, Documents
      <3> QED BY <3>1, <3>2, <3>3 DEF Agents
    <2> QED BY <1>1, <2>1 DEF FilesOf
  <1>3. sub \in SubStages
    <2>1. agents.sub \in SubStages
      BY DEF Types
    <2> QED BY <2>1 DEF SubsAfter, SubStages
  <1>4. lists \subseteq RowsOf(tool) /\ lists \in SUBSET Tables
    <2>1. RowsOf(tool) \subseteq Tables
      BY DEF RowsOf, Tables, Plan
    <2> QED BY <1>1, <2>1 DEF ListsOf
  <1>5. r.p \in Projects /\ r.p # "none"
    BY Named DEF Request
  <1>6. /\ docs' \in [Projects -> [Documents -> Projects \cup {"none"}]]
        /\ \A p \in Projects, x \in Documents : docs[p][x] # "none" => docs'[p][x] # "none"
        /\ docs' = docs \/ (f \in Documents /\ docs' = [docs EXCEPT ![a] = [docs[a] EXCEPT ![f] = r.p]])
    <2>1. CASE f = "none"
      BY <1>1, <2>1 DEF Types
    <2>2. CASE f # "none"
      <3>1. f \in Documents /\ docs' = [docs EXCEPT ![a] = [docs[a] EXCEPT ![f] = r.p]]
        BY <1>1, <1>2, <2>2
      <3>2. a \in Projects /\ docs[a] \in [Documents -> Projects \cup {"none"}]
        BY DEF Types
      <3> DEFINE d == [docs[a] EXCEPT ![f] = r.p]
      <3>3. d \in [Documents -> Projects \cup {"none"}] /\ \A x \in Documents : docs[a][x] # "none" => d[x] # "none"
        BY <1>5, <3>2
      <3>4. docs' = [docs EXCEPT ![a] = d]
        BY <3>1
      <3> HIDE DEF d
      <3>5. docs' \in [Projects -> [Documents -> Projects \cup {"none"}]]
        BY <3>2, <3>3, <3>4 DEF Types
      <3>6. \A p \in Projects, x \in Documents : docs[p][x] # "none" => docs'[p][x] # "none"
        BY <3>2, <3>3, <3>4 DEF Types
      <3> QED BY <3>1, <3>5, <3>6
    <2> QED BY <2>1, <2>2
  <1>7. unsaved' \subseteq [p : Projects, table : Tables, turn : Turns] /\ seen' \in Marks /\ Remembered
    BY <1>1, <1>4, FiresOffStep
  <1>8. agents'.p = agents.p /\ agents'.result = agents.result
        /\ agents' \in [p : [Agents -> Projects \cup {"none"}], sub : SubStages, result : {NoResult} \cup Seq(Turns)]
    BY <1>1, <1>3 DEF Types
  <1> QED BY <1>1, <1>3, <1>4, <1>6, <1>7, <1>8 DEF Written

\* A request in an agent's call has the agent's project and its tools.
LEMMA InCallStep ==
    ASSUME ControlInv, NEW h \in Slots, Busy(h), First(handlers[h].todo) \in InCall
    PROVE  LET r == handlers[h] IN
           /\ r \in Request /\ r.todo # <<>> /\ r.p \in Projects /\ r.agent \in Agents /\ agents.p[r.agent] \in Projects
           /\ Others(r.todo) \in AfterCall(r.agent) /\ r.catch \in Catches
           /\ r.kind = "confirm_design" => Written(r.p, "design.md")
           /\ First(r.todo) = "answer" => r.tools \subseteq ToolsOf(r.agent)
           /\ First(r.todo) = "tool" => r.tool \in ToolsOf(r.agent) /\ r.tools \subseteq ToolsOf(r.agent)
  <1> DEFINE r == handlers[h]
  <1>1. r \in Request /\ Shape(r) /\ r.todo # <<>> /\ r.p \in Projects
    BY AtStep
  <1>2. r.agent \in Agents /\ Others(r.todo) \in AfterCall(r.agent)
    BY <1>1, WhatIsLeft
  <1>3. r.agent # "none"
    BY <1>2 DEF Agents
  <1>4. agents.p[r.agent] \in Projects
    BY <1>3 DEF ControlInv
  <1> QED BY <1>1, <1>2, <1>4 DEF Shape

LEMMA AnswerToolStep ==
    ASSUME ControlInv, NEW h \in Slots, AnswerTool(h)
    PROVE  LET r == handlers[h] IN
           /\ Busy(h) /\ First(r.todo) = "answer" /\ r.agent \in Agents /\ Others(r.todo) \in AfterCall(r.agent)
           /\ \E tool \in ToolsOf(r.agent) : \E q \in Request :
                 /\ Goes(h, q) /\ Kin(r, q) /\ q.stream = r.stream /\ q.st = r.st /\ q.hist = r.hist /\ Shape(q)
                 /\ \/ GoesOnTo(r, q, "tool") /\ UNCHANGED <<products, agents, seen>>
                    \/ \E sub \in SubsAfter(tool) :
                          ExecutesTool(r, tool, sub) /\ (GoesOnTo(r, q, "answer") \/ Ends(r, q, sub))
  <1> DEFINE r == handlers[h]
             n == r.iteration + 1
  <1>1. Busy(h) /\ Head(r.todo) = "answer"
    BY DEF AnswerTool, At
  <1>2. r \in Request /\ Shape(r) /\ r.todo # <<>> /\ First(r.todo) = "answer"
    BY <1>1, AtStep
  <1>3. /\ r.agent \in Agents /\ Others(r.todo) \in AfterCall(r.agent) /\ r.catch \in Catches
        /\ r.kind = "confirm_design" => Written(r.p, "design.md")
        /\ r.tools \subseteq ToolsOf(r.agent)
    BY <1>1, <1>2, InCallStep DEF InCall
  <1>4. PICK tool \in r.tools :
          IF r.stream
          THEN Goes(h, [Then(r, <<"tool">>) EXCEPT !.tool = tool]) /\ UNCHANGED <<products, agents, seen>>
          ELSE \E sub \in SubsAfter(tool) :
                 /\ ExecutesTool(r, tool, sub)
                 /\ Goes(h, IF n = MaxIterations THEN Finished(r, sub) ELSE [r EXCEPT !.iteration = n])
    BY DEF AnswerTool
  <1>5. tool \in ToolsOf(r.agent) /\ tool \in ToolNames /\ tool \in ToolNames \cup {"none"} /\ n \in Nat
    BY <1>2, <1>3, ToolsAreAgents DEF Request
  <1>6. CASE r.stream
    <2> DEFINE t == Then(r, <<"tool">>)
    <2>1. t \in Request /\ Like(r, t) /\ t.todo # <<>> /\ First(t.todo) = "tool" /\ Others(t.todo) = Others(r.todo)
      BY <1>2, ThenStep DEF Step
    <2>2. Goes(h, [t EXCEPT !.tool = tool]) /\ UNCHANGED <<products, agents, seen>>
      BY <1>4, <1>6
    <2> HIDE DEF t
    <2> DEFINE q == [t EXCEPT !.tool = tool]
    <2>3. /\ q \in Request /\ Kin(r, q) /\ q.stream = r.stream /\ q.st = r.st /\ q.hist = r.hist /\ q.catch = r.catch
          /\ q.todo = t.todo /\ q.agent = r.agent /\ q.sub = r.sub /\ q.tools = r.tools /\ q.tool = tool
      BY <1>5, <2>1 DEF Request, Like, Kin, Loop
    <2>4. Goes(h, q)
      BY <2>2
    <2> HIDE DEF q
    <2>5. Shape(q)
      BY <1>2, <1>3, <1>5, <1>6, <2>1, <2>3 DEF Shape, InCall, Kin
    <2> QED BY <1>1, <1>2, <1>3, <1>5, <2>1, <2>2, <2>3, <2>4, <2>5 DEF GoesOnTo
  <1>7. CASE ~r.stream
    <2>0. PICK sub \in SubsAfter(tool) :
             /\ ExecutesTool(r, tool, sub)
             /\ Goes(h, IF n = MaxIterations THEN Finished(r, sub) ELSE [r EXCEPT !.iteration = n])
      BY <1>4, <1>7
    <2>1. ExecutesTool(r, tool, sub) /\ sub \in SubStages
      <3>1. agents.sub \in SubStages
        BY DEF ControlInv, Types
      <3> QED BY <2>0, <3>1 DEF SubsAfter, SubStages
    <2>2. CASE n = MaxIterations
      <3> DEFINE q == Finished(r, sub)
      <3>1. /\ q \in Request /\ Kin(r, q) /\ q.stream = r.stream /\ q.catch \in Catches /\ q.st = r.st
            /\ q.todo = Others(r.todo) /\ q.hist = r.hist /\ q.agent = "none" /\ q.sub = sub
        BY <1>2, <1>3, <2>1, FinishedStep
      <3>2. Goes(h, q)
        BY <2>0, <2>2
      <3> HIDE DEF q
      <3>3. Shape(q)
        BY <1>2, <1>7, <3>1, CalledShape DEF InCall
      <3> QED BY <1>1, <1>2, <1>3, <1>5, <1>7, <2>1, <3>1, <3>2, <3>3 DEF Ends
    <2>3. CASE n # MaxIterations
      <3> DEFINE q == [r EXCEPT !.iteration = n]
      <3>1. /\ q \in Request /\ Kin(r, q) /\ q.stream = r.stream /\ q.catch = r.catch /\ q.st = r.st
            /\ q.todo = r.todo /\ q.hist = r.hist /\ q.agent = r.agent /\ q.sub = r.sub /\ q.tools = r.tools
        BY <1>2, <1>5 DEF Request, Kin
      <3>2. Goes(h, q)
        BY <2>0, <2>3
      <3> HIDE DEF q
      <3>3. Shape(q)
        BY <1>2, <1>3, <3>1 DEF Shape, InCall, Kin
      <3> QED BY <1>1, <1>2, <1>3, <1>5, <2>1, <3>1, <3>2, <3>3 DEF GoesOnTo
    <2> QED BY <2>2, <2>3
  <1>8. r.stream \in BOOLEAN
    BY <1>2 DEF Request
  <1> QED BY <1>6, <1>7, <1>8

LEMMA ExecuteToolStep ==
    ASSUME ControlInv, NEW h \in Slots, ExecuteTool(h)
    PROVE  LET r == handlers[h] IN
           /\ Busy(h) /\ First(r.todo) = "tool" /\ r.agent \in Agents /\ Others(r.todo) \in AfterCall(r.agent) /\ r.tool \in ToolsOf(r.agent)
           /\ \E sub \in SubsAfter(r.tool) : ExecutesTool(r, r.tool, sub)
           /\ \E q \in Request :
                 /\ Goes(h, q) /\ Kin(r, q) /\ q.stream = r.stream /\ q.st = r.st /\ q.hist = r.hist /\ Shape(q)
                 /\ GoesOnTo(r, q, "publish") \/ GoesOnTo(r, q, "answer")
  <1> DEFINE r == handlers[h]
             n == r.iteration + 1
             ends == r.tool \in {"ask_clarification", "generate_prd"} \/ n = MaxIterations
  <1>1. /\ Busy(h) /\ Head(r.todo) = "tool" /\ \E sub \in SubsAfter(r.tool) : ExecutesTool(r, r.tool, sub)
        /\ Goes(h, [Then(r, IF ends THEN <<"publish">> ELSE <<"answer">>) EXCEPT !.iteration = n, !.tool = "none"])
    BY DEF ExecuteTool, At
  <1>2. r \in Request /\ Shape(r) /\ r.todo # <<>> /\ First(r.todo) = "tool" /\ n \in Nat
    BY <1>1, AtStep DEF Request
  <1>3. /\ r.agent \in Agents /\ Others(r.todo) \in AfterCall(r.agent) /\ r.catch \in Catches
        /\ r.kind = "confirm_design" => Written(r.p, "design.md")
        /\ r.tools \subseteq ToolsOf(r.agent) /\ r.tool \in ToolsOf(r.agent)
    BY <1>1, <1>2, InCallStep DEF InCall
  <1>4. ASSUME NEW x \in {"publish", "answer"}, Goes(h, [Then(r, <<x>>) EXCEPT !.iteration = n, !.tool = "none"])
        PROVE  \E q \in Request :
                 /\ Goes(h, q) /\ Kin(r, q) /\ q.stream = r.stream /\ q.st = r.st /\ q.hist = r.hist /\ Shape(q)
                 /\ GoesOnTo(r, q, x)
    <2> DEFINE t == Then(r, <<x>>)
    <2>1. t \in Request /\ Like(r, t) /\ t.todo # <<>> /\ First(t.todo) = x /\ Others(t.todo) = Others(r.todo)
      BY <1>2, <1>4, ThenStep DEF Step
    <2>2. Goes(h, [t EXCEPT !.iteration = n, !.tool = "none"])
      BY <1>4
    <2> HIDE DEF t
    <2> DEFINE q == [t EXCEPT !.iteration = n, !.tool = "none"]
    <2>3. /\ q \in Request /\ Kin(r, q) /\ q.stream = r.stream /\ q.st = r.st /\ q.hist = r.hist /\ q.catch = r.catch
          /\ q.todo = t.todo /\ q.agent = r.agent /\ q.sub = r.sub /\ q.tools = r.tools
      BY <1>2, <2>1 DEF Request, Like, Kin, Loop
    <2>4. Goes(h, q)
      BY <2>2
    <2> HIDE DEF q
    <2>5. Shape(q)
      BY <1>2, <1>3, <2>1, <2>3 DEF Shape, InCall, Kin
    <2> QED BY <2>1, <2>3, <2>4, <2>5 DEF GoesOnTo
  <1>5. CASE ends
    BY <1>1, <1>2, <1>3, <1>4, <1>5
  <1>6. CASE ~ends
    BY <1>1, <1>2, <1>3, <1>4, <1>6
  <1> QED BY <1>5, <1>6

LEMMA PublishStep ==
    ASSUME ControlInv, NEW h \in Slots, Publish(h)
    PROVE  LET r == handlers[h] IN
           /\ Busy(h) /\ First(r.todo) = "publish" /\ r.agent \in Agents /\ Others(r.todo) \in AfterCall(r.agent)
           /\ agents' = [agents EXCEPT !.result = IF r.agent = "requirement" THEN r.hist ELSE @]
           /\ \E q \in Request :
                 /\ Goes(h, q) /\ Kin(r, q) /\ q.stream = r.stream /\ q.st = r.st /\ q.hist = r.hist /\ Shape(q)
                 /\ q.todo = Others(r.todo) /\ q.agent = (IF r.agent = "requirement" THEN r.agent ELSE "none")
                 /\ q.sub = r.sub
  <1> DEFINE r == handlers[h]
             n == Next_(r)
             a == IF r.agent = "requirement" THEN r.agent ELSE "none"
  <1>1. Busy(h) /\ Head(r.todo) = "publish"
    BY DEF Publish, At
  <1>2. r \in Request /\ Shape(r) /\ r.todo # <<>> /\ First(r.todo) = "publish"
    BY <1>1, AtStep
  <1>3. r.agent \in Agents /\ r.catch \in Catches /\ Others(r.todo) \in AfterCall(r.agent)
    BY <1>1, <1>2, InCallStep DEF InCall
  <1>4. n \in Request /\ Like(r, n) /\ n.todo = Others(r.todo)
    BY <1>2, NextStep
  <1>5. Goes(h, [n EXCEPT !.agent = a, !.tools = {}, !.iteration = 0])
    BY <1>4 DEF Publish, Like, Loop
  <1>6. a \in Agents \cup {"none"}
    BY <1>3
  <1> HIDE DEF n, a
  <1> DEFINE q == [n EXCEPT !.agent = a, !.tools = {}, !.iteration = 0]
  <1>7. q \in Request
    BY <1>4, <1>6 DEF Request
  <1>8. /\ Kin(r, q) /\ q.stream = r.stream /\ q.st = r.st /\ q.hist = r.hist /\ q.catch = r.catch
        /\ q.todo = Others(r.todo) /\ q.agent = a /\ q.sub = r.sub
    BY <1>4 DEF Request, Like, Kin
  <1>9. Goes(h, q)
    BY <1>5
  <1> HIDE DEF q
  <1>10. Shape(q)
    <2>1. q.stream /\ r.agent = "requirement" => q.agent = "requirement"
      BY <1>8 DEF a
    <2> QED BY <1>2, <1>3, <1>7, <1>8, <2>1, CalledShape DEF InCall
  <1>11. agents' = [agents EXCEPT !.result = IF r.agent = "requirement" THEN r.hist ELSE @]
    BY DEF Publish
  <1> USE DEF a
  <1> QED BY <1>1, <1>2, <1>3, <1>7, <1>8, <1>9, <1>10, <1>11

LEMMA ServerErrorStep ==
    ASSUME ControlInv, NEW h \in Slots, ServerError(h)
    PROVE  Busy(h) /\ First(handlers[h].todo) = "ValueError" /\ Goes(h, Idle)
  BY AtStep DEF ServerError, At

\* Nobody was there, or an exception took the request to what it does then.
Caught(r, q) ==
    /\ q \in Request /\ Kin(r, q) /\ q.stream = r.stream /\ q.st = r.st /\ q.sub = r.sub
    /\ q.agent = "none" /\ q.hist = <<>> /\ q.todo \in {Only("pm_error"), Fails} /\ Shape(q)

LEMMA CaughtStep ==
    ASSUME NEW r \in Request, Shape(r)
    PROVE  Raised(r) = Idle \/ Caught(r, Raised(r))
  <1> DEFINE q == Raised(r)
  <1>1. /\ r.catch \in Catches
        /\ r.kind = "confirm_design" => Written(r.p, "design.md")
    BY DEF Shape
  <1>2. \/ q = Idle
        \/ /\ q \in Request /\ Kin(r, q) /\ q.stream = r.stream /\ q.st = r.st /\ q.sub = r.sub
           /\ q.catch = <<>> /\ q.agent = "none" /\ q.hist = <<>>
           /\ q.todo \in {Only("pm_error"), Fails}
    BY <1>1, RaisedStep
  <1> HIDE DEF q
  <1>3. ASSUME q # Idle
        PROVE  Shape(q)
    <2>1. q.todo \in Lists /\ q.todo # <<>> /\ q.todo \in Todo
      BY <1>2, <1>3, Listed DEF Lists
    <2>2. Plain(q.kind, q.todo) /\ First(q.todo) \notin {"save_history", "persist_history"}
      BY <1>2, <1>3, <2>1, Parts DEF Plain, Follows, Final
    <2>3. q.catch \in Catches
      BY <1>2, <1>3 DEF Catches
    <2> QED BY <1>1, <1>2, <1>3, <2>1, <2>2, <2>3, PlainShape DEF Kin
  <1>4. q = Idle \/ Caught(r, q)
    BY <1>2, <1>3 DEF Caught
  <1> QED BY <1>4 DEF q

\* No state is found: init_project makes one.
LEMMA NotFoundStep ==
    ASSUME ControlInv, NEW h \in Slots, Busy(h), First(handlers[h].todo) \in {"select", "refill"}
    PROVE  LET r == handlers[h]
               q == Absent(Next_(r)) IN
           \/ q = Idle
           \/ q \in Request /\ Like(r, q) /\ q.todo # <<>> /\ First(q.todo) = "fresh" /\ Shape(q)
  <1> DEFINE r == handlers[h]
             n == Next_(r)
  <1>1. r \in Request /\ Shape(r) /\ r.todo # <<>>
    BY AtStep
  <1>2. Others(r.todo) # <<>> /\ First(Others(r.todo)) \in Reads /\ Follows(r.kind, First(Others(r.todo)), Others(Others(r.todo)))
    BY <1>1, WhatIsLeft
  <1>3. n \in Request /\ Like(r, n) /\ n.todo = Others(r.todo)
    BY <1>1, NextStep
  <1> HIDE DEF n
  <1> DEFINE q == Absent(n)
  <1>4. \/ q = Idle
        \/ /\ First(n.todo) = "init_project" /\ q \in Request /\ Like(n, q) /\ q.todo # <<>>
           /\ First(q.todo) = "fresh" /\ Others(q.todo) = Others(n.todo)
    BY <1>2, <1>3, AbsentStep
  <1> HIDE DEF q
  <1>5. ASSUME q # Idle
        PROVE  Shape(q) /\ Like(r, q)
    <2>1. Like(r, q)
      BY <1>3, <1>4, <1>5 DEF Like, Kin, Loop
    <2>2. Follows(q.kind, "fresh", Others(q.todo))
      BY <1>2, <1>3, <1>4, <1>5, <2>1 DEF Follows, Final, Like, Kin
    <2>3. Plain(q.kind, q.todo)
      BY <1>4, <1>5, <2>2 DEF Plain, Request
    <2>4. q.catch \in Catches /\ (q.kind = "confirm_design" => Written(q.p, "design.md"))
      BY <1>1, <2>1 DEF Shape, Like, Kin
    <2> QED BY <1>4, <1>5, <2>1, <2>3, <2>4, PlainShape
  <1>6. q = Idle \/ (q \in Request /\ Like(r, q) /\ q.todo # <<>> /\ First(q.todo) = "fresh" /\ Shape(q))
    BY <1>4, <1>5
  <1> QED BY <1>6 DEF q, n

LEMMA RedisFailsStep ==
    ASSUME ControlInv, NEW h \in Slots, RedisFails(h)
    PROVE  LET r == handlers[h] IN
           /\ Busy(h) /\ Mark("blind", {r.p})
           /\ \E q \in {Idle} \cup Request :
                 /\ Goes(h, q)
                 /\ \/ q = Idle
                    \/ Caught(r, q)
                    \/ Like(r, q) /\ q.todo # <<>> /\ First(q.todo) = "fresh" /\ Shape(q)
                    \/ Hears(r, <<>>, Others(r.todo), q) /\ First(r.todo) = "refill_history"
  <1> DEFINE r == handlers[h]
  <1>1. /\ Busy(h) /\ Mark("blind", {r.p})
        /\ \/ Goes(h, Raised(r))
           \/ At(h, "refill") /\ Goes(h, Absent(Next_(r)))
           \/ At(h, "refill_history") /\ Goes(h, Heard(Next_(r), <<>>))
    BY DEF RedisFails, At, AtOneOf
  <1>2. r \in Request /\ Shape(r) /\ Head(r.todo) = First(r.todo)
    BY <1>1, AtStep
  <1>3. CASE Goes(h, Raised(r))
    BY <1>1, <1>2, <1>3, CaughtStep DEF Caught
  <1>4. CASE At(h, "refill") /\ Goes(h, Absent(Next_(r)))
    BY <1>1, <1>2, <1>4, NotFoundStep DEF At
  <1>5. CASE At(h, "refill_history") /\ Goes(h, Heard(Next_(r), <<>>))
    <2>0. <<>> \in Seq(Turns) /\ First(r.todo) \in {"select_history", "refill_history"}
      BY <1>1, <1>2, <1>5 DEF At
    <2>1. Hears(r, <<>>, Others(r.todo), Heard(Next_(r), <<>>))
      BY <1>1, <2>0, HeardLater
    <2> QED BY <1>1, <1>2, <1>5, <2>1 DEF Hears, At
  <1> QED BY <1>1, <1>3, <1>4, <1>5

LEMMA MySQLFailsStep ==
    ASSUME ControlInv, NEW h \in Slots, MySQLFails(h)
    PROVE  LET r == handlers[h] IN
           /\ Busy(h)
           /\ \/ /\ Mark("blind", {r.p})
                 /\ \E q \in {Idle} \cup Request :
                       /\ Goes(h, q)
                       /\ \/ q = Idle
                          \/ Like(r, q) /\ q.todo # <<>> /\ First(q.todo) = "fresh" /\ Shape(q)
                          \/ Hears(r, <<>>, Others(r.todo), q) /\ First(r.todo) = "select_history"
              \/ MarkTorn({h}, {}) /\ At(h, "persist") /\ Goes(h, Next_(r))
              \/ MarkTorn({h}, {}) /\ At(h, "persist_history") /\ Goes(h, HistorySaved(r))
  <1> DEFINE r == handlers[h]
  <1>1. /\ Busy(h)
        /\ \/ At(h, "select") /\ Goes(h, Absent(Next_(r))) /\ Mark("blind", {r.p})
           \/ At(h, "select_history") /\ Goes(h, Heard(Next_(r), <<>>)) /\ Mark("blind", {r.p})
           \/ At(h, "persist") /\ Goes(h, Next_(r)) /\ MarkTorn({h}, {})
           \/ At(h, "persist_history") /\ Goes(h, HistorySaved(r)) /\ MarkTorn({h}, {})
    BY DEF MySQLFails, At
  <1>2. r \in Request /\ Head(r.todo) = First(r.todo)
    BY <1>1, AtStep
  <1>3. CASE At(h, "select") /\ Goes(h, Absent(Next_(r))) /\ Mark("blind", {r.p})
    BY <1>1, <1>2, <1>3, NotFoundStep DEF At
  <1>4. CASE At(h, "select_history") /\ Goes(h, Heard(Next_(r), <<>>)) /\ Mark("blind", {r.p})
    <2>0. <<>> \in Seq(Turns) /\ First(r.todo) \in {"select_history", "refill_history"}
      BY <1>1, <1>2, <1>4 DEF At
    <2>1. Hears(r, <<>>, Others(r.todo), Heard(Next_(r), <<>>))
      BY <1>1, <2>0, HeardLater
    <2> QED BY <1>1, <1>2, <1>4, <2>1 DEF Hears, At
  <1> QED BY <1>1, <1>3, <1>4

LEMMA ModelsFailStep ==
    ASSUME ControlInv, NEW h \in Slots, ModelsFail(h)
    PROVE  LET r == handlers[h] IN
           /\ Busy(h)
           /\ \E q \in {Idle} \cup Request : Goes(h, q) /\ (q = Idle \/ Caught(r, q))
  <1> DEFINE r == handlers[h]
  <1>1. Busy(h) /\ Goes(h, Raised(r))
    BY DEF ModelsFail, At
  <1>2. r \in Request /\ Shape(r)
    BY <1>1, AtStep
  <1> QED BY <1>1, <1>2, CaughtStep DEF Caught

\* A new request.
LEMMA ArriveStep ==
    ASSUME ControlInv, NEW h \in Slots, Arrive(h)
    PROVE  /\ ~Busy(h) /\ requests' = requests + 1
           /\ \E q \in Request :
                 /\ Goes(h, q) /\ q.todo # <<>> /\ Shape(q) /\ First(q.todo) \in Reads
                 /\ q.agent = "none" /\ q.hist = <<>> /\ q.st = Fresh /\ q.sub = "none" /\ q.catch = <<>>
                 /\ Mark("crowded", IF \E g \in Slots : Busy(g) /\ Own(g) = q.p THEN {q.p} ELSE {})
  <1>1. PICK p \in Projects, kind \in scenario.asked[requests + 1] : \E stream \in Streams(kind), safe \in Safe(kind) :
          /\ kind = "confirm_design" => Written(p, "design.md")
          /\ Goes(h, [kind |-> kind, p |-> p, n |-> requests', stream |-> stream, safe |-> safe, todo |-> Program(kind, stream),
                      catch |-> <<>>, st |-> Fresh, hist |-> <<>>, sub |-> "none",
                      agent |-> "none", tools |-> {}, tool |-> "none", iteration |-> 0])
          /\ Mark("crowded", IF \E g \in Slots : Busy(g) /\ Own(g) = p THEN {p} ELSE {})
    BY DEF Arrive
  <1>0. PICK stream \in Streams(kind), safe \in Safe(kind) :
          /\ kind = "confirm_design" => Written(p, "design.md")
          /\ Goes(h, [kind |-> kind, p |-> p, n |-> requests', stream |-> stream, safe |-> safe, todo |-> Program(kind, stream),
                      catch |-> <<>>, st |-> Fresh, hist |-> <<>>, sub |-> "none",
                      agent |-> "none", tools |-> {}, tool |-> "none", iteration |-> 0])
          /\ Mark("crowded", IF \E g \in Slots : Busy(g) /\ Own(g) = p THEN {p} ELSE {})
    BY <1>1
  <1>2. ~Busy(h) /\ requests' = requests + 1 /\ requests < Len(scenario.asked) /\ requests \in Nat /\ requests' \in Nat
    BY DEF Arrive, ControlInv, Types
  <1>3. kind \in Kinds /\ stream \in BOOLEAN /\ safe \in BOOLEAN
    <2>1. scenario.asked \in Seq(SUBSET Kinds)
      BY Standing DEF ControlInv, Types
    <2>2. scenario.asked[requests + 1] \subseteq Kinds
      BY <1>2, <2>1
    <2>3. Streams(kind) \subseteq BOOLEAN /\ Safe(kind) \subseteq BOOLEAN
      BY DEF Streams, Safe
    <2> QED BY <2>2, <2>3
  <1> DEFINE t == Program(kind, stream)
  <1>4. t \in Todo /\ t # <<>> /\ First(t) \in Reads /\ Follows(kind, First(t), Others(t))
    BY <1>3, ProgramStep
  <1>5. <<>> \in Todo /\ <<>> \in Seq(Turns) /\ Fresh \in ProjectState
    BY Listed, FreshState
  <1> DEFINE q == [kind |-> kind, p |-> p, n |-> requests', stream |-> stream, safe |-> safe, todo |-> t,
                      catch |-> <<>>, st |-> Fresh, hist |-> <<>>, sub |-> "none",
                      agent |-> "none", tools |-> {}, tool |-> "none", iteration |-> 0]
  <1>6. Goes(h, q)
    BY <1>0
  <1> HIDE DEF t
  <1>7. q \in Request
    BY <1>2, <1>3, <1>4, <1>5 DEF Request, SubStages
  <1>8. /\ q.kind = kind /\ q.p = p /\ q.todo = t /\ q.agent = "none" /\ q.hist = <<>> /\ q.st = Fresh /\ q.sub = "none"
        /\ q.catch = <<>>
    OBVIOUS
  <1> HIDE DEF q
  <1>9. Shape(q)
    <2>1. First(t) \notin {"save_history", "persist_history"}
      BY <1>4 DEF Reads
    <2> QED BY <1>0, <1>4, <1>7, <1>8, <2>1, PlainShape DEF Plain, Catches
  <1> QED BY <1>0, <1>2, <1>4, <1>6, <1>7, <1>8, <1>9

-----------------------------------------------------------------------------
\* The control of the requests is kept by every step.

\* A step that leaves the documents and the agents' projects as they are.
LEMMA QuietStep ==
    ASSUME ControlInv, Types', NEW h \in Slots, Busy(h), NEW q \in {Idle} \cup Request, Goes(h, q),
           \A p \in Projects, f \in Documents : Written(p, f) => Written(p, f)', agents'.p = agents.p,
           q # Idle /\ q.todo # <<>> => Shape(q) /\ q.agent \in {"none", handlers[h].agent}
    PROVE  ControlInv'
  <1>1. \A a \in Agents : agents.p[a] \in Projects => agents.p'[a] \in Projects
    OBVIOUS
  <1>2. handlers[h].agent # "none" => agents.p'[handlers[h].agent] \in Projects
    BY DEF ControlInv
  <1> QED BY <1>1, <1>2, ControlStep

\* A step of nobody's.
LEMMA StillStep ==
    ASSUME ControlInv, Types', UNCHANGED <<handlers, docs>>, agents'.p = agents.p
    PROVE  ControlInv'
  <1>1. \A r : Shape(r) => Shape(r)'
    BY DEF Shape, Written
  <1>2. \A h \in Slots : Busy(h)' <=> Busy(h)
    BY DEF Busy
  <1> QED BY <1>1, <1>2 DEF ControlInv

LEMMA ControlNext == ControlInv /\ [Next]_vars => ControlInv'
  <1> SUFFICES ASSUME ControlInv, [Next]_vars
               PROVE  ControlInv'
    OBVIOUS
  <1> USE DEF store, products
  <1>0. Types
    BY DEF ControlInv
  <1>kept. UNCHANGED docs => \A p \in Projects, f \in Documents : Written(p, f) => Written(p, f)'
    BY DEF Written
  <1>1. ASSUME NEW h \in Slots, Arrive(h)
        PROVE  ControlInv'
    <2>1. PICK q \in Request :
             /\ Goes(h, q) /\ q.todo # <<>> /\ Shape(q) /\ First(q.todo) \in Reads
             /\ q.agent = "none" /\ q.hist = <<>> /\ q.st = Fresh /\ q.sub = "none" /\ q.catch = <<>>
             /\ Mark("crowded", IF \E g \in Slots : Busy(g) /\ Own(g) = q.p THEN {q.p} ELSE {})
      BY <1>1, ArriveStep
    <2>2. q.p \in Projects /\ requests' = requests + 1
      BY <1>1, ArriveStep DEF Request
    <2>3. seen' \in Marks
      BY <1>0, <2>1, <2>2, MarkStep DEF Types
    <2>4. UNCHANGED <<store, products, agents, scenario>>
      BY <1>1 DEF Arrive
    <2>5. Types'
      BY <1>0, <2>2, <2>3, <2>4 DEF Types
    <2>6. \A a \in Agents : agents.p[a] \in Projects => agents.p'[a] \in Projects
      BY <2>4
    <2> QED BY <1>kept, <2>1, <2>4, <2>5, <2>6, ControlStep
  <1>2. ASSUME NEW h \in Slots, GetProject(h)
        PROVE  ControlInv'
    <2>1. UNCHANGED <<store, products, agents, scenario, requests, troubles, seen>> /\ Types'
      BY <1>0, <1>2 DEF GetProject, Types
    <2>2. PICK q \in {Idle} \cup Request :
             /\ Goes(h, q)
             /\ q # Idle /\ q.todo # <<>> => Shape(q)
             /\ \/ q = Idle
                \/ Like(handlers[h], q)
                \/ Resumed(handlers[h], cache[handlers[h].p], q)
      BY <1>2, GetProjectStep
    <2>3. Busy(h)
      BY <1>2, GetProjectStep
    <2> QED BY <1>kept, <2>1, <2>2, <2>3, QuietStep DEF Like, Resumed, Loop
  <1>3. ASSUME NEW h \in Slots, SelectProject(h)
        PROVE  ControlInv'
    <2>1. UNCHANGED <<store, products, agents, scenario, requests, troubles, seen>> /\ Types'
      BY <1>0, <1>3 DEF SelectProject, Types
    <2>2. PICK q \in Request : Goes(h, q) /\ Shape(q) /\ Loop(handlers[h], q)
      BY <1>3, SelectProjectStep
    <2>3. Busy(h)
      BY <1>3, SelectProjectStep
    <2> QED BY <1>kept, <2>1, <2>2, <2>3, QuietStep DEF Loop
  <1>4. ASSUME NEW h \in Slots, RefillProject(h)
        PROVE  ControlInv'
    <2>1. PICK q \in {Idle} \cup Request :
             /\ Goes(h, q)
             /\ q # Idle /\ q.todo # <<>> => Shape(q)
             /\ q = Idle \/ Resumed(Next_(handlers[h]), handlers[h].st, q)
      BY <1>4, RefillProjectStep
    <2>2. Busy(h) /\ Like(handlers[h], Next_(handlers[h]))
      BY <1>4, RefillProjectStep
    <2>3. handlers[h].st \in ProjectState /\ handlers[h].p \in Projects
      BY <2>2, AtStep DEF Request
    <2>4. UNCHANGED <<hcache, stages, hrows, products, agents, scenario, requests, troubles, seen>>
          /\ cache' = [cache EXCEPT ![handlers[h].p] = handlers[h].st]
      BY <1>4 DEF RefillProject
    <2>5. Types'
      BY <1>0, <2>3, <2>4 DEF Types
    <2> QED BY <1>kept, <2>1, <2>2, <2>4, <2>5, QuietStep DEF Resumed, Like, Loop
  <1>5. ASSUME NEW h \in Slots, SaveProject(h)
        PROVE  ControlInv'
    <2>1. Busy(h) /\ handlers[h].p \in Projects
      BY <1>5, SaveProjectStep, AtStep
    <2>2. UNCHANGED <<hcache, stages, hrows, products, agents, scenario, requests, troubles, seen>>
      BY <1>5 DEF SaveProject
    <2>3. CASE Goes(h, Idle) /\ UNCHANGED cache
      <3>1. Types'
        BY <1>0, <2>2, <2>3 DEF Types
      <3> QED BY <1>kept, <2>1, <2>2, <2>3, <3>1, QuietStep
    <2>4. CASE /\ cache' = [cache EXCEPT ![handlers[h].p] = Marked(handlers[h])] /\ Marked(handlers[h]) \in ProjectState
               /\ \E q \in Request : Goes(h, q) /\ Shape(q) /\ Loop(handlers[h], q)
      <3>1. Types'
        BY <1>0, <2>1, <2>2, <2>4 DEF Types
      <3> QED BY <1>kept, <2>1, <2>2, <2>4, <3>1, QuietStep DEF Loop
    <2> QED BY <1>5, <2>3, <2>4, SaveProjectStep
  <1>6. ASSUME NEW h \in Slots, PersistProject(h)
        PROVE  ControlInv'
    <2>1. At(h, "persist") /\ Goes(h, Next_(handlers[h])) /\ stages' = [stages EXCEPT ![handlers[h].p] = save_project(handlers[h].st)]
          /\ UNCHANGED <<cache, hcache, hrows, products, agents, scenario, requests, troubles, seen>>
      BY <1>6 DEF PersistProject
    <2>2. PICK q \in Request : Goes(h, q) /\ Like(handlers[h], q) /\ (q.todo # <<>> => Shape(q))
      BY <2>1, PersistProjectStep
    <2>3. Busy(h) /\ handlers[h].p \in Projects /\ handlers[h].st \in ProjectState
      BY <2>1, AtStep DEF At, Request
    <2>4. Types'
      BY <1>0, <2>1, <2>3, SavedIsRow DEF Types
    <2> QED BY <1>kept, <2>1, <2>2, <2>3, <2>4, QuietStep DEF Like, Loop
  <1>7. ASSUME NEW h \in Slots, GetHistory(h)
        PROVE  ControlInv'
    <2>1. UNCHANGED <<store, products, agents, scenario, requests, troubles, seen>> /\ Types'
      BY <1>0, <1>7 DEF GetHistory, Types
    <2>2. PICK q \in Request : Goes(h, q) /\ (q.todo # <<>> => Shape(q)) /\ Loop(handlers[h], q)
      BY <1>7, GetHistoryStep DEF Like, Hears
    <2>3. Busy(h)
      BY <1>7, GetHistoryStep
    <2> QED BY <1>kept, <2>1, <2>2, <2>3, QuietStep DEF Loop
  <1>8. ASSUME NEW h \in Slots, SelectHistory(h)
        PROVE  ControlInv'
    <2>1. UNCHANGED <<store, products, agents, scenario, requests, troubles, seen>> /\ Types'
      BY <1>0, <1>8 DEF SelectHistory, Types
    <2>2. PICK q \in Request : Goes(h, q) /\ (q.todo # <<>> => Shape(q)) /\ Loop(handlers[h], q)
      BY <1>8, SelectHistoryStep DEF Hears
    <2>3. Busy(h)
      BY <1>8, SelectHistoryStep
    <2> QED BY <1>kept, <2>1, <2>2, <2>3, QuietStep DEF Loop
  <1>9. ASSUME NEW h \in Slots, RefillHistory(h)
        PROVE  ControlInv'
    <2>1. UNCHANGED <<cache, stages, hrows, products, agents, scenario, requests, troubles, seen>>
          /\ hcache' = [hcache EXCEPT ![handlers[h].p] = handlers[h].hist]
      BY <1>9 DEF RefillHistory
    <2>2. PICK q \in Request : Goes(h, q) /\ (q.todo # <<>> => Shape(q)) /\ Loop(handlers[h], q)
      BY <1>9, RefillHistoryStep DEF Hears
    <2>3. Busy(h) /\ handlers[h].hist \in Seq(Turns) /\ handlers[h].p \in Projects
      BY <1>9, RefillHistoryStep, AtStep
    <2>4. Types'
      BY <1>0, <2>1, <2>3 DEF Types
    <2> QED BY <1>kept, <2>1, <2>2, <2>3, <2>4, QuietStep DEF Loop
  <1>10. ASSUME NEW h \in Slots, SaveHistory(h)
        PROVE  ControlInv'
    <2>1. Busy(h) /\ handlers[h].p \in Projects
      BY <1>10, SaveHistoryStep, AtStep
    <2>2. UNCHANGED <<cache, stages, hrows, products, agents, scenario, requests, troubles, seen>>
      BY <1>10 DEF SaveHistory
    <2>3. CASE Goes(h, Idle) /\ UNCHANGED hcache
      <3>1. Types'
        BY <1>0, <2>2, <2>3 DEF Types
      <3> QED BY <1>kept, <2>1, <2>2, <2>3, <3>1, QuietStep
    <2>4. CASE /\ Messages(handlers[h]) \in Seq(Turns) /\ hcache' = [hcache EXCEPT ![handlers[h].p] = Messages(handlers[h])]
               /\ \E q \in Request : Goes(h, q) /\ Shape(q) /\ Loop(handlers[h], q)
      <3>1. Types'
        BY <1>0, <2>1, <2>2, <2>4 DEF Types
      <3> QED BY <1>kept, <2>1, <2>2, <2>4, <3>1, QuietStep DEF Loop
    <2> QED BY <1>10, <2>3, <2>4, SaveHistoryStep
  <1>11. ASSUME NEW h \in Slots, PersistHistory(h)
        PROVE  ControlInv'
    <2>1. At(h, "persist_history") /\ Goes(h, HistorySaved(handlers[h])) /\ hrows' = [hrows EXCEPT ![handlers[h].p] = handlers[h].hist]
          /\ UNCHANGED <<cache, hcache, stages, products, agents, scenario, requests, troubles, seen>>
      BY <1>11 DEF PersistHistory
    <2>2. PICK q \in Request : Goes(h, q) /\ q.agent = "none" /\ (q.todo # <<>> => Shape(q))
      BY <2>1, PersistHistoryStep
    <2>3. Busy(h) /\ handlers[h].p \in Projects /\ handlers[h].hist \in Seq(Turns)
      BY <2>1, AtStep DEF At, Request
    <2>4. Types'
      BY <1>0, <2>1, <2>3 DEF Types
    <2> QED BY <1>kept, <2>1, <2>2, <2>3, <2>4, QuietStep
  <1>12. ASSUME NEW h \in Slots, Background(h)
        PROVE  ControlInv'
    <2>1. UNCHANGED <<store, products, agents, scenario, requests, troubles, seen>> /\ Types'
      BY <1>0, <1>12 DEF Background, Types
    <2>2. PICK q \in Request : Goes(h, q) /\ (q.todo # <<>> => Shape(q)) /\ Loop(handlers[h], q)
      BY <1>12, BackgroundStep
    <2>3. Busy(h)
      BY <1>12, BackgroundStep
    <2> QED BY <1>kept, <2>1, <2>2, <2>3, QuietStep DEF Loop
  <1>13. ASSUME NEW h \in Slots, TriggerPm(h)
        PROVE  ControlInv'
    <2>1. UNCHANGED <<store, products, agents, scenario, requests, troubles, seen>> /\ Types'
      BY <1>0, <1>13 DEF TriggerPm, Types
    <2>2. PICK q \in {Idle} \cup Request : Goes(h, q) /\ (q = Idle \/ (Loop(handlers[h], q) /\ (q.todo # <<>> => Shape(q))))
      BY <1>13, TriggerPmStep
    <2>3. Busy(h)
      BY <1>13, TriggerPmStep
    <2> QED BY <1>kept, <2>1, <2>2, <2>3, QuietStep DEF Loop
  <1>14. ASSUME NEW h \in Slots, CallAgent(h)
        PROVE  ControlInv'
    <2> DEFINE r == handlers[h]
               agent == AgentOf(First(r.todo))
    <2>1. /\ Busy(h) /\ agent \in Agents /\ CalledSub(r) \in SubStages
          /\ agents' = [agents EXCEPT !.p = [agents.p EXCEPT ![agent] = r.p],
                                      !.sub = IF agent = "requirement" THEN CalledSub(r) ELSE @]
      BY <1>14, CallAgentStep
    <2>2. PICK q \in Request : Goes(h, q) /\ (q.todo # <<>> => Shape(q)) /\ q.agent \in {agent, "none"}
      BY <1>14, CallAgentStep
    <2>3. r.p \in Projects
      BY <2>1, AtStep
    <2>4. UNCHANGED <<store, products, scenario, requests, troubles>>
      BY <1>14 DEF CallAgent
    <2>5. \E ps \in SUBSET Projects : Mark("mixed", ps)
      <3> DEFINE others == {Own(g) : g \in {i \in Slots \ {h} : Running(i, agent)}} \ {r.p}
      <3>1. others \subseteq Projects
        BY AtStep DEF Running
      <3>2. Mark("mixed", IF others = {} THEN {} ELSE others \cup {r.p})
        <4>1. Head(r.todo) = First(r.todo)
          BY DEF First
        <4> QED BY <1>14, <4>1 DEF CallAgent
      <3> HIDE DEF others
      <3> QED BY <2>3, <3>1, <3>2
    <2>6. seen' \in Marks
      BY <1>0, <2>5, MarkStep DEF Types
    <2> HIDE DEF agent
    <2>7. agents' \in [p : [Agents -> Projects \cup {"none"}], sub : SubStages, result : {NoResult} \cup Seq(Turns)]
          /\ agents'.p = [agents.p EXCEPT ![agent] = r.p] /\ agents.p \in [Agents -> Projects \cup {"none"}]
      BY <1>0, <2>1, <2>3 DEF Types
    <2>8. Types'
      BY <1>0, <2>4, <2>6, <2>7 DEF Types
    <2>9. /\ \A a \in Agents : agents.p[a] \in Projects => agents.p'[a] \in Projects
          /\ agents.p'[agent] \in Projects
      BY <2>1, <2>3, <2>7
    <2> QED BY <1>kept, <2>1, <2>2, <2>4, <2>8, <2>9, ControlStep
  <1>15. ASSUME NEW h \in Slots, BeginStream(h)
        PROVE  ControlInv'
    <2>1. UNCHANGED <<store, products, agents, scenario, requests, troubles>>
          /\ Mark("refused", IF handlers[h].safe THEN {} ELSE {handlers[h].p})
      BY <1>15 DEF BeginStream
    <2>2. PICK q \in Request : Goes(h, q) /\ Shape(q) /\ q.agent \in {"none", handlers[h].agent}
      BY <1>15, BeginStreamStep DEF GoesOnTo, Ends
    <2>3. Busy(h) /\ handlers[h].p \in Projects
      BY <1>15, BeginStreamStep, AtStep
    <2>4. seen' \in Marks
      BY <1>0, <2>1, <2>3, MarkStep DEF Types
    <2>5. Types'
      BY <1>0, <2>1, <2>4 DEF Types
    <2> QED BY <1>kept, <2>1, <2>2, <2>3, <2>5, QuietStep
  <1>16. ASSUME NEW h \in Slots, AnswerText(h)
        PROVE  ControlInv'
    <2>1. UNCHANGED <<store, products, agents, scenario, requests, troubles, seen>> /\ Types'
      BY <1>0, <1>16 DEF AnswerText, Types
    <2>2. PICK q \in Request : Goes(h, q) /\ Shape(q) /\ q.agent \in {"none", handlers[h].agent}
      BY <1>16, AnswerTextStep DEF GoesOnTo, Ends
    <2>3. Busy(h)
      BY <1>16, AnswerTextStep
    <2> QED BY <1>kept, <2>1, <2>2, <2>3, QuietStep
  <1>executes. ASSUME NEW h \in Slots, Busy(h), First(handlers[h].todo) \in InCall,
                      NEW tool \in ToolsOf(handlers[h].agent), NEW sub \in SubsAfter(tool),
                      ExecutesTool(handlers[h], tool, sub), UNCHANGED <<store, scenario, requests>>
               PROVE  Types' /\ agents'.p = agents.p /\ \A p \in Projects, f \in Documents : Written(p, f) => Written(p, f)'
    <2> DEFINE r == handlers[h]
    <2>1. r \in Request /\ r.agent \in Agents /\ agents.p[r.agent] \in Projects
      BY <1>executes, InCallStep
    <2>2. /\ docs' \in [Projects -> [Documents -> Projects \cup {"none"}]]
          /\ \A p \in Projects, f \in Documents : Written(p, f) => Written(p, f)'
          /\ unsaved' \subseteq [p : Projects, table : Tables, turn : Turns]
          /\ agents'.p = agents.p
          /\ agents' \in [p : [Agents -> Projects \cup {"none"}], sub : SubStages, result : {NoResult} \cup Seq(Turns)]
          /\ seen' \in Marks /\ UNCHANGED tables
      BY <1>0, <1>executes, <2>1, ExecutesStep
    <2>3. Types'
      BY <1>0, <1>executes, <2>2 DEF Types
    <2> QED BY <2>2, <2>3
  <1>17. ASSUME NEW h \in Slots, AnswerTool(h)
        PROVE  ControlInv'
    <2>1. UNCHANGED <<store, scenario, requests>>
      BY <1>17 DEF AnswerTool
    <2>2. Busy(h) /\ First(handlers[h].todo) = "answer"
      BY <1>17, AnswerToolStep
    <2>3. PICK tool \in ToolsOf(handlers[h].agent), q \in Request :
             /\ Goes(h, q) /\ Shape(q) /\ q.agent \in {"none", handlers[h].agent}
             /\ UNCHANGED <<products, agents, seen>> \/ \E sub \in SubsAfter(tool) : ExecutesTool(handlers[h], tool, sub)
      BY <1>17, AnswerToolStep DEF GoesOnTo, Ends
    <2>4. CASE UNCHANGED <<products, agents, seen>>
      <3>1. Types'
        BY <1>0, <2>1, <2>4 DEF Types
      <3> QED BY <1>kept, <2>2, <2>3, <2>4, <3>1, QuietStep
    <2>5. CASE \E sub \in SubsAfter(tool) : ExecutesTool(handlers[h], tool, sub)
      <3>1. Types' /\ agents'.p = agents.p /\ \A p \in Projects, f \in Documents : Written(p, f) => Written(p, f)'
        BY <1>executes, <2>1, <2>2, <2>5 DEF InCall
      <3> QED BY <2>2, <2>3, <3>1, QuietStep
    <2> QED BY <2>3, <2>4, <2>5
  <1>18. ASSUME NEW h \in Slots, ExecuteTool(h)
        PROVE  ControlInv'
    <2>1. UNCHANGED <<store, scenario, requests>>
      BY <1>18 DEF ExecuteTool
    <2>2. Busy(h) /\ First(handlers[h].todo) = "tool" /\ handlers[h].tool \in ToolsOf(handlers[h].agent)
          /\ \E sub \in SubsAfter(handlers[h].tool) : ExecutesTool(handlers[h], handlers[h].tool, sub)
      BY <1>18, ExecuteToolStep
    <2>3. PICK q \in Request : Goes(h, q) /\ Shape(q) /\ q.agent \in {"none", handlers[h].agent}
      BY <1>18, ExecuteToolStep DEF GoesOnTo
    <2>4. Types' /\ agents'.p = agents.p /\ \A p \in Projects, f \in Documents : Written(p, f) => Written(p, f)'
      BY <1>executes, <2>1, <2>2 DEF InCall
    <2> QED BY <2>2, <2>3, <2>4, QuietStep
  <1>19. ASSUME NEW h \in Slots, Publish(h)
        PROVE  ControlInv'
    <2> DEFINE r == handlers[h]
    <2>1. Busy(h) /\ r.agent \in Agents
          /\ agents' = [agents EXCEPT !.result = IF r.agent = "requirement" THEN r.hist ELSE @]
      BY <1>19, PublishStep
    <2>2. UNCHANGED <<store, products, scenario, requests, troubles, seen>>
      BY <1>19 DEF Publish
    <2>3. PICK q \in Request : Goes(h, q) /\ Shape(q) /\ q.agent \in {"none", r.agent}
      BY <1>19, PublishStep
    <2>4. r.hist \in Seq(Turns)
      BY <2>1, AtStep DEF Request
    <2>5. Types' /\ agents'.p = agents.p
      BY <1>0, <2>1, <2>2, <2>4 DEF Types
    <2> QED BY <1>kept, <2>1, <2>2, <2>3, <2>5, QuietStep
  <1>20. ASSUME NEW h \in Slots, ServerError(h)
        PROVE  ControlInv'
    <2>1. UNCHANGED <<store, products, agents, scenario, requests, troubles, seen>> /\ Types'
      BY <1>0, <1>20 DEF ServerError, Types
    <2>2. Busy(h) /\ Goes(h, Idle)
      BY <1>20, ServerErrorStep
    <2> QED BY <1>kept, <2>1, <2>2, QuietStep
  <1>marked. ASSUME seen' \in Marks, UNCHANGED <<store, products, agents, scenario, requests>>
             PROVE  Types'
    BY <1>0, <1>marked DEF Types
  <1>21. ASSUME NEW h \in Slots, RedisFails(h)
        PROVE  ControlInv'
    <2>1. UNCHANGED <<store, products, agents, scenario, requests>>
      BY <1>21 DEF RedisFails
    <2>2. Busy(h) /\ Mark("blind", {handlers[h].p})
      BY <1>21, RedisFailsStep
    <2>3. PICK q \in {Idle} \cup Request :
             Goes(h, q) /\ (q = Idle \/ ((q.todo # <<>> => Shape(q)) /\ q.agent \in {"none", handlers[h].agent}))
      BY <1>21, RedisFailsStep DEF Caught, Like, Hears, Loop
    <2>4. {handlers[h].p} \subseteq Projects
      BY <2>2, AtStep
    <2>5. Types'
      BY <1>0, <1>marked, <2>1, <2>2, <2>4, MarkStep DEF Types
    <2> QED BY <1>kept, <2>1, <2>2, <2>3, <2>5, QuietStep
  <1>22. ASSUME NEW h \in Slots, MySQLFails(h)
        PROVE  ControlInv'
    <2>1. UNCHANGED <<store, products, agents, scenario, requests>>
      BY <1>22 DEF MySQLFails
    <2>2. Busy(h) /\ {handlers[h].p} \subseteq Projects
      BY <1>22, MySQLFailsStep, AtStep
    <2>3. Mark("blind", {handlers[h].p}) \/ MarkTorn({h}, {})
      BY <1>22, MySQLFailsStep
    <2>4. seen' \in Marks
      <3>1. CASE Mark("blind", {handlers[h].p})
        BY <1>0, <2>2, <3>1, MarkStep DEF Types
      <3>2. CASE MarkTorn({h}, {})
        <4>1. {h} \in SUBSET Slots /\ {} \in SUBSET Projects
          OBVIOUS
        <4> QED BY <3>2, <4>1, MarkTornStep
      <3> QED BY <2>3, <3>1, <3>2
    <2>6. \E q \in {Idle} \cup Request :
             Goes(h, q) /\ (q = Idle \/ ((q.todo # <<>> => Shape(q)) /\ q.agent \in {"none", handlers[h].agent}))
      <3>1. CASE \E q \in {Idle} \cup Request :
                    /\ Goes(h, q)
                    /\ \/ q = Idle
                       \/ Like(handlers[h], q) /\ q.todo # <<>> /\ First(q.todo) = "fresh" /\ Shape(q)
                       \/ Hears(handlers[h], <<>>, Others(handlers[h].todo), q)
        BY <3>1 DEF Like, Hears, Loop
      <3>2. CASE At(h, "persist") /\ Goes(h, Next_(handlers[h]))
        BY <3>2, PersistProjectStep DEF Like, Loop
      <3>3. CASE At(h, "persist_history") /\ Goes(h, HistorySaved(handlers[h]))
        BY <3>3, PersistHistoryStep
      <3> QED BY <1>22, <3>1, <3>2, <3>3, MySQLFailsStep
    <2>5. Types'
      BY <1>marked, <2>1, <2>4
    <2> QED BY <1>kept, <2>1, <2>2, <2>5, <2>6, QuietStep
  <1>23. ASSUME NEW h \in Slots, ModelsFail(h)
        PROVE  ControlInv'
    <2>1. UNCHANGED <<store, products, agents, scenario, requests, seen>>
      BY <1>23 DEF ModelsFail
    <2>2. Busy(h)
      BY <1>23, ModelsFailStep
    <2>3. PICK q \in {Idle} \cup Request : Goes(h, q) /\ (q = Idle \/ Caught(handlers[h], q))
      BY <1>23, ModelsFailStep
    <2>4. Types'
      BY <1>0, <1>marked, <2>1 DEF Types
    <2> QED BY <1>kept, <2>1, <2>2, <2>3, <2>4, QuietStep DEF Caught
  <1>24. ASSUME NEW h \in Slots, Disconnect(h)
        PROVE  ControlInv'
    <2>1. UNCHANGED <<store, products, agents, scenario, requests>> /\ Busy(h) /\ Goes(h, Idle) /\ MarkTorn({h}, {})
      BY <1>24 DEF Disconnect
    <2>2. seen' \in Marks
      BY <2>1, MarkTornStep
    <2> QED BY <1>kept, <1>marked, <2>1, <2>2, QuietStep
  <1>25. ASSUME Land \/ LoseWrite
        PROVE  ControlInv'
    <2>1. PICK w \in unsaved : unsaved' = unsaved \ {w}
      BY <1>25 DEF Land, LoseWrite
    <2>2. w \in [p : Projects, table : Tables, turn : Turns]
      BY <1>0 DEF Types
    <2>3. UNCHANGED <<store, docs, agents, handlers, scenario, requests>>
      BY <1>25 DEF Land, LoseWrite
    <2>4. tables' \in [Projects -> [Tables -> Turns \cup {NoTurn}]]
      <3>1. CASE Land
        <4>1. PICK v \in unsaved : tables' = [tables EXCEPT ![v.p] = [tables[v.p] EXCEPT ![v.table] = v.turn]]
          BY <3>1 DEF Land
        <4>2. v.p \in Projects /\ v.table \in Tables /\ v.turn \in Turns /\ tables[v.p] \in [Tables -> Turns \cup {NoTurn}]
          BY <1>0 DEF Types
        <4> DEFINE row == [tables[v.p] EXCEPT ![v.table] = v.turn]
        <4>3. row \in [Tables -> Turns \cup {NoTurn}] /\ tables' = [tables EXCEPT ![v.p] = row]
          BY <4>1, <4>2
        <4> HIDE DEF row
        <4> QED BY <1>0, <4>2, <4>3 DEF Types
      <3>2. CASE LoseWrite
        BY <1>0, <3>2 DEF LoseWrite, Types
      <3> QED BY <1>25, <3>1, <3>2
    <2>5. seen' \in Marks
      <3>1. CASE Land
        BY <1>0, <3>1 DEF Land, Types
      <3>2. CASE LoseWrite
        <4>1. PICK v \in unsaved : Mark("torn", {v.p})
          BY <3>2 DEF LoseWrite
        <4>2. {v.p} \subseteq Projects
          BY <1>0 DEF Types
        <4> QED BY <1>0, <4>1, <4>2, MarkStep DEF Types
      <3> QED BY <1>25, <3>1, <3>2
    <2>6. Types'
      BY <1>0, <2>1, <2>3, <2>4, <2>5 DEF Types
    <2> QED BY <2>3, <2>6, StillStep
  <1>26. ASSUME Expire
        PROVE  ControlInv'
    <2>1. UNCHANGED <<stages, hrows, products, agents, handlers, scenario, requests, seen>>
      BY <1>26 DEF Expire
    <2>2. cache' \in [Projects -> {Nil} \cup ProjectState] /\ hcache' \in [Projects -> {Nil} \cup Seq(Turns)]
      <3>1. PICK p \in Projects : \/ cache' = [cache EXCEPT ![p] = Nil] /\ UNCHANGED hcache
                                  \/ hcache' = [hcache EXCEPT ![p] = Nil] /\ UNCHANGED cache
        BY <1>26 DEF Expire
      <3> QED BY <1>0, <3>1 DEF Types
    <2>3. Types'
      BY <1>0, <2>1, <2>2 DEF Types
    <2> QED BY <2>1, <2>3, StillStep
  <1>27. ASSUME Restart
        PROVE  ControlInv'
    <2>1. /\ handlers' = [h \in Slots |-> Idle] /\ unsaved' = {} /\ UNCHANGED <<store, docs, tables, scenario, requests>>
          /\ agents' = [p |-> [a \in DOMAIN agents.p |-> "none"], sub |-> "clarifying", result |-> NoResult]
          /\ MarkTorn(Slots, {w.p : w \in unsaved})
      BY <1>27 DEF Restart
    <2>2. {w.p : w \in unsaved} \subseteq Projects
      BY <1>0 DEF Types
    <2>3. seen' \in Marks
      BY <2>1, <2>2, MarkTornStep
    <2>4. agents' \in [p : [Agents -> Projects \cup {"none"}], sub : SubStages, result : {NoResult} \cup Seq(Turns)]
      BY <1>0, <2>1 DEF Types, SubStages
    <2>5. Types'
      BY <1>0, <2>1, <2>3, <2>4 DEF Types
    <2> QED BY <2>1, <2>5 DEF ControlInv, Busy
  <1>28. ASSUME UNCHANGED vars
        PROVE  ControlInv'
    BY <1>28 DEF vars, ControlInv, Types, Busy, Shape, Written
  <1> HIDE DEF store, products
  <1> QED
    BY <1>1, <1>2, <1>3, <1>4, <1>5, <1>6, <1>7, <1>8, <1>9, <1>10, <1>11, <1>12, <1>13, <1>14, <1>15, <1>16,
       <1>17, <1>18, <1>19, <1>20, <1>21, <1>22, <1>23, <1>24, <1>25, <1>26, <1>27, <1>28 DEF Next, Runs

LEMMA InitControl == Init => ControlInv
  <1> SUFFICES ASSUME Init
               PROVE  ControlInv
    OBVIOUS
  <1>1. PICK s \in Scenarios :
        /\ scenario = s
        /\ stages = [p \in Projects |-> s.row]
        /\ hrows = [p \in Projects |-> IF s.row.sub = "none" THEN <<>> ELSE <<[p |-> p, n |-> 0]>>]
        /\ cache = [p \in Projects |-> Nil]
        /\ hcache = [p \in Projects |-> Nil]
        /\ docs = [p \in Projects |-> [f \in Documents |-> IF f \in s.docs THEN p ELSE "none"]]
        /\ tables = [p \in Projects |-> [t \in Tables |-> IF t \in s.tables THEN [p |-> p, n |-> 0] ELSE NoTurn]]
        /\ unsaved = {}
        /\ agents = [p |-> [a \in {"requirement", "design", "pm"} |-> "none"], sub |-> "clarifying", result |-> NoResult]
        /\ handlers = [h \in Slots |-> Idle]
        /\ requests = 0
        /\ seen = [crowded |-> {}, mixed |-> {}, refused |-> {}, torn |-> {}, over |-> {}, blind |-> {},
                   halved |-> IF Plan \cap s.tables \in {{}, Plan} THEN {} ELSE Projects]
    BY DEF Init
  <1>2. cache \in [Projects -> {Nil} \cup ProjectState] /\ hcache \in [Projects -> {Nil} \cup Seq(Turns)]
    BY <1>1
  <1>3. stages \in [Projects -> Row]
    BY <1>1, Standing
  <1>4. hrows \in [Projects -> Seq(Turns)]
    <2>1. ASSUME NEW p \in Projects
          PROVE  <<>> \in Seq(Turns) /\ <<[p |-> p, n |-> 0]>> \in Seq(Turns)
      BY DEF Turns
    <2> QED BY <1>1, <2>1
  <1>5. docs \in [Projects -> [Documents -> Projects \cup {"none"}]]
    BY <1>1
  <1>6. tables \in [Projects -> [Tables -> Turns \cup {NoTurn}]]
    BY <1>1 DEF Turns
  <1>7. agents \in [p : [Agents -> Projects \cup {"none"}], sub : SubStages, result : {NoResult} \cup Seq(Turns)]
    BY <1>1 DEF Agents, SubStages
  <1>8. seen \in Marks
    BY <1>1 DEF Marks
  <1>9. Types
    BY <1>1, <1>2, <1>3, <1>4, <1>5, <1>6, <1>7, <1>8 DEF Types
  <1> QED BY <1>1, <1>9 DEF ControlInv, Busy

\* What a request can still have to do is a rest of its program, in every reachable state.
THEOREM ControlInvariant == Spec => []ControlInv
  BY InitControl, ControlNext, PTL DEF Spec

\* Every variable keeps its type.
THEOREM TypesAreKept == Spec => []TypeOK
  <1>1. ControlInv => TypeOK
    <2> SUFFICES ASSUME ControlInv
                 PROVE  TypeOK
      OBVIOUS
    <2>1. Types
      BY DEF ControlInv
    <2>2. \A history \in Seq(Turns) : ToSet(history) \subseteq Turns
      BY DEF ToSet
    <2>3. \A p \in Projects : (hcache[p] = Nil \/ ToSet(hcache[p]) \subseteq Turns) /\ ToSet(hrows[p]) \subseteq Turns
      BY <2>1, <2>2 DEF Types
    <2>4. \A h \in Slots : Busy(h) => handlers[h].st \in ProjectState /\ handlers[h].sub \in SubStages
      BY AtStep DEF Request
    <2> QED BY <2>1, <2>3, <2>4 DEF TypeOK, Types
  <1> QED BY <1>1, ControlInvariant, PTL

-----------------------------------------------------------------------------
\* Whose the agents, the documents and the rows are.

\* A step of a request that calls no agent.
LEMMA OwnerAgents ==
    ASSUME ControlInv, OwnerInv, NEW h \in Slots, NEW q \in {Idle} \cup Request, Goes(h, q),
           q # Idle => (q.agent # "none" => Busy(h) /\ q.p = Own(h) /\ q.agent = handlers[h].agent),
           agents'.p = agents.p, seen.mixed \subseteq seen'.mixed
    PROVE  AgentsOwn' /\ PairsMixed'
  <1>1. /\ handlers' \in [Slots -> {Idle} \cup Request]
        /\ \A g \in Slots : g # h => handlers'[g] = handlers[g]
        /\ Busy(h)' => handlers'[h] = q /\ q \in Request /\ q.todo # <<>>
    BY GoesTo DEF ControlInv
  <1>2. \A g \in Slots : Busy(g)' /\ handlers'[g].agent # "none" =>
                            Busy(g) /\ Own(g)' = Own(g) /\ handlers'[g].agent = handlers[g].agent
    <2>1. \A g \in Slots : g # h => (Busy(g)' <=> Busy(g)) /\ Own(g)' = Own(g)
      BY <1>1 DEF Busy, Own
    <2>2. Busy(h)' => Own(h)' = q.p /\ q # Idle
      BY <1>1 DEF Busy, Own, Idle
    <2> QED BY <1>1, <2>1, <2>2
  <1>3. \A p, r : Mixed(p, r) => Mixed(p, r)'
    BY DEF Mixed
  <1>4. AgentsOwn'
    BY <1>2, <1>3 DEF AgentsOwn, OwnerInv
  <1>5. PairsMixed'
    BY <1>2, <1>3 DEF PairsMixed, OwnerInv
  <1> QED BY <1>4, <1>5

\* It leaves the products alone as well.
LEMMA OwnerStep ==
    ASSUME ControlInv, OwnerInv, NEW h \in Slots, NEW q \in {Idle} \cup Request, Goes(h, q),
           q # Idle => (q.agent # "none" => Busy(h) /\ q.p = Own(h) /\ q.agent = handlers[h].agent),
           UNCHANGED products, agents'.p = agents.p, seen.mixed \subseteq seen'.mixed
    PROVE  OwnerInv'
  <1>1. AgentsOwn' /\ PairsMixed'
    BY OwnerAgents
  <1>2. UnsavedOwn'
    BY DEF UnsavedOwn, OwnerInv, products, Mixed
  <1>3. ProductsOwn'
    BY DEF ProductsOwn, OwnerInv, products
  <1> QED BY <1>1, <1>2, <1>3 DEF OwnerInv

\* Who is at the agent, and whose it is, when it is called for r's project.
LEMMA OwnerCall ==
    ASSUME ControlInv, OwnerInv, NEW h \in Slots, CallAgent(h)
    PROVE  OwnerInv'
  <1> DEFINE r == handlers[h]
             agent == AgentOf(First(r.todo))
             others == {Own(g) : g \in {i \in Slots \ {h} : Running(i, agent)}} \ {r.p}
  <1>1. /\ Busy(h) /\ agent \in Agents
        /\ agents' = [agents EXCEPT !.p = [agents.p EXCEPT ![agent] = r.p],
                                    !.sub = IF agent = "requirement" THEN CalledSub(r) ELSE @]
    BY CallAgentStep
  <1>2. PICK q \in Request : Goes(h, q) /\ Kin(r, q) /\ q.agent \in {agent, "none"}
    BY CallAgentStep
  <1>3. r.p \in Projects /\ Own(h) = r.p /\ UNCHANGED products
    BY <1>1, AtStep DEF CallAgent
  <1>p. PICK p : p = r.p
    OBVIOUS
  <1>4. Mark("mixed", IF others = {} THEN {} ELSE others \cup {r.p})
    <2>1. Head(r.todo) = First(r.todo)
      BY DEF First
    <2> QED BY <2>1 DEF CallAgent
  <1>5. others \subseteq Projects
    BY AtStep DEF Running
  <1>6. seen'.mixed = seen.mixed \cup (IF others = {} THEN {} ELSE others \cup {r.p})
    <2> DEFINE ps == IF others = {} THEN {} ELSE others \cup {r.p}
    <2>1. ps \in SUBSET Projects /\ Mark("mixed", ps) /\ seen \in Marks
      BY <1>3, <1>4, <1>5 DEF ControlInv, Types
    <2> HIDE DEF ps
    <2>2. seen'["mixed"] = seen["mixed"] \cup ps
      BY <2>1, MarkStep
    <2> USE DEF ps
    <2> QED BY <2>2
  <1>7. \A g \in Slots : g # h /\ Running(g, agent) => Mixed(Own(g), p)'
    <2> SUFFICES ASSUME NEW g \in Slots, g # h, Running(g, agent)
                 PROVE  Mixed(Own(g), p)'
      OBVIOUS
    <2>1. Own(g)' = Own(g)
      <3>1. handlers'[g] = handlers[g]
        BY <1>2, GoesTo DEF ControlInv
      <3> QED BY <3>1 DEF Own
    <2>2. CASE Own(g) = p
      BY <2>1, <2>2 DEF Mixed
    <2>3. CASE Own(g) # p
      <3>1. Own(g) \in others
        BY <1>p, <2>3
      <3> HIDE DEF others
      <3>2. {Own(g), p} \subseteq seen'.mixed
        BY <1>p, <1>6, <3>1
      <3> QED BY <2>1, <3>2 DEF Mixed
    <2> QED BY <2>2, <2>3
  <1> HIDE DEF others
  <1>8. seen.mixed \subseteq seen'.mixed
    BY <1>6
  <1>9. /\ handlers' \in [Slots -> {Idle} \cup Request]
        /\ \A g \in Slots : g # h => handlers'[g] = handlers[g]
        /\ Busy(h)' => handlers'[h] = q /\ q.todo # <<>>
    BY <1>2, GoesTo DEF ControlInv
  <1>10. agents'.p = [agents.p EXCEPT ![agent] = r.p] /\ agents.p \in [Agents -> Projects \cup {"none"}]
    BY <1>1 DEF ControlInv, Types
  <1> HIDE DEF agent
  <1>11. \A a, b : Mixed(a, b) => Mixed(a, b)'
    BY <1>8 DEF Mixed
  <1>12. \A g \in Slots : g # h => (Busy(g)' <=> Busy(g)) /\ Own(g)' = Own(g)
    BY <1>9 DEF Busy, Own
  <1>13. Busy(h)' => Own(h)' = p /\ handlers'[h].agent \in {agent, "none"}
    BY <1>p, <1>2, <1>9 DEF Own, Kin
  <1>14. AgentsOwn'
    <2> SUFFICES ASSUME NEW g \in Slots, Busy(g)', handlers'[g].agent # "none"
                 PROVE  Mixed(Own(g), agents.p[handlers[g].agent])'
      BY DEF AgentsOwn
    <2>1. CASE g = h
      BY <1>p, <1>1, <1>3, <1>10, <1>13, <2>1 DEF Mixed
    <2>2. CASE g # h
      <3>1. Busy(g) /\ handlers'[g] = handlers[g] /\ Own(g)' = Own(g) /\ handlers[g].agent \in Agents
        BY <1>9, <1>12, <2>2, AtStep DEF Request
      <3>2. CASE handlers[g].agent = agent
        <4>1. agents'.p[agent] = p
          BY <1>p, <1>1, <1>10
        <4>2. Mixed(Own(g), p)'
          BY <1>7, <2>2, <3>1, <3>2 DEF Running
        <4>3. agents'.p[handlers'[g].agent] = p
          BY <3>1, <3>2, <4>1
        <4> QED BY <4>2, <4>3 DEF Mixed
      <3>3. CASE handlers[g].agent # agent
        <4>1. agents'.p[handlers[g].agent] = agents.p[handlers[g].agent]
          BY <1>10, <3>1, <3>3
        <4>2. Mixed(Own(g), agents.p[handlers[g].agent])
          BY <3>1 DEF OwnerInv, AgentsOwn
        <4> QED BY <1>8, <3>1, <4>1, <4>2 DEF Mixed
      <3> QED BY <3>2, <3>3
    <2> QED BY <2>1, <2>2
  <1>15. PairsMixed'
    <2> SUFFICES ASSUME NEW g \in Slots, NEW i \in Slots, Busy(g)', Busy(i)', handlers'[g].agent # "none",
                        handlers'[g].agent = handlers'[i].agent
                 PROVE  Own(g)' = Own(i)' \/ {Own(g)', Own(i)'} \subseteq seen'.mixed
      BY DEF PairsMixed, Mixed
    <2>1. ASSUME NEW k \in Slots, k # h, Busy(k)', handlers'[k].agent = handlers'[h].agent, handlers'[k].agent # "none", Busy(h)'
          PROVE  Own(k)' = p \/ {Own(k)', p} \subseteq seen'.mixed
      <3>1. Busy(k) /\ handlers'[k] = handlers[k] /\ handlers[k].agent = agent
        BY <1>9, <1>12, <1>13, <2>1
      <3>2. Mixed(Own(k), p)'
        BY <1>7, <2>1, <3>1 DEF Running
      <3> QED BY <3>2 DEF Mixed
    <2>2. CASE g = h \/ i = h
      BY <1>13, <2>1, <2>2
    <2>3. CASE g # h /\ i # h
      <3>1. Busy(g) /\ Busy(i) /\ handlers'[g] = handlers[g] /\ handlers'[i] = handlers[i]
            /\ Own(g)' = Own(g) /\ Own(i)' = Own(i)
        BY <1>9, <1>12, <2>3
      <3>2. Mixed(Own(g), Own(i))
        BY <3>1 DEF OwnerInv, PairsMixed
      <3> QED BY <1>8, <3>1, <3>2 DEF Mixed
    <2> QED BY <2>2, <2>3
  <1>16. UnsavedOwn'
    BY <1>3, <1>11 DEF UnsavedOwn, OwnerInv, products
  <1>17. ProductsOwn'
    BY <1>3, <1>8 DEF ProductsOwn, OwnerInv, products
  <1> QED BY <1>14, <1>15, <1>16, <1>17 DEF OwnerInv

LEMMA OwnerExecutes ==
    ASSUME ControlInv, OwnerInv, NEW h \in Slots, Busy(h), First(handlers[h].todo) \in InCall,
           NEW tool \in ToolsOf(handlers[h].agent), NEW sub \in SubsAfter(tool), ExecutesTool(handlers[h], tool, sub),
           NEW q \in Request, Goes(h, q), Kin(handlers[h], q), q.agent \in {"none", handlers[h].agent}
    PROVE  OwnerInv'
  <1> DEFINE r == handlers[h]
  <1>p. PICK a, s, t : a = agents.p[r.agent] /\ s = r.p /\ t = Turn(r)
    OBVIOUS
  <1>1. r \in Request /\ r.p \in Projects /\ r.agent \in Agents /\ agents.p[r.agent] \in Projects /\ Types
    BY InCallStep DEF ControlInv
  <1>2. /\ docs' = docs \/ \E f \in Documents : docs' = [docs EXCEPT ![a] = [docs[a] EXCEPT ![f] = s]]
        /\ \E lists \in SUBSET Tables : FiresOff(r, lists)
        /\ agents'.p = agents.p /\ UNCHANGED tables
    BY <1>p, <1>1, ExecutesStep
  <1>3. PICK lists \in SUBSET Tables : seen'.mixed = seen.mixed /\ unsaved' = unsaved \cup Stores(r, a, lists)
    BY <1>p, <1>1, <1>2, FiresOffStep DEF FiresOff
  <1>4. Mixed(s, a)
    <2>1. r.agent # "none" /\ Own(h) = s
      BY <1>p, <1>1 DEF Agents, Own
    <2> QED BY <1>p, <2>1 DEF OwnerInv, AgentsOwn
  <1>5. AgentsOwn' /\ PairsMixed'
    BY <1>2, <1>3, OwnerAgents DEF Own, Kin
  <1>6. UnsavedOwn'
    <2> SUFFICES ASSUME NEW w \in unsaved'
                 PROVE  Mixed(w.turn.p, w.p)
      BY <1>3 DEF UnsavedOwn, Mixed
    <2>1. CASE w \in unsaved
      BY <2>1 DEF OwnerInv, UnsavedOwn
    <2>2. CASE w \in Stores(r, a, lists)
      <3>1. w.p = a /\ w.turn = t /\ t.p = s
        BY <1>p, <2>2 DEF Stores, Turn
      <3> QED BY <1>4, <3>1
    <2> QED BY <1>3, <2>1, <2>2
  <1>7. ProductsOwn'
    <2> SUFFICES ASSUME NEW p \in Projects, p \notin seen.mixed
                 PROVE  \A f \in Documents : docs'[p][f] \in {p, "none"}
      BY <1>2, <1>3 DEF ProductsOwn, OwnerInv
    <2>1. \A f \in Documents : docs[p][f] \in {p, "none"}
      BY DEF OwnerInv, ProductsOwn
    <2>2. CASE docs' = docs
      BY <2>1, <2>2
    <2>3. ASSUME NEW x \in Documents, docs' = [docs EXCEPT ![a] = [docs[a] EXCEPT ![x] = s]]
          PROVE  \A f \in Documents : docs'[p][f] \in {p, "none"}
      <3>1. docs \in [Projects -> [Documents -> Projects \cup {"none"}]] /\ a \in Projects
        BY <1>p, <1>1 DEF Types
      <3>2. CASE p # a
        BY <2>1, <2>3, <3>1, <3>2
      <3>3. CASE p = a
        <4>1. s = p
          BY <1>4, <3>3 DEF Mixed
        <4>2. docs'[p] = [docs[a] EXCEPT ![x] = s] /\ docs[a] \in [Documents -> Projects \cup {"none"}]
          BY <2>3, <3>1, <3>3
        <4> QED BY <2>1, <3>3, <4>1, <4>2
      <3> QED BY <3>2, <3>3
    <2> QED BY <1>2, <2>2, <2>3
  <1> QED BY <1>5, <1>6, <1>7 DEF OwnerInv

LEMMA OwnerLand ==
    ASSUME ControlInv, OwnerInv, Land
    PROVE  OwnerInv'
  <1>1. PICK w \in unsaved :
        /\ tables' = [tables EXCEPT ![w.p] = [tables[w.p] EXCEPT ![w.table] = w.turn]]
        /\ unsaved' = unsaved \ {w}
        /\ UNCHANGED <<docs, agents, handlers, seen>>
    BY DEF Land
  <1>2. /\ w.p \in Projects /\ w.table \in Tables
        /\ tables \in [Projects -> [Tables -> Turns \cup {NoTurn}]]
    BY DEF ControlInv, Types
  <1>3. Mixed(w.turn.p, w.p)
    BY DEF OwnerInv, UnsavedOwn
  <1>4. ASSUME NEW p \in Projects, p \notin seen.mixed, NEW t \in Tables
        PROVE  tables'[p][t].p \in {p, "none"}
    <2>1. tables[p][t].p \in {p, "none"}
      BY <1>4 DEF OwnerInv, ProductsOwn
    <2>2. CASE p = w.p
      <3>1. w.turn.p = p
        BY <1>3, <1>4, <2>2 DEF Mixed
      <3>2. tables'[p] = [tables[p] EXCEPT ![w.table] = w.turn] /\ tables[p] \in [Tables -> Turns \cup {NoTurn}]
        BY <1>1, <1>2, <2>2
      <3>3. tables'[p][t] \in {tables[p][t], w.turn}
        BY <3>2
      <3> QED BY <2>1, <3>1, <3>3
    <2>3. CASE p # w.p
      BY <1>1, <1>2, <2>1, <2>3
    <2> QED BY <2>2, <2>3
  <1>5. ProductsOwn'
    BY <1>1, <1>4 DEF ProductsOwn, OwnerInv
  <1>6. UnsavedOwn'
    BY <1>1 DEF UnsavedOwn, OwnerInv, Mixed
  <1>7. AgentsOwn' /\ PairsMixed'
    BY <1>1 DEF AgentsOwn, PairsMixed, OwnerInv, Mixed, Busy, Own
  <1> QED BY <1>5, <1>6, <1>7 DEF OwnerInv

LEMMA OwnerNext == ControlInv /\ OwnerInv /\ [Next]_vars => OwnerInv'
  <1> SUFFICES ASSUME ControlInv, OwnerInv, [Next]_vars
               PROVE  OwnerInv'
    OBVIOUS
  <1>0. seen \in Marks
    BY DEF ControlInv, Types
  <1>quiet. ASSUME NEW h \in Slots, NEW q \in {Idle} \cup Request, Goes(h, q), Busy(h),
                   q # Idle => Kin(handlers[h], q) /\ q.agent \in {"none", handlers[h].agent},
                   UNCHANGED products, agents'.p = agents.p, seen.mixed \subseteq seen'.mixed
            PROVE  OwnerInv'
    BY <1>quiet, OwnerStep DEF Kin, Own
  <1>1. ASSUME NEW h \in Slots, Arrive(h)
        PROVE  OwnerInv'
    <2>1. PICK q \in Request :
             /\ Goes(h, q) /\ q.agent = "none"
             /\ Mark("crowded", IF \E g \in Slots : Busy(g) /\ Own(g) = q.p THEN {q.p} ELSE {})
      BY <1>1, ArriveStep
    <2>2. q.p \in Projects /\ UNCHANGED <<products, agents>>
      BY <1>1 DEF Request, Arrive
    <2>3. seen.mixed \subseteq seen'.mixed
      BY <1>0, <2>1, <2>2, MarkStep DEF Remembered
    <2> QED BY <2>1, <2>2, <2>3, OwnerStep
  <1>2. ASSUME NEW h \in Slots, GetProject(h)
        PROVE  OwnerInv'
    <2>1. UNCHANGED <<products, agents, seen>>
      BY <1>2 DEF GetProject
    <2> QED BY <1>2, <2>1, <1>quiet, GetProjectStep DEF Like, Resumed, Loop
  <1>3. ASSUME NEW h \in Slots, SelectProject(h)
        PROVE  OwnerInv'
    <2>1. UNCHANGED <<products, agents, seen>>
      BY <1>3 DEF SelectProject
    <2> QED BY <1>3, <2>1, <1>quiet, SelectProjectStep DEF Loop
  <1>4. ASSUME NEW h \in Slots, RefillProject(h)
        PROVE  OwnerInv'
    <2>1. UNCHANGED <<products, agents, seen>>
      BY <1>4 DEF RefillProject
    <2>2. PICK q \in {Idle} \cup Request : Goes(h, q) /\ (q = Idle \/ Resumed(Next_(handlers[h]), handlers[h].st, q))
      BY <1>4, RefillProjectStep
    <2>3. Busy(h) /\ Like(handlers[h], Next_(handlers[h]))
      BY <1>4, RefillProjectStep
    <2>4. q # Idle => Kin(handlers[h], q) /\ q.agent \in {"none", handlers[h].agent}
      BY <2>2, <2>3 DEF Like, Kin, Resumed, Loop
    <2> QED BY <2>1, <2>2, <2>3, <2>4, <1>quiet
  <1>5. ASSUME NEW h \in Slots, SaveProject(h)
        PROVE  OwnerInv'
    <2>1. UNCHANGED <<products, agents, seen>>
      BY <1>5 DEF SaveProject
    <2> QED BY <1>5, <2>1, <1>quiet, SaveProjectStep DEF Loop
  <1>6. ASSUME NEW h \in Slots, PersistProject(h)
        PROVE  OwnerInv'
    <2>1. UNCHANGED <<products, agents, seen>> /\ At(h, "persist") /\ Goes(h, Next_(handlers[h]))
      BY <1>6 DEF PersistProject
    <2> QED BY <2>1, <1>quiet, PersistProjectStep DEF Like, Loop
  <1>7. ASSUME NEW h \in Slots, GetHistory(h)
        PROVE  OwnerInv'
    <2>1. UNCHANGED <<products, agents, seen>>
      BY <1>7 DEF GetHistory
    <2> QED BY <1>7, <2>1, <1>quiet, GetHistoryStep DEF Like, Loop, Hears
  <1>8. ASSUME NEW h \in Slots, SelectHistory(h)
        PROVE  OwnerInv'
    <2>1. UNCHANGED <<products, agents, seen>>
      BY <1>8 DEF SelectHistory
    <2> QED BY <1>8, <2>1, <1>quiet, SelectHistoryStep DEF Loop, Hears
  <1>9. ASSUME NEW h \in Slots, RefillHistory(h)
        PROVE  OwnerInv'
    <2>1. UNCHANGED <<products, agents, seen>>
      BY <1>9 DEF RefillHistory
    <2> QED BY <1>9, <2>1, <1>quiet, RefillHistoryStep DEF Loop, Hears
  <1>10. ASSUME NEW h \in Slots, SaveHistory(h)
        PROVE  OwnerInv'
    <2>1. UNCHANGED <<products, agents, seen>>
      BY <1>10 DEF SaveHistory
    <2> QED BY <1>10, <2>1, <1>quiet, SaveHistoryStep DEF Loop
  <1>11. ASSUME NEW h \in Slots, PersistHistory(h)
        PROVE  OwnerInv'
    <2>1. UNCHANGED <<products, agents, seen>> /\ At(h, "persist_history") /\ Goes(h, HistorySaved(handlers[h]))
      BY <1>11 DEF PersistHistory
    <2> QED BY <2>1, <1>quiet, PersistHistoryStep
  <1>12. ASSUME NEW h \in Slots, Background(h)
        PROVE  OwnerInv'
    <2>1. UNCHANGED <<products, agents, seen>>
      BY <1>12 DEF Background
    <2> QED BY <1>12, <2>1, <1>quiet, BackgroundStep DEF Loop
  <1>13. ASSUME NEW h \in Slots, TriggerPm(h)
        PROVE  OwnerInv'
    <2>1. UNCHANGED <<products, agents, seen>>
      BY <1>13 DEF TriggerPm
    <2> QED BY <1>13, <2>1, <1>quiet, TriggerPmStep DEF Loop
  <1>15. ASSUME NEW h \in Slots, BeginStream(h)
        PROVE  OwnerInv'
    <2>1. UNCHANGED <<products, agents>> /\ Mark("refused", IF handlers[h].safe THEN {} ELSE {handlers[h].p})
      BY <1>15 DEF BeginStream
    <2>2. Busy(h) /\ handlers[h].p \in Projects
      BY <1>15, BeginStreamStep, AtStep
    <2>3. seen.mixed \subseteq seen'.mixed
      BY <1>0, <2>1, <2>2, MarkStep DEF Remembered
    <2> QED BY <1>15, <2>1, <2>2, <2>3, <1>quiet, BeginStreamStep DEF GoesOnTo, Ends
  <1>16. ASSUME NEW h \in Slots, AnswerText(h)
        PROVE  OwnerInv'
    <2>1. UNCHANGED <<products, agents, seen>>
      BY <1>16 DEF AnswerText
    <2> QED BY <1>16, <2>1, <1>quiet, AnswerTextStep DEF GoesOnTo, Ends
  <1>17. ASSUME NEW h \in Slots, AnswerTool(h)
        PROVE  OwnerInv'
    <2>1. Busy(h) /\ First(handlers[h].todo) = "answer"
      BY <1>17, AnswerToolStep
    <2>2. PICK tool \in ToolsOf(handlers[h].agent), q \in Request :
             /\ Goes(h, q) /\ Kin(handlers[h], q) /\ q.agent \in {"none", handlers[h].agent}
             /\ UNCHANGED <<products, agents, seen>> \/ \E sub \in SubsAfter(tool) : ExecutesTool(handlers[h], tool, sub)
      BY <1>17, AnswerToolStep DEF GoesOnTo, Ends
    <2>3. CASE UNCHANGED <<products, agents, seen>>
      BY <2>1, <2>2, <2>3, <1>quiet
    <2>4. CASE \E sub \in SubsAfter(tool) : ExecutesTool(handlers[h], tool, sub)
      BY <2>1, <2>2, <2>4, OwnerExecutes DEF InCall
    <2> QED BY <2>2, <2>3, <2>4
  <1>18. ASSUME NEW h \in Slots, ExecuteTool(h)
        PROVE  OwnerInv'
    <2>1. Busy(h) /\ First(handlers[h].todo) = "tool" /\ handlers[h].tool \in ToolsOf(handlers[h].agent)
          /\ \E sub \in SubsAfter(handlers[h].tool) : ExecutesTool(handlers[h], handlers[h].tool, sub)
      BY <1>18, ExecuteToolStep
    <2>2. PICK q \in Request : Goes(h, q) /\ Kin(handlers[h], q) /\ q.agent \in {"none", handlers[h].agent}
      BY <1>18, ExecuteToolStep DEF GoesOnTo
    <2> QED BY <2>1, <2>2, OwnerExecutes DEF InCall
  <1>19. ASSUME NEW h \in Slots, Publish(h)
        PROVE  OwnerInv'
    <2>1. UNCHANGED <<products, seen>>
      BY <1>19 DEF Publish
    <2>2. Busy(h) /\ agents'.p = agents.p
      BY <1>19, PublishStep DEF ControlInv, Types
    <2> QED BY <1>19, <2>1, <2>2, <1>quiet, PublishStep
  <1>20. ASSUME NEW h \in Slots, ServerError(h)
        PROVE  OwnerInv'
    <2>1. UNCHANGED <<products, agents, seen>>
      BY <1>20 DEF ServerError
    <2> QED BY <1>20, <2>1, <1>quiet, ServerErrorStep
  <1>21. ASSUME NEW h \in Slots, RedisFails(h)
        PROVE  OwnerInv'
    <2>1. UNCHANGED <<products, agents>> /\ Busy(h) /\ Mark("blind", {handlers[h].p})
      BY <1>21, RedisFailsStep DEF RedisFails
    <2>2. {handlers[h].p} \in SUBSET Projects
      BY <2>1, AtStep
    <2>3. seen.mixed \subseteq seen'.mixed
      BY <1>0, <2>1, <2>2, MarkStep DEF Remembered
    <2> QED BY <1>21, <2>1, <2>3, <1>quiet, RedisFailsStep DEF Caught, Like, Loop, Hears
  <1>22. ASSUME NEW h \in Slots, MySQLFails(h)
        PROVE  OwnerInv'
    <2>1. UNCHANGED <<products, agents>> /\ Busy(h)
      BY <1>22, MySQLFailsStep DEF MySQLFails
    <2>2. {handlers[h].p} \in SUBSET Projects /\ {h} \in SUBSET Slots /\ {} \in SUBSET Projects
      BY <2>1, AtStep
    <2>3. CASE /\ Mark("blind", {handlers[h].p})
               /\ \E q \in {Idle} \cup Request :
                     /\ Goes(h, q)
                     /\ q = Idle \/ Like(handlers[h], q) \/ Hears(handlers[h], <<>>, Others(handlers[h].todo), q)
      <3>1. seen.mixed \subseteq seen'.mixed
        BY <1>0, <2>2, <2>3, MarkStep DEF Remembered
      <3> QED BY <2>1, <2>3, <3>1, <1>quiet DEF Like, Loop, Hears
    <2>4. CASE MarkTorn({h}, {}) /\ At(h, "persist") /\ Goes(h, Next_(handlers[h]))
      <3>1. seen.mixed \subseteq seen'.mixed
        BY <2>2, <2>4, MarkTornStep
      <3> QED BY <2>1, <2>4, <3>1, <1>quiet, PersistProjectStep DEF Like, Loop
    <2>5. CASE MarkTorn({h}, {}) /\ At(h, "persist_history") /\ Goes(h, HistorySaved(handlers[h]))
      <3>1. seen.mixed \subseteq seen'.mixed
        BY <2>2, <2>5, MarkTornStep
      <3> QED BY <2>1, <2>5, <3>1, <1>quiet, PersistHistoryStep
    <2> QED BY <1>22, <2>3, <2>4, <2>5, MySQLFailsStep
  <1>23. ASSUME NEW h \in Slots, ModelsFail(h)
        PROVE  OwnerInv'
    <2>1. UNCHANGED <<products, agents, seen>>
      BY <1>23 DEF ModelsFail
    <2> QED BY <1>23, <2>1, <1>quiet, ModelsFailStep DEF Caught
  <1>24. ASSUME NEW h \in Slots, Disconnect(h)
        PROVE  OwnerInv'
    <2>1. UNCHANGED <<products, agents>> /\ Busy(h) /\ Goes(h, Idle) /\ MarkTorn({h}, {})
      BY <1>24 DEF Disconnect
    <2>2. seen.mixed \subseteq seen'.mixed
      BY <2>1, MarkTornStep
    <2> QED BY <2>1, <2>2, <1>quiet
  <1>25. ASSUME LoseWrite
        PROVE  OwnerInv'
    <2>1. PICK w \in unsaved : unsaved' = unsaved \ {w} /\ Mark("torn", {w.p})
      BY <1>25 DEF LoseWrite
    <2>2. UNCHANGED <<docs, tables, agents, handlers>> /\ {w.p} \in SUBSET Projects
      BY <1>25 DEF LoseWrite, ControlInv, Types
    <2>3. seen'["mixed"] = seen["mixed"]
      BY <1>0, <2>1, <2>2, MarkStep
    <2>4. seen'.mixed = seen.mixed
      BY <2>3
    <2> QED BY <2>1, <2>2, <2>4 DEF OwnerInv, AgentsOwn, PairsMixed, UnsavedOwn, ProductsOwn, Mixed, Busy, Own
  <1>26. ASSUME Expire \/ UNCHANGED vars
        PROVE  OwnerInv'
    <2>1. UNCHANGED <<docs, tables, unsaved, agents, handlers, seen>>
      BY <1>26 DEF Expire, vars, products
    <2> QED BY <2>1 DEF OwnerInv, AgentsOwn, PairsMixed, UnsavedOwn, ProductsOwn, Mixed, Busy, Own
  <1>27. ASSUME Restart
        PROVE  OwnerInv'
    <2>1. handlers' = [h \in Slots |-> Idle] /\ unsaved' = {} /\ UNCHANGED <<docs, tables>> /\ MarkTorn(Slots, {w.p : w \in unsaved})
      BY <1>27 DEF Restart
    <2>2. {w.p : w \in unsaved} \in SUBSET Projects
      BY DEF ControlInv, Types
    <2>3. seen'.mixed = seen.mixed
      BY <2>1, <2>2, MarkTornStep
    <2>4. \A h \in Slots : ~Busy(h)'
      BY <2>1 DEF Busy
    <2> QED BY <2>1, <2>3, <2>4 DEF OwnerInv, AgentsOwn, PairsMixed, UnsavedOwn, ProductsOwn
  <1> QED
    BY <1>1, <1>2, <1>3, <1>4, <1>5, <1>6, <1>7, <1>8, <1>9, <1>10, <1>11, <1>12, <1>13, OwnerCall, <1>15, <1>16,
       <1>17, <1>18, <1>19, <1>20, <1>21, <1>22, <1>23, <1>24, <1>25, <1>26, <1>27, OwnerLand DEF Next, Runs

LEMMA InitOwner == Init => OwnerInv
  <1> SUFFICES ASSUME Init
               PROVE  OwnerInv
    OBVIOUS
  <1>1. handlers = [h \in Slots |-> Idle] /\ unsaved = {}
    BY DEF Init
  <1>2. \E s \in Scenarios :
           /\ docs = [p \in Projects |-> [f \in Documents |-> IF f \in s.docs THEN p ELSE "none"]]
           /\ tables = [p \in Projects |-> [t \in Tables |-> IF t \in s.tables THEN [p |-> p, n |-> 0] ELSE NoTurn]]
    BY DEF Init
  <1>3. ProductsOwn
    BY <1>2 DEF ProductsOwn, NoTurn
  <1> QED BY <1>1, <1>3 DEF OwnerInv, AgentsOwn, PairsMixed, UnsavedOwn, Busy

LEMMA OwnerInvariant == Spec => []OwnerInv
  BY InitOwner, OwnerNext, ControlInvariant, PTL DEF Spec

\* Documents and rows of a project come from its own requests, unless two projects ran one agent at once.
THEOREM ProductsAreOwn == Spec => []ProductsOwn
  <1>1. OwnerInv => ProductsOwn
    BY DEF OwnerInv
  <1> QED BY <1>1, OwnerInvariant, PTL

-----------------------------------------------------------------------------
\* Whose the messages are.

LEMMA OwnMessages ==
    ASSUME NEW p
    PROVE  /\ Of(p, <<>>)
           /\ \A turn \in Turns : turn.p = p => Of(p, <<turn>>)
           /\ \A history \in Seq(Turns), turn \in Turns : Of(p, history) /\ turn.p = p => Of(p, Append(history, turn))
  <1>1. Of(p, <<>>)
    BY DEF Of
  <1>2. \A turn \in Turns : turn.p = p => Of(p, <<turn>>)
    BY DEF Of
  <1>3. ASSUME NEW history \in Seq(Turns), NEW turn \in Turns, Of(p, history), turn.p = p
        PROVE  Of(p, Append(history, turn))
    <2>1. /\ DOMAIN Append(history, turn) = 1..(Len(history) + 1) /\ DOMAIN history = 1..Len(history)
          /\ \A i \in 1..Len(history) : Append(history, turn)[i] = history[i]
          /\ Append(history, turn)[Len(history) + 1] = turn /\ Len(history) \in Nat
      OBVIOUS
    <2> QED BY <1>3, <2>1 DEF Of
  <1> QED BY <1>1, <1>2, <1>3

\* A step of a request, when what is stored is the project's own.
LEMMA HistoryStep ==
    ASSUME ControlInv, HistoryInv, Remembered, NEW h \in Slots, NEW q \in {Idle} \cup Request, Goes(h, q),
           \A p \in Projects \ Unclear' : (hcache'[p] # Nil => Of(p, hcache'[p])) /\ Of(p, hrows'[p]),
           agents'.result = agents.result,
           q # Idle => \/ q.p \in Unclear'
                       \/ Of(q.p, q.hist) /\ (q.todo # <<>> /\ First(q.todo) = "save_history" => ~q.stream)
    PROVE  HistoryInv'
  <1>1. /\ handlers' \in [Slots -> {Idle} \cup Request]
        /\ \A g \in Slots : g # h => handlers'[g] = handlers[g]
        /\ Busy(h)' => handlers'[h] = q /\ q \in Request /\ q.todo # <<>>
    BY GoesTo DEF ControlInv
  <1>2. Unclear \subseteq Unclear'
    BY DEF Remembered, Unclear
  <1>3. ASSUME NEW g \in Slots, Busy(g)', handlers'[g].p \notin Unclear'
        PROVE  /\ Of(handlers'[g].p, handlers'[g].hist)
               /\ First(handlers'[g].todo) = "save_history" /\ handlers'[g].stream => Of(handlers'[g].p, agents.result)
    <2>1. CASE g = h
      BY <1>1, <1>3, <2>1 DEF Busy, Idle
    <2>2. CASE g # h
      <3>1. handlers'[g] = handlers[g] /\ Busy(g) /\ handlers[g].p \notin Unclear
        BY <1>1, <1>2, <1>3, <2>2 DEF Busy
      <3> QED BY <3>1 DEF HistoryInv, Own, At, First
    <2> QED BY <2>1, <2>2
  <1>4. ASSUME NEW g \in Slots, Busy(g)', Own(g)' \notin Unclear'
        PROVE  /\ Of(Own(g)', handlers'[g].hist)
               /\ At(g, "save_history")' /\ handlers'[g].stream => Of(Own(g)', agents'.result)
    BY <1>3, <1>4 DEF Own, At, First
  <1> QED BY <1>4 DEF HistoryInv, Own, Of

\* The history that a request holds is its project's.
LEMMA HistoryHeld ==
    ASSUME ControlInv, HistoryInv, NEW h \in Slots, Busy(h), handlers[h].p \notin Unclear
    PROVE  Of(handlers[h].p, handlers[h].hist) /\ handlers[h].hist \in Seq(Turns)
           /\ Turn(handlers[h]) \in Turns /\ Turn(handlers[h]).p = handlers[h].p
  BY AtStep DEF HistoryInv, Own, Request, Turn, Turns

\* Calling an agent forgets nothing.
LEMMA CalledMarks ==
    ASSUME ControlInv, NEW h \in Slots, CallAgent(h)
    PROVE  /\ Remembered /\ seen'.crowded = seen.crowded /\ seen'.refused = seen.refused /\ seen'.torn = seen.torn
           /\ seen'.over = seen.over /\ seen'.blind = seen.blind /\ seen'.halved = seen.halved
  <1> DEFINE r == handlers[h]
             agent == AgentOf(Head(r.todo))
             others == {Own(g) : g \in {i \in Slots \ {h} : Running(i, agent)}} \ {r.p}
             ps == IF others = {} THEN {} ELSE others \cup {r.p}
  <1>1. Mark("mixed", ps) /\ Busy(h)
    BY DEF CallAgent, AtOneOf
  <1>2. others \subseteq Projects /\ r.p \in Projects
    BY <1>1, AtStep DEF Running
  <1>3. ps \in SUBSET Projects /\ seen \in Marks
    BY <1>2 DEF ControlInv, Types
  <1> HIDE DEF ps
  <1>4. /\ Remembered /\ seen'["crowded"] = seen["crowded"] /\ seen'["refused"] = seen["refused"]
        /\ seen'["torn"] = seen["torn"] /\ seen'["over"] = seen["over"] /\ seen'["blind"] = seen["blind"]
        /\ seen'["halved"] = seen["halved"]
    BY <1>1, <1>3, MarkStep
  <1> QED BY <1>4

LEMMA HistoryNext == ControlInv /\ OwnerInv /\ HistoryInv /\ [Next]_vars => HistoryInv'
  <1> SUFFICES ASSUME ControlInv, OwnerInv, HistoryInv, [Next]_vars
               PROVE  HistoryInv'
    OBVIOUS
  <1>0. Types /\ seen \in Marks
    BY DEF ControlInv, Types
  <1>same. UNCHANGED seen => Remembered
    BY DEF Remembered
  <1>grows. Remembered => Unclear \subseteq Unclear'
    BY DEF Remembered, Unclear
  <1>stored. ASSUME Remembered, UNCHANGED <<hcache, hrows>>
             PROVE  \A p \in Projects \ Unclear' : (hcache'[p] # Nil => Of(p, hcache'[p])) /\ Of(p, hrows'[p])
    BY <1>stored, <1>grows DEF HistoryInv
  \* Most steps leave the stores and the agents' results alone; the request keeps its history or drops it.
  <1>quiet. ASSUME NEW h \in Slots, Busy(h), NEW q \in {Idle} \cup Request, Goes(h, q), Remembered,
                   UNCHANGED <<hcache, hrows>>, agents'.result = agents.result,
                   q # Idle => /\ Kin(handlers[h], q) /\ q.hist \in {handlers[h].hist, <<>>}
                               /\ q.todo # <<>> /\ First(q.todo) = "save_history" => ~q.stream
            PROVE  HistoryInv'
    <2>1. q # Idle => q.p = handlers[h].p /\ (q.p \in Unclear' \/ Of(q.p, q.hist))
      BY <1>quiet, <1>grows, HistoryHeld, OwnMessages DEF Kin
    <2> QED BY <1>quiet, <1>stored, <2>1, HistoryStep
  \* It has its history, with its turn at the end.
  <1>heard. ASSUME NEW h \in Slots, Busy(h), NEW q \in Request, Goes(h, q), Remembered, NEW history, NEW t,
                   handlers[h].p \notin Unclear => Of(handlers[h].p, history) /\ history \in Seq(Turns),
                   Hears(handlers[h], history, t, q), agents'.result = agents.result,
                   \A p \in Projects \ Unclear' : (hcache'[p] # Nil => Of(p, hcache'[p])) /\ Of(p, hrows'[p])
            PROVE  HistoryInv'
    <2>1. q.p = handlers[h].p /\ q.hist = Append(history, Turn(handlers[h])) /\ First(q.todo) # "save_history"
      BY <1>heard DEF Hears, Kin
    <2>2. q.p \in Unclear' \/ Of(q.p, q.hist)
      BY <1>heard, <1>grows, <2>1, HistoryHeld, OwnMessages
    <2> QED BY <1>heard, <2>1, <2>2, HistoryStep
  <1>1. ASSUME NEW h \in Slots, Arrive(h)
        PROVE  HistoryInv'
    <2>1. PICK q \in Request :
             /\ Goes(h, q) /\ q.hist = <<>> /\ First(q.todo) \in Reads
             /\ Mark("crowded", IF \E g \in Slots : Busy(g) /\ Own(g) = q.p THEN {q.p} ELSE {})
      BY <1>1, ArriveStep
    <2>2. q.p \in Projects /\ UNCHANGED <<hcache, hrows, agents>>
      BY <1>1 DEF Request, Arrive, store
    <2>3. Remembered
      BY <1>0, <2>1, <2>2, MarkStep
    <2>4. Of(q.p, q.hist) /\ First(q.todo) # "save_history"
      BY <2>1, OwnMessages DEF Reads
    <2> QED BY <1>stored, <2>1, <2>2, <2>3, <2>4, HistoryStep
  <1>2. ASSUME NEW h \in Slots, GetProject(h)
        PROVE  HistoryInv'
    <2>1. UNCHANGED <<hcache, hrows, agents, seen>>
      BY <1>2 DEF GetProject, store
    <2>2. Busy(h)
      BY <1>2, GetProjectStep
    <2>3. PICK q \in {Idle} \cup Request :
             /\ Goes(h, q)
             /\ q # Idle => /\ Kin(handlers[h], q) /\ q.hist = handlers[h].hist
                            /\ q.todo # <<>> => First(q.todo) # "save_history"
      BY <1>2, GetProjectStep DEF Like, Resumed, Kin, Ready
    <2> QED BY <2>1, <2>2, <2>3, <1>same, <1>quiet
  <1>3. ASSUME NEW h \in Slots, SelectProject(h)
        PROVE  HistoryInv'
    <2>1. UNCHANGED <<hcache, hrows, agents, seen>>
      BY <1>3 DEF SelectProject, store
    <2> QED BY <1>3, <2>1, <1>same, <1>quiet, SelectProjectStep
  <1>4. ASSUME NEW h \in Slots, RefillProject(h)
        PROVE  HistoryInv'
    <2>1. UNCHANGED <<hcache, hrows, agents, seen>>
      BY <1>4 DEF RefillProject
    <2>2. PICK q \in {Idle} \cup Request :
             /\ Goes(h, q)
             /\ q # Idle /\ q.todo # <<>> => First(q.todo) \in Ready
             /\ q = Idle \/ Resumed(Next_(handlers[h]), handlers[h].st, q)
      BY <1>4, RefillProjectStep
    <2>3. Busy(h) /\ Like(handlers[h], Next_(handlers[h]))
      BY <1>4, RefillProjectStep
    <2>4. q # Idle => Kin(handlers[h], q) /\ q.hist = handlers[h].hist /\ (q.todo # <<>> => First(q.todo) # "save_history")
      BY <2>2, <2>3 DEF Like, Kin, Resumed, Ready
    <2> QED BY <2>1, <2>2, <2>3, <2>4, <1>same, <1>quiet
  <1>5. ASSUME NEW h \in Slots, SaveProject(h)
        PROVE  HistoryInv'
    <2>1. UNCHANGED <<hcache, hrows, agents, seen>>
      BY <1>5 DEF SaveProject
    <2>2. Busy(h) /\ \E q \in {Idle} \cup Request :
             /\ Goes(h, q)
             /\ q # Idle => Kin(handlers[h], q) /\ q.hist = handlers[h].hist /\ First(q.todo) = "persist"
      BY <1>5, SaveProjectStep
    <2> QED BY <2>1, <2>2, <1>same, <1>quiet
  <1>6. ASSUME NEW h \in Slots, PersistProject(h)
        PROVE  HistoryInv'
    <2>1. UNCHANGED <<hcache, hrows, agents, seen>> /\ At(h, "persist") /\ Goes(h, Next_(handlers[h]))
      BY <1>6 DEF PersistProject
    <2>2. Busy(h) /\ \E q \in Request :
             /\ Goes(h, q) /\ Kin(handlers[h], q) /\ q.hist = handlers[h].hist
             /\ q.todo # <<>> => First(q.todo) # "save_history"
      BY <2>1, PersistProjectStep DEF Like
    <2> QED BY <2>1, <2>2, <1>same, <1>quiet
  <1>7. ASSUME NEW h \in Slots, GetHistory(h)
        PROVE  HistoryInv'
    <2>1. UNCHANGED <<hcache, hrows, agents, seen>>
      BY <1>7 DEF GetHistory, store
    <2>2. Busy(h) /\ handlers[h].p \in Projects
      BY <1>7, GetHistoryStep, AtStep
    <2>3. PICK q \in Request :
             /\ Goes(h, q)
             /\ \/ Like(handlers[h], q) /\ First(q.todo) = "select_history"
                \/ hcache[handlers[h].p] # Nil /\ Hears(handlers[h], hcache[handlers[h].p], handlers[h].todo, q)
      BY <1>7, GetHistoryStep
    <2>4. CASE Like(handlers[h], q) /\ First(q.todo) = "select_history"
      BY <2>1, <2>2, <2>3, <2>4, <1>same, <1>quiet DEF Like
    <2>5. CASE hcache[handlers[h].p] # Nil /\ Hears(handlers[h], hcache[handlers[h].p], handlers[h].todo, q)
      <3>1. /\ hcache[handlers[h].p] \in Seq(Turns)
            /\ handlers[h].p \notin Unclear => Of(handlers[h].p, hcache[handlers[h].p])
        BY <1>0, <2>2, <2>5 DEF Types, HistoryInv
      <3> QED BY <2>1, <2>2, <2>3, <2>5, <3>1, <1>same, <1>stored, <1>heard
    <2> QED BY <2>3, <2>4, <2>5
  <1>8. ASSUME NEW h \in Slots, SelectHistory(h)
        PROVE  HistoryInv'
    <2>1. UNCHANGED <<hcache, hrows, agents, seen>>
      BY <1>8 DEF SelectHistory, store
    <2>2. Busy(h) /\ handlers[h].p \in Projects
      BY <1>8, SelectHistoryStep, AtStep
    <2>3. PICK q \in Request :
             /\ Goes(h, q)
             /\ \/ Hears(handlers[h], <<>>, Others(handlers[h].todo), q)
                \/ Kin(handlers[h], q) /\ q.hist = hrows[handlers[h].p] /\ First(q.todo) = "refill_history"
      BY <1>8, SelectHistoryStep
    <2>4. CASE Kin(handlers[h], q) /\ q.hist = hrows[handlers[h].p] /\ First(q.todo) = "refill_history"
      <3>1. handlers[h].p \notin Unclear => Of(handlers[h].p, hrows[handlers[h].p])
        BY <2>2 DEF HistoryInv
      <3>2. q.p \in Unclear' \/ Of(q.p, q.hist)
        BY <2>1, <2>4, <3>1, <1>same, <1>grows DEF Kin
      <3> QED BY <2>1, <2>3, <2>4, <3>2, <1>same, <1>stored, HistoryStep
    <2>5. CASE Hears(handlers[h], <<>>, Others(handlers[h].todo), q)
      <3>1. <<>> \in Seq(Turns) /\ Of(handlers[h].p, <<>>)
        BY OwnMessages
      <3> QED BY <2>1, <2>2, <2>3, <2>5, <3>1, <1>same, <1>stored, <1>heard
    <2> QED BY <2>3, <2>4, <2>5
  <1>9. ASSUME NEW h \in Slots, RefillHistory(h)
        PROVE  HistoryInv'
    <2>1. UNCHANGED <<hrows, agents, seen>> /\ hcache' = [hcache EXCEPT ![handlers[h].p] = handlers[h].hist]
      BY <1>9 DEF RefillHistory
    <2>2. Busy(h) /\ handlers[h].p \in Projects /\ handlers[h].hist \in Seq(Turns)
      BY <1>9, RefillHistoryStep, AtStep
    <2>3. handlers[h].p \notin Unclear => Of(handlers[h].p, handlers[h].hist)
      BY <2>2, HistoryHeld
    <2>4. \A p \in Projects \ Unclear' : (hcache'[p] # Nil => Of(p, hcache'[p])) /\ Of(p, hrows'[p])
      BY <1>0, <2>1, <2>2, <2>3, <1>same, <1>grows DEF HistoryInv, Types
    <2> QED BY <1>9, <2>1, <2>2, <2>3, <2>4, <1>same, <1>heard, RefillHistoryStep
  <1>10. ASSUME NEW h \in Slots, SaveHistory(h)
        PROVE  HistoryInv'
    <2> DEFINE m == Messages(handlers[h])
    <2>1. UNCHANGED <<hrows, agents, seen>>
      BY <1>10 DEF SaveHistory
    <2>2. Busy(h) /\ handlers[h].p \in Projects
      BY <1>10, SaveHistoryStep, AtStep
    <2>3. handlers[h].p \notin Unclear => Of(handlers[h].p, m)
      <3>1. handlers[h].stream => At(h, "save_history")
        BY <1>10 DEF SaveHistory
      <3>2. m = IF handlers[h].stream THEN agents.result ELSE handlers[h].hist
        BY DEF Messages
      <3> QED BY <2>2, <3>1, <3>2, HistoryHeld DEF HistoryInv, Own
    <2>4. CASE Goes(h, Idle) /\ UNCHANGED hcache
      BY <2>1, <2>2, <2>4, <1>same, <1>quiet
    <2>5. CASE /\ hcache' = [hcache EXCEPT ![handlers[h].p] = m]
               /\ \E q \in Request : Goes(h, q) /\ First(q.todo) = "persist_history" /\ Kin(handlers[h], q) /\ q.hist = m
      <3> HIDE DEF m
      <3>1. \A p \in Projects \ Unclear' : (hcache'[p] # Nil => Of(p, hcache'[p])) /\ Of(p, hrows'[p])
        BY <1>0, <2>1, <2>2, <2>3, <2>5, <1>same, <1>grows DEF HistoryInv, Types
      <3>2. PICK q \in Request : Goes(h, q) /\ First(q.todo) = "persist_history" /\ q.p = handlers[h].p /\ q.hist = m
        BY <2>5 DEF Kin
      <3>3. q.p \in Unclear' \/ Of(q.p, q.hist)
        BY <2>1, <2>3, <3>2, <1>same, <1>grows
      <3> QED BY <2>1, <3>1, <3>2, <3>3, <1>same, HistoryStep
    <2> QED BY <1>10, <2>4, <2>5, SaveHistoryStep
  <1>11. ASSUME NEW h \in Slots, PersistHistory(h)
        PROVE  HistoryInv'
    <2>1. At(h, "persist_history") /\ Goes(h, HistorySaved(handlers[h])) /\ hrows' = [hrows EXCEPT ![handlers[h].p] = handlers[h].hist]
          /\ UNCHANGED <<hcache, agents, seen>>
      BY <1>11 DEF PersistHistory
    <2>2. Busy(h) /\ handlers[h].p \in Projects
      BY <2>1, PersistHistoryStep, AtStep
    <2>3. handlers[h].p \notin Unclear => Of(handlers[h].p, handlers[h].hist)
      BY <2>2, HistoryHeld
    <2>4. \A p \in Projects \ Unclear' : (hcache'[p] # Nil => Of(p, hcache'[p])) /\ Of(p, hrows'[p])
      BY <1>0, <2>1, <2>2, <2>3, <1>same, <1>grows DEF HistoryInv, Types
    <2>5. PICK q \in Request : Goes(h, q) /\ q.hist = <<>> /\ First(q.todo) \in {"chatted", "decomposed", "get_project"}
      BY <2>1, PersistHistoryStep
    <2>6. Of(q.p, q.hist)
      BY <2>5, OwnMessages
    <2> QED BY <2>1, <2>4, <2>5, <2>6, <1>same, HistoryStep
  <1>12. ASSUME NEW h \in Slots, Background(h)
        PROVE  HistoryInv'
    <2>1. UNCHANGED <<hcache, hrows, agents, seen>>
      BY <1>12 DEF Background, store
    <2> QED BY <1>12, <2>1, <1>same, <1>quiet, BackgroundStep
  <1>13. ASSUME NEW h \in Slots, TriggerPm(h)
        PROVE  HistoryInv'
    <2>1. UNCHANGED <<hcache, hrows, agents, seen>>
      BY <1>13 DEF TriggerPm, store
    <2> QED BY <1>13, <2>1, <1>same, <1>quiet, TriggerPmStep
  <1>14. ASSUME NEW h \in Slots, CallAgent(h)
        PROVE  HistoryInv'
    <2>1. UNCHANGED <<hcache, hrows>>
      BY <1>14 DEF CallAgent, store
    <2>2. Busy(h) /\ agents'.result = agents.result
      BY <1>14, CallAgentStep DEF ControlInv, Types
    <2>3. Remembered
      BY <1>14, CalledMarks
    <2>4. PICK q \in Request :
             /\ Goes(h, q) /\ Kin(handlers[h], q) /\ q.stream = handlers[h].stream
             /\ q.hist = handlers[h].hist \/ q.hist = <<Turn(handlers[h])>>
             /\ First(q.todo) \in {"begin", "answer"} \/ ~handlers[h].stream
      BY <1>14, CallAgentStep
    <2>5. q.p \in Unclear' \/ Of(q.p, q.hist)
      BY <2>2, <2>3, <2>4, <1>grows, HistoryHeld, OwnMessages DEF Kin
    <2> QED BY <2>1, <2>2, <2>3, <2>4, <2>5, <1>stored, HistoryStep
  <1>15. ASSUME NEW h \in Slots, BeginStream(h)
        PROVE  HistoryInv'
    <2>1. UNCHANGED <<hcache, hrows, agents>> /\ Mark("refused", IF handlers[h].safe THEN {} ELSE {handlers[h].p})
      BY <1>15 DEF BeginStream, store
    <2>2. Busy(h) /\ handlers[h].p \in Projects
      BY <1>15, BeginStreamStep, AtStep
    <2>3. Remembered /\ (~handlers[h].safe => handlers[h].p \in seen'.refused)
      <3> DEFINE ps == IF handlers[h].safe THEN {} ELSE {handlers[h].p}
      <3>1. ps \in SUBSET Projects /\ Mark("refused", ps)
        BY <2>1, <2>2
      <3>2. ~handlers[h].safe => handlers[h].p \in ps
        OBVIOUS
      <3> HIDE DEF ps
      <3>3. Remembered /\ seen'["refused"] = seen["refused"] \cup ps
        BY <1>0, <3>1, MarkStep
      <3>4. seen'.refused = seen.refused \cup ps
        BY <3>3
      <3> QED BY <3>2, <3>3, <3>4
    <2>4. PICK q \in Request :
             /\ Goes(h, q) /\ Kin(handlers[h], q) /\ q.stream = handlers[h].stream /\ q.hist = handlers[h].hist
             /\ First(q.todo) = "answer" \/ ~handlers[h].safe \/ ~handlers[h].stream
      BY <1>15, BeginStreamStep DEF GoesOnTo, Ends
    <2>5. q.p \in Unclear' \/ Of(q.p, q.hist)
      BY <2>2, <2>3, <2>4, <1>grows, HistoryHeld DEF Kin
    <2>6. q.p \in Unclear' \/ (First(q.todo) = "save_history" => ~q.stream)
      BY <2>3, <2>4 DEF Kin, Unclear
    <2> QED BY <2>1, <2>3, <2>4, <2>5, <2>6, <1>stored, HistoryStep
  <1>16. ASSUME NEW h \in Slots, AnswerText(h)
        PROVE  HistoryInv'
    <2>1. UNCHANGED <<hcache, hrows, agents, seen>>
      BY <1>16 DEF AnswerText, store
    <2>2. Busy(h)
      BY <1>16, AnswerTextStep
    <2>3. PICK q \in Request :
             /\ Goes(h, q) /\ Kin(handlers[h], q) /\ q.stream = handlers[h].stream /\ q.hist = handlers[h].hist
             /\ First(q.todo) = "publish" \/ ~handlers[h].stream
      BY <1>16, AnswerTextStep DEF GoesOnTo, Ends
    <2> QED BY <2>1, <2>2, <2>3, <1>same, <1>quiet
  <1>executes. ASSUME NEW h \in Slots, Busy(h), First(handlers[h].todo) \in InCall,
                      NEW tool \in ToolsOf(handlers[h].agent), NEW sub \in SubsAfter(tool),
                      ExecutesTool(handlers[h], tool, sub)
               PROVE  agents'.result = agents.result /\ Remembered
    <2> DEFINE r == handlers[h]
    <2>1. r \in Request /\ r.agent \in Agents /\ agents.p[r.agent] \in Projects
      BY <1>executes, InCallStep
    <2> QED BY <1>0, <1>executes, <2>1, ExecutesStep
  <1>17. ASSUME NEW h \in Slots, AnswerTool(h)
        PROVE  HistoryInv'
    <2>1. UNCHANGED <<hcache, hrows>>
      BY <1>17 DEF AnswerTool, store
    <2>2. Busy(h) /\ First(handlers[h].todo) \in InCall
      BY <1>17, AnswerToolStep DEF InCall
    <2>3. PICK tool \in ToolsOf(handlers[h].agent), q \in Request :
             /\ Goes(h, q) /\ Kin(handlers[h], q) /\ q.stream = handlers[h].stream /\ q.hist = handlers[h].hist
             /\ First(q.todo) \in {"tool", "answer"} \/ ~handlers[h].stream
             /\ UNCHANGED <<agents, seen>> \/ \E sub \in SubsAfter(tool) : ExecutesTool(handlers[h], tool, sub)
      BY <1>17, AnswerToolStep DEF GoesOnTo, Ends
    <2>4. agents'.result = agents.result /\ Remembered
      BY <2>2, <2>3, <1>same, <1>executes
    <2> QED BY <2>1, <2>2, <2>3, <2>4, <1>quiet
  <1>18. ASSUME NEW h \in Slots, ExecuteTool(h)
        PROVE  HistoryInv'
    <2>1. UNCHANGED <<hcache, hrows>>
      BY <1>18 DEF ExecuteTool, store
    <2>2. Busy(h) /\ First(handlers[h].todo) \in InCall /\ handlers[h].tool \in ToolsOf(handlers[h].agent)
          /\ \E sub \in SubsAfter(handlers[h].tool) : ExecutesTool(handlers[h], handlers[h].tool, sub)
      BY <1>18, ExecuteToolStep DEF InCall
    <2>3. PICK q \in Request :
             /\ Goes(h, q) /\ Kin(handlers[h], q) /\ q.hist = handlers[h].hist /\ First(q.todo) \in {"publish", "answer"}
      BY <1>18, ExecuteToolStep DEF GoesOnTo
    <2>4. agents'.result = agents.result /\ Remembered
      BY <2>2, <1>executes
    <2> QED BY <2>1, <2>2, <2>3, <2>4, <1>quiet
  <1>19. ASSUME NEW h \in Slots, Publish(h)
        PROVE  HistoryInv'
    <2> DEFINE r == handlers[h]
    <2>1. UNCHANGED <<hcache, hrows, seen>>
      BY <1>19 DEF Publish, store
    <2>2. /\ Busy(h) /\ r.agent \in Agents /\ Others(r.todo) \in AfterCall(r.agent)
          /\ agents' = [agents EXCEPT !.result = IF r.agent = "requirement" THEN r.hist ELSE @]
      BY <1>19, PublishStep
    <2>3. PICK q \in Request :
             /\ Goes(h, q) /\ Kin(r, q) /\ q.hist = r.hist /\ q.todo = Others(r.todo)
      BY <1>19, PublishStep
    <2>4. CASE r.agent # "requirement"
      <3>1. agents'.result = agents.result
        BY <1>0, <2>2, <2>4 DEF Types
      <3>2. First(q.todo) # "save_history"
        BY <2>2, <2>3, <2>4, AfterAgent
      <3> QED BY <2>1, <2>2, <2>3, <3>1, <3>2, <1>same, <1>quiet
    <2>5. CASE r.agent = "requirement"
      <3>1. agents'.result = r.hist /\ Unclear' = Unclear
        BY <1>0, <2>1, <2>2, <2>5 DEF Types, Unclear
      <3>2. /\ handlers' \in [Slots -> {Idle} \cup Request]
            /\ \A g \in Slots : g # h => handlers'[g] = handlers[g]
            /\ Busy(h)' => handlers'[h] = q
        BY <2>3, GoesTo DEF ControlInv
      <3>3. ASSUME NEW g \in Slots, Busy(g)', handlers'[g].p \notin Unclear
            PROVE  /\ Of(handlers'[g].p, handlers'[g].hist)
                   /\ First(handlers'[g].todo) = "save_history" /\ handlers'[g].stream => Of(handlers'[g].p, r.hist)
        <4>1. CASE g = h
          <5>1. handlers'[g].p = r.p /\ handlers'[g].hist = r.hist
            BY <2>3, <3>2, <3>3, <4>1 DEF Kin
          <5> QED BY <2>2, <3>3, <5>1, HistoryHeld
        <4>2. CASE g # h
          <5>1. handlers'[g] = handlers[g] /\ Busy(g)
            BY <3>2, <3>3, <4>2 DEF Busy
          <5>2. Of(handlers[g].p, handlers[g].hist)
            BY <3>3, <5>1, HistoryHeld
          <5>3. ASSUME First(handlers[g].todo) = "save_history", handlers[g].stream
                PROVE  Of(handlers[g].p, r.hist)
            <6>1. handlers[g].agent = "requirement"
              BY <5>1, <5>3, AtStep DEF Shape
            <6>2. Mixed(handlers[g].p, r.p)
              BY <2>2, <2>5, <5>1, <6>1 DEF OwnerInv, PairsMixed, Own
            <6>3. handlers[g].p = r.p
              BY <3>3, <5>1, <6>2 DEF Mixed, Unclear
            <6> QED BY <2>2, <3>3, <5>1, <6>3, HistoryHeld
          <5> QED BY <5>1, <5>2, <5>3
        <4> QED BY <4>1, <4>2
      <3>4. ASSUME NEW g \in Slots, Busy(g)', Own(g)' \notin Unclear'
            PROVE  /\ Of(Own(g)', handlers'[g].hist)
                   /\ At(g, "save_history")' /\ handlers'[g].stream => Of(Own(g)', agents'.result)
        BY <3>1, <3>3, <3>4 DEF Own, At, First
      <3> QED BY <2>1, <3>1, <3>4 DEF HistoryInv, Own, Of
    <2> QED BY <2>4, <2>5
  <1>20. ASSUME NEW h \in Slots, ServerError(h)
        PROVE  HistoryInv'
    <2>1. UNCHANGED <<hcache, hrows, agents, seen>>
      BY <1>20 DEF ServerError, store
    <2> QED BY <1>20, <2>1, <1>same, <1>quiet, ServerErrorStep
  <1>nothing. \A p : <<>> \in Seq(Turns) /\ Of(p, <<>>)
    BY OwnMessages
  <1>21. ASSUME NEW h \in Slots, RedisFails(h)
        PROVE  HistoryInv'
    <2>1. UNCHANGED <<hcache, hrows, agents>> /\ Busy(h) /\ Mark("blind", {handlers[h].p})
      BY <1>21, RedisFailsStep DEF RedisFails, store
    <2>2. {handlers[h].p} \in SUBSET Projects
      BY <2>1, AtStep
    <2>3. Remembered
      BY <1>0, <2>1, <2>2, MarkStep
    <2>4. PICK q \in {Idle} \cup Request :
             /\ Goes(h, q)
             /\ \/ q = Idle
                \/ Caught(handlers[h], q)
                \/ Like(handlers[h], q) /\ First(q.todo) = "fresh"
                \/ Hears(handlers[h], <<>>, Others(handlers[h].todo), q)
      BY <1>21, RedisFailsStep
    <2>5. CASE Hears(handlers[h], <<>>, Others(handlers[h].todo), q)
      BY <2>1, <2>3, <2>4, <2>5, <1>stored, <1>heard, <1>nothing DEF Hears
    <2>6. CASE q = Idle \/ Caught(handlers[h], q) \/ (Like(handlers[h], q) /\ First(q.todo) = "fresh")
      BY <2>1, <2>3, <2>4, <2>6, <1>quiet, Parts DEF Caught, Like
    <2> QED BY <2>4, <2>5, <2>6
  <1>22. ASSUME NEW h \in Slots, MySQLFails(h)
        PROVE  HistoryInv'
    <2>1. UNCHANGED <<hcache, hrows, agents>> /\ Busy(h)
      BY <1>22, MySQLFailsStep DEF MySQLFails, store
    <2>2. {handlers[h].p} \in SUBSET Projects /\ {h} \in SUBSET Slots /\ {} \in SUBSET Projects
      BY <2>1, AtStep
    <2>3. CASE /\ Mark("blind", {handlers[h].p})
               /\ \E q \in {Idle} \cup Request :
                     /\ Goes(h, q)
                     /\ q = Idle \/ (Like(handlers[h], q) /\ First(q.todo) = "fresh")
                        \/ Hears(handlers[h], <<>>, Others(handlers[h].todo), q)
      <3>1. Remembered
        BY <1>0, <2>2, <2>3, MarkStep
      <3>2. PICK q \in {Idle} \cup Request :
                     /\ Goes(h, q)
                     /\ q = Idle \/ (Like(handlers[h], q) /\ First(q.todo) = "fresh")
                        \/ Hears(handlers[h], <<>>, Others(handlers[h].todo), q)
        BY <2>3
      <3>3. CASE Hears(handlers[h], <<>>, Others(handlers[h].todo), q)
        BY <2>1, <3>1, <3>2, <3>3, <1>stored, <1>heard, <1>nothing DEF Hears
      <3>4. CASE q = Idle \/ (Like(handlers[h], q) /\ First(q.todo) = "fresh")
        BY <2>1, <3>1, <3>2, <3>4, <1>quiet DEF Like
      <3> QED BY <3>2, <3>3, <3>4
    <2>4. CASE MarkTorn({h}, {}) /\ At(h, "persist") /\ Goes(h, Next_(handlers[h]))
      <3>1. Remembered
        BY <2>2, <2>4, MarkTornStep
      <3>2. \E q \in Request :
             /\ Goes(h, q) /\ Kin(handlers[h], q) /\ q.hist = handlers[h].hist
             /\ q.todo # <<>> => First(q.todo) # "save_history"
        BY <2>4, PersistProjectStep DEF Like
      <3> QED BY <2>1, <3>1, <3>2, <1>quiet
    <2>5. CASE MarkTorn({h}, {}) /\ At(h, "persist_history") /\ Goes(h, HistorySaved(handlers[h]))
      <3>1. Remembered
        BY <2>2, <2>5, MarkTornStep
      <3>2. \E q \in Request :
               Goes(h, q) /\ Kin(handlers[h], q) /\ q.hist = <<>> /\ First(q.todo) # "save_history"
        BY <2>5, PersistHistoryStep
      <3> QED BY <2>1, <3>1, <3>2, <1>quiet
    <2> QED BY <1>22, <2>3, <2>4, <2>5, MySQLFailsStep
  <1>23. ASSUME NEW h \in Slots, ModelsFail(h)
        PROVE  HistoryInv'
    <2>1. UNCHANGED <<hcache, hrows, agents, seen>>
      BY <1>23 DEF ModelsFail, store
    <2> QED BY <1>23, <2>1, <1>same, <1>quiet, ModelsFailStep, Parts DEF Caught
  <1>24. ASSUME NEW h \in Slots, Disconnect(h)
        PROVE  HistoryInv'
    <2>1. UNCHANGED <<hcache, hrows, agents>> /\ Busy(h) /\ Goes(h, Idle) /\ MarkTorn({h}, {})
      BY <1>24 DEF Disconnect, store
    <2>2. Remembered
      BY <2>1, MarkTornStep
    <2> QED BY <2>1, <2>2, <1>quiet
  <1>still. ASSUME UNCHANGED <<handlers, agents, hrows>>, Remembered,
                   \A p \in Projects : hcache'[p] \in {hcache[p], Nil}
            PROVE  HistoryInv'
    <2>1. \A h \in Slots : (Busy(h)' <=> Busy(h)) /\ Own(h)' = Own(h) /\ (At(h, "save_history")' <=> At(h, "save_history"))
      BY <1>still DEF Busy, Own, At
    <2> QED BY <1>still, <1>grows, <2>1 DEF HistoryInv, Of
  <1>25. ASSUME Land \/ LoseWrite
        PROVE  HistoryInv'
    <2>1. UNCHANGED <<handlers, agents, hrows, hcache>>
      BY <1>25 DEF Land, LoseWrite, store
    <2>2. Remembered
      <3>1. CASE Land
        BY <3>1, <1>same DEF Land
      <3>2. CASE LoseWrite
        <4>1. PICK v \in unsaved : Mark("torn", {v.p})
          BY <3>2 DEF LoseWrite
        <4>2. {v.p} \in SUBSET Projects
          BY <1>0 DEF Types
        <4> QED BY <1>0, <4>1, <4>2, MarkStep
      <3> QED BY <1>25, <3>1, <3>2
    <2> QED BY <2>1, <2>2, <1>still
  <1>26. ASSUME Expire \/ UNCHANGED vars
        PROVE  HistoryInv'
    <2>1. UNCHANGED <<handlers, agents, hrows, seen>>
      BY <1>26 DEF Expire, vars, store
    <2>2. \A p \in Projects : hcache'[p] \in {hcache[p], Nil}
      BY <1>0, <1>26 DEF Expire, vars, store, Types
    <2> QED BY <2>1, <2>2, <1>same, <1>still
  <1>27. ASSUME Restart
        PROVE  HistoryInv'
    <2>1. handlers' = [h \in Slots |-> Idle] /\ UNCHANGED <<hcache, hrows>> /\ MarkTorn(Slots, {w.p : w \in unsaved})
      BY <1>27 DEF Restart, store
    <2>2. {w.p : w \in unsaved} \in SUBSET Projects
      BY <1>0 DEF Types
    <2>3. Remembered
      BY <2>1, <2>2, MarkTornStep
    <2>4. \A h \in Slots : ~Busy(h)'
      BY <2>1 DEF Busy
    <2> QED BY <2>1, <2>3, <2>4, <1>stored DEF HistoryInv, Of
  <1> QED
    BY <1>1, <1>2, <1>3, <1>4, <1>5, <1>6, <1>7, <1>8, <1>9, <1>10, <1>11, <1>12, <1>13, <1>14, <1>15, <1>16,
       <1>17, <1>18, <1>19, <1>20, <1>21, <1>22, <1>23, <1>24, <1>25, <1>26, <1>27 DEF Next, Runs

\* A project's history holds its own messages, unless its agent was shared or a streamed message refused.
THEOREM HistoryIsOwn == Spec => []HistoryOwn
  <1>1. Init => HistoryInv
    <2> SUFFICES ASSUME Init
                 PROVE  HistoryInv
      OBVIOUS
    <2>1. handlers = [h \in Slots |-> Idle] /\ hcache = [p \in Projects |-> Nil]
      BY DEF Init
    <2>2. \A p \in Projects : hrows[p] \in {<<>>, <<[p |-> p, n |-> 0]>>}
      BY DEF Init
    <2>3. \A p \in Projects : Of(p, hrows[p])
      BY <2>2 DEF Of
    <2> QED BY <2>1, <2>3 DEF HistoryInv, Busy
  <1>2. HistoryInv => HistoryOwn
    BY DEF HistoryInv, HistoryOwn, Of, Unclear
  <1> QED BY <1>1, <1>2, HistoryNext, ControlInvariant, OwnerInvariant, PTL DEF Spec

-----------------------------------------------------------------------------
\* What a decomposition has left to write.

\* What has happened to a project stays known.
LEMMA ExecutesMarks ==
    ASSUME ControlInv, NEW h \in Slots, Busy(h), First(handlers[h].todo) \in InCall,
           NEW tool \in ToolsOf(handlers[h].agent), NEW sub \in SubsAfter(tool), ExecutesTool(handlers[h], tool, sub)
    PROVE  /\ Remembered
           /\ seen'.mixed = seen.mixed /\ seen'.refused = seen.refused /\ seen'.torn = seen.torn
           /\ seen'.over = seen.over /\ seen'.blind = seen.blind
  <1> DEFINE r == handlers[h]
  <1>1. r \in Request /\ r.agent \in Agents /\ agents.p[r.agent] \in Projects /\ Types
    BY InCallStep DEF ControlInv
  <1>2. PICK lists \in SUBSET Tables : FiresOff(r, lists)
    BY <1>1, ExecutesStep
  <1> QED BY <1>1, <1>2, FiresOffStep

LEMMA MarksAreKept ==
    ASSUME ControlInv, [Next]_vars
    PROVE  Remembered /\ (seen'.halved = seen.halved \/ \E h \in Slots : AnswerTool(h) \/ ExecuteTool(h))
  <1> DEFINE Kept == Remembered /\ seen'.halved = seen.halved
  <1>0. seen \in Marks /\ Types
    BY DEF ControlInv, Types
  <1>same. UNCHANGED seen => Kept
    BY DEF Remembered
  <1>mark. ASSUME NEW what \in {"crowded", "mixed", "refused", "blind", "torn"}, NEW ps \in SUBSET Projects, Mark(what, ps)
           PROVE  Kept
    <2>1. Remembered /\ seen'["halved"] = seen["halved"]
      BY <1>0, <1>mark, MarkStep
    <2> QED BY <2>1
  <1>torn. ASSUME NEW hs \in SUBSET Slots, NEW ps \in SUBSET Projects, MarkTorn(hs, ps)
           PROVE  Kept
    BY <1>torn, MarkTornStep
  <1> HIDE DEF Kept
  <1>1. ASSUME NEW h \in Slots, Arrive(h)
        PROVE  Kept
    <2>1. PICK q \in Request : Mark("crowded", IF \E g \in Slots : Busy(g) /\ Own(g) = q.p THEN {q.p} ELSE {})
      BY <1>1, ArriveStep
    <2>2. (IF \E g \in Slots : Busy(g) /\ Own(g) = q.p THEN {q.p} ELSE {}) \in SUBSET Projects
      BY DEF Request
    <2> QED BY <2>1, <2>2, <1>mark
  <1>2. ASSUME NEW h \in Slots, GetProject(h) \/ SelectProject(h) \/ RefillProject(h) \/ SaveProject(h) \/ PersistProject(h)
        PROVE  Kept
    BY <1>2, <1>same DEF GetProject, SelectProject, RefillProject, SaveProject, PersistProject
  <1>3. ASSUME NEW h \in Slots, GetHistory(h) \/ SelectHistory(h) \/ RefillHistory(h) \/ SaveHistory(h) \/ PersistHistory(h)
        PROVE  Kept
    BY <1>3, <1>same DEF GetHistory, SelectHistory, RefillHistory, SaveHistory, PersistHistory
  <1>4. ASSUME NEW h \in Slots, Background(h) \/ TriggerPm(h) \/ AnswerText(h) \/ Publish(h) \/ ServerError(h) \/ ModelsFail(h)
        PROVE  Kept
    BY <1>4, <1>same DEF Background, TriggerPm, AnswerText, Publish, ServerError, ModelsFail
  <1>5. ASSUME NEW h \in Slots, BeginStream(h)
        PROVE  Kept
    <2>1. Mark("refused", IF handlers[h].safe THEN {} ELSE {handlers[h].p}) /\ handlers[h].p \in Projects
      BY <1>5, BeginStreamStep, AtStep DEF BeginStream
    <2>2. (IF handlers[h].safe THEN {} ELSE {handlers[h].p}) \in SUBSET Projects
      BY <2>1
    <2> QED BY <2>1, <2>2, <1>mark
  <1>6. ASSUME NEW h \in Slots, AnswerTool(h)
        PROVE  Remembered
    <2>1. Busy(h) /\ First(handlers[h].todo) \in InCall
      BY <1>6, AnswerToolStep DEF InCall
    <2>2. UNCHANGED seen \/ \E tool \in ToolsOf(handlers[h].agent) : \E sub \in SubsAfter(tool) : ExecutesTool(handlers[h], tool, sub)
      BY <1>6, AnswerToolStep
    <2> QED BY <2>1, <2>2, <1>same, ExecutesMarks DEF Kept
  <1>7. ASSUME NEW h \in Slots, ExecuteTool(h)
        PROVE  Remembered
    <2>1. Busy(h) /\ First(handlers[h].todo) \in InCall /\ handlers[h].tool \in ToolsOf(handlers[h].agent)
      BY <1>7, ExecuteToolStep DEF InCall
    <2>2. \E sub \in SubsAfter(handlers[h].tool) : ExecutesTool(handlers[h], handlers[h].tool, sub)
      BY <1>7, ExecuteToolStep
    <2> QED BY <2>1, <2>2, ExecutesMarks
  <1>8. ASSUME NEW h \in Slots, RedisFails(h)
        PROVE  Kept
    <2>1. Mark("blind", {handlers[h].p}) /\ {handlers[h].p} \in SUBSET Projects
      BY <1>8, RedisFailsStep, AtStep
    <2> QED BY <2>1, <1>mark
  <1>9. ASSUME NEW h \in Slots, MySQLFails(h)
        PROVE  Kept
    <2>1. /\ Mark("blind", {handlers[h].p}) \/ MarkTorn({h}, {})
          /\ {handlers[h].p} \in SUBSET Projects /\ {} \in SUBSET Projects /\ {h} \in SUBSET Slots
      BY <1>9, MySQLFailsStep, AtStep
    <2> QED BY <2>1, <1>mark, <1>torn
  <1>10. ASSUME NEW h \in Slots, Disconnect(h)
        PROVE  Kept
    BY <1>10, <1>torn DEF Disconnect
  <1>11. ASSUME Land \/ Expire \/ UNCHANGED vars
        PROVE  Kept
    BY <1>11, <1>same DEF Land, Expire, vars
  <1>12. ASSUME LoseWrite
        PROVE  Kept
    <2>1. PICK w \in unsaved : Mark("torn", {w.p})
      BY <1>12 DEF LoseWrite
    <2>2. {w.p} \in SUBSET Projects
      BY <1>0 DEF Types
    <2> QED BY <2>1, <2>2, <1>mark
  <1>13. ASSUME Restart
        PROVE  Kept
    <2>1. MarkTorn(Slots, {w.p : w \in unsaved}) /\ {w.p : w \in unsaved} \in SUBSET Projects
      BY <1>0, <1>13 DEF Restart, Types
    <2> QED BY <2>1, <1>torn
  <1>14. ASSUME NEW h \in Slots, CallAgent(h)
         PROVE  Kept
    BY <1>14, CalledMarks DEF Kept
  <1> QED
    BY <1>1, <1>2, <1>3, <1>4, <1>5, <1>6, <1>7, <1>8, <1>9, <1>10, <1>11, <1>12, <1>13, <1>14 DEF Next, Runs, Kept

\* Whatever leaves the tables and the writes to them alone keeps what is known of them.
LEMMA PlanKept ==
    ASSUME PlanInv, Remembered, seen'.halved = seen.halved, UNCHANGED <<tables, unsaved>>
    PROVE  PlanInv'
  <1>1. \A p : Outstanding(p)' = Outstanding(p)
    BY DEF Outstanding
  <1> QED BY <1>1 DEF PlanInv, Remembered

\* A decomposition adds both halves of a plan, one of them or none, unless one is still outstanding.
LEMMA PlanExecutes ==
    ASSUME ControlInv, PlanInv, NEW h \in Slots, Busy(h), First(handlers[h].todo) \in InCall,
           NEW tool \in ToolsOf(handlers[h].agent), NEW sub \in SubsAfter(tool), ExecutesTool(handlers[h], tool, sub)
    PROVE  PlanInv'
  <1> DEFINE r == handlers[h]
  <1>p. PICK a, t : a = agents.p[r.agent] /\ t = Turn(r)
    OBVIOUS
  <1>1. r \in Request /\ r.agent \in Agents /\ a \in Projects /\ Types
    BY <1>p, InCallStep DEF ControlInv
  <1>2. PICK lists \in SUBSET Tables : lists \subseteq RowsOf(tool) /\ FiresOff(r, lists) /\ UNCHANGED tables
    BY <1>p, <1>1, ExecutesStep
  <1> DEFINE added == {[p |-> a, table |-> x, turn |-> t] : x \in lists}
  <1>rows. Stores(r, agents.p[r.agent], lists) = added
    BY <1>p DEF Stores
  <1>3. unsaved' = unsaved \cup added
    BY <1>2, <1>rows DEF FiresOff
  <1>4. /\ Remembered /\ seen'.crowded = seen.crowded \cup RacedBy(r, lists) /\ seen'.torn = seen.torn
        /\ seen'.halved = Halved(a, lists)
    BY <1>p, <1>1, <1>2, FiresOffStep
  <1>5. lists \cap Plan = {} \/ lists \subseteq Plan
    BY <1>2 DEF RowsOf, Plan
  <1>6. \A u \in unsaved : u.p = a /\ u.table \in lists => a \in seen'.crowded
    <2> SUFFICES ASSUME NEW u \in unsaved, u.p = a, u.table \in lists
                 PROVE  u.p \in RacedBy(r, lists)
      BY <1>4
    <2> DEFINE v == [p |-> a, table |-> u.table, turn |-> t]
    <2>1. v \in Stores(r, agents.p[r.agent], lists) /\ v.p = u.p /\ v.table = u.table
      BY <1>p DEF Stores
    <2> QED BY <2>1 DEF RacedBy
  <1> SUFFICES ASSUME NEW p \in Projects, p \notin seen'.crowded, p \notin seen'.torn, p \notin seen'.halved
               PROVE  /\ Outstanding(p)' = {} => tables'[p]["tasks"] = tables'[p]["milestones"]
                      /\ \A v, w \in Outstanding(p)' : v.turn = w.turn /\ (v.table = w.table => v = w)
                      /\ \A w \in Outstanding(p)' : (\E v \in Outstanding(p)' : v.table = Other(w.table))
                                                    \/ tables'[p][Other(w.table)] = w.turn
    BY DEF PlanInv
  <1>7. CASE p # a \/ lists \cap Plan = {}
    <2>1. Outstanding(p)' = Outstanding(p)
      BY <1>3, <1>7 DEF Outstanding
    <2>2. Plan # {}
      BY DEF Plan
    <2>3. p \notin seen.halved
      BY <1>4, <1>7, <2>2 DEF Halved
    <2>4. /\ Outstanding(p) = {} => tables[p]["tasks"] = tables[p]["milestones"]
          /\ \A v, w \in Outstanding(p) : v.turn = w.turn /\ (v.table = w.table => v = w)
          /\ \A w \in Outstanding(p) : (\E v \in Outstanding(p) : v.table = Other(w.table))
                                       \/ tables[p][Other(w.table)] = w.turn
      BY <1>4, <2>3 DEF PlanInv
    <2> QED BY <1>2, <2>1, <2>4
  <1>8. CASE p = a /\ Plan \subseteq lists /\ lists \subseteq Plan
    <2>0. lists = Plan
      BY <1>8
    <2>1. Outstanding(p) = {}
      BY <1>6, <1>8 DEF Outstanding
    <2>2. Outstanding(p)' = added
      BY <1>3, <1>8, <2>1 DEF Outstanding
    <2>3. \A w \in added : w.turn = t /\ w.table \in Plan /\ w.p = a
      BY <2>0
    <2>4. \A v, w \in added : v.table = w.table => v = w
      OBVIOUS
    <2>5. \A x \in Plan : \E w \in added : w.table = x
      <3> SUFFICES ASSUME NEW x \in Plan
                   PROVE  \E w \in added : w.table = x
        OBVIOUS
      <3>1. [p |-> a, table |-> x, turn |-> t] \in added
        BY <2>0
      <3> QED BY <3>1
    <2>6. Other("tasks") = "milestones" /\ Other("milestones") = "tasks" /\ Plan = {"tasks", "milestones"}
      BY DEF Other, Plan
    <2> HIDE DEF added
    <2>7. \A w \in added : \E v \in added : v.table = Other(w.table)
      BY <2>3, <2>5, <2>6
    <2>8. added # {}
      BY <2>5, <2>6
    <2> QED BY <2>2, <2>3, <2>4, <2>7, <2>8
  <1>9. CASE p = a /\ lists \cap Plan # {} /\ ~(Plan \subseteq lists)
    BY <1>4, <1>9 DEF Halved
  <1> QED BY <1>5, <1>7, <1>8, <1>9

\* A write that lands leaves the other half outstanding, or completes the plan.
LEMMA PlanLand ==
    ASSUME ControlInv, PlanInv, Land
    PROVE  PlanInv'
  <1>1. PICK u \in unsaved :
        /\ tables' = [tables EXCEPT ![u.p] = [tables[u.p] EXCEPT ![u.table] = u.turn]]
        /\ unsaved' = unsaved \ {u}
        /\ UNCHANGED seen
    BY DEF Land
  <1>2. /\ u.p \in Projects /\ u.table \in Tables
        /\ tables \in [Projects -> [Tables -> Turns \cup {NoTurn}]]
    BY DEF ControlInv, Types
  <1>3. /\ "tasks" \in Tables /\ "milestones" \in Tables /\ Plan = {"tasks", "milestones"}
        /\ Other("tasks") = "milestones" /\ Other("milestones") = "tasks"
    BY DEF Tables, Plan, Other
  <1> SUFFICES ASSUME NEW p \in Projects, p \notin seen.crowded, p \notin seen.torn, p \notin seen.halved
               PROVE  /\ Outstanding(p)' = {} => tables'[p]["tasks"] = tables'[p]["milestones"]
                      /\ \A v, w \in Outstanding(p)' : v.turn = w.turn /\ (v.table = w.table => v = w)
                      /\ \A w \in Outstanding(p)' : (\E v \in Outstanding(p)' : v.table = Other(w.table))
                                                    \/ tables'[p][Other(w.table)] = w.turn
    BY <1>1 DEF PlanInv
  <1>4. /\ Outstanding(p) = {} => tables[p]["tasks"] = tables[p]["milestones"]
        /\ \A v, w \in Outstanding(p) : v.turn = w.turn /\ (v.table = w.table => v = w)
        /\ \A w \in Outstanding(p) : (\E v \in Outstanding(p) : v.table = Other(w.table))
                                     \/ tables[p][Other(w.table)] = w.turn
    BY DEF PlanInv
  <1>5. \A w \in Outstanding(p) : w.table \in Plan
    BY DEF Outstanding
  <1>6. CASE u \notin Outstanding(p)
    <2>1. Outstanding(p)' = Outstanding(p)
      BY <1>1, <1>6 DEF Outstanding
    <2>2. tables'[p]["tasks"] = tables[p]["tasks"] /\ tables'[p]["milestones"] = tables[p]["milestones"]
      BY <1>1, <1>2, <1>3, <1>6 DEF Outstanding
    <2>3. \A w \in Outstanding(p) : tables'[p][Other(w.table)] = tables[p][Other(w.table)]
      BY <1>3, <1>5, <2>2
    <2> QED BY <1>4, <2>1, <2>2, <2>3
  <1>7. CASE u \in Outstanding(p)
    <2>1. Outstanding(p)' = Outstanding(p) \ {u} /\ u.p = p /\ u.table \in Plan
      BY <1>1, <1>7 DEF Outstanding
    <2>2. /\ tables'[p][u.table] = u.turn
          /\ tables'[p][Other(u.table)] = tables[p][Other(u.table)]
      <3>1. tables'[p] = [tables[p] EXCEPT ![u.table] = u.turn] /\ tables[p] \in [Tables -> Turns \cup {NoTurn}]
        BY <1>1, <1>2, <2>1
      <3> QED BY <1>2, <1>3, <2>1, <3>1
    <2>3. \A v \in Outstanding(p) \ {u} : v.turn = u.turn /\ Other(v.table) = u.table
      BY <1>3, <1>4, <1>5, <1>7, <2>1
    <2>4. ASSUME Outstanding(p) \ {u} = {}
          PROVE  tables'[p]["tasks"] = tables'[p]["milestones"]
      <3>1. tables[p][Other(u.table)] = u.turn
        BY <1>3, <1>4, <1>7, <2>1, <2>4
      <3> QED BY <1>3, <2>1, <2>2, <3>1
    <2> QED BY <1>4, <2>1, <2>2, <2>3, <2>4
  <1> QED BY <1>6, <1>7

LEMMA PlanNext == ControlInv /\ PlanInv /\ [Next]_vars => PlanInv'
  <1> SUFFICES ASSUME ControlInv, PlanInv, [Next]_vars
               PROVE  PlanInv'
    OBVIOUS
  <1>3. ASSUME NEW h \in Slots, AnswerTool(h)
        PROVE  PlanInv'
    <2>1. Busy(h) /\ First(handlers[h].todo) \in InCall
      BY <1>3, AnswerToolStep DEF InCall
    <2>2. \/ UNCHANGED <<products, seen>>
          \/ \E tool \in ToolsOf(handlers[h].agent) : \E sub \in SubsAfter(tool) : ExecutesTool(handlers[h], tool, sub)
      BY <1>3, AnswerToolStep
    <2>3. UNCHANGED <<products, seen>> => PlanInv'
      BY PlanKept DEF products, Remembered
    <2> QED BY <2>1, <2>2, <2>3, PlanExecutes
  <1>4. ASSUME NEW h \in Slots, ExecuteTool(h)
        PROVE  PlanInv'
    <2>1. Busy(h) /\ First(handlers[h].todo) \in InCall /\ handlers[h].tool \in ToolsOf(handlers[h].agent)
      BY <1>4, ExecuteToolStep DEF InCall
    <2>2. \E sub \in SubsAfter(handlers[h].tool) : ExecutesTool(handlers[h], handlers[h].tool, sub)
      BY <1>4, ExecuteToolStep
    <2> QED BY <2>1, <2>2, PlanExecutes
  <1>0. Remembered /\ (seen'.halved = seen.halved \/ \E h \in Slots : AnswerTool(h) \/ ExecuteTool(h))
    BY MarksAreKept
  <1> SUFFICES ASSUME seen'.halved = seen.halved
               PROVE  PlanInv'
    BY <1>0, <1>3, <1>4
  <1>same. UNCHANGED products => PlanInv'
    BY <1>0, PlanKept DEF products
  <1>1. ASSUME NEW h \in Slots,
               \/ Arrive(h) \/ GetProject(h) \/ SelectProject(h) \/ RefillProject(h) \/ SaveProject(h) \/ PersistProject(h)
               \/ GetHistory(h) \/ SelectHistory(h) \/ RefillHistory(h) \/ SaveHistory(h) \/ PersistHistory(h)
        PROVE  PlanInv'
    BY <1>1, <1>same DEF Arrive, GetProject, SelectProject, RefillProject, SaveProject, PersistProject, GetHistory,
          SelectHistory, RefillHistory, SaveHistory, PersistHistory
  <1>2. ASSUME NEW h \in Slots,
               \/ Background(h) \/ TriggerPm(h) \/ CallAgent(h) \/ BeginStream(h) \/ AnswerText(h) \/ Publish(h)
               \/ ServerError(h) \/ RedisFails(h) \/ MySQLFails(h) \/ ModelsFail(h) \/ Disconnect(h)
        PROVE  PlanInv'
    BY <1>2, <1>same DEF Background, TriggerPm, CallAgent, BeginStream, AnswerText, Publish, ServerError, RedisFails,
          MySQLFails, ModelsFail, Disconnect
  <1>5. ASSUME LoseWrite
        PROVE  PlanInv'
    <2>1. PICK u \in unsaved : unsaved' = unsaved \ {u} /\ Mark("torn", {u.p}) /\ UNCHANGED tables
      BY <1>5 DEF LoseWrite
    <2>2. {u.p} \in SUBSET Projects /\ seen \in Marks
      BY DEF ControlInv, Types
    <2>3. seen'["torn"] = seen["torn"] \cup {u.p}
      BY <2>1, <2>2, MarkStep
    <2>4. seen'.torn = seen.torn \cup {u.p}
      BY <2>3
    <2>5. \A p \in Projects \ seen'.torn : Outstanding(p)' = Outstanding(p)
      BY <2>1, <2>4 DEF Outstanding
    <2> QED BY <1>0, <2>1, <2>5 DEF PlanInv, Remembered
  <1>6. ASSUME Restart
        PROVE  PlanInv'
    <2>1. unsaved' = {} /\ UNCHANGED tables /\ MarkTorn(Slots, {w.p : w \in unsaved})
      BY <1>6 DEF Restart
    <2>2. {w.p : w \in unsaved} \in SUBSET Projects
      BY DEF ControlInv, Types
    <2>3. seen'.torn = seen.torn \cup Torn(Slots) \cup {w.p : w \in unsaved}
      BY <2>1, <2>2, MarkTornStep
    <2>4. \A p \in Projects \ seen'.torn : Outstanding(p) = {} /\ Outstanding(p)' = {}
      BY <2>1, <2>3 DEF Outstanding
    <2> QED BY <1>0, <2>1, <2>4 DEF PlanInv, Remembered
  <1>7. ASSUME Expire \/ UNCHANGED vars
        PROVE  PlanInv'
    BY <1>7, <1>same DEF Expire, vars
  <1> QED BY <1>1, <1>2, <1>3, <1>4, <1>5, <1>6, <1>7, PlanLand DEF Next, Runs

\* The tasks and the milestones of a project come from one decomposition once no write is outstanding,
\* when the last one that gave either gave both.
THEOREM PlansAreWhole == Spec => []PlanWhole
  <1>1. Init => PlanInv
    <2> SUFFICES ASSUME Init
                 PROVE  PlanInv
      OBVIOUS
    <2>1. PICK s \in Scenarios :
             /\ tables = [p \in Projects |-> [t \in Tables |-> IF t \in s.tables THEN [p |-> p, n |-> 0] ELSE NoTurn]]
             /\ seen.halved = IF Plan \cap s.tables \in {{}, Plan} THEN {} ELSE Projects
      BY DEF Init
    <2>2. Projects \subseteq seen.halved \/ ("tasks" \in s.tables <=> "milestones" \in s.tables)
      BY <2>1 DEF Plan
    <2>3. "tasks" \in Tables /\ "milestones" \in Tables
      BY DEF Tables
    <2>4. \A p \in Projects \ seen.halved : tables[p]["tasks"] = tables[p]["milestones"]
      BY <2>1, <2>2, <2>3
    <2>5. \A p : Outstanding(p) = {}
      BY DEF Init, Outstanding
    <2> QED BY <2>4, <2>5 DEF PlanInv
  <1>2. PlanInv => PlanWhole
    BY DEF PlanInv, PlanWhole, Outstanding
  <1> QED BY <1>1, <1>2, PlanNext, ControlInvariant, PTL DEF Spec

-----------------------------------------------------------------------------
\* What a stage tells of the design.

\* What has once been earned stays earned: a document is never removed.
Grows == \A p \in Projects, f \in Documents : Written(p, f) => Written(p, f)'

LEMMA StillEarned ==
    ASSUME Grows, NEW p \in Projects
    PROVE  \A st : Earned(p, st) => Earned(p, st)'
  BY DEF Grows, Earned, Documents

\* A step of a request that leaves what is stored with what it has earned.
LEMMA StatusStep ==
    ASSUME ControlInv, StatusInv, Grows, NEW h \in Slots, NEW q \in {Idle} \cup Request, Goes(h, q),
           \A p \in Projects : (cache'[p] # Nil => Earned(p, cache[p])') /\ Earned(p, stages[p])',
           q # Idle /\ q.todo # <<>> => Earned(q.p, q.st)'
    PROVE  StatusInv'
  <1>1. /\ handlers' \in [Slots -> {Idle} \cup Request]
        /\ \A g \in Slots : g # h => handlers'[g] = handlers[g]
        /\ Busy(h)' => handlers'[h] = q /\ q \in Request /\ q.todo # <<>>
    BY GoesTo DEF ControlInv
  <1>2. ASSUME NEW g \in Slots, Busy(g)'
        PROVE  Earned(Own(g), handlers[g].st)'
    <2>1. CASE g = h
      <3>1. handlers'[g] = q /\ q.todo # <<>> /\ q # Idle
        BY <1>1, <1>2, <2>1 DEF Busy
      <3> QED BY <3>1 DEF Own, Earned, Written
    <2>2. CASE g # h
      <3>1. PICK r : r = handlers[g]
        OBVIOUS
      <3>2. handlers'[g] = r /\ Busy(g)
        BY <1>1, <1>2, <2>2, <3>1 DEF Busy
      <3>3. Own(g) = r.p /\ r.p \in Projects
        BY <3>1, <3>2, AtStep
      <3>4. Earned(r.p, r.st)
        BY <3>1, <3>2, <3>3 DEF StatusInv
      <3>5. Earned(r.p, r.st)'
        BY <3>3, <3>4, StillEarned
      <3> QED BY <3>2, <3>5 DEF Own, Earned, Written
    <2> QED BY <2>1, <2>2
  <1> QED BY <1>2 DEF StatusInv

\* What a request under way has earned.
LEMMA StatusHeld ==
    ASSUME ControlInv, StatusInv, NEW h \in Slots, Busy(h), NEW r, r = handlers[h]
    PROVE  r \in Request /\ r.p \in Projects /\ Earned(r.p, r.st)
  <1>1. Own(h) = r.p /\ r \in Request /\ r.p \in Projects
    BY AtStep
  <1> QED BY <1>1 DEF StatusInv

\* What is stored and stays as it is has still been earned.
LEMMA StatusStored ==
    ASSUME StatusInv, Grows, UNCHANGED <<cache, stages>>
    PROVE  \A p \in Projects : (cache'[p] # Nil => Earned(p, cache[p])') /\ Earned(p, stages[p])'
  <1> SUFFICES ASSUME NEW p \in Projects
               PROVE  (cache'[p] # Nil => Earned(p, cache[p])') /\ Earned(p, stages[p])'
    OBVIOUS
  <1>1. PICK c, d : c = cache[p] /\ d = stages[p]
    OBVIOUS
  <1>2. (c # Nil => Earned(p, c)) /\ Earned(p, d)
    BY <1>1 DEF StatusInv
  <1>3. (c # Nil => Earned(p, c)') /\ Earned(p, d)'
    BY <1>2, StillEarned
  <1> QED BY <1>1, <1>3 DEF Earned

\* Most steps leave what is stored alone, and the request with the state it had.
LEMMA StatusQuiet ==
    ASSUME ControlInv, StatusInv, Grows, NEW h \in Slots, Busy(h), NEW q \in {Idle} \cup Request, Goes(h, q),
           NEW r, r = handlers[h], UNCHANGED <<cache, stages>>,
           q # Idle /\ q.todo # <<>> => Kin(r, q) /\ (q.st = r.st \/ Earned(q.p, q.st))
    PROVE  StatusInv'
  <1>1. r.p \in Projects /\ Earned(r.p, r.st)
    BY StatusHeld
  <1>2. q # Idle /\ q.todo # <<>> => q.p \in Projects /\ Earned(q.p, q.st)
    BY <1>1 DEF Kin
  <1>3. q # Idle /\ q.todo # <<>> => Earned(q.p, q.st)'
    BY <1>2, StillEarned
  <1> QED BY <1>3, StatusStored, StatusStep

\* What a project's state may become when it is saved.
LEMMA MarkedEarned ==
    ASSUME NEW r \in Request, Shape(r), First(r.todo) \in Saves, Earned(r.p, r.st)
    PROVE  Earned(r.p, Marked(r))
  <1>1. \/ Marked(r).design \in {"pending", "running", r.st.design}
        \/ (First(r.todo) = "design_done" /\ Written(r.p, "design.md")) \/ First(r.todo) = "design_confirmed"
    BY MarkedStep
  <1>2. First(r.todo) = "design_confirmed" => Written(r.p, "design.md")
    <2>1. First(r.todo) = "design_confirmed" => Follows(r.kind, First(r.todo), Others(r.todo))
      BY WhatIsLeft DEF Inside, InCall
    <2>2. First(r.todo) = "design_confirmed" => r.kind = "confirm_design"
      BY <2>1 DEF Follows, Final
    <2> QED BY <2>2 DEF Shape
  <1> QED BY <1>1, <1>2 DEF Earned

\* A tool is executed, in a stream or not: nothing that was there goes.
LEMMA ToolGrows ==
    ASSUME ControlInv, NEW h \in Slots, Busy(h), First(handlers[h].todo) \in InCall,
           NEW tool \in ToolsOf(handlers[h].agent), NEW sub \in SubsAfter(tool), ExecutesTool(handlers[h], tool, sub)
    PROVE  Grows
  <1>1. LET r == handlers[h] IN r \in Request /\ r.agent \in Agents /\ agents.p[r.agent] \in Projects /\ Types
    BY InCallStep DEF ControlInv
  <1> QED BY <1>1, ExecutesStep DEF Grows

\* A request goes on with the state it had, or ends.
StateHeld(h) ==
    Busy(h) /\ \E q \in {Idle} \cup Request :
       Goes(h, q) /\ (q # Idle => Kin(handlers[h], q) /\ q.st = handlers[h].st)

LEMMA StatusNext == ControlInv /\ StatusInv /\ [Next]_vars => StatusInv'
  <1> SUFFICES ASSUME ControlInv, StatusInv, [Next]_vars
               PROVE  StatusInv'
    OBVIOUS
  <1>0. Types
    BY DEF ControlInv
  <1>docs. UNCHANGED docs => Grows
    BY DEF Grows, Written
  <1>quiet. ASSUME NEW h \in Slots, Busy(h), NEW q \in {Idle} \cup Request, Goes(h, q), Grows, UNCHANGED <<cache, stages>>,
                   q # Idle => Kin(handlers[h], q) /\ q.st = handlers[h].st
            PROVE  StatusInv'
    <2>p. PICK r : r = handlers[h]
      OBVIOUS
    <2> QED BY <1>quiet, <2>p, StatusQuiet
  <1>1. ASSUME NEW h \in Slots, Arrive(h)
        PROVE  StatusInv'
    <2>1. PICK q \in Request : Goes(h, q) /\ q.st = Fresh
      BY <1>1, ArriveStep
    <2>2. UNCHANGED <<cache, stages, docs>>
      BY <1>1 DEF Arrive, store, products
    <2>3. Earned(q.p, q.st)'
      BY <2>1 DEF Earned, Fresh
    <2> QED BY <2>1, <2>2, <2>3, <1>docs, StatusStored, StatusStep
  <1>2. ASSUME NEW h \in Slots, GetProject(h)
        PROVE  StatusInv'
    <2>p. PICK r : r = handlers[h]
      OBVIOUS
    <2>1. UNCHANGED <<cache, stages, docs>>
      BY <1>2 DEF GetProject, store, products
    <2>2. PICK q \in {Idle} \cup Request :
             /\ Goes(h, q)
             /\ q = Idle \/ Like(r, q) \/ (cache[r.p] # Nil /\ Resumed(r, cache[r.p], q))
      BY <1>2, <2>p, GetProjectStep
    <2>3. Busy(h) /\ r.p \in Projects
      BY <1>2, <2>p, GetProjectStep, AtStep
    <2>4. q # Idle => Kin(r, q) /\ q.st \in {r.st, cache[r.p]} /\ (q.st = r.st \/ cache[r.p] # Nil)
      BY <2>2 DEF Like, Resumed
    <2>5. q # Idle => q.st = r.st \/ Earned(q.p, q.st)
      BY <2>3, <2>4 DEF StatusInv, Kin
    <2> QED BY <2>p, <2>1, <2>2, <2>3, <2>4, <2>5, <1>docs, StatusQuiet
  <1>3. ASSUME NEW h \in Slots, SelectProject(h)
        PROVE  StatusInv'
    <2>p. PICK r : r = handlers[h]
      OBVIOUS
    <2>1. UNCHANGED <<cache, stages, docs>>
      BY <1>3 DEF SelectProject, store, products
    <2>2. PICK q \in Request : Goes(h, q) /\ Kin(r, q) /\ q.st.design = stages[r.p].design
      BY <1>3, <2>p, SelectProjectStep
    <2>3. Busy(h) /\ r.p \in Projects
      BY <1>3, <2>p, SelectProjectStep, AtStep
    <2>4. Earned(q.p, q.st)
      BY <2>2, <2>3 DEF StatusInv, Earned, Kin
    <2> QED BY <2>p, <2>1, <2>2, <2>3, <2>4, <1>docs, StatusQuiet
  <1>4. ASSUME NEW h \in Slots, RefillProject(h)
        PROVE  StatusInv'
    <2>p. PICK r, n : r = handlers[h] /\ n = Next_(handlers[h])
      OBVIOUS
    <2>1. UNCHANGED <<stages, docs>> /\ cache' = [cache EXCEPT ![r.p] = r.st]
      BY <1>4, <2>p DEF RefillProject, products
    <2>2. PICK q \in {Idle} \cup Request : Goes(h, q) /\ (q = Idle \/ Resumed(n, r.st, q))
      BY <1>4, <2>p, RefillProjectStep
    <2>3. Busy(h) /\ r.p \in Projects /\ Like(r, n)
      BY <1>4, <2>p, RefillProjectStep, AtStep
    <2>4. Earned(r.p, r.st)
      BY <2>p, <2>3, StatusHeld
    <2>5. \A p \in Projects : (cache'[p] # Nil => Earned(p, cache[p])') /\ Earned(p, stages[p])'
      <3> SUFFICES ASSUME NEW p \in Projects
                   PROVE  (cache'[p] # Nil => Earned(p, cache[p])') /\ Earned(p, stages[p])'
        OBVIOUS
      <3>1. (cache[p] # Nil => Earned(p, cache[p])) /\ Earned(p, stages[p])
        BY DEF StatusInv
      <3>2. cache'[p] = IF p = r.p THEN r.st ELSE cache[p]
        BY <1>0, <2>1 DEF Types
      <3> QED BY <2>1, <2>4, <3>1, <3>2 DEF Earned, Written
    <2>6. q # Idle => Kin(r, q) /\ q.st = r.st
      BY <2>2, <2>3 DEF Resumed, Like, Kin
    <2>7. q # Idle => Earned(q.p, q.st)'
      BY <2>1, <2>4, <2>6 DEF Earned, Written, Kin
    <2> QED BY <2>1, <2>2, <2>5, <2>7, <1>docs, StatusStep
  <1>5. ASSUME NEW h \in Slots, SaveProject(h)
        PROVE  StatusInv'
    <2>p. PICK r, m : r = handlers[h] /\ m = Marked(handlers[h])
      OBVIOUS
    <2>1. UNCHANGED <<stages, docs>>
      BY <1>5 DEF SaveProject, products
    <2>2. Busy(h) /\ First(r.todo) \in Saves /\ r \in Request /\ Shape(r) /\ r.p \in Projects
      BY <1>5, <2>p, SaveProjectStep, AtStep
    <2>3. CASE Goes(h, Idle) /\ UNCHANGED cache
      BY <2>1, <2>2, <2>3, <1>docs, <1>quiet
    <2>4. CASE /\ cache' = [cache EXCEPT ![r.p] = m]
               /\ \E q \in Request : Goes(h, q) /\ Kin(r, q) /\ q.st = m
      <3>1. PICK q \in Request : Goes(h, q) /\ Kin(r, q) /\ q.st = m
        BY <2>4
      <3>2. Earned(r.p, m)
        BY <2>p, <2>2, StatusHeld, MarkedEarned
      <3>3. \A p \in Projects : (cache'[p] # Nil => Earned(p, cache[p])') /\ Earned(p, stages[p])'
        <4> SUFFICES ASSUME NEW p \in Projects
                     PROVE  (cache'[p] # Nil => Earned(p, cache[p])') /\ Earned(p, stages[p])'
          OBVIOUS
        <4>1. (cache[p] # Nil => Earned(p, cache[p])) /\ Earned(p, stages[p])
          BY DEF StatusInv
        <4>2. cache'[p] = IF p = r.p THEN m ELSE cache[p]
          BY <1>0, <2>4 DEF Types
        <4> QED BY <2>1, <3>2, <4>1, <4>2 DEF Earned, Written
      <3>4. Earned(q.p, q.st)'
        BY <2>1, <3>1, <3>2 DEF Earned, Written, Kin
      <3> QED BY <2>1, <3>1, <3>3, <3>4, <1>docs, StatusStep
    <2> QED BY <1>5, <2>p, <2>3, <2>4, SaveProjectStep
  <1>6. ASSUME NEW h \in Slots, PersistProject(h)
        PROVE  StatusInv'
    <2>p. PICK r : r = handlers[h]
      OBVIOUS
    <2>1. UNCHANGED <<cache, docs>> /\ stages' = [stages EXCEPT ![r.p] = save_project(r.st)]
          /\ At(h, "persist") /\ Goes(h, Next_(handlers[h]))
      BY <1>6, <2>p DEF PersistProject, products
    <2>2. PICK q \in Request : Goes(h, q) /\ Like(r, q)
      BY <2>p, <2>1, PersistProjectStep
    <2>3. Busy(h) /\ r.p \in Projects
      BY <2>p, <2>1, PersistProjectStep, AtStep
    <2>4. Earned(r.p, r.st)
      BY <2>p, <2>3, StatusHeld
    <2>5. \A p \in Projects : (cache'[p] # Nil => Earned(p, cache[p])') /\ Earned(p, stages[p])'
      <3> SUFFICES ASSUME NEW p \in Projects
                   PROVE  (cache'[p] # Nil => Earned(p, cache[p])') /\ Earned(p, stages[p])'
        OBVIOUS
      <3>1. (cache[p] # Nil => Earned(p, cache[p])) /\ Earned(p, stages[p])
        BY DEF StatusInv
      <3>2. stages'[p] = IF p = r.p THEN save_project(r.st) ELSE stages[p]
        BY <1>0, <2>1 DEF Types
      <3>3. save_project(r.st).design = r.st.design
        BY DEF save_project
      <3> QED BY <2>1, <2>4, <3>1, <3>2, <3>3 DEF Earned, Written
    <2>6. Earned(q.p, q.st)'
      BY <2>1, <2>2, <2>4 DEF Earned, Written, Like, Kin
    <2> QED BY <2>1, <2>2, <2>5, <2>6, <1>docs, StatusStep
  <1>7. ASSUME NEW h \in Slots,
               GetHistory(h) \/ SelectHistory(h) \/ RefillHistory(h) \/ SaveHistory(h) \/ PersistHistory(h)
        PROVE  StatusInv'
    <2>1. UNCHANGED <<cache, stages, docs>>
      BY <1>7 DEF GetHistory, SelectHistory, RefillHistory, SaveHistory, PersistHistory, store, products
    <2>2. StateHeld(h)
      <3>1. GetHistory(h) => StateHeld(h)
        BY GetHistoryStep DEF StateHeld, Hears, Like
      <3>2. SelectHistory(h) => StateHeld(h)
        BY SelectHistoryStep DEF StateHeld, Hears
      <3>3. RefillHistory(h) => StateHeld(h)
        BY RefillHistoryStep DEF StateHeld, Hears
      <3>4. SaveHistory(h) => StateHeld(h)
        BY SaveHistoryStep DEF StateHeld
      <3>5. PersistHistory(h) => StateHeld(h)
        BY PersistHistoryStep DEF StateHeld, PersistHistory
      <3> QED BY <1>7, <3>1, <3>2, <3>3, <3>4, <3>5
    <2> QED BY <2>1, <2>2, <1>docs, <1>quiet DEF StateHeld
  <1>8. ASSUME NEW h \in Slots, Background(h) \/ TriggerPm(h) \/ CallAgent(h) \/ BeginStream(h) \/ AnswerText(h) \/ Publish(h)
        PROVE  StatusInv'
    <2>1. UNCHANGED <<cache, stages, docs>>
      BY <1>8 DEF Background, TriggerPm, CallAgent, BeginStream, AnswerText, Publish, store, products
    <2>2. StateHeld(h)
      <3>1. Background(h) => StateHeld(h)
        BY BackgroundStep DEF StateHeld
      <3>2. TriggerPm(h) => StateHeld(h)
        BY TriggerPmStep DEF StateHeld
      <3>3. CallAgent(h) => StateHeld(h)
        BY CallAgentStep DEF StateHeld
      <3>4. BeginStream(h) => StateHeld(h)
        BY BeginStreamStep DEF StateHeld
      <3>5. AnswerText(h) => StateHeld(h)
        BY AnswerTextStep DEF StateHeld
      <3>6. Publish(h) => StateHeld(h)
        BY PublishStep DEF StateHeld
      <3> QED BY <1>8, <3>1, <3>2, <3>3, <3>4, <3>5, <3>6
    <2> QED BY <2>1, <2>2, <1>docs, <1>quiet DEF StateHeld
  <1>9. ASSUME NEW h \in Slots, AnswerTool(h)
        PROVE  StatusInv'
    <2>1. UNCHANGED <<cache, stages>>
      BY <1>9 DEF AnswerTool, store
    <2>2. Busy(h) /\ First(handlers[h].todo) \in InCall
      BY <1>9, AnswerToolStep DEF InCall
    <2>3. PICK tool \in ToolsOf(handlers[h].agent), q \in Request :
             /\ Goes(h, q) /\ Kin(handlers[h], q) /\ q.st = handlers[h].st
             /\ UNCHANGED products \/ \E sub \in SubsAfter(tool) : ExecutesTool(handlers[h], tool, sub)
      BY <1>9, AnswerToolStep
    <2>4. Grows
      BY <2>2, <2>3, <1>docs, ToolGrows DEF products
    <2> QED BY <2>1, <2>2, <2>3, <2>4, <1>quiet
  <1>10. ASSUME NEW h \in Slots, ExecuteTool(h)
         PROVE  StatusInv'
    <2>1. UNCHANGED <<cache, stages>>
      BY <1>10 DEF ExecuteTool, store
    <2>2. Busy(h) /\ First(handlers[h].todo) \in InCall /\ handlers[h].tool \in ToolsOf(handlers[h].agent)
          /\ \E sub \in SubsAfter(handlers[h].tool) : ExecutesTool(handlers[h], handlers[h].tool, sub)
      BY <1>10, ExecuteToolStep DEF InCall
    <2>3. \E q \in Request : Goes(h, q) /\ Kin(handlers[h], q) /\ q.st = handlers[h].st
      BY <1>10, ExecuteToolStep
    <2>4. Grows
      BY <2>2, ToolGrows
    <2> QED BY <2>1, <2>2, <2>3, <2>4, <1>quiet
  <1>fails. ASSUME NEW h \in Slots, Busy(h), UNCHANGED <<cache, stages, docs>>, NEW q \in {Idle} \cup Request, Goes(h, q),
                   \/ q = Idle
                   \/ Caught(handlers[h], q)
                   \/ Like(handlers[h], q)
                   \/ Hears(handlers[h], <<>>, Others(handlers[h].todo), q)
            PROVE  StatusInv'
    <2>1. q # Idle => Kin(handlers[h], q) /\ q.st = handlers[h].st
      BY <1>fails DEF Caught, Like, Hears
    <2> QED BY <1>fails, <2>1, <1>docs, <1>quiet
  <1>11. ASSUME NEW h \in Slots, ServerError(h) \/ Disconnect(h)
         PROVE  StatusInv'
    <2>1. UNCHANGED <<cache, stages, docs>> /\ Busy(h) /\ Goes(h, Idle)
      BY <1>11, ServerErrorStep DEF ServerError, Disconnect, store, products
    <2> QED BY <2>1, <1>fails
  <1>12. ASSUME NEW h \in Slots, RedisFails(h)
         PROVE  StatusInv'
    <2>1. UNCHANGED <<cache, stages, docs>> /\ Busy(h)
      BY <1>12, RedisFailsStep DEF RedisFails, store, products
    <2> QED BY <1>12, <2>1, <1>fails, RedisFailsStep
  <1>13. ASSUME NEW h \in Slots, MySQLFails(h)
         PROVE  StatusInv'
    <2>1. UNCHANGED <<cache, stages, docs>> /\ Busy(h)
      BY <1>13, MySQLFailsStep DEF MySQLFails, store, products
    <2>2. CASE At(h, "persist_history") /\ Goes(h, HistorySaved(handlers[h]))
      <3>1. \E q \in Request : Goes(h, q) /\ Kin(handlers[h], q) /\ q.st = handlers[h].st
        BY <2>2, PersistHistoryStep
      <3> QED BY <2>1, <3>1, <1>docs, <1>quiet
    <2>3. CASE At(h, "persist") /\ Goes(h, Next_(handlers[h]))
      <3>1. \E q \in Request : Goes(h, q) /\ Like(handlers[h], q)
        BY <2>3, PersistProjectStep
      <3> QED BY <2>1, <3>1, <1>fails
    <2> QED BY <1>13, <2>1, <2>2, <2>3, <1>fails, MySQLFailsStep
  <1>14. ASSUME NEW h \in Slots, ModelsFail(h)
         PROVE  StatusInv'
    <2>1. UNCHANGED <<cache, stages, docs>> /\ Busy(h)
      BY <1>14, ModelsFailStep DEF ModelsFail, store, products
    <2> QED BY <1>14, <2>1, <1>fails, ModelsFailStep
  <1>15. ASSUME Land \/ LoseWrite \/ Expire \/ UNCHANGED vars
         PROVE  StatusInv'
    <2>1. UNCHANGED <<stages, docs, handlers>> /\ \A p \in Projects : cache'[p] \in {cache[p], Nil}
      BY <1>0, <1>15 DEF Land, LoseWrite, Expire, vars, store, products, Types
    <2> QED BY <2>1 DEF StatusInv, Earned, Written, Busy, Own
  <1>16. ASSUME Restart
         PROVE  StatusInv'
    <2>1. UNCHANGED <<cache, stages, docs>> /\ \A h \in Slots : ~Busy(h)'
      BY <1>16 DEF Restart, store, Busy
    <2> QED BY <2>1 DEF StatusInv, Earned, Written
  <1> QED
    BY <1>1, <1>2, <1>3, <1>4, <1>5, <1>6, <1>7, <1>8, <1>9, <1>10, <1>11, <1>12, <1>13, <1>14, <1>15, <1>16
       DEF Next, Runs

\* A design that waits for its confirmation, or has it, is on the disk, whatever the agent's tools brought
\* and whoever else used the agent.
THEOREM StatusIsEarned == Spec => []StatusEarned
  <1>1. Init => StatusInv
    <2> SUFFICES ASSUME Init
                 PROVE  StatusInv
      OBVIOUS
    <2>1. PICK s \in Scenarios :
             /\ stages = [p \in Projects |-> s.row]
             /\ docs = [p \in Projects |-> [f \in Documents |-> IF f \in s.docs THEN p ELSE "none"]]
      BY DEF Init
    <2>2. cache = [p \in Projects |-> Nil] /\ handlers = [h \in Slots |-> Idle]
      BY DEF Init
    <2>3. s.row.design \in {"awaiting_confirmation", "confirmed"} => "design.md" \in s.docs
      BY Standing
    <2>4. \A p \in Projects, f \in Documents : f \in s.docs => Written(p, f)
      BY <2>1, Named DEF Written
    <2>5. \A p \in Projects : Earned(p, stages[p])
      BY <2>1, <2>3, <2>4 DEF Earned, Documents
    <2> QED BY <2>2, <2>5 DEF StatusInv, Busy
  <1>2. StatusInv => StatusEarned
    BY DEF StatusInv, StatusEarned, Earned
  <1> QED BY <1>1, <1>2, StatusNext, ControlInvariant, PTL DEF Spec

-----------------------------------------------------------------------------
\* How Redis, MySQL and the request under way see a project.

OnlyOne == \A g, h \in Slots : Busy(g) /\ Busy(h) /\ Own(g) = Own(h) => g = h \/ Own(g) \in seen.crowded

\* The requests of a project under way, or Idle when there is none, and what each has to do next.
Present(p) ==
    {handlers[h] : h \in {g \in Slots : Busy(g) /\ Own(g) = p}} \cup (IF Quiet(p) THEN {Idle} ELSE {})
StepOf(r) == IF r.todo = <<>> THEN "none" ELSE First(r.todo)

\* Redis has what MySQL has, or what a request is about to write there; what is written back was read.
StateView(p, r) ==
    /\ cache[p] # Nil => IF StepOf(r) = "persist" THEN cache[p] = r.st ELSE save_project(cache[p]) = stages[p]
    /\ StepOf(r) = "refill" => save_project(r.st) = stages[p]
HistoryView(p, r) ==
    /\ hcache[p] # Nil => IF StepOf(r) = "persist_history" THEN hcache[p] = r.hist ELSE hcache[p] = hrows[p]
    /\ StepOf(r) = "refill_history" => r.hist = hrows[p]

\* A request that has read the state has what is stored, but for the one stage it is about to save.
Unread == Reads \cup {"none", "select", "refill", "fresh", "persist", "ValueError"}
StageView(p, r) ==
    /\ StepOf(r) # "fresh"
    /\ StepOf(r) \notin Unread => save_project(r.st) = stages[p]
    /\ StepOf(r) = "persist" => OneStage(stages[p], r.st)

\* A request that is to store messages has all that are stored, and its own, unless it starts over.
Odd == seen.crowded \cup seen.mixed \cup seen.refused \cup seen.blind \cup seen.over
Extends(history, rows) == history # <<>> /\ IsPrefix(rows, history)
Holding(r) ==
    \/ StepOf(r) \in {"chat", "decompose_ears", "save_history", "persist_history"}
    \/ StepOf(r) \in InCall /\ r.agent = "requirement"
TalkView(p, r) ==
    /\ hcache[p] = Nil \/ IsPrefix(hrows[p], hcache[p]) \/ (StepOf(r) = "persist_history" /\ r.kind = "start")
    /\ Holding(r) => r.kind = "start" \/ Extends(r.hist, hrows[p])
    /\ StepOf(r) = "refill_history" => r.hist = hrows[p]
    /\ StepOf(r) = "save_history" /\ r.stream => agents.result = r.hist
    /\ StepOf(r) = "persist_history" /\ hcache[p] # Nil => hcache[p] = r.hist

View(p, r) ==
    /\ p \notin seen.torn => StateView(p, r) /\ HistoryView(p, r)
    /\ p \notin seen.torn /\ p \notin seen.blind => StageView(p, r)
    /\ p \notin Odd => TalkView(p, r)
StoreInv == OnlyOne /\ \A p \in Projects \ seen.crowded : \A r \in Present(p) : View(p, r)

-----------------------------------------------------------------------------
\* One step of one request.

\* What is seen of a project depends on its own stores and on the agents' result.
LEMMA ViewKept ==
    ASSUME Remembered, NEW p, NEW w, View(p, w), cache'[p] = cache[p], hcache'[p] = hcache[p],
           stages'[p] = stages[p], hrows'[p] = hrows[p],
           StepOf(w) = "save_history" /\ w.stream /\ p \notin Odd' => agents'.result = agents.result
    PROVE  View(p, w)'
  <1>1. /\ p \notin seen'.torn => p \notin seen.torn
        /\ p \notin seen'.blind => p \notin seen.blind
        /\ p \notin Odd' => p \notin Odd
    BY DEF Remembered, Odd
  <1>2. StateView(p, w) => StateView(p, w)'
    BY DEF StateView
  <1>3. HistoryView(p, w) => HistoryView(p, w)'
    BY DEF HistoryView
  <1>4. StageView(p, w) => StageView(p, w)'
    BY DEF StageView
  <1>5. p \notin Odd' /\ TalkView(p, w) => TalkView(p, w)'
    BY DEF TalkView
  <1> QED BY <1>1, <1>2, <1>3, <1>4, <1>5 DEF View

LEMMA ViewOf ==
    ASSUME ControlInv, StoreInv, NEW h \in Slots, Busy(h), NEW r, r = handlers[h], r.p \notin seen.crowded
    PROVE  r.p \in Projects /\ View(r.p, r)
  <1>1. Own(h) = r.p /\ r.p \in Projects
    BY AtStep
  <1>2. r \in Present(r.p)
    BY <1>1 DEF Present
  <1> QED BY <1>1, <1>2 DEF StoreInv

LEMMA ViewOfNone ==
    ASSUME StoreInv, NEW p \in Projects, p \notin seen.crowded, Quiet(p)
    PROVE  View(p, Idle)
  BY DEF StoreInv, Present

\* A step of h, which works on p or begins to: the other projects are seen as before.
LEMMA StoreStep ==
    ASSUME ControlInv, StoreInv, Remembered, NEW h \in Slots, NEW p \in Projects, NEW q \in {Idle} \cup Request, Goes(h, q),
           Busy(h) => Own(h) = p, q # Idle => q.p = p,
           Busy(h) \/ p \in seen'.crowded \/ Quiet(p),
           \A x \in Projects : x # p =>
              cache'[x] = cache[x] /\ hcache'[x] = hcache[x] /\ stages'[x] = stages[x] /\ hrows'[x] = hrows[x],
           \A g \in Slots : g # h /\ Busy(g) /\ First(handlers[g].todo) = "save_history" /\ handlers[g].stream
                            /\ handlers[g].p # p /\ handlers[g].p \notin Odd' => agents'.result = agents.result,
           p \notin seen'.crowded => View(p, q)'
    PROVE  StoreInv'
  <1>1. /\ handlers' \in [Slots -> {Idle} \cup Request]
        /\ \A g \in Slots : g # h => handlers'[g] = handlers[g]
        /\ Busy(h)' => handlers'[h] = q /\ q \in Request /\ q.todo # <<>>
        /\ q # Idle /\ q.todo # <<>> => Busy(h)' /\ handlers'[h] = q
    BY GoesTo DEF ControlInv
  <1>2. seen.crowded \subseteq seen'.crowded
    BY DEF Remembered
  <1>3. Busy(h)' => Own(h)' = p
    BY <1>1 DEF Busy, Own, Idle
  <1>4. \A g \in Slots : g # h => (Busy(g)' <=> Busy(g)) /\ Own(g)' = Own(g)
    BY <1>1 DEF Busy, Own
  <1>5. \A g \in Slots : g # h /\ Busy(g) /\ Own(g) = p => p \in seen'.crowded
    BY <1>2 DEF StoreInv, OnlyOne, Quiet
  <1>6. OnlyOne'
    <2> SUFFICES ASSUME NEW g \in Slots, NEW i \in Slots, Busy(g)', Busy(i)', Own(g)' = Own(i)', g # i
                 PROVE  Own(g)' \in seen'.crowded
      BY DEF OnlyOne
    <2>1. CASE g = h
      BY <1>3, <1>4, <1>5, <2>1
    <2>2. CASE i = h
      BY <1>3, <1>4, <1>5, <2>2
    <2>3. CASE g # h /\ i # h
      BY <1>2, <1>4, <2>3 DEF StoreInv, OnlyOne
    <2> QED BY <2>1, <2>2, <2>3
  <1>7. ASSUME NEW x \in Projects, x \notin seen'.crowded, NEW w \in Present(x)'
        PROVE  View(x, w)'
    <2>1. (\E g \in Slots : Busy(g)' /\ Own(g)' = x /\ w = handlers'[g]) \/ (Quiet(x)' /\ w = Idle)
      BY <1>7 DEF Present
    <2>2. CASE x = p
      <3>1. ASSUME NEW g \in Slots, Busy(g)', Own(g)' = x, w = handlers'[g]
            PROVE  View(x, w)'
        BY <1>1, <1>4, <1>5, <1>7, <2>2, <3>1
      <3>2. ASSUME Quiet(x)', w = Idle
            PROVE  View(x, w)'
        <4>1. ~Busy(h)'
          BY <1>3, <2>2, <3>2 DEF Quiet
        <4>2. StepOf(q) = "none" /\ View(p, q)'
          BY <1>1, <1>7, <2>2, <4>1 DEF StepOf, Idle
        <4>3. ASSUME StepOf(q) = "none", View(p, q)'
              PROVE  View(p, Idle)'
          <5>1. StepOf(Idle) = "none"
            BY DEF StepOf, Idle
          <5>2. "none" \notin InCall
            BY DEF InCall
          <5> QED BY <4>3, <5>1, <5>2 DEF View, StateView, HistoryView, StageView, TalkView, Holding, Unread
        <4> QED BY <2>2, <3>2, <4>2, <4>3
      <3> QED BY <2>1, <3>1, <3>2
    <2>3. CASE x # p
      <3>1. w \in Present(x)
        <4>1. ASSUME NEW g \in Slots, Busy(g)', Own(g)' = x, w = handlers'[g]
              PROVE  w \in Present(x)
          <5>1. g # h
            BY <1>3, <2>3, <4>1
          <5> QED BY <1>1, <1>4, <4>1, <5>1 DEF Present
        <4>2. ASSUME Quiet(x)', w = Idle
              PROVE  Quiet(x)
          BY <1>4, <2>3, <4>2 DEF Quiet
        <4> QED BY <2>1, <4>1, <4>2 DEF Present
      <3>2. View(x, w)
        BY <1>2, <1>7, <3>1 DEF StoreInv
      <3>3. ASSUME StepOf(w) = "save_history", w.stream, x \notin Odd'
            PROVE  agents'.result = agents.result
        <4>1. w # Idle
          BY <3>3 DEF StepOf, Idle
        <4>2. PICK g \in Slots : Busy(g)' /\ Own(g)' = x /\ w = handlers'[g]
          BY <2>1, <4>1
        <4>3. g # h /\ Busy(g) /\ handlers[g] = w /\ w.p = x
          BY <1>1, <1>3, <1>4, <2>3, <4>2 DEF Own
        <4>4. First(w.todo) = "save_history"
          BY <3>3 DEF StepOf
        <4> QED BY <2>3, <3>3, <4>3, <4>4
      <3> QED BY <1>7, <2>3, <3>2, <3>3, ViewKept
    <2> QED BY <2>2, <2>3
  <1> QED BY <1>6, <1>7 DEF StoreInv

\* What a request must be like after a step that writes to no store.
Follower(p, q) ==
    /\ StepOf(q) \notin {"persist", "refill", "fresh", "persist_history", "refill_history"}
    /\ p \in seen'.torn \/ p \in seen'.blind \/ StepOf(q) \in Unread \/ save_project(q.st) = stages[p]
    /\ p \in Odd' \/ ~Holding(q) \/ q.kind = "start" \/ Extends(q.hist, hrows[p])
    /\ p \in Odd' \/ StepOf(q) # "save_history" \/ ~q.stream \/ agents'.result = q.hist

LEMMA ViewQuiet ==
    ASSUME Remembered, NEW p, NEW r, View(p, r), NEW q, Follower(p, q),
           StepOf(r) \notin {"persist", "persist_history"}, UNCHANGED <<cache, hcache, stages, hrows>>
    PROVE  View(p, q)'
  <1>1. /\ p \notin seen'.torn => p \notin seen.torn
        /\ p \notin seen'.blind => p \notin seen.blind
        /\ p \notin Odd' => p \notin Odd
    BY DEF Remembered, Odd
  <1>2. StateView(p, r) => StateView(p, q)'
    BY DEF StateView, Follower
  <1>3. HistoryView(p, r) => HistoryView(p, q)'
    BY DEF HistoryView, Follower
  <1>4. p \notin seen'.torn /\ p \notin seen'.blind /\ StageView(p, r) => StageView(p, q)'
    BY DEF StageView, Follower
  <1>5. p \notin Odd' /\ TalkView(p, r) => TalkView(p, q)'
    BY DEF TalkView, Follower
  <1> QED BY <1>1, <1>2, <1>3, <1>4, <1>5 DEF View

LEMMA StoreQuiet ==
    ASSUME ControlInv, StoreInv, Remembered, NEW h \in Slots, Busy(h), NEW q \in {Idle} \cup Request, Goes(h, q),
           NEW r, r = handlers[h], UNCHANGED <<cache, hcache, stages, hrows>>, agents'.result = agents.result,
           q # Idle => q.p = r.p,
           r.p \notin seen'.crowded /\ View(r.p, r) =>
              StepOf(r) \notin {"persist", "persist_history"} /\ Follower(r.p, q)
    PROVE  StoreInv'
  <1>1. Own(h) = r.p /\ r.p \in Projects
    BY AtStep
  <1>2. ASSUME r.p \notin seen'.crowded
        PROVE  View(r.p, q)'
    <2>1. View(r.p, r)
      BY <1>2, ViewOf DEF Remembered
    <2> QED BY <1>2, <2>1, ViewQuiet
  <1> QED BY <1>1, <1>2, StoreStep

\* A request that leaves, or that does not know the state yet, has nothing to be seen.
LEMMA NothingSeen ==
    ASSUME NEW p, NEW q, StepOf(q) \in {"none", "select", "ValueError"} \cup Reads
    PROVE  Follower(p, q)
  BY DEF Follower, Unread, Holding, InCall, Reads

\* What a request that has read the state holds, and what it holds of the history.
LEMMA Known ==
    ASSUME Remembered, NEW p, NEW r, View(p, r)
    PROVE  /\ p \in seen'.torn \/ p \in seen'.blind \/ StepOf(r) \in Unread \/ save_project(r.st) = stages[p]
           /\ p \in Odd' \/ ~Holding(r) \/ r.kind = "start" \/ Extends(r.hist, hrows[p])
  BY DEF Remembered, View, StageView, TalkView, Odd

\* It goes on with the same state, and holds no messages.
LEMMA SameState ==
    ASSUME Remembered, NEW p, NEW r, View(p, r), StepOf(r) \notin Unread, NEW q, q.st = r.st,
           StepOf(q) \notin {"persist", "refill", "fresh", "persist_history", "refill_history"}, ~Holding(q)
    PROVE  Follower(p, q)
  <1>1. StepOf(q) # "save_history"
    BY DEF Holding
  <1> QED BY <1>1, Known DEF Follower

-----------------------------------------------------------------------------
\* The steps that write to no store.

LEMMA AtFirst ==
    ASSUME NEW q \in Request, q.todo # <<>>
    PROVE  StepOf(q) = First(q.todo)
  BY DEF StepOf

LEMMA IdleLeaves == StepOf(Idle) = "none" /\ \A q : q.todo = <<>> => StepOf(q) = "none"
  BY DEF StepOf, Idle

LEMMA StoreGetProject ==
    ASSUME ControlInv, StoreInv, Remembered, NEW h \in Slots, GetProject(h)
    PROVE  StoreInv'
  <1>p. PICK r : r = handlers[h]
    OBVIOUS
  <1>1. UNCHANGED <<cache, hcache, stages, hrows, agents>>
    BY DEF GetProject, store
  <1>2. PICK q \in {Idle} \cup Request :
           /\ Goes(h, q)
           /\ q # Idle /\ q.todo # <<>> => Shape(q)
           /\ \/ q = Idle
              \/ Like(r, q) /\ First(q.todo) = "select" /\ Others(q.todo) = r.todo
              \/ /\ cache[r.p] # Nil /\ cache[r.p] \in ProjectState /\ Resumed(r, cache[r.p], q)
                 /\ q.todo # <<>> => First(q.todo) \in Ready
    BY <1>p, GetProjectStep
  <1>3. Busy(h) /\ First(r.todo) \in Reads /\ r \in Request /\ r.todo # <<>>
    BY <1>p, GetProjectStep, AtStep
  <1>4. StepOf(r) \in Reads
    BY <1>3, AtFirst
  <1>5. q # Idle => q.p = r.p
    BY <1>2 DEF Like, Resumed, Kin
  <1>6. ASSUME r.p \notin seen'.crowded, View(r.p, r)
        PROVE  Follower(r.p, q)
    <2>1. CASE q = Idle \/ q.todo = <<>>
      BY <2>1, IdleLeaves, NothingSeen
    <2>2. CASE q # Idle /\ q.todo # <<>> /\ First(q.todo) = "select"
      BY <1>2, <2>2, AtFirst, NothingSeen
    <2>3. CASE q # Idle /\ q.todo # <<>> /\ First(q.todo) # "select"
      <3>1. StepOf(q) \in Ready /\ Resumed(r, cache[r.p], q) /\ cache[r.p] # Nil
        BY <1>2, <2>3, AtFirst
      <3>2. StepOf(q) = "ValueError" \/ q.st = cache[r.p]
        BY <2>3, <3>1, AtFirst DEF Resumed, StepOf
      <3>3. r.p \in seen'.torn \/ save_project(cache[r.p]) = stages[r.p]
        BY <1>4, <1>6, <3>1 DEF View, StateView, Remembered, Reads
      <3>4. ~Holding(q) /\ StepOf(q) # "save_history"
            /\ StepOf(q) \notin {"persist", "refill", "fresh", "persist_history", "refill_history"}
        BY <3>1 DEF Ready, Holding, InCall
      <3> QED BY <3>2, <3>3, <3>4 DEF Follower, Unread
    <2> QED BY <2>1, <2>2, <2>3
  <1>7. StepOf(r) \notin {"persist", "persist_history"}
    BY <1>4 DEF Reads
  <1> QED BY <1>p, <1>1, <1>2, <1>3, <1>5, <1>6, <1>7, StoreQuiet

\* Background, TriggerPm and the end of a request with an error.
LEMMA StoreGoesOn ==
    ASSUME ControlInv, StoreInv, Remembered, NEW h \in Slots, Background(h) \/ TriggerPm(h) \/ ServerError(h)
    PROVE  StoreInv'
  <1>p. PICK r : r = handlers[h]
    OBVIOUS
  <1>1. UNCHANGED <<cache, hcache, stages, hrows, agents>>
    BY DEF Background, TriggerPm, ServerError, store
  <1>2. /\ Busy(h) /\ First(r.todo) \in {"background", "trigger_pm", "ValueError"}
        /\ \E q \in {Idle} \cup Request :
              /\ Goes(h, q)
              /\ q = Idle \/ (/\ Kin(r, q) /\ q.st = r.st /\ q.todo # <<>> /\ First(q.todo) \in {"get_history", "pm"}
                              /\ First(r.todo) # "ValueError")
    <2>1. CASE Background(h)
      BY <1>p, <2>1, BackgroundStep
    <2>2. CASE TriggerPm(h)
      BY <1>p, <2>2, TriggerPmStep
    <2>3. CASE ServerError(h)
      BY <1>p, <2>3, ServerErrorStep
    <2> QED BY <2>1, <2>2, <2>3
  <1>3. PICK q \in {Idle} \cup Request :
           /\ Goes(h, q)
           /\ q = Idle \/ (/\ Kin(r, q) /\ q.st = r.st /\ q.todo # <<>> /\ First(q.todo) \in {"get_history", "pm"}
                           /\ First(r.todo) # "ValueError")
    BY <1>2
  <1>4. r \in Request /\ r.todo # <<>> /\ StepOf(r) = First(r.todo)
    BY <1>p, <1>2, AtStep, AtFirst
  <1>5. ASSUME View(r.p, r)
        PROVE  Follower(r.p, q)
    <2>1. CASE q = Idle
      BY <2>1, IdleLeaves, NothingSeen
    <2>2. CASE q # Idle
      <3>1. StepOf(q) \in {"get_history", "pm"} /\ q.st = r.st /\ StepOf(r) \in {"background", "trigger_pm"}
        BY <1>2, <1>3, <1>4, <2>2 DEF StepOf
      <3>2. ~Holding(q)
        BY <3>1 DEF Holding, InCall
      <3>3. StepOf(r) \notin Unread
        BY <3>1 DEF Unread, Reads
      <3> QED BY <1>5, <3>1, <3>2, <3>3, SameState
    <2> QED BY <2>1, <2>2
  <1>6. StepOf(r) \notin {"persist", "persist_history"} /\ (q # Idle => q.p = r.p)
    BY <1>2, <1>3, <1>4 DEF Kin
  <1> QED BY <1>p, <1>1, <1>2, <1>3, <1>5, <1>6, StoreQuiet

\* In a call of an agent and before it the request keeps its messages; only the requirement
\* agent's call is followed by storing them, from the agent's field when it is streamed.
LEMMA StoreCall ==
    ASSUME ControlInv, StoreInv, Remembered, NEW h \in Slots, Busy(h), NEW r, r = handlers[h],
           First(r.todo) \in Calls \cup InCall, NEW agent \in Agents,
           agent = IF First(r.todo) \in Calls THEN AgentOf(First(r.todo)) ELSE r.agent,
           Others(r.todo) \in AfterCall(agent), UNCHANGED <<cache, hcache, stages, hrows>>, agents'.result = agents.result,
           NEW q \in Request, Goes(h, q), Kin(r, q), q.st = r.st,
           q.hist = r.hist \/ (First(r.todo) = "chat" /\ r.hist = <<>>),
           \/ q.todo # <<>> /\ First(q.todo) \in InCall /\ q.agent = agent
           \/ q.todo = Others(r.todo) /\ (~q.stream \/ r.p \in seen'.refused)
    PROVE  StoreInv'
  <1>1. r \in Request /\ r.todo # <<>> /\ StepOf(r) = First(r.todo)
    BY AtStep, AtFirst
  <1>2. q.todo # <<>> /\ StepOf(q) = First(q.todo)
    BY AfterAgent, AtFirst
  <1>3. StepOf(q) \in InCall \cup {"save_history", "design_done", "plan_checked", "get_project"}
    BY <1>2, AfterAgent
  <1>4. Holding(q) => agent = "requirement"
    <2> SUFFICES ASSUME Holding(q), agent # "requirement"
                 PROVE  FALSE
      OBVIOUS
    <2>1. CASE First(q.todo) \in InCall /\ q.agent = agent
      BY <1>2, <2>1 DEF Holding, InCall
    <2>2. CASE q.todo = Others(r.todo)
      BY <1>2, <2>2, AfterAgent DEF Holding, InCall
    <2> QED BY <2>1, <2>2
  <1>5. agent = "requirement" => Holding(r)
    BY <1>1 DEF Holding, AgentOf, Calls, InCall
  <1>6. StepOf(r) \notin Unread \cup {"persist", "persist_history"}
    BY <1>1 DEF Unread, Calls, InCall, Reads
  <1>7. ASSUME View(r.p, r)
        PROVE  Follower(r.p, q)
    <2>1. StepOf(q) \notin {"persist", "refill", "fresh", "persist_history", "refill_history"}
      BY <1>3 DEF InCall
    <2>2. r.p \in seen'.torn \/ r.p \in seen'.blind \/ save_project(q.st) = stages[r.p]
      BY <1>6, <1>7, Known
    <2>3. r.p \in Odd' \/ ~Holding(q) \/ q.kind = "start" \/ Extends(q.hist, hrows[r.p])
      BY <1>4, <1>5, <1>7, Known DEF Kin, Extends
    <2>4. r.p \in Odd' \/ StepOf(q) # "save_history" \/ ~q.stream
      <3>1. "save_history" \notin InCall
        BY DEF InCall
      <3> QED BY <1>2, <3>1 DEF Odd
    <2> QED BY <2>1, <2>2, <2>3, <2>4 DEF Follower
  <1> QED BY <1>6, <1>7, StoreQuiet DEF Kin

LEMMA StoreCallAgent ==
    ASSUME ControlInv, StoreInv, Remembered, NEW h \in Slots, CallAgent(h)
    PROVE  StoreInv'
  <1>p. PICK r, agent : r = handlers[h] /\ agent = AgentOf(First(handlers[h].todo))
    OBVIOUS
  <1>1. UNCHANGED <<cache, hcache, stages, hrows>>
    BY DEF CallAgent, store
  <1>2. /\ Busy(h) /\ First(r.todo) \in Calls /\ agent \in Agents /\ Others(r.todo) \in AfterCall(agent)
        /\ agents' = [agents EXCEPT !.p = [agents.p EXCEPT ![agent] = r.p],
                                    !.sub = IF agent = "requirement" THEN CalledSub(r) ELSE @]
    BY <1>p, CallAgentStep
  <1>3. PICK q \in Request :
           /\ Goes(h, q) /\ Kin(r, q) /\ q.stream = r.stream /\ q.st = r.st
           /\ q.hist = r.hist \/ (First(r.todo) = "chat" /\ r.hist = <<>>)
           /\ \/ q.todo # <<>> /\ First(q.todo) \in {"begin", "answer"} /\ q.agent = agent
              \/ q.todo = Others(r.todo) /\ ~r.stream
    BY <1>p, CallAgentStep
  <1>4. agents'.result = agents.result
    BY <1>2 DEF ControlInv, Types
  <1>5. {"begin", "answer"} \subseteq InCall
    BY DEF InCall
  <1> QED BY <1>p, <1>1, <1>2, <1>3, <1>4, <1>5, StoreCall

LEMMA StoreAnswers ==
    ASSUME ControlInv, StoreInv, Remembered, NEW h \in Slots,
           BeginStream(h) \/ AnswerText(h) \/ AnswerTool(h) \/ ExecuteTool(h)
    PROVE  StoreInv'
  <1>p. PICK r : r = handlers[h]
    OBVIOUS
  <1>1. UNCHANGED <<cache, hcache, stages, hrows>>
    BY DEF BeginStream, AnswerText, AnswerTool, ExecuteTool, store
  <1>2. Busy(h) /\ First(r.todo) \in InCall /\ r.agent \in Agents /\ Others(r.todo) \in AfterCall(r.agent)
    BY <1>p, BeginStreamStep, AnswerTextStep, AnswerToolStep, ExecuteToolStep DEF InCall
  <1>3. r \in Request /\ r.stream \in BOOLEAN /\ r.p \in Projects
    BY <1>p, <1>2, AtStep DEF Request
  <1>kept. ASSUME NEW q \in Request, Goes(h, q), Kin(r, q), q.stream = r.stream, q.st = r.st, q.hist = r.hist,
                  agents'.result = agents.result,
                  \/ q.todo # <<>> /\ First(q.todo) \in InCall /\ q.agent = r.agent
                  \/ q.todo = Others(r.todo) /\ (~r.stream \/ r.p \in seen'.refused)
           PROVE  StoreInv'
    <2>1. First(r.todo) \notin Calls
      BY <1>2 DEF InCall, Calls
    <2> QED BY <1>p, <1>1, <1>2, <1>kept, <2>1, StoreCall
  <1>on. \A q, step : GoesOnTo(r, q, step) /\ step \in InCall => q.todo # <<>> /\ First(q.todo) \in InCall /\ q.agent = r.agent
    BY DEF GoesOnTo
  <1>ends. \A q, sub : Ends(r, q, sub) => q.todo = Others(r.todo) /\ ~r.stream
    BY DEF Ends
  <1>in. {"begin", "answer", "tool", "publish"} \subseteq InCall
    BY DEF InCall
  <1>4. CASE BeginStream(h)
    <2>1. agents' = agents /\ Mark("refused", IF r.safe THEN {} ELSE {r.p})
      BY <1>4, <1>p DEF BeginStream
    <2>2. ~r.safe => r.p \in seen'["refused"]
      <3>1. (IF r.safe THEN {} ELSE {r.p}) \in SUBSET Projects /\ seen \in Marks
        BY <1>3 DEF ControlInv, Types
      <3>2. seen'["refused"] = seen["refused"] \cup (IF r.safe THEN {} ELSE {r.p})
        BY <2>1, <3>1, MarkStep
      <3> QED BY <3>2
    <2>3. PICK q \in Request :
             /\ Goes(h, q) /\ Kin(r, q) /\ q.stream = r.stream /\ q.st = r.st /\ q.hist = r.hist
             /\ \/ GoesOnTo(r, q, "answer")
                \/ ~r.safe /\ q.todo = Others(r.todo)
                \/ Ends(r, q, agents.sub)
      BY <1>4, <1>p, BeginStreamStep
    <2> QED BY <1>in, <1>on, <1>ends, <2>1, <2>2, <2>3, <1>kept
  <1>5. CASE AnswerText(h)
    <2>1. PICK q \in Request :
             /\ Goes(h, q) /\ Kin(r, q) /\ q.stream = r.stream /\ q.st = r.st /\ q.hist = r.hist
             /\ GoesOnTo(r, q, "publish") \/ Ends(r, q, agents.sub)
      BY <1>5, <1>p, AnswerTextStep
    <2>2. agents' = agents
      BY <1>5 DEF AnswerText
    <2> QED BY <1>in, <1>on, <1>ends, <2>1, <2>2, <1>kept
  <1>result. \A tool, sub : ExecutesTool(r, tool, sub) => agents'.result = agents.result
    BY DEF ExecutesTool, ControlInv, Types
  <1>6. CASE AnswerTool(h)
    <2>1. PICK tool \in ToolsOf(r.agent), q \in Request :
             /\ Goes(h, q) /\ Kin(r, q) /\ q.stream = r.stream /\ q.st = r.st /\ q.hist = r.hist
             /\ \/ GoesOnTo(r, q, "tool") /\ UNCHANGED <<products, agents, seen>>
                \/ \E sub \in SubsAfter(tool) :
                      ExecutesTool(r, tool, sub) /\ (GoesOnTo(r, q, "answer") \/ Ends(r, q, sub))
      BY <1>6, <1>p, AnswerToolStep
    <2>2. agents'.result = agents.result
      BY <2>1, <1>result
    <2> QED BY <1>in, <1>on, <1>ends, <2>1, <2>2, <1>kept
  <1>7. CASE ExecuteTool(h)
    <2>1. (\E sub \in SubsAfter(r.tool) : ExecutesTool(r, r.tool, sub)) /\ \E q \in Request :
             /\ Goes(h, q) /\ Kin(r, q) /\ q.stream = r.stream /\ q.st = r.st /\ q.hist = r.hist
             /\ GoesOnTo(r, q, "publish") \/ GoesOnTo(r, q, "answer")
      BY <1>7, <1>p, ExecuteToolStep
    <2> QED BY <1>in, <1>on, <2>1, <1>result, <1>kept
  <1> QED BY <1>4, <1>5, <1>6, <1>7

LEMMA StorePublish ==
    ASSUME ControlInv, OwnerInv, StoreInv, Remembered, NEW h \in Slots, Publish(h)
    PROVE  StoreInv'
  <1>p. PICK r : r = handlers[h]
    OBVIOUS
  <1>1. UNCHANGED <<cache, hcache, stages, hrows>>
    BY DEF Publish, store
  <1>2. /\ Busy(h) /\ First(r.todo) = "publish" /\ r.agent \in Agents /\ Others(r.todo) \in AfterCall(r.agent)
        /\ agents' = [agents EXCEPT !.result = IF r.agent = "requirement" THEN r.hist ELSE @]
    BY <1>p, PublishStep
  <1>3. PICK q \in Request :
           /\ Goes(h, q) /\ Kin(r, q) /\ q.stream = r.stream /\ q.st = r.st /\ q.hist = r.hist
           /\ q.todo = Others(r.todo)
    BY <1>p, PublishStep
  <1>4. r \in Request /\ Shape(r) /\ r.todo # <<>> /\ StepOf(r) = "publish" /\ Own(h) = r.p /\ r.p \in Projects
    BY <1>p, <1>2, AtStep, AtFirst
  <1>5. CASE r.agent # "requirement"
    <2>1. agents'.result = agents.result
      BY <1>2, <1>5 DEF ControlInv, Types
    <2>2. First(r.todo) \in InCall /\ First(r.todo) \notin Calls
      BY <1>2 DEF InCall, Calls
    <2>3. ASSUME View(r.p, r)
          PROVE  Follower(r.p, q)
      <3>1. q.todo # <<>> /\ First(q.todo) \in {"design_done", "plan_checked", "get_project"}
        BY <1>2, <1>3, <1>5, AfterAgent
      <3>2. StepOf(q) \in {"design_done", "plan_checked", "get_project"}
        BY <3>1, AtFirst
      <3>3. ~Holding(q) /\ StepOf(r) \notin Unread
        BY <1>4, <3>2 DEF Holding, InCall, Unread, Reads
      <3> QED BY <1>3, <2>3, <3>2, <3>3, SameState
    <2> QED BY <1>p, <1>1, <1>2, <1>3, <1>4, <2>1, <2>3, StoreQuiet DEF Kin
  <1>6. CASE r.agent = "requirement"
    <2>1. agents'.result = r.hist
      BY <1>2, <1>6 DEF ControlInv, Types
    <2>2. q.todo # <<>> /\ First(q.todo) = "save_history"
      BY <1>2, <1>3, <1>6, AfterAgent
    <2>3. StepOf(q) = "save_history"
      BY <2>2, AtFirst
    <2>4. ASSUME r.p \notin seen'.crowded
          PROVE  View(r.p, q)'
      <3>1. View(r.p, r)
        BY <1>p, <1>2, <2>4, ViewOf DEF Remembered
      <3>2. StepOf(r) \notin Unread /\ Holding(r)
        BY <1>4, <1>6 DEF Unread, Reads, Holding, InCall
      <3>3. Follower(r.p, q)
        BY <1>3, <2>1, <2>3, <3>1, <3>2, Known DEF Follower, Kin
      <3>4. StepOf(r) \notin {"persist", "persist_history"}
        BY <1>4
      <3> QED BY <1>1, <3>1, <3>3, <3>4, ViewQuiet
    <2>5. ASSUME NEW g \in Slots, g # h, Busy(g), First(handlers[g].todo) = "save_history", handlers[g].stream,
                 handlers[g].p # r.p
          PROVE  handlers[g].p \in Odd'
      <3>1. handlers[g].agent = "requirement" /\ Own(g) = handlers[g].p
        BY <2>5, AtStep DEF Shape
      <3>2. Mixed(Own(g), Own(h))
        BY <1>p, <1>2, <1>6, <2>5, <3>1 DEF OwnerInv, PairsMixed
      <3> QED BY <1>4, <2>5, <3>1, <3>2 DEF Mixed, Odd, Remembered
    <2> QED BY <1>p, <1>1, <1>2, <1>3, <1>4, <2>4, <2>5, StoreStep DEF Kin
  <1> QED BY <1>5, <1>6

-----------------------------------------------------------------------------
\* Troubles.

\* Reads that fail: the project is marked, and what its requests hold is not seen any more.
LEMMA ViewBlind ==
    ASSUME Remembered, NEW p, p \in seen'.blind, NEW r, View(p, r), UNCHANGED <<cache, hcache, stages, hrows>>,
           StepOf(r) \notin {"persist", "persist_history"}, NEW q,
           StepOf(q) \notin {"persist", "refill", "persist_history", "refill_history"}
    PROVE  View(p, q)'
  <1>1. p \in Odd' /\ (p \notin seen'.torn => p \notin seen.torn)
    BY DEF Remembered, Odd
  <1>2. StateView(p, r) => StateView(p, q)'
    BY DEF StateView
  <1>3. HistoryView(p, r) => HistoryView(p, q)'
    BY DEF HistoryView
  <1> QED BY <1>1, <1>2, <1>3 DEF View

\* Writes that do not come about: the project is marked, and a conversation started over, too.
LEMMA ViewLost ==
    ASSUME Remembered, NEW p, NEW r, View(p, r), UNCHANGED <<cache, hcache, stages, hrows>>,
           StepOf(r) \in {"persist", "persist_history"} => p \in seen'.torn,
           StepOf(r) = "persist_history" /\ r.kind = "start" => p \in seen'.over, NEW q,
           StepOf(q) \notin {"persist", "refill", "fresh", "save_history", "persist_history", "refill_history"},
           StepOf(q) \in Unread \/ p \in seen'.torn, Holding(q) => q.kind = "start"
    PROVE  View(p, q)'
  <1>1. /\ p \notin seen'.torn => p \notin seen.torn
        /\ p \notin seen'.blind => p \notin seen.blind
        /\ p \notin Odd' => p \notin Odd /\ p \notin seen'.over
    BY DEF Remembered, Odd
  <1>2. p \notin seen'.torn /\ StateView(p, r) => StateView(p, q)'
    BY DEF StateView
  <1>3. p \notin seen'.torn /\ HistoryView(p, r) => HistoryView(p, q)'
    BY DEF HistoryView
  <1>4. p \notin seen'.torn => StageView(p, q)'
    BY DEF StageView
  <1>5. p \notin Odd' /\ TalkView(p, r) => TalkView(p, q)'
    BY <1>1 DEF TalkView
  <1> QED BY <1>1, <1>2, <1>3, <1>4, <1>5 DEF View

\* The marks of writes that do not come about.
LEMMA TornMarks ==
    ASSUME ControlInv, NEW hs \in SUBSET Slots, NEW ps \in SUBSET Projects, MarkTorn(hs, ps), NEW h \in hs, Busy(h),
           NEW r, r = handlers[h]
    PROVE  /\ StepOf(r) \in {"persist", "persist_history"} => r.p \in seen'.torn
           /\ StepOf(r) = "persist_history" /\ r.kind = "start" => r.p \in seen'.over
  <1>1. StepOf(r) = Head(r.todo) /\ Own(h) = r.p
    BY AtStep DEF StepOf
  <1>2. StepOf(r) \in {"persist", "persist_history"} => r.p \in Torn(hs)
    BY <1>1 DEF Torn, AtOneOf
  <1>3. StepOf(r) = "persist_history" /\ r.kind = "start" => r.p \in StartedOver(hs)
    BY <1>1 DEF StartedOver, At
  <1> QED BY <1>2, <1>3, MarkTornStep

LEMMA CaughtFirst ==
    ASSUME NEW r, NEW q, Caught(r, q)
    PROVE  StepOf(q) \in {"pm_error", "get_project"} /\ ~Holding(q) /\ q \in Request
           /\ Kin(r, q) /\ q.st = r.st
  <1>1. q \in Request /\ q.todo # <<>> /\ First(q.todo) \in {"pm_error", "get_project"}
    BY Parts, Listed DEF Caught, Lists
  <1>2. StepOf(q) \in {"pm_error", "get_project"}
    BY <1>1, AtFirst
  <1> QED BY <1>1, <1>2 DEF Caught, Holding, InCall

LEMMA StoreModelsFail ==
    ASSUME ControlInv, StoreInv, Remembered, NEW h \in Slots, ModelsFail(h)
    PROVE  StoreInv'
  <1>p. PICK r : r = handlers[h]
    OBVIOUS
  <1>1. UNCHANGED <<cache, hcache, stages, hrows, agents>> /\ Busy(h) /\ Head(r.todo) = "answer"
    BY <1>p DEF ModelsFail, store, At
  <1>2. PICK q \in {Idle} \cup Request : Goes(h, q) /\ (q = Idle \/ Caught(r, q))
    BY <1>p, ModelsFailStep
  <1>3. StepOf(r) = "answer"
    BY <1>p, <1>1, AtStep DEF StepOf
  <1>4. ASSUME View(r.p, r)
        PROVE  Follower(r.p, q)
    <2>1. CASE q = Idle
      BY <2>1, IdleLeaves, NothingSeen
    <2>2. CASE Caught(r, q)
      <3>1. StepOf(q) \in {"pm_error", "get_project"} /\ ~Holding(q) /\ q.st = r.st
        BY <2>2, CaughtFirst
      <3>2. StepOf(r) \notin Unread
        BY <1>3 DEF Unread, Reads
      <3> QED BY <1>4, <3>1, <3>2, SameState
    <2> QED BY <1>2, <2>1, <2>2
  <1>5. q # Idle => q.p = r.p
    BY <1>2, CaughtFirst DEF Kin
  <1> QED BY <1>p, <1>1, <1>2, <1>3, <1>4, <1>5, StoreQuiet

LEMMA StoreBlind ==
    ASSUME ControlInv, StoreInv, Remembered, NEW h \in Slots, Busy(h), NEW r, r = handlers[h], Mark("blind", {r.p}),
           First(r.todo) \notin {"persist", "persist_history"}, UNCHANGED <<cache, hcache, stages, hrows, agents>>,
           NEW q \in {Idle} \cup Request, Goes(h, q),
           \/ q = Idle
           \/ Caught(r, q)
           \/ Like(r, q) /\ q.todo # <<>> /\ First(q.todo) = "fresh"
           \/ Hears(r, <<>>, Others(r.todo), q)
    PROVE  StoreInv'
  <1>1. r \in Request /\ r.todo # <<>> /\ Own(h) = r.p /\ r.p \in Projects /\ StepOf(r) = First(r.todo)
    BY AtStep, AtFirst
  <1>2. r.p \in seen'["blind"]
    <2>1. {r.p} \in SUBSET Projects /\ seen \in Marks
      BY <1>1 DEF ControlInv, Types
    <2> QED BY <2>1, MarkStep
  <1>3. (q # Idle => q.p = r.p) /\ StepOf(q) \notin {"persist", "refill", "persist_history", "refill_history"}
    <2>1. CASE q = Idle
      BY <2>1, IdleLeaves
    <2>2. CASE Caught(r, q)
      BY <2>2, CaughtFirst DEF Kin
    <2>3. CASE Like(r, q) /\ q.todo # <<>> /\ First(q.todo) = "fresh"
      BY <2>3 DEF Like, Kin, StepOf
    <2>4. CASE Hears(r, <<>>, Others(r.todo), q)
      BY <2>4 DEF Hears, Kin, StepOf
    <2> QED BY <2>1, <2>2, <2>3, <2>4
  <1>4. ASSUME r.p \notin seen'.crowded
        PROVE  View(r.p, q)'
    <2>1. View(r.p, r)
      BY <1>4, ViewOf DEF Remembered
    <2> QED BY <1>1, <1>2, <1>3, <2>1, ViewBlind
  <1> QED BY <1>1, <1>3, <1>4, StoreStep

LEMMA StoreRedisFails ==
    ASSUME ControlInv, StoreInv, Remembered, NEW h \in Slots, RedisFails(h)
    PROVE  StoreInv'
  <1>p. PICK r : r = handlers[h]
    OBVIOUS
  <1>1. UNCHANGED <<cache, hcache, stages, hrows, agents>>
    BY DEF RedisFails, store
  <1>2. /\ Busy(h) /\ Mark("blind", {r.p})
        /\ \E q \in {Idle} \cup Request :
              /\ Goes(h, q)
              /\ \/ q = Idle
                 \/ Caught(r, q)
                 \/ Like(r, q) /\ q.todo # <<>> /\ First(q.todo) = "fresh"
                 \/ Hears(r, <<>>, Others(r.todo), q)
    BY <1>p, RedisFailsStep
  <1>3. Head(r.todo) \in Reads \cup Saves \cup {"get_history", "save_history", "refill", "refill_history"}
    BY <1>p DEF RedisFails, At, AtOneOf
  <1>4. First(r.todo) \notin {"persist", "persist_history"}
    BY <1>3 DEF First, Reads, Saves
  <1> QED BY <1>p, <1>1, <1>2, <1>4, StoreBlind

LEMMA StoreMySQLFails ==
    ASSUME ControlInv, StoreInv, Remembered, NEW h \in Slots, MySQLFails(h)
    PROVE  StoreInv'
  <1>p. PICK r : r = handlers[h]
    OBVIOUS
  <1>1. UNCHANGED <<cache, hcache, stages, hrows, agents>>
    BY DEF MySQLFails, store
  <1>2. Busy(h) /\ r \in Request /\ r.todo # <<>> /\ Own(h) = r.p /\ r.p \in Projects /\ Head(r.todo) = First(r.todo)
    BY <1>p, MySQLFailsStep, AtStep
  <1>3. StepOf(r) = First(r.todo) /\ StepOf(r) = Head(r.todo)
    BY <1>2, AtFirst
  <1>4. {h} \in SUBSET Slots /\ {} \in SUBSET Projects /\ h \in {h}
    OBVIOUS
  <1>lost. ASSUME MarkTorn({h}, {}), NEW q \in Request, Goes(h, q), q.p = r.p, StepOf(r) \in {"persist", "persist_history"},
                  StepOf(q) \notin {"persist", "refill", "fresh", "save_history", "persist_history", "refill_history"},
                  Holding(q) => q.kind = "start"
           PROVE  StoreInv'
    <2>1. /\ StepOf(r) \in {"persist", "persist_history"} => r.p \in seen'.torn
          /\ StepOf(r) = "persist_history" /\ r.kind = "start" => r.p \in seen'.over
      BY <1>lost, <1>p, <1>2, <1>4, TornMarks
    <2>2. ASSUME r.p \notin seen'.crowded
          PROVE  View(r.p, q)'
      <3>1. View(r.p, r)
        BY <1>p, <1>2, <2>2, ViewOf DEF Remembered
      <3> QED BY <1>lost, <1>1, <2>1, <3>1, ViewLost
    <2> QED BY <1>lost, <1>p, <1>1, <1>2, <2>2, StoreStep
  <1>5. CASE /\ Mark("blind", {r.p})
             /\ \E q \in {Idle} \cup Request :
                   /\ Goes(h, q)
                   /\ \/ q = Idle
                      \/ Like(r, q) /\ q.todo # <<>> /\ First(q.todo) = "fresh"
                      \/ Hears(r, <<>>, Others(r.todo), q)
             /\ First(r.todo) \notin {"persist", "persist_history"}
    BY <1>p, <1>1, <1>2, <1>5, StoreBlind
  <1>6. CASE MarkTorn({h}, {}) /\ At(h, "persist") /\ Goes(h, Next_(r))
    <2>1. PICK q \in Request :
             /\ Goes(h, q) /\ Like(r, q)
             /\ \/ q.todo = <<>>
                \/ First(q.todo) \in {"background", "design", "trigger_pm", "clarifying"}
                \/ First(q.todo) = "chat" /\ r.kind = "start"
      BY <1>p, <1>6, PersistProjectStep
    <2>2. StepOf(q) \in {"none", "background", "design", "trigger_pm", "clarifying", "chat"}
      BY <2>1 DEF StepOf
    <2>3. Holding(q) => q.kind = "start"
      BY <2>1, <2>2 DEF Holding, InCall, StepOf, Like, Kin
    <2>4. StepOf(r) = "persist"
      BY <1>p, <1>3, <1>6 DEF At
    <2> QED BY <1>6, <2>1, <2>2, <2>3, <2>4, <1>lost DEF Like, Kin
  <1>7. CASE MarkTorn({h}, {}) /\ At(h, "persist_history") /\ Goes(h, HistorySaved(r))
    <2>1. PICK q \in Request :
             Goes(h, q) /\ Kin(r, q) /\ q.todo # <<>> /\ First(q.todo) \in {"chatted", "decomposed", "get_project"}
      BY <1>p, <1>7, PersistHistoryStep
    <2>2. StepOf(q) \in {"chatted", "decomposed", "get_project"}
      BY <2>1 DEF StepOf
    <2>3. ~Holding(q)
      BY <2>2 DEF Holding, InCall
    <2>4. StepOf(r) = "persist_history"
      BY <1>p, <1>3, <1>7 DEF At
    <2> QED BY <1>7, <2>1, <2>2, <2>3, <2>4, <1>lost DEF Kin
  <1>8. \/ At(h, "select") /\ Goes(h, Absent(Next_(r))) /\ Mark("blind", {r.p})
        \/ At(h, "select_history") /\ Goes(h, Heard(Next_(r), <<>>)) /\ Mark("blind", {r.p})
        \/ At(h, "persist") /\ Goes(h, Next_(r)) /\ MarkTorn({h}, {})
        \/ At(h, "persist_history") /\ Goes(h, HistorySaved(r)) /\ MarkTorn({h}, {})
    BY <1>p DEF MySQLFails
  <1>9. CASE At(h, "select") /\ Goes(h, Absent(Next_(r))) /\ Mark("blind", {r.p})
    <2>1. First(r.todo) = "select"
      BY <1>p, <1>2, <1>9 DEF At
    <2>2. \/ Absent(Next_(r)) = Idle
          \/ /\ Absent(Next_(r)) \in Request /\ Like(r, Absent(Next_(r))) /\ Absent(Next_(r)).todo # <<>>
             /\ First(Absent(Next_(r)).todo) = "fresh"
      BY <1>p, <1>2, <2>1, NotFoundStep
    <2> QED BY <1>5, <1>9, <2>1, <2>2
  <1>10. CASE At(h, "select_history") /\ Goes(h, Heard(Next_(r), <<>>)) /\ Mark("blind", {r.p})
    <2>1. First(r.todo) = "select_history" /\ <<>> \in Seq(Turns)
      BY <1>p, <1>2, <1>10 DEF At
    <2>2. Hears(r, <<>>, Others(r.todo), Heard(Next_(r), <<>>))
      BY <1>p, <1>2, <2>1, HeardLater
    <2> QED BY <1>5, <1>10, <2>1, <2>2 DEF Hears
  <1> QED BY <1>6, <1>7, <1>8, <1>9, <1>10

\* The request is gone; what it had not written is lost.
LEMMA StoreDisconnect ==
    ASSUME ControlInv, StoreInv, Remembered, NEW h \in Slots, Disconnect(h)
    PROVE  StoreInv'
  <1>p. PICK r : r = handlers[h]
    OBVIOUS
  <1>1. UNCHANGED <<cache, hcache, stages, hrows, agents>> /\ Busy(h) /\ Goes(h, Idle) /\ MarkTorn({h}, {})
    BY DEF Disconnect, store
  <1>2. r \in Request /\ Own(h) = r.p /\ r.p \in Projects
    BY <1>p, <1>1, AtStep
  <1>3. {h} \in SUBSET Slots /\ {} \in SUBSET Projects /\ h \in {h}
    OBVIOUS
  <1>4. /\ StepOf(r) \in {"persist", "persist_history"} => r.p \in seen'.torn
        /\ StepOf(r) = "persist_history" /\ r.kind = "start" => r.p \in seen'.over
    BY <1>p, <1>1, <1>3, TornMarks
  <1> DEFINE q == Idle
  <1>5. StepOf(q) = "none" /\ ~Holding(q) /\ "none" \in Unread
    BY IdleLeaves DEF Holding, InCall, Unread
  <1>6. q \in {Idle} \cup Request /\ q = Idle /\ Goes(h, q)
    BY <1>1
  <1> HIDE DEF q
  <1>7. ASSUME r.p \notin seen'.crowded
        PROVE  View(r.p, q)'
    <2>1. View(r.p, r)
      BY <1>p, <1>1, <1>7, ViewOf DEF Remembered
    <2> QED BY <1>1, <1>4, <1>5, <2>1, ViewLost
  <1> QED BY <1>1, <1>2, <1>6, <1>7, StoreStep

LEMMA StoreArrive ==
    ASSUME ControlInv, StoreInv, Remembered, NEW h \in Slots, Arrive(h)
    PROVE  StoreInv'
  <1>1. UNCHANGED <<cache, hcache, stages, hrows, agents>>
    BY DEF Arrive, store
  <1>2. ~Busy(h)
    BY ArriveStep
  <1>3. PICK q \in Request :
           /\ Goes(h, q) /\ q.todo # <<>> /\ First(q.todo) \in Reads
           /\ Mark("crowded", IF \E g \in Slots : Busy(g) /\ Own(g) = q.p THEN {q.p} ELSE {})
    BY ArriveStep
  <1>4. PICK p : p = q.p
    OBVIOUS
  <1>5. p \in Projects
    BY <1>4 DEF Request
  <1>6. p \in seen'.crowded \/ Quiet(p)
    <2> DEFINE ps == IF \E g \in Slots : Busy(g) /\ Own(g) = q.p THEN {q.p} ELSE {}
    <2>1. ps \in SUBSET Projects /\ seen \in Marks
      BY <1>4, <1>5 DEF ControlInv, Types
    <2>2. ~Quiet(p) => p \in ps
      BY <1>4 DEF Quiet
    <2>3. Mark("crowded", ps)
      BY <1>3
    <2> HIDE DEF ps
    <2>4. seen'["crowded"] = seen["crowded"] \cup ps
      BY <2>1, <2>3, MarkStep
    <2> QED BY <2>2, <2>4
  <1>7. ASSUME p \notin seen'.crowded
        PROVE  View(p, q)'
    <2>1. View(p, Idle)
      BY <1>5, <1>6, <1>7, ViewOfNone DEF Remembered
    <2>2. StepOf(q) \in Reads
      BY <1>3, AtFirst
    <2>3. Follower(p, q)
      BY <2>2, NothingSeen
    <2>4. StepOf(Idle) \notin {"persist", "persist_history"}
      BY IdleLeaves
    <2> DEFINE r == Idle
    <2>5. View(p, r) /\ StepOf(r) \notin {"persist", "persist_history"}
      BY <2>1, <2>4
    <2> HIDE DEF r
    <2> QED BY <1>1, <2>3, <2>5, ViewQuiet
  <1> QED BY <1>1, <1>2, <1>3, <1>4, <1>5, <1>6, <1>7, StoreStep

\* What expires is read back; the rest is nobody's step.
LEMMA StoreStill ==
    ASSUME ControlInv, StoreInv, Remembered, UNCHANGED <<stages, hrows, handlers, agents>>,
           \A p \in Projects : cache'[p] \in {cache[p], Nil} /\ hcache'[p] \in {hcache[p], Nil}
    PROVE  StoreInv'
  <1>1. \A g \in Slots : (Busy(g)' <=> Busy(g)) /\ Own(g)' = Own(g)
    BY DEF Busy, Own
  <1>2. OnlyOne'
    BY <1>1 DEF StoreInv, OnlyOne, Remembered
  <1>3. ASSUME NEW p \in Projects, p \notin seen'.crowded, NEW w \in Present(p)'
        PROVE  View(p, w)'
    <2>1. Quiet(p)' <=> Quiet(p)
      BY <1>1 DEF Quiet
    <2>2. w \in Present(p)
      BY <1>1, <1>3, <2>1 DEF Present
    <2>3. View(p, w)
      BY <1>3, <2>2 DEF StoreInv, Remembered
    <2>4. /\ p \notin seen'.torn => p \notin seen.torn
          /\ p \notin seen'.blind => p \notin seen.blind
          /\ p \notin Odd' => p \notin Odd
      BY DEF Remembered, Odd
    <2>5. StateView(p, w) => StateView(p, w)'
      BY <1>3 DEF StateView
    <2>6. HistoryView(p, w) => HistoryView(p, w)'
      BY <1>3 DEF HistoryView
    <2>7. StageView(p, w) => StageView(p, w)'
      BY DEF StageView
    <2>8. TalkView(p, w) => TalkView(p, w)'
      BY <1>3 DEF TalkView
    <2> QED BY <2>3, <2>4, <2>5, <2>6, <2>7, <2>8 DEF View
  <1> QED BY <1>2, <1>3 DEF StoreInv

LEMMA StoreRestart ==
    ASSUME ControlInv, StoreInv, Remembered, Restart
    PROVE  StoreInv'
  <1>1. /\ handlers' = [h \in Slots |-> Idle] /\ UNCHANGED <<cache, hcache, stages, hrows>>
        /\ MarkTorn(Slots, {w.p : w \in unsaved})
    BY DEF Restart, store
  <1>2. {w.p : w \in unsaved} \in SUBSET Projects /\ Slots \in SUBSET Slots
    BY DEF ControlInv, Types
  <1>3. \A h \in Slots : ~Busy(h)'
    BY <1>1 DEF Busy
  <1>4. OnlyOne'
    BY <1>3 DEF OnlyOne
  <1> DEFINE q == Idle
  <1>5. StepOf(q) = "none" /\ ~Holding(q) /\ "none" \in Unread
    BY IdleLeaves DEF Holding, InCall, Unread
  <1> HIDE DEF q
  <1>6. ASSUME NEW p \in Projects, p \notin seen'.crowded
        PROVE  View(p, q)'
    <2>1. ASSUME NEW h \in Slots, Busy(h), Own(h) = p
          PROVE  View(p, q)'
      <3>p. PICK r : r = handlers[h]
        OBVIOUS
      <3>0. r.p = p
        BY <2>1, <3>p DEF Own
      <3>1. /\ StepOf(r) \in {"persist", "persist_history"} => r.p \in seen'.torn
            /\ StepOf(r) = "persist_history" /\ r.kind = "start" => r.p \in seen'.over
        BY <2>1, <3>p, <1>1, <1>2, TornMarks
      <3>2. View(p, r)
        BY <1>6, <2>1, <3>p, <3>0, ViewOf DEF Remembered
      <3> QED BY <1>1, <1>5, <3>0, <3>1, <3>2, ViewLost
    <2>2. ASSUME Quiet(p)
          PROVE  View(p, q)'
      <3>1. View(p, q)
        BY <1>6, <2>2, ViewOfNone DEF Remembered, q
      <3> QED BY <1>1, <1>5, <3>1, ViewLost
    <2> QED BY <2>1, <2>2 DEF Quiet
  <1>7. ASSUME NEW p \in Projects, p \notin seen'.crowded, NEW w \in Present(p)'
        PROVE  View(p, w)'
    <2>1. w = q
      BY <1>3, <1>7 DEF Present, q
    <2> QED BY <1>6, <1>7, <2>1
  <1> QED BY <1>4, <1>7 DEF StoreInv

-----------------------------------------------------------------------------
\* The steps that write to a store.

LEMMA PrefixFacts ==
    ASSUME NEW s \in Seq(Turns)
    PROVE  /\ IsPrefix(s, s) /\ IsPrefix(<<>>, s)
           /\ \A t \in Seq(Turns) : \A turn \in Turns : IsPrefix(s, t) => Extends(Append(t, turn), s)
  <1>1. /\ Len(s) \in Nat /\ s = SubSeq(s, 1, Len(s)) /\ <<>> = SubSeq(s, 1, 0) /\ Len(<<>>) = 0 /\ DOMAIN s = 1..Len(s)
        /\ DOMAIN <<>> = {}
    OBVIOUS
  <1>2. IsPrefix(s, s) /\ IsPrefix(<<>>, s)
    BY <1>1 DEF IsPrefix
  <1>3. ASSUME NEW t \in Seq(Turns), NEW turn \in Turns, IsPrefix(s, t)
        PROVE  Extends(Append(t, turn), s)
    <2>1. Append(t, turn) # <<>>
      OBVIOUS
    <2>2. IsPrefix(s, Append(t, turn))
      BY <1>3 DEF IsPrefix
    <2> QED BY <2>1, <2>2 DEF Extends
  <1> QED BY <1>2, <1>3

LEMMA StoreSelectProject ==
    ASSUME ControlInv, StoreInv, Remembered, NEW h \in Slots, SelectProject(h)
    PROVE  StoreInv'
  <1>p. PICK r : r = handlers[h]
    OBVIOUS
  <1>1. UNCHANGED <<cache, hcache, stages, hrows, agents>>
    BY DEF SelectProject, store
  <1>2. PICK q \in Request :
           /\ Goes(h, q) /\ q.todo # <<>> /\ Kin(r, q) /\ First(q.todo) = "refill" /\ save_project(q.st) = stages[r.p]
    BY <1>p, SelectProjectStep
  <1>3. /\ Busy(h) /\ r \in Request /\ Own(h) = r.p /\ r.p \in Projects
        /\ StepOf(r) = "select" /\ StepOf(q) = "refill"
    BY <1>p, <1>2, SelectProjectStep, AtStep, AtFirst
  <1>4. ASSUME r.p \notin seen'.crowded
        PROVE  View(r.p, q)'
    <2>1. View(r.p, r) /\ seen'.torn = seen.torn
      BY <1>p, <1>3, <1>4, ViewOf DEF Remembered, SelectProject
    <2>2. r.p \notin seen'.torn => StateView(r.p, q)' /\ HistoryView(r.p, q)'
      BY <1>1, <1>2, <1>3, <2>1 DEF View, StateView, HistoryView
    <2>3. StageView(r.p, q)'
      BY <1>3 DEF StageView, Unread
    <2>4. ~Holding(q)
      BY <1>3 DEF Holding, InCall
    <2>5. r.p \notin Odd' => TalkView(r.p, q)'
      BY <1>1, <1>3, <2>1, <2>4 DEF View, TalkView, Remembered, Odd
    <2> QED BY <2>2, <2>3, <2>5 DEF View
  <1> QED BY <1>p, <1>1, <1>2, <1>3, <1>4, StoreStep DEF Kin

LEMMA StoreRefillProject ==
    ASSUME ControlInv, StoreInv, Remembered, NEW h \in Slots, RefillProject(h)
    PROVE  StoreInv'
  <1>p. PICK r, n : r = handlers[h] /\ n = Next_(handlers[h])
    OBVIOUS
  <1>1. UNCHANGED <<hcache, stages, hrows, agents, seen>> /\ cache' = [cache EXCEPT ![r.p] = r.st]
    BY <1>p DEF RefillProject
  <1>2. PICK q \in {Idle} \cup Request :
           /\ Goes(h, q)
           /\ q # Idle /\ q.todo # <<>> => First(q.todo) \in Ready
           /\ q = Idle \/ Resumed(n, r.st, q)
    BY <1>p, RefillProjectStep
  <1>3. /\ Busy(h) /\ r \in Request /\ Own(h) = r.p /\ r.p \in Projects /\ StepOf(r) = "refill"
        /\ Like(r, n)
    BY <1>p, RefillProjectStep, AtStep, AtFirst
  <1>4. cache'[r.p] = r.st /\ \A x \in Projects : x # r.p => cache'[x] = cache[x]
    BY <1>1, <1>3 DEF ControlInv, Types
  <1>5. (q # Idle => q.p = r.p /\ q.st = r.st) /\ StepOf(q) \in {"none"} \cup Ready
    <2>1. CASE q = Idle
      BY <2>1, IdleLeaves
    <2>2. CASE q # Idle
      <3>1. q.p = r.p /\ q.st = r.st
        BY <1>2, <1>3, <2>2 DEF Resumed, Like, Kin
      <3> QED BY <1>2, <2>2, <3>1 DEF StepOf
    <2> QED BY <2>1, <2>2
  <1>6. ~Holding(q) /\ StepOf(q) \notin {"persist", "refill", "fresh", "save_history", "persist_history", "refill_history"}
    BY <1>5 DEF Ready, Holding, InCall
  <1>7. ASSUME r.p \notin seen'.crowded
        PROVE  View(r.p, q)'
    <2>1. View(r.p, r)
      BY <1>p, <1>3, <1>7, ViewOf DEF Remembered
    <2>2. r.p \notin seen.torn => save_project(r.st) = stages[r.p]
      BY <1>3, <2>1 DEF View, StateView
    <2>3. r.p \notin seen.torn => StateView(r.p, q)' /\ HistoryView(r.p, q)'
      BY <1>1, <1>3, <1>4, <1>6, <2>1, <2>2 DEF View, StateView, HistoryView
    <2>4. r.p \notin seen.torn => StageView(r.p, q)'
      <3>1. q = Idle => StepOf(q) \in Unread
        BY IdleLeaves DEF Unread
      <3> QED BY <1>1, <1>5, <1>6, <2>2, <3>1 DEF StageView
    <2>5. r.p \notin Odd => TalkView(r.p, q)'
      BY <1>1, <1>3, <1>6, <2>1 DEF View, TalkView
    <2> QED BY <1>1, <2>3, <2>4, <2>5 DEF View, Odd
  <1> QED BY <1>p, <1>1, <1>2, <1>3, <1>4, <1>5, <1>7, StoreStep

LEMMA StoreSaveProject ==
    ASSUME ControlInv, StoreInv, Remembered, NEW h \in Slots, SaveProject(h)
    PROVE  StoreInv'
  <1>p. PICK r, m : r = handlers[h] /\ m = Marked(handlers[h])
    OBVIOUS
  <1>1. UNCHANGED <<hcache, stages, hrows, agents, seen>>
    BY DEF SaveProject
  <1>2. Busy(h) /\ r \in Request /\ Own(h) = r.p /\ r.p \in Projects /\ First(r.todo) \in Saves /\ StepOf(r) = First(r.todo)
    BY <1>p, SaveProjectStep, AtStep, AtFirst
  <1>3. StepOf(r) \notin {"persist", "persist_history"} /\ (StepOf(r) # "fresh" => StepOf(r) \notin Unread)
    BY <1>2 DEF Saves, Unread, Reads
  <1>4. CASE Goes(h, Idle) /\ UNCHANGED cache
    <2> DEFINE q == Idle
    <2>1. Goes(h, q) /\ q = Idle /\ q \in {Idle} \cup Request /\ Follower(r.p, q)
      BY <1>4, IdleLeaves, NothingSeen
    <2> HIDE DEF q
    <2> QED BY <1>p, <1>1, <1>2, <1>3, <1>4, <2>1, StoreQuiet
  <1>5. CASE /\ cache' = [cache EXCEPT ![r.p] = m]
             /\ \E q \in Request : Goes(h, q) /\ q.todo # <<>> /\ First(q.todo) = "persist" /\ Kin(r, q) /\ q.st = m
    <2>1. PICK q \in Request : Goes(h, q) /\ q.todo # <<>> /\ First(q.todo) = "persist" /\ Kin(r, q) /\ q.st = m
      BY <1>5
    <2>2. StepOf(q) = "persist" /\ q.p = r.p
      BY <2>1, AtFirst DEF Kin
    <2>3. cache'[r.p] = q.st /\ \A x \in Projects : x # r.p => cache'[x] = cache[x]
      BY <1>2, <1>5, <2>1 DEF ControlInv, Types
    <2>4. ASSUME r.p \notin seen'.crowded
          PROVE  View(r.p, q)'
      <3>1. View(r.p, r)
        BY <1>p, <1>2, <2>4, ViewOf DEF Remembered
      <3>2. r.p \notin seen.torn => StateView(r.p, q)' /\ HistoryView(r.p, q)'
        BY <1>1, <1>3, <2>2, <2>3, <3>1 DEF View, StateView, HistoryView
      <3>3. ASSUME r.p \notin seen.torn, r.p \notin seen.blind
            PROVE  StageView(r.p, q)'
        <4>1. StepOf(r) # "fresh" /\ save_project(r.st) = stages[r.p]
          BY <1>3, <3>1, <3>3 DEF View, StageView
        <4>2. OneStage(r.st, q.st)
          BY <1>p, <1>2, <2>1, <4>1, MarkedStep
        <4>3. \A s \in ALL_STAGES : stages[r.p][s] = r.st[s]
          BY <4>1 DEF save_project, ALL_STAGES
        <4>4. OneStage(stages[r.p], q.st)
          BY <4>2, <4>3 DEF OneStage
        <4>5. StepOf(q) \in Unread
          BY <2>2 DEF Unread
        <4> QED BY <1>1, <2>2, <4>4, <4>5 DEF StageView, OneStage
      <3>4. ~Holding(q)
        BY <2>2 DEF Holding, InCall
      <3>5. r.p \notin Odd => TalkView(r.p, q)'
        BY <1>1, <1>3, <2>2, <3>1, <3>4 DEF View, TalkView
      <3> QED BY <1>1, <3>2, <3>3, <3>5 DEF View, Odd
    <2> QED BY <1>p, <1>1, <1>2, <2>1, <2>2, <2>3, <2>4, StoreStep
  <1> QED BY <1>p, <1>4, <1>5, SaveProjectStep

LEMMA StorePersistProject ==
    ASSUME ControlInv, StoreInv, Remembered, NEW h \in Slots, PersistProject(h)
    PROVE  StoreInv'
  <1>p. PICK r : r = handlers[h]
    OBVIOUS
  <1>1. /\ UNCHANGED <<cache, hcache, hrows, agents, seen>> /\ stages' = [stages EXCEPT ![r.p] = save_project(r.st)]
        /\ At(h, "persist") /\ Goes(h, Next_(r))
    BY <1>p DEF PersistProject
  <1>2. PICK q \in Request :
           /\ Goes(h, q) /\ Like(r, q)
           /\ \/ q.todo = <<>>
              \/ First(q.todo) \in {"background", "design", "trigger_pm", "clarifying"}
              \/ First(q.todo) = "chat" /\ r.kind = "start"
    BY <1>p, <1>1, PersistProjectStep
  <1>3. Busy(h) /\ r \in Request /\ Own(h) = r.p /\ r.p \in Projects /\ StepOf(r) = "persist"
    BY <1>p, <1>1, PersistProjectStep, AtStep, AtFirst
  <1>4. stages'[r.p] = save_project(r.st) /\ \A x \in Projects : x # r.p => stages'[x] = stages[x]
    BY <1>1, <1>3 DEF ControlInv, Types
  <1>5. /\ StepOf(q) \in {"none", "background", "design", "trigger_pm", "clarifying", "chat"}
        /\ StepOf(q) = "chat" => q.kind = "start"
        /\ q.p = r.p /\ q.st = r.st
    BY <1>2 DEF StepOf, Like, Kin
  <1>6. Holding(q) => q.kind = "start"
    BY <1>5 DEF Holding, InCall
  <1>7. ASSUME r.p \notin seen'.crowded
        PROVE  View(r.p, q)'
    <2>1. View(r.p, r)
      BY <1>p, <1>3, <1>7, ViewOf DEF Remembered
    <2>2. r.p \notin seen.torn => StateView(r.p, q)' /\ HistoryView(r.p, q)'
      BY <1>1, <1>3, <1>4, <1>5, <2>1 DEF View, StateView, HistoryView
    <2>3. StageView(r.p, q)'
      BY <1>4, <1>5 DEF StageView
    <2>4. r.p \notin Odd => TalkView(r.p, q)'
      BY <1>1, <1>3, <1>5, <1>6, <2>1 DEF View, TalkView
    <2> QED BY <1>1, <2>2, <2>3, <2>4 DEF View, Odd
  <1> QED BY <1>p, <1>1, <1>2, <1>3, <1>4, <1>5, <1>7, StoreStep

\* A request that hears a history that has all the stored messages.
LEMMA ListensTo ==
    ASSUME ControlInv, NEW r \in Request, NEW history \in Seq(Turns), NEW t, NEW q, Hears(r, history, t, q)
    PROVE  /\ q \in Request /\ q.p = r.p /\ q.st = r.st /\ q.kind = r.kind /\ StepOf(q) \in {"chat", "decompose_ears"}
           /\ IsPrefix(hrows[r.p], history) => Extends(q.hist, hrows[r.p])
  <1>1. /\ q \in Request /\ q.p = r.p /\ q.st = r.st /\ q.kind = r.kind /\ q.todo # <<>>
        /\ First(q.todo) \in {"chat", "decompose_ears"} /\ q.hist = Append(history, Turn(r))
    BY DEF Hears, Kin
  <1>2. hrows[r.p] \in Seq(Turns) /\ Turn(r) \in Turns
    BY DEF ControlInv, Types, Request, Turn, Turns
  <1> QED BY <1>1, <1>2, AtFirst, PrefixFacts

LEMMA ListenerFollows ==
    ASSUME ControlInv, Remembered, NEW r \in Request, View(r.p, r), StepOf(r) \notin Unread,
           NEW history \in Seq(Turns), NEW t, NEW q, Hears(r, history, t, q),
           r.p \in Odd' \/ IsPrefix(hrows[r.p], history)
    PROVE  Follower(r.p, q)
  <1>1. /\ q.st = r.st /\ StepOf(q) \in {"chat", "decompose_ears"}
        /\ r.p \in Odd' \/ Extends(q.hist, hrows[r.p])
    BY ListensTo
  <1> QED BY <1>1, Known DEF Follower

LEMMA StoreGetHistory ==
    ASSUME ControlInv, StoreInv, Remembered, NEW h \in Slots, GetHistory(h)
    PROVE  StoreInv'
  <1>p. PICK r : r = handlers[h]
    OBVIOUS
  <1>1. UNCHANGED <<cache, hcache, stages, hrows, agents>>
    BY DEF GetHistory, store
  <1>2. PICK q \in Request :
           /\ Goes(h, q)
           /\ \/ q.todo # <<>> /\ Like(r, q) /\ First(q.todo) = "select_history"
              \/ hcache[r.p] # Nil /\ Hears(r, hcache[r.p], r.todo, q)
    BY <1>p, GetHistoryStep
  <1>3. Busy(h) /\ r \in Request /\ r.p \in Projects /\ StepOf(r) = "get_history"
    BY <1>p, GetHistoryStep, AtStep, AtFirst
  <1>4. StepOf(r) \notin Unread /\ StepOf(r) \notin {"persist", "persist_history"}
    BY <1>3 DEF Unread, Reads
  <1>5. q.p = r.p
    BY <1>2 DEF Like, Kin, Hears
  <1>6. ASSUME View(r.p, r)
        PROVE  Follower(r.p, q)
    <2>1. CASE q.todo # <<>> /\ Like(r, q) /\ First(q.todo) = "select_history"
      <3>1. StepOf(q) = "select_history" /\ q.st = r.st
        BY <2>1, AtFirst DEF Like
      <3>2. ~Holding(q)
        BY <3>1 DEF Holding, InCall
      <3> QED BY <1>4, <1>6, <3>1, <3>2, SameState
    <2>2. CASE hcache[r.p] # Nil /\ Hears(r, hcache[r.p], r.todo, q)
      <3>1. hcache[r.p] \in Seq(Turns)
        BY <1>3, <2>2 DEF ControlInv, Types
      <3>2. r.p \in Odd' \/ IsPrefix(hrows[r.p], hcache[r.p])
        BY <1>4, <1>6, <2>2 DEF View, TalkView, Remembered, Odd
      <3> QED BY <1>3, <1>4, <1>6, <2>2, <3>1, <3>2, ListenerFollows
    <2> QED BY <1>2, <2>1, <2>2
  <1> QED BY <1>p, <1>1, <1>2, <1>3, <1>4, <1>5, <1>6, StoreQuiet

LEMMA StoreSelectHistory ==
    ASSUME ControlInv, StoreInv, Remembered, NEW h \in Slots, SelectHistory(h)
    PROVE  StoreInv'
  <1>p. PICK r : r = handlers[h]
    OBVIOUS
  <1>1. UNCHANGED <<cache, hcache, stages, hrows, agents>>
    BY DEF SelectHistory, store
  <1>2. PICK q \in Request :
           /\ Goes(h, q)
           /\ \/ hrows[r.p] = <<>> /\ Hears(r, <<>>, Others(r.todo), q)
              \/ /\ q.todo # <<>> /\ Kin(r, q) /\ q.st = r.st /\ q.hist = hrows[r.p]
                 /\ First(q.todo) = "refill_history"
    BY <1>p, SelectHistoryStep
  <1>3. Busy(h) /\ r \in Request /\ Own(h) = r.p /\ r.p \in Projects /\ StepOf(r) = "select_history"
    BY <1>p, SelectHistoryStep, AtStep, AtFirst
  <1>4. StepOf(r) \notin Unread /\ StepOf(r) \notin {"persist", "persist_history"}
    BY <1>3 DEF Unread, Reads
  <1>5. q.p = r.p
    BY <1>2 DEF Kin, Hears
  <1>6. CASE hrows[r.p] = <<>> /\ Hears(r, <<>>, Others(r.todo), q)
    <2>1. <<>> \in Seq(Turns)
      OBVIOUS
    <2>2. IsPrefix(hrows[r.p], <<>>)
      BY <1>6, <2>1, PrefixFacts
    <2>3. View(r.p, r) => Follower(r.p, q)
      BY <1>3, <1>4, <1>6, <2>1, <2>2, ListenerFollows
    <2> QED BY <1>p, <1>1, <1>2, <1>3, <1>4, <1>5, <2>3, StoreQuiet
  <1>7. CASE /\ q.todo # <<>> /\ q.st = r.st /\ q.hist = hrows[r.p]
             /\ First(q.todo) = "refill_history"
    <2>1. StepOf(q) = "refill_history"
      BY <1>7, AtFirst
    <2>2. StepOf(q) \notin Unread /\ ~Holding(q)
      BY <2>1 DEF Unread, Reads, Holding, InCall
    <2>3. ASSUME r.p \notin seen'.crowded
          PROVE  View(r.p, q)'
      <3>1. View(r.p, r)
        BY <1>p, <1>3, <2>3, ViewOf DEF Remembered
      <3>2. seen' = seen
        BY DEF SelectHistory
      <3>3. r.p \notin seen.torn => StateView(r.p, q)' /\ HistoryView(r.p, q)'
        BY <1>1, <1>3, <1>7, <2>1, <3>1 DEF View, StateView, HistoryView
      <3>4. StageView(r.p, r) => StageView(r.p, q)'
        BY <1>1, <1>4, <1>7, <2>1, <2>2 DEF StageView
      <3>5. TalkView(r.p, r) => TalkView(r.p, q)'
        BY <1>1, <1>4, <1>7, <2>1, <2>2 DEF TalkView
      <3> QED BY <3>1, <3>2, <3>3, <3>4, <3>5 DEF View, Odd
    <2> QED BY <1>p, <1>1, <1>2, <1>3, <1>5, <2>3, StoreStep
  <1> QED BY <1>2, <1>6, <1>7

LEMMA StoreRefillHistory ==
    ASSUME ControlInv, StoreInv, Remembered, NEW h \in Slots, RefillHistory(h)
    PROVE  StoreInv'
  <1>p. PICK r : r = handlers[h]
    OBVIOUS
  <1>1. UNCHANGED <<cache, stages, hrows, agents, seen>> /\ hcache' = [hcache EXCEPT ![r.p] = r.hist]
    BY <1>p DEF RefillHistory
  <1>2. PICK q \in Request : Goes(h, q) /\ Hears(r, r.hist, Others(r.todo), q)
    BY <1>p, RefillHistoryStep
  <1>3. /\ Busy(h) /\ r \in Request /\ Own(h) = r.p /\ r.p \in Projects /\ StepOf(r) = "refill_history"
        /\ r.hist \in Seq(Turns)
    BY <1>p, RefillHistoryStep, AtStep, AtFirst
  <1>4. hcache'[r.p] = r.hist /\ \A x \in Projects : x # r.p => hcache'[x] = hcache[x]
    BY <1>1, <1>3 DEF ControlInv, Types
  <1>5. /\ q.p = r.p /\ q.st = r.st /\ StepOf(q) \in {"chat", "decompose_ears"}
        /\ IsPrefix(hrows[r.p], r.hist) => Extends(q.hist, hrows[r.p])
    BY <1>2, <1>3, ListensTo
  <1>6. StepOf(q) \notin Unread /\ StepOf(r) \notin Unread
    BY <1>3, <1>5 DEF Unread, Reads
  <1>7. ASSUME r.p \notin seen'.crowded
        PROVE  View(r.p, q)'
    <2>1. View(r.p, r)
      BY <1>p, <1>3, <1>7, ViewOf DEF Remembered
    <2>2. r.p \notin seen.torn => StateView(r.p, q)' /\ HistoryView(r.p, q)'
      BY <1>1, <1>3, <1>4, <1>5, <2>1 DEF View, StateView, HistoryView
    <2>3. StageView(r.p, r) => StageView(r.p, q)'
      BY <1>1, <1>5, <1>6 DEF StageView
    <2>4. IsPrefix(hrows[r.p], hrows[r.p])
      BY <1>3, PrefixFacts DEF ControlInv, Types
    <2>5. TalkView(r.p, r) => TalkView(r.p, q)'
      BY <1>1, <1>3, <1>4, <1>5, <2>4 DEF TalkView
    <2> QED BY <1>1, <2>1, <2>2, <2>3, <2>5 DEF View, Odd
  <1> QED BY <1>p, <1>1, <1>2, <1>3, <1>4, <1>5, <1>7, StoreStep

LEMMA StoreSaveHistory ==
    ASSUME ControlInv, StoreInv, Remembered, NEW h \in Slots, SaveHistory(h)
    PROVE  StoreInv'
  <1>p. PICK r, messages : r = handlers[h] /\ messages = Messages(handlers[h])
    OBVIOUS
  <1>1. UNCHANGED <<cache, stages, hrows, agents, seen>>
    BY DEF SaveHistory
  <1>2. Busy(h) /\ r \in Request /\ Own(h) = r.p /\ r.p \in Projects /\ StepOf(r) = "save_history"
    BY <1>p, SaveHistoryStep, AtStep, AtFirst
  <1>3. StepOf(r) \notin Unread /\ Holding(r)
    BY <1>2 DEF Unread, Reads, Holding
  <1>4. CASE Goes(h, Idle) /\ UNCHANGED hcache
    <2> DEFINE q == Idle
    <2>1. Goes(h, q) /\ q = Idle /\ q \in {Idle} \cup Request /\ Follower(r.p, q)
      BY <1>4, IdleLeaves, NothingSeen
    <2> HIDE DEF q
    <2> QED BY <1>p, <1>1, <1>2, <1>4, <2>1, StoreQuiet
  <1>5. CASE /\ hcache' = [hcache EXCEPT ![r.p] = messages]
             /\ \E q \in Request : /\ Goes(h, q) /\ q.todo # <<>> /\ Kin(r, q) /\ q.stream = r.stream
                                   /\ q.st = r.st /\ q.hist = messages /\ First(q.todo) = "persist_history"
    <2>1. PICK q \in Request : /\ Goes(h, q) /\ q.todo # <<>> /\ Kin(r, q) /\ q.stream = r.stream
                               /\ q.st = r.st /\ q.hist = messages /\ First(q.todo) = "persist_history"
      BY <1>5
    <2>2. StepOf(q) = "persist_history" /\ q.p = r.p /\ q.kind = r.kind
      BY <2>1, AtFirst DEF Kin
    <2>3. hcache'[r.p] = q.hist /\ \A x \in Projects : x # r.p => hcache'[x] = hcache[x]
      BY <1>2, <1>5, <2>1 DEF ControlInv, Types
    <2>4. messages = IF r.stream THEN agents.result ELSE r.hist
      BY <1>p DEF Messages
    <2>5. ASSUME r.p \notin seen'.crowded
          PROVE  View(r.p, q)'
      <3>1. View(r.p, r)
        BY <1>p, <1>2, <2>5, ViewOf DEF Remembered
      <3>2. r.p \notin seen.torn => StateView(r.p, q)' /\ HistoryView(r.p, q)'
        BY <1>1, <1>2, <2>2, <2>3, <3>1 DEF View, StateView, HistoryView
      <3>3. StepOf(q) \notin Unread
        BY <2>2 DEF Unread, Reads
      <3>4. StageView(r.p, r) => StageView(r.p, q)'
        BY <1>1, <1>3, <2>1, <2>2, <3>3 DEF StageView
      <3>5. ASSUME TalkView(r.p, r)
            PROVE  TalkView(r.p, q)'
        <4>1. q.hist = r.hist
          BY <1>2, <2>1, <2>4, <3>5 DEF TalkView
        <4>2. q.kind = "start" \/ Extends(q.hist, hrows[r.p])
          BY <1>3, <2>2, <3>5, <4>1 DEF TalkView
        <4> QED BY <1>1, <2>2, <2>3, <4>2 DEF TalkView, Extends
      <3> QED BY <1>1, <3>1, <3>2, <3>4, <3>5 DEF View, Odd
    <2> QED BY <1>p, <1>1, <1>2, <2>1, <2>2, <2>3, <2>5, StoreStep
  <1> QED BY <1>p, <1>4, <1>5, SaveHistoryStep

LEMMA StorePersistHistory ==
    ASSUME ControlInv, StoreInv, Remembered, NEW h \in Slots, PersistHistory(h)
    PROVE  StoreInv'
  <1>p. PICK r : r = handlers[h]
    OBVIOUS
  <1>1. /\ UNCHANGED <<cache, hcache, stages, agents, seen>> /\ hrows' = [hrows EXCEPT ![r.p] = r.hist]
        /\ At(h, "persist_history") /\ Goes(h, HistorySaved(r))
    BY <1>p DEF PersistHistory
  <1>2. PICK q \in Request :
           /\ Goes(h, q) /\ Kin(r, q) /\ q.st = r.st /\ q.todo # <<>>
           /\ First(q.todo) \in {"chatted", "decomposed", "get_project"}
    BY <1>p, <1>1, PersistHistoryStep
  <1>3. Busy(h) /\ r \in Request /\ Own(h) = r.p /\ r.p \in Projects /\ StepOf(r) = "persist_history"
    BY <1>p, <1>1, PersistHistoryStep, AtStep, AtFirst
  <1>4. hrows'[r.p] = r.hist /\ \A x \in Projects : x # r.p => hrows'[x] = hrows[x]
    BY <1>1, <1>3 DEF ControlInv, Types
  <1>5. StepOf(q) \in {"chatted", "decomposed", "get_project"} /\ q.p = r.p
    BY <1>2, AtFirst DEF Kin
  <1>6. StepOf(r) \notin Unread /\ ~Holding(q)
    BY <1>3, <1>5 DEF Unread, Reads, Holding, InCall
  <1>7. ASSUME r.p \notin seen'.crowded
        PROVE  View(r.p, q)'
    <2>1. View(r.p, r)
      BY <1>p, <1>3, <1>7, ViewOf DEF Remembered
    <2>2. r.p \notin seen.torn => StateView(r.p, q)' /\ HistoryView(r.p, q)'
      BY <1>1, <1>3, <1>4, <1>5, <2>1 DEF View, StateView, HistoryView
    <2>3. StageView(r.p, r) => StageView(r.p, q)'
      BY <1>1, <1>2, <1>5, <1>6 DEF StageView
    <2>4. IsPrefix(r.hist, r.hist)
      BY <1>3, PrefixFacts DEF Request
    <2>5. TalkView(r.p, r) => TalkView(r.p, q)'
      BY <1>1, <1>3, <1>4, <1>5, <1>6, <2>4 DEF TalkView
    <2> QED BY <1>1, <2>1, <2>2, <2>3, <2>5 DEF View, Odd
  <1> QED BY <1>p, <1>1, <1>2, <1>3, <1>4, <1>5, <1>7, StoreStep

-----------------------------------------------------------------------------
\* Every step keeps what the stores and the requests know of each other.

LEMMA StoreNext == ControlInv /\ OwnerInv /\ StoreInv /\ [Next]_vars => StoreInv'
  <1> SUFFICES ASSUME ControlInv, OwnerInv, StoreInv, [Next]_vars
               PROVE  StoreInv'
    OBVIOUS
  <1>0. Remembered
    BY MarksAreKept
  <1>1. ASSUME NEW h \in Slots, Arrive(h)
        PROVE  StoreInv'
    BY <1>0, <1>1, StoreArrive
  <1>2. ASSUME NEW h \in Slots, GetProject(h) \/ SelectProject(h) \/ RefillProject(h) \/ SaveProject(h) \/ PersistProject(h)
        PROVE  StoreInv'
    BY <1>0, <1>2, StoreGetProject, StoreSelectProject, StoreRefillProject, StoreSaveProject, StorePersistProject
  <1>3. ASSUME NEW h \in Slots, GetHistory(h) \/ SelectHistory(h) \/ RefillHistory(h) \/ SaveHistory(h) \/ PersistHistory(h)
        PROVE  StoreInv'
    BY <1>0, <1>3, StoreGetHistory, StoreSelectHistory, StoreRefillHistory, StoreSaveHistory, StorePersistHistory
  <1>4. ASSUME NEW h \in Slots,
               \/ Background(h) \/ TriggerPm(h) \/ CallAgent(h) \/ BeginStream(h) \/ AnswerText(h) \/ AnswerTool(h)
               \/ ExecuteTool(h) \/ Publish(h) \/ ServerError(h)
        PROVE  StoreInv'
    BY <1>0, <1>4, StoreGoesOn, StoreCallAgent, StoreAnswers, StorePublish
  <1>5. ASSUME NEW h \in Slots, RedisFails(h) \/ MySQLFails(h) \/ ModelsFail(h) \/ Disconnect(h)
        PROVE  StoreInv'
    BY <1>0, <1>5, StoreRedisFails, StoreMySQLFails, StoreModelsFail, StoreDisconnect
  <1>6. ASSUME Land \/ LoseWrite \/ UNCHANGED vars
        PROVE  StoreInv'
    <2>1. UNCHANGED <<cache, hcache, stages, hrows, handlers, agents>>
      BY <1>6 DEF Land, LoseWrite, vars, store
    <2> QED BY <1>0, <2>1, StoreStill
  <1>7. ASSUME Expire
        PROVE  StoreInv'
    <2>1. UNCHANGED <<stages, hrows, handlers, agents>>
      BY <1>7 DEF Expire
    <2>2. \A p \in Projects : cache'[p] \in {cache[p], Nil} /\ hcache'[p] \in {hcache[p], Nil}
      BY <1>7 DEF Expire, ControlInv, Types
    <2> QED BY <1>0, <2>1, <2>2, StoreStill
  <1>8. ASSUME Restart
        PROVE  StoreInv'
    BY <1>0, <1>8, StoreRestart
  <1> QED BY <1>1, <1>2, <1>3, <1>4, <1>5, <1>6, <1>7, <1>8 DEF Next, Runs

LEMMA InitStore == Init => StoreInv
  <1> SUFFICES ASSUME Init
               PROVE  StoreInv
    OBVIOUS
  <1>1. /\ cache = [p \in Projects |-> Nil] /\ hcache = [p \in Projects |-> Nil] /\ handlers = [h \in Slots |-> Idle]
    BY DEF Init
  <1>2. \A h \in Slots : ~Busy(h)
    BY <1>1 DEF Busy
  <1>3. ASSUME NEW p \in Projects, NEW r \in Present(p)
        PROVE  View(p, r)
    <2>1. StepOf(r) = "none"
      BY <1>2, <1>3, IdleLeaves DEF Present
    <2>2. cache[p] = Nil /\ hcache[p] = Nil
      BY <1>1
    <2>3. "none" \in Unread /\ "none" \notin InCall
      BY DEF Unread, InCall
    <2> QED BY <2>1, <2>2, <2>3 DEF View, StateView, HistoryView, StageView, TalkView, Holding
  <1> QED BY <1>2, <1>3 DEF StoreInv, OnlyOne

LEMMA StoreInvariant == Spec => []StoreInv
  BY InitStore, StoreNext, ControlInvariant, OwnerInvariant, PTL DEF Spec

-----------------------------------------------------------------------------
\* What follows.

\* Redis and MySQL agree on a project nobody works on, unless requests overlapped or a write was lost.
THEOREM StoresStayAgreed == Spec => []StoresAgree
  <1>1. StoreInv => StoresAgree
    <2> SUFFICES ASSUME StoreInv, NEW p \in Projects \ (seen.crowded \cup seen.torn), Quiet(p)
                 PROVE  /\ cache[p] # Nil => save_project(cache[p]) = stages[p]
                        /\ hcache[p] # Nil => hcache[p] = hrows[p]
      BY DEF StoresAgree
    <2>1. View(p, Idle)
      BY ViewOfNone
    <2> QED BY <2>1, IdleLeaves DEF View, StateView, HistoryView
  <1> QED BY <1>1, StoreInvariant, PTL

\* The stored messages change only when a request stores its own.
LEMMA WhoStoresMessages ==
    ASSUME [Next]_vars
    PROVE  UNCHANGED hrows \/ \E h \in Slots : PersistHistory(h)
  <1>1. ASSUME NEW h \in Slots,
               \/ Arrive(h) \/ GetProject(h) \/ SelectProject(h) \/ RefillProject(h) \/ SaveProject(h) \/ PersistProject(h)
               \/ GetHistory(h) \/ SelectHistory(h) \/ RefillHistory(h) \/ SaveHistory(h)
        PROVE  UNCHANGED hrows
    BY <1>1 DEF store, Arrive, GetProject, SelectProject, RefillProject, SaveProject, PersistProject, GetHistory,
          SelectHistory, RefillHistory, SaveHistory
  <1>2. ASSUME NEW h \in Slots,
               \/ Background(h) \/ TriggerPm(h) \/ CallAgent(h) \/ BeginStream(h) \/ AnswerText(h) \/ AnswerTool(h)
               \/ ExecuteTool(h) \/ Publish(h) \/ ServerError(h)
        PROVE  UNCHANGED hrows
    BY <1>2 DEF store, Background, TriggerPm, CallAgent, BeginStream, AnswerText, AnswerTool, ExecuteTool, Publish, ServerError
  <1>3. ASSUME NEW h \in Slots, RedisFails(h) \/ MySQLFails(h) \/ ModelsFail(h) \/ Disconnect(h)
        PROVE  UNCHANGED hrows
    BY <1>3 DEF store, RedisFails, MySQLFails, ModelsFail, Disconnect
  <1>4. ASSUME Land \/ LoseWrite \/ Expire \/ Restart \/ UNCHANGED vars
        PROVE  UNCHANGED hrows
    BY <1>4 DEF store, vars, Land, LoseWrite, Expire, Restart
  <1> QED BY <1>1, <1>2, <1>3, <1>4 DEF Next, Runs

\* No stored message is lost but by starting over.
THEOREM HistoryStaysKept == Spec => HistoryKept
  <1>1. ASSUME ControlInv, StoreInv, [Next]_vars,
               NEW p \in Projects \ (seen'.crowded \cup seen'.mixed \cup seen'.refused \cup seen'.blind \cup seen'.over),
               hrows'[p] # hrows[p]
        PROVE  \/ IsPrefix(hrows[p], hrows'[p])
               \/ \E h \in Slots : At(h, "persist_history") /\ Own(h) = p /\ handlers[h].kind = "start"
    <2>1. PICK h \in Slots : PersistHistory(h)
      BY <1>1, WhoStoresMessages
    <2>2. PICK r : r = handlers[h]
      OBVIOUS
    <2>3. /\ At(h, "persist_history") /\ hrows' = [hrows EXCEPT ![r.p] = r.hist] /\ seen' = seen
          /\ Goes(h, HistorySaved(r))
      BY <2>1, <2>2 DEF PersistHistory
    <2>4. Busy(h) /\ r \in Request /\ Own(h) = r.p /\ StepOf(r) = "persist_history"
      BY <1>1, <2>2, <2>3, PersistHistoryStep, AtStep, AtFirst
    <2>5. p = r.p /\ hrows'[p] = r.hist
      BY <1>1, <2>3 DEF ControlInv, Types
    <2>6. View(p, r) /\ p \notin Odd
      BY <1>1, <2>2, <2>3, <2>4, <2>5, ViewOf DEF Odd
    <2>7. r.kind = "start" \/ Extends(r.hist, hrows[p])
      BY <2>4, <2>6 DEF View, TalkView, Holding
    <2> QED BY <2>2, <2>3, <2>4, <2>5, <2>7 DEF Extends
  <1>2. ControlInv /\ StoreInv /\ [Next]_vars =>
           [\A p \in Projects \ (seen'.crowded \cup seen'.mixed \cup seen'.refused \cup seen'.blind \cup seen'.over) :
               hrows'[p] # hrows[p] =>
                  \/ IsPrefix(hrows[p], hrows'[p])
                  \/ \E h \in Slots : At(h, "persist_history") /\ Own(h) = p /\ handlers[h].kind = "start"]_vars
    BY <1>1
  <1> QED BY <1>2, ControlInvariant, StoreInvariant, PTL DEF Spec, HistoryKept

\* The stored stages change only when a request stores its own.
LEMMA WhoStoresStages ==
    ASSUME [Next]_vars
    PROVE  UNCHANGED stages \/ \E h \in Slots : PersistProject(h)
  <1>1. ASSUME NEW h \in Slots,
               \/ Arrive(h) \/ GetProject(h) \/ SelectProject(h) \/ RefillProject(h) \/ SaveProject(h)
               \/ GetHistory(h) \/ SelectHistory(h) \/ RefillHistory(h) \/ SaveHistory(h) \/ PersistHistory(h)
        PROVE  UNCHANGED stages
    BY <1>1 DEF store, Arrive, GetProject, SelectProject, RefillProject, SaveProject, GetHistory,
          SelectHistory, RefillHistory, SaveHistory, PersistHistory
  <1>2. ASSUME NEW h \in Slots,
               \/ Background(h) \/ TriggerPm(h) \/ CallAgent(h) \/ BeginStream(h) \/ AnswerText(h) \/ AnswerTool(h)
               \/ ExecuteTool(h) \/ Publish(h) \/ ServerError(h)
        PROVE  UNCHANGED stages
    BY <1>2 DEF store, Background, TriggerPm, CallAgent, BeginStream, AnswerText, AnswerTool, ExecuteTool, Publish, ServerError
  <1>3. ASSUME NEW h \in Slots, RedisFails(h) \/ MySQLFails(h) \/ ModelsFail(h) \/ Disconnect(h)
        PROVE  UNCHANGED stages
    BY <1>3 DEF store, RedisFails, MySQLFails, ModelsFail, Disconnect
  <1>4. ASSUME Land \/ LoseWrite \/ Expire \/ Restart \/ UNCHANGED vars
        PROVE  UNCHANGED stages
    BY <1>4 DEF store, vars, Land, LoseWrite, Expire, Restart
  <1> QED BY <1>1, <1>2, <1>3, <1>4 DEF Next, Runs

LEMMA AtMostOne ==
    ASSUME NEW S, NEW s, S \subseteq {s}
    PROVE  Cardinality(S) <= 1
  <1>1. S = {} \/ S = {s}
    OBVIOUS
  <1>2. Cardinality({}) = 0
    BY FS_EmptySet
  <1>3. Cardinality({s}) = 1
    BY FS_Singleton
  <1> QED BY <1>1, <1>2, <1>3

\* Work on one stage leaves the others as they are.
THEOREM StagesStayApart == Spec => StagesApart
  <1> DEFINE changed(p) == {s \in ALL_STAGES : stages'[p][s] # stages[p][s]}
  <1>1. ASSUME ControlInv, StoreInv, [Next]_vars, NEW p \in Projects \ (seen'.crowded \cup seen'.torn \cup seen'.blind)
        PROVE  \E s : changed(p) \subseteq {s}
    <2>1. CASE stages'[p] = stages[p]
      BY <2>1
    <2>2. CASE stages'[p] # stages[p]
      <3>1. PICK h \in Slots : PersistProject(h)
        BY <1>1, <2>2, WhoStoresStages
      <3>2. PICK r : r = handlers[h]
        OBVIOUS
      <3>3. /\ At(h, "persist") /\ stages' = [stages EXCEPT ![r.p] = save_project(r.st)] /\ seen' = seen
            /\ Goes(h, Next_(r))
        BY <3>1, <3>2 DEF PersistProject
      <3>4. Busy(h) /\ r \in Request /\ Own(h) = r.p /\ StepOf(r) = "persist"
        BY <1>1, <3>2, <3>3, PersistProjectStep, AtStep, AtFirst
      <3>5. p = r.p /\ stages'[p] = save_project(r.st)
        BY <1>1, <2>2, <3>3 DEF ControlInv, Types
      <3>6. View(p, r)
        BY <1>1, <3>2, <3>3, <3>4, <3>5, ViewOf
      <3>7. OneStage(stages[p], r.st)
        BY <1>1, <3>3, <3>4, <3>6 DEF View, StageView
      <3>8. PICK s \in ALL_STAGES : \A other \in ALL_STAGES \ {s} : stages[p][other] = r.st[other]
        BY <3>7 DEF OneStage
      <3>9. \A other \in ALL_STAGES : stages'[p][other] = r.st[other]
        BY <3>5 DEF save_project, ALL_STAGES
      <3> QED BY <3>8, <3>9
    <2> QED BY <2>1, <2>2
  <1>2. ASSUME ControlInv, StoreInv, [Next]_vars, NEW p \in Projects \ (seen'.crowded \cup seen'.torn \cup seen'.blind)
        PROVE  Cardinality(changed(p)) <= 1
    BY <1>1, <1>2, AtMostOne
  <1>3. ControlInv /\ StoreInv /\ [Next]_vars =>
           [\A p \in Projects \ (seen'.crowded \cup seen'.torn \cup seen'.blind) : \A h \in Slots :
               At(h, "persist") /\ Own(h) = p /\ handlers'[h] # handlers[h] =>
                  Cardinality({s \in ALL_STAGES : stages'[p][s] # stages[p][s]}) <= 1]_vars
    BY <1>2
  <1> QED BY <1>3, ControlInvariant, StoreInvariant, PTL DEF Spec, StagesApart

=============================================================================
