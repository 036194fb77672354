------------------------------ MODULE Providers ------------------------------
(***************************************************************************)
(* The providers as the AI agent knows them: an evaluation of a resume, an *)
(* adjustment of points, a profile sent by the server, and the search for  *)
(* providers that fit a demand.  Profile, history of points, the server's  *)
(* row of the team and the vector in Milvus are written one transaction    *)
(* after another, while other requests run.  The service runs in several   *)
(* processes: each has one rating agent, shared by its requests, and is    *)
(* blocked while it waits for Milvus.                                      *)
(***************************************************************************)
EXTENDS Rating, SequencesExt

CONSTANTS Provider, Worker, Slot, Skill, Nil,
          Scenarios,      \* the team rows, what each request may ask, what the model may hand
                          \* to a tool, how many requests run at once, how many troubles come
          Users,          \* the rows of the table users; Nil where there is none
          Demand,         \* the demand providers are sought for
          TopK,           \* vectors a search returns at most
          MaxIterations   \* max_agentic_loop_iterations

Level == 1..10
Skills == [form : {"none", "names", "objects"}, names : SUBSET Skill]
Profile == [power : Int, level : Level, skills : Skills, by : SUBSET Provider]
Team == [power : Int, level : Level]
Scores == [tech_depth : Int, project_exp : Int, ai_proficiency : Int, portfolio : Int, background : Int]
Answer ==
    [tool : {"parse_resume"}, skills : Skills] \cup [tool : {"evaluate_skills"}, scores : Scores, power : Int]
    \cup [tool : {"generate_report"}, power : Int]
Ask ==
    [kind : {"evaluate"}, stream : BOOLEAN] \cup [kind : {"adjust"}, points : Int]
    \cup [kind : {"sync"}, skills : Skills]
    \cup [kind : {"recommend"}, page : Nat, page_size : Nat, verified : BOOLEAN]

ASSUME Limits == {TopK, MaxIterations} \subseteq Nat \ {0}
\* What the matcher reads of a row of users, and of the demand.
User == [orders : Int, rating : Int, completion : Int, rate : Int, minutes : Int, registered : Int]
ASSUME UsersKnown == Users \in [Provider -> User \cup {Nil}]
ASSUME Demanded == Demand \in [skills : SUBSET Skill, budget_min : Nat, budget_max : Nat] /\ IsFiniteSet(Demand.skills)
ASSUME NilAssumption == Nil \notin Profile /\ Nil \notin Team /\ Nil \notin Provider
\* Whatever the model hands to a tool and a request asks for is of its type; the server
\* sends profiles of teams that it has.
ASSUME ScenarioAssumption ==
    \A s \in Scenarios :
        /\ s.team \in Team \cup {Nil}
        /\ s.answers \subseteq Answer
        /\ s.asked \in Seq(SUBSET Ask)
        /\ \A i \in 1..Len(s.asked) : (\E a \in s.asked[i] : a.kind = "sync") => s.team # Nil

VARIABLES profiles, logs, teams,  \* MySQL: ai_provider_profiles, ai_vibe_power_logs, teams
          vectors,                \* Milvus: the collection of providers
          results,                \* MySQL: ai_match_results
          agents,                 \* the fields of the rating agent of each process
          handlers,               \* the requests under way
          scenario, requests, troubles,
          seen                    \* providers for which something special has happened

tables == <<profiles, logs, teams, vectors, results>>
vars == <<tables, agents, handlers, scenario, requests, troubles, seen>>

Idle == [pc |-> "idle"]
At(h, pc) == handlers[h].pc = pc
Busy(h) == ~At(h, "idle")
Rates(h, p) == Busy(h) /\ handlers[h].ask.kind # "recommend" /\ handlers[h].p = p

NoSkills == [form |-> "none", names |-> {}]
Joinable(skills) == skills.form # "objects"     \* ', '.join raises on a list of objects
NoFields == [parsed |-> Nil, skills |-> NoSkills, scored |-> Nil, power |-> 0, reported |-> Nil, report |-> 0]

Init ==
    \E s \in Scenarios :
        /\ scenario = s
        /\ profiles = [p \in Provider |-> Nil]
        /\ logs = [p \in Provider |-> <<>>]
        /\ teams = [p \in Provider |-> s.team]
        /\ vectors = {}
        /\ results = {}
        /\ agents = [w \in Worker |-> NoFields]
        /\ handlers = [h \in Slot |-> Idle]
        /\ requests = 0
        /\ troubles = 0
        /\ seen = [crowded |-> {}, mixed |-> {}, torn |-> {}, synced |-> {}]

Mark(what, ps) == seen' = [seen EXCEPT ![what] = @ \cup ps]
Goes(h, r) == handlers' = [handlers EXCEPT ![h] = r]
To(r, pc) == [r EXCEPT !.pc = pc]

\* A process that waits for Milvus between the two halves of an upsert runs nothing else.
Runs(h) == Busy(h) /\ \A g \in Slot \ {h} : At(g, "insert") => handlers[g].w # handlers[h].w

\* The steps of each request once it has what it stores or looks for, and what follows each.
do_evaluate == [save |-> "log", log |-> "team", team |-> "delete", delete |-> "insert", insert |-> "idle"]
adjust_points ==
    [get_profile |-> "read_power", read_power |-> "write_power", write_power |-> "log", log |-> "team", team |-> "idle"]
sync_provider_profile == [save |-> "delete", delete |-> "insert", insert |-> "idle"]
smart_match ==
    [demand |-> "search", search |-> "enrich", enrich |-> "llm", llm |-> "save_results", save_results |-> "idle"]

Steps(kind) ==
    CASE kind = "evaluate" -> do_evaluate [] kind = "adjust" -> adjust_points
      [] kind = "sync" -> sync_provider_profile [] kind = "recommend" -> smart_match
FirstStep(kind) ==
    CASE kind = "evaluate" -> "begin" [] kind = "adjust" -> "get_profile"
      [] kind = "sync" -> "save" [] kind = "recommend" -> "demand"

Following(r) == LET pc == Steps(r.ask.kind)[r.pc] IN IF pc = "idle" THEN Idle ELSE To(r, pc)

\* A request comes in.  What the server sends of a team is what it created it with.
SyncedProfile(skills) ==
    [power |-> scenario.team.power, level |-> scenario.team.level, skills |-> skills, by |-> {}]
Arrive(h) ==
    /\ ~Busy(h) /\ requests < Len(scenario.asked)
    /\ Cardinality({g \in Slot : Busy(g)}) < scenario.width
    /\ requests' = requests + 1
    /\ \E p \in Provider, w \in Worker, ask \in scenario.asked[requests + 1] :
          /\ \A g \in Slot : At(g, "insert") => handlers[g].w # w
          /\ ask.kind = "recommend" => p = CHOOSE q \in Provider : TRUE    \* it is about no provider
          /\ Goes(h, [pc |-> FirstStep(ask.kind), ask |-> ask, p |-> p, w |-> w, n |-> requests', iteration |-> 0,
                      tool |-> Nil, old |-> 0, read |-> Nil, found |-> <<>>,
                      profile |-> IF ask.kind = "sync" THEN SyncedProfile(ask.skills) ELSE Nil])
          /\ Mark("crowded", IF ask.kind # "recommend" /\ \E g \in Slot : Rates(g, p) THEN {p} ELSE {})
    /\ UNCHANGED <<tables, agents, scenario, troubles>>

-----------------------------------------------------------------------------
\* An evaluation: RatingAgent.evaluate and evaluate_stream.

\* Mutant: the fields keep what the evaluation before left in them.
Reset_not(fields) == fields
Reset(fields) == NoFields

Evaluating(h) == Busy(h) /\ handlers[h].pc \in {"answer", "tool", "collect"}

\* The fields are reset, then the resume is checked: an unsafe one ends the loop at once.
BeginEvaluation(h) ==
    LET r == handlers[h]
        others == {g \in Slot \ {h} : Evaluating(g) /\ handlers[g].w = r.w}
    IN  /\ At(h, "begin") /\ Runs(h)
        /\ agents' = [agents EXCEPT ![r.w] = Reset(@)]
        /\ \E safe \in BOOLEAN : Goes(h, To(r, IF safe THEN "answer" ELSE "collect"))
        /\ Mark("mixed", IF others = {} THEN {} ELSE {r.p} \cup {handlers[g].p : g \in others})
        /\ UNCHANGED <<tables, scenario, requests, troubles>>

\* _execute_tool writes to the fields of the agent the request runs on.
Executed(fields, p, answer) ==
    CASE answer.tool = "parse_resume"    -> [fields EXCEPT !.parsed = p, !.skills = answer.skills]
      [] answer.tool = "evaluate_skills" -> [fields EXCEPT !.scored = p, !.power = Settled(answer.scores, answer.power)]
      [] answer.tool = "generate_report" -> [fields EXCEPT !.reported = p, !.report = answer.power]

Continues(r) ==
    [r EXCEPT !.iteration = @ + 1, !.tool = Nil,
              !.pc = IF r.iteration + 1 = MaxIterations THEN "collect" ELSE "answer"]

\* The model ends the loop with a text ...
AnswerText(h) ==
    /\ At(h, "answer") /\ Runs(h)
    /\ Goes(h, To(handlers[h], "collect"))
    /\ UNCHANGED <<tables, agents, scenario, requests, troubles, seen>>

\* ... or asks for a tool, which a stream announces before it executes it.
AnswerTool(h) ==
    LET r == handlers[h] IN
    /\ At(h, "answer") /\ Runs(h)
    /\ \E answer \in scenario.answers :
          IF r.ask.stream
          THEN Goes(h, [To(r, "tool") EXCEPT !.tool = answer]) /\ UNCHANGED agents
          ELSE /\ agents' = [agents EXCEPT ![r.w] = Executed(@, r.p, answer)]
               /\ Goes(h, Continues(r))
    /\ UNCHANGED <<tables, scenario, requests, troubles, seen>>

ExecuteTool(h) ==
    LET r == handlers[h] IN
    /\ At(h, "tool") /\ Runs(h)
    /\ agents' = [agents EXCEPT ![r.w] = Executed(@, r.p, r.tool)]
    /\ Goes(h, Continues(r))
    /\ UNCHANGED <<tables, scenario, requests, troubles, seen>>

build_profile_data(fields) ==
    LET power == IF fields.reported # Nil THEN fields.report ELSE fields.power
    IN  [power |-> power, level |-> get_level_for_points(power, TRUE), skills |-> fields.skills,
         by |-> {fields.parsed, fields.scored, fields.reported} \ {Nil}]

\* The router reads the fields; a stream stores nothing unless there is a report.
Collected(r) == [To(r, "save") EXCEPT !.profile = build_profile_data(agents[r.w])]

Collect(h) ==
    /\ At(h, "collect") /\ Runs(h) /\ ~handlers[h].ask.stream
    /\ Goes(h, Collected(handlers[h]))
    /\ UNCHANGED <<tables, agents, scenario, requests, troubles, seen>>

EndStream(h) ==
    /\ At(h, "collect") /\ Runs(h) /\ handlers[h].ask.stream
    /\ Goes(h, IF agents[handlers[h].w].reported = Nil THEN Idle ELSE Collected(handlers[h]))
    /\ UNCHANGED <<tables, agents, scenario, requests, troubles, seen>>

-----------------------------------------------------------------------------
\* What is stored of a profile, transaction by transaction: RatingRepository.

Sync(r) == r.ask.kind = "sync"

\* Mutant: a new evaluation never takes points away.
SavedProfile_keeps_points(p, profile) ==
    IF profiles[p] # Nil /\ profiles[p].power > profile.power
    THEN [profile EXCEPT !.power = profiles[p].power] ELSE profile
SavedProfile(p, profile) == profile

save_provider_profile(h) ==
    LET r == handlers[h] IN
    /\ At(h, "save") /\ Runs(h)
    /\ profiles' = [profiles EXCEPT ![r.p] = SavedProfile(r.p, r.profile)]
    /\ Goes(h, Following(r))
    /\ seen' = [seen EXCEPT !.synced = IF Sync(r) THEN @ \cup {r.p} ELSE @ \ {r.p}]
    /\ UNCHANGED <<logs, teams, vectors, results, agents, scenario, requests, troubles>>

LogEntry(r) ==
    [initial |-> r.ask.kind = "evaluate",
     points |-> IF r.ask.kind = "evaluate" THEN r.profile.power ELSE r.ask.points]
add_power_log(h) ==
    LET r == handlers[h] IN
    /\ At(h, "log") /\ Runs(h)
    /\ logs' = [logs EXCEPT ![r.p] = Append(@, LogEntry(r))]
    /\ Goes(h, Following(r))
    /\ UNCHANGED <<profiles, teams, vectors, results, agents, scenario, requests, troubles, seen>>

\* adjust_points computes level and team row from the profile it read first.
NewPower(r) == AtLeast(r.old + r.ask.points, 0)

\* Mutant: the cap of an initial evaluation is kept for adjustments.
NewLevel_capped(r) == get_level_for_points(NewPower(r), TRUE)
NewLevel(r) == get_level_for_points(NewPower(r), FALSE)

\* Mutant: the team gets the points from before the adjustment.
TeamRow_old(r) ==
    IF r.ask.kind = "evaluate" THEN [power |-> r.profile.power, level |-> r.profile.level]
    ELSE [power |-> r.old, level |-> NewLevel(r)]
TeamRow(r) ==
    IF r.ask.kind = "evaluate" THEN [power |-> r.profile.power, level |-> r.profile.level]
    ELSE [power |-> NewPower(r), level |-> NewLevel(r)]

\* Only a team that exists is updated.
sync_profile_to_team(h) ==
    LET r == handlers[h] IN
    /\ At(h, "team") /\ Runs(h)
    /\ teams' = [teams EXCEPT ![r.p] = IF @ = Nil THEN Nil ELSE TeamRow(r)]
    /\ Goes(h, Following(r))
    /\ UNCHANGED <<profiles, logs, vectors, results, agents, scenario, requests, troubles, seen>>

\* Mutant: the old vectors stay.
Cleared_not(p) == vectors
Cleared(p) == {v \in vectors : v.p # p}

\* The text of the profile is put together first; the error it may raise is only logged.
DeleteVector(h) ==
    LET r == handlers[h] IN
    /\ At(h, "delete") /\ Runs(h)
    /\ IF Joinable(r.profile.skills)
       THEN vectors' = Cleared(r.p) /\ Goes(h, Following(r))
       ELSE UNCHANGED vectors /\ Goes(h, Idle)
    /\ UNCHANGED <<profiles, logs, teams, results, agents, scenario, requests, troubles, seen>>

InsertVector(h) ==
    LET r == handlers[h] IN
    /\ At(h, "insert")
    /\ vectors' = vectors \cup {[p |-> r.p, n |-> r.n, skills |-> r.profile.skills.names, credit |-> r.profile.power]}
    /\ Goes(h, Following(r))
    /\ UNCHANGED <<profiles, logs, teams, results, agents, scenario, requests, troubles, seen>>

-----------------------------------------------------------------------------
\* An adjustment: adjust_points and update_vibe_power, which reads the row without a lock.

GetProfile(h) ==
    LET r == handlers[h] IN
    /\ At(h, "get_profile") /\ Runs(h)
    /\ Goes(h, IF profiles[r.p] = Nil THEN Idle ELSE [Following(r) EXCEPT !.old = profiles[r.p].power])
    /\ UNCHANGED <<tables, agents, scenario, requests, troubles, seen>>

ReadPower(h) ==
    LET r == handlers[h] IN
    /\ At(h, "read_power") /\ Runs(h)
    /\ Goes(h, [Following(r) EXCEPT !.read = profiles[r.p]])
    /\ UNCHANGED <<tables, agents, scenario, requests, troubles, seen>>

Adjusted(r) == AtLeast(r.read.power + r.ask.points, 0)

\* A column whose value is the one that was read is not written.
Written(current, read, new) == IF new = read THEN current ELSE new

WritePower(h) ==
    LET r == handlers[h] IN
    /\ At(h, "write_power") /\ Runs(h)
    /\ profiles' = [profiles EXCEPT ![r.p].power = Written(@, r.read.power, Adjusted(r)),
                                   ![r.p].level = Written(@, r.read.level, NewLevel(r))]
    /\ Goes(h, Following(r))
    /\ UNCHANGED <<logs, teams, vectors, results, agents, scenario, requests, troubles, seen>>

-----------------------------------------------------------------------------
\* The search for providers: SmartMatcherAgent._execute.

GetDemand(h) ==
    /\ At(h, "demand") /\ Runs(h)
    /\ Goes(h, Following(handlers[h]))
    /\ UNCHANGED <<tables, agents, scenario, requests, troubles, seen>>

Similarity(v) == IF v.skills \cap Demand.skills = {} THEN 200 ELSE 900
\* Milvus gives the nearest first, at most TopK, only the verified ones if asked to.
Hits(ask) ==
    LET fit == {v \in vectors : ask.verified => v.credit >= 600}
    IN  {SubSeq(order, 1, AtMost(TopK, Len(order))) :
            order \in {o \in SetToSeqs(fit) : \A i, j \in DOMAIN o : i < j => Similarity(o[i]) >= Similarity(o[j])}}

SearchVectors(h) ==
    LET r == handlers[h] IN
    /\ At(h, "search") /\ Runs(h)
    /\ \E hits \in Hits(r.ask) : Goes(h, [Following(r) EXCEPT !.found = hits])
    /\ UNCHANGED <<tables, agents, scenario, requests, troubles, seen>>

\* Scored, sorted and cut to the page; without candidates the model is not asked.
Scored(found, users) ==
    [i \in DOMAIN found |->
        [provider |-> found[i].p,
         score |-> calculate_match_score(Demand, parse_provider(found[i], users[found[i].p]), Similarity(found[i]))]]
PageOf(r, users) == page_of(sort_candidates(Scored(r.found, users)), r.ask.page, r.ask.page_size)
KnownUsers == [p \in Provider |-> IF Users[p] = Nil THEN UnknownUser ELSE Users[p]]
Enriched(r, users) ==
    IF PageOf(r, users) = <<>> THEN Idle ELSE [Following(r) EXCEPT !.found = PageOf(r, users)]

EnrichProviders(h) ==
    /\ At(h, "enrich") /\ Runs(h)
    /\ Goes(h, Enriched(handlers[h], KnownUsers))
    /\ UNCHANGED <<tables, agents, scenario, requests, troubles, seen>>

\* Without the model, or with an answer that is not JSON, the scores speak for themselves.
fallback_recommendations(page) ==
    [i \in DOMAIN page |-> [provider |-> page[i].provider, rank |-> i, score |-> page[i].score, by |-> "score"]]

\* The model recommends whom it likes; without recommendations nothing is stored.
ModelRecommends(page) ==
    {<<>>} \cup {<<[provider |-> page[i].provider, rank |-> 1, score |-> 90000, by |-> "model"]>> : i \in DOMAIN page}

GenerateRecommendations(h) ==
    LET r == handlers[h] IN
    /\ At(h, "llm") /\ Runs(h)
    /\ \E rows \in {fallback_recommendations(r.found)} \cup ModelRecommends(r.found) :
          Goes(h, IF rows = <<>> THEN Idle ELSE [Following(r) EXCEPT !.found = rows])
    /\ UNCHANGED <<tables, agents, scenario, requests, troubles, seen>>

\* The rows are added to those of earlier searches.
save_match_results(h) ==
    LET r == handlers[h] IN
    /\ At(h, "save_results") /\ Runs(h)
    /\ results' = results \cup {[n |-> r.n, page |-> r.ask.page, row |-> row] : row \in ToSet(r.found)}
    /\ Goes(h, Following(r))
    /\ UNCHANGED <<profiles, logs, teams, vectors, agents, scenario, requests, troubles, seen>>

-----------------------------------------------------------------------------
\* Troubles.

Trouble == troubles < scenario.troubles /\ troubles' = troubles + 1
Broken(r) == IF r.ask.kind = "recommend" THEN {} ELSE {r.p}

\* Mutant: each write has a try of its own, and the others follow.
OnError_goes_on(r) == IF r.pc = "save" THEN To(r, "delete") ELSE Idle
\* An error ends the writes of a request; a search without MySQL knows no user.
OnError(r) == Idle

MySQLFails(h) ==
    LET r == handlers[h] IN
    /\ Trouble /\ Runs(h)
    /\ r.pc \in {"save", "log", "team", "get_profile", "read_power", "write_power", "demand", "enrich", "save_results"}
    /\ Goes(h, IF At(h, "enrich") THEN Enriched(r, [p \in Provider |-> UnknownUser]) ELSE OnError(r))
    /\ Mark("torn", Broken(r))
    /\ UNCHANGED <<tables, agents, scenario, requests>>

MilvusFails(h) ==
    /\ Trouble
    /\ handlers[h].pc \in {"delete", "insert", "search"} /\ Runs(h)
    /\ Goes(h, Idle)
    /\ Mark("torn", Broken(handlers[h]))
    /\ UNCHANGED <<tables, agents, scenario, requests>>

\* Every model fails, or the reader of a stream goes away.
EvaluationFails(h) ==
    /\ Trouble /\ Runs(h)
    /\ At(h, "answer") \/ (Evaluating(h) /\ handlers[h].ask.stream)
    /\ Goes(h, Idle)
    /\ UNCHANGED <<tables, agents, scenario, requests, seen>>

\* A process dies and is started again.
Restart(w) ==
    LET lost == {h \in Slot : Busy(h) /\ handlers[h].w = w} IN
    /\ Trouble
    /\ lost # {}
    /\ handlers' = [h \in Slot |-> IF h \in lost THEN Idle ELSE handlers[h]]
    /\ agents' = [agents EXCEPT ![w] = NoFields]
    /\ Mark("torn", UNION {Broken(handlers[h]) : h \in lost})
    /\ UNCHANGED <<tables, scenario, requests>>

-----------------------------------------------------------------------------
Next ==
    \/ \E h \in Slot :
          \/ Arrive(h) \/ BeginEvaluation(h) \/ AnswerText(h) \/ AnswerTool(h) \/ ExecuteTool(h)
          \/ Collect(h) \/ EndStream(h)
          \/ save_provider_profile(h) \/ add_power_log(h) \/ sync_profile_to_team(h)
          \/ DeleteVector(h) \/ InsertVector(h) \/ GetProfile(h) \/ ReadPower(h) \/ WritePower(h)
          \/ GetDemand(h) \/ SearchVectors(h) \/ EnrichProviders(h) \/ GenerateRecommendations(h)
          \/ save_match_results(h)
          \/ MySQLFails(h) \/ MilvusFails(h) \/ EvaluationFails(h)
    \/ \E w \in Worker : Restart(w)

Spec == Init /\ [][Next]_vars

-----------------------------------------------------------------------------
\* Everything stored is about known providers, and every level is one of the ten
\* (repository.py 676-814, rating_agent.py 58-66).
Fields ==
    [parsed : Provider \cup {Nil}, scored : Provider \cup {Nil}, reported : Provider \cup {Nil},
     skills : Skills, power : Int, report : Int]
TypeOK ==
    /\ profiles \in [Provider -> Profile \cup {Nil}]
    /\ logs \in [Provider -> Seq([initial : BOOLEAN, points : Int])]
    /\ teams \in [Provider -> Team \cup {Nil}]
    /\ vectors \subseteq [p : Provider, n : Nat, skills : SUBSET Skill, credit : Int]
    /\ agents \in [Worker -> Fields]
    /\ scenario \in Scenarios
    /\ requests \in Nat
    /\ seen \in [crowded : SUBSET Provider, mixed : SUBSET Provider, torn : SUBSET Provider, synced : SUBSET Provider]

\* What a request under way carries.
StepsOf(kind) ==
    CASE kind = "evaluate" -> {"begin", "answer", "tool", "collect", "save", "log", "team", "delete", "insert"}
      [] kind = "adjust" -> {"get_profile", "read_power", "write_power", "log", "team"}
      [] kind = "sync" -> {"save", "delete", "insert"}
      [] kind = "recommend" -> {"demand", "search", "enrich", "llm", "save_results"}
Stores(r) == r.ask.kind # "adjust" /\ r.pc \in {"save", "log", "team", "delete", "insert"}
RequestOK(r) ==
    /\ DOMAIN r = {"pc", "ask", "p", "w", "n", "iteration", "tool", "old", "read", "found", "profile"}
    /\ r.ask \in Ask /\ r.pc \in StepsOf(r.ask.kind)
    /\ r.p \in Provider /\ r.w \in Worker /\ r.n \in Nat /\ r.old \in Int
    /\ r.pc = "tool" => r.tool \in Answer
    /\ r.pc = "write_power" => r.read \in Profile
    /\ Stores(r) => r.profile \in Profile

InFlight ==
    /\ handlers = [h \in Slot |-> handlers[h]]
    /\ \A h \in Slot : Busy(h) => RequestOK(handlers[h])

\* From the first row on there is a profile, and it stays.
ProfileKept ==
    \A h \in Slot : LET r == handlers[h] IN
        At(h, "read_power") \/ At(h, "write_power") \/ At(h, "log") \/ At(h, "team")
            \/ At(h, "delete") \/ At(h, "insert") => profiles[r.p] # Nil

\* What was found about a provider may stand with another only if both were marked.
Together(p, found) == \A q \in found \ {p, Nil} : {p, q} \subseteq seen.mixed

\* Two evaluations in one process at once are both marked; the fields of the agent and what
\* is made of them are of the evaluation's own provider and of others marked with it.
MixedMarked ==
    \A g, h \in Slot : g # h /\ Evaluating(g) /\ Evaluating(h) /\ handlers[g].w = handlers[h].w =>
        handlers[h].p \in seen.mixed
FieldsOwn ==
    \A h \in Slot : LET r == handlers[h] IN
        Evaluating(h) => Together(r.p, {agents[r.w].parsed, agents[r.w].scored, agents[r.w].reported})
StoredOwn ==
    \A h \in Slot : LET r == handlers[h] IN
        Busy(h) /\ Stores(r) => Together(r.p, r.profile.by)

Quiet(p) == \A h \in Slot : ~Rates(h, p)
\* A rated provider nobody works on, whose requests neither overlapped nor failed halfway.
Undisturbed(p) == p \notin seen.crowded \cup seen.torn /\ Quiet(p) /\ profiles[p] # Nil

Replayed(log) ==
    FoldLeft(LAMBDA power, e : IF e.initial THEN e.points ELSE AtLeast(power + e.points, 0), 0, log)

\* The points of a provider are what its history of points adds up to, unless the server
\* sent them: rating_router.py 161-167, 546-559 write the two in different transactions.
LedgerReplays ==
    \A p \in Provider : Undisturbed(p) /\ p \notin seen.synced => profiles[p].power = Replayed(logs[p])

\* The level is the one of the points, capped only while an evaluation was the last to
\* set it: rating_router.py 101 and 544 compute it apart from the points.
LevelEarned ==
    \A p \in Provider : Undisturbed(p) /\ p \notin seen.synced =>
        profiles[p].level = get_level_for_points(profiles[p].power, Last(logs[p]).initial)

\* The server's team row says the same as the profile: rating_router.py 168-169, 561-566.
TeamFollows ==
    \A p \in Provider : Undisturbed(p) /\ p \notin seen.synced /\ teams[p] # Nil =>
        teams[p] = [power |-> profiles[p].power, level |-> profiles[p].level]

\* The fields of the agent outlive an evaluation, and two evaluations in one process write to
\* the same ones: what was found about a provider enters another's profile only if each of
\* the two was evaluated in a process that was evaluating another: rating_agent.py 202-207.
FoundTogether == \A p \in Provider : profiles[p] # Nil => Together(p, profiles[p].by)

VectorsOf(p) == {v \in vectors : v.p = p}
\* The search finds a provider once, with the skills of its profile, when these can be
\* joined to a text: milvus_store.py 293-310 deletes and inserts in two calls.
VectorCurrent ==
    \A p \in Provider : Undisturbed(p) =>
        /\ Cardinality(VectorsOf(p)) <= 1
        /\ Joinable(profiles[p].skills) => \E v \in VectorsOf(p) : v.skills = profiles[p].skills.names

\* Whatever overlaps or fails, the search finds nobody who has no profile:
\* rating_router.py 161-171 writes the vector last.
VectorBacked == \A v \in vectors : profiles[v.p] # Nil

\* The inductive invariant of Spec.
ProvidersInv ==
    TypeOK /\ InFlight /\ ProfileKept /\ MixedMarked /\ FieldsOwn /\ StoredOwn /\ VectorBacked

\* Recommendations that come from the scores of one search name the best first, and no
\* provider twice whose requests did not overlap: smart_matcher.py 141-146, 494-509.
RankingSound ==
    \A x, y \in {z \in results : z.row.by = "score"} :
        x.n = y.n /\ x.row.rank < y.row.rank =>
            /\ x.row.score >= y.row.score
            /\ x.row.provider = y.row.provider => x.row.provider \in seen.crowded

\* What rating_router.py:31 says of _sync_provider_to_milvus: a rated provider can be
\* found by the search.
RatedIsSearchable == \A p \in Provider : Undisturbed(p) => VectorsOf(p) # {}
===========================================================================
