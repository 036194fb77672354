--------------------------- MODULE DocumentsProofs ---------------------------
(***************************************************************************)
(* Theorems about Documents for every value of its constants.              *)
(*                                                                         *)
(* ReanalysisExact rests on PlanInv: while no two plans overlapped and no  *)
(* step was lost, at most one request plans, and none does while a task    *)
(* still writes what an earlier plan found.  So a reanalysis that has      *)
(* cleared the items is alone until it has written them and the overview.  *)
(*                                                                         *)
(* The four properties of the stores rest on Inv, the invariant of         *)
(* StoresKeepOrder.  Its first part needs no condition: no file, row or    *)
(* task has a version above Top, the newest an earlier release left, and   *)
(* an upload always writes that one, at PrdKey; of the names an earlier    *)
(* release had for the PRD only its own rows are left; and the number of a *)
(* row stands for one key, so a cleanup that goes by numbers removes what  *)
(* it means to.  The other parts hold while the history they name is       *)
(* clean: OrderInv, saves of a document are one after the other while none *)
(* was begun beside another; LowInv, a PRD below the newest is not saved   *)
(* beside an upload; CoverInv, an upload has seen every row it has to      *)
(* remove.  From these, FileInv leads every row to its file, UploadedInv   *)
(* leaves one PRD after an upload, and PrdInv follows the latest PRD from  *)
(* the disk to MinIO, to the task and to the row that readers go by.       *)
(***************************************************************************)
EXTENDS Documents, FoldFacts, FiniteSetTheorems, TLAPS

\* The steps of a request, by its kind.
StepsOf(kind) ==
    IF kind = "upload" THEN {"docs", "local", "put", "clean", "delete"}
    ELSE IF kind = "agent" THEN {"local", "put"}
    ELSE IF kind = "reanalyze" THEN {"docs", "read", "llm", "clear", "items", "overview"}
    ELSE {"docs", "read"}

Shape(r) ==
    r = [pc |-> r.pc, ask |-> r.ask, w |-> r.w, docs |-> r.docs, target |-> r.target,
         content |-> r.content, floor |-> r.floor]
Request(r) == Shape(r) /\ r.ask \in Ask /\ r.pc \in StepsOf(r.ask.kind)

ControlInv ==
    /\ scenario \in Scenarios /\ requests \in Nat
    /\ handlers = [h \in Slot |-> handlers[h]]
    /\ \A h \in Slot : handlers[h] = Idle \/ Request(handlers[h])

\* No two plans overlapped, and no step of a request was lost.
Clean == seen \cap {"mixed", "torn"} = {}
Planner(r) == r # Idle /\ Plans(r)
PlanTasks == {t \in tasks : t.kind # "record"}
\* The items are those of one content.
ItemsAre(c) == \A i \in Item : items[i] = IF i \in Extracted[c] THEN c ELSE 0

PlanInv ==
    Clean =>
        /\ \A g, h \in Slot : Planner(handlers[g]) /\ Planner(handlers[h]) => g = h
        /\ (\E h \in Slot : Planner(handlers[h])) => PlanTasks = {}
        /\ PlanTasks # {} => plan = 0
        /\ \A h \in Slot : At(h, "items") => \A i \in Item : items[i] = 0
        /\ \A h \in Slot : At(h, "overview") => ItemsAre(handlers[h].content)
        /\ (/\ plan # 0 /\ PlanTasks = {}
            /\ \A h \in Slot : handlers[h].pc \notin {"items", "overview"})
              => overview = plan /\ ItemsAre(plan)

-----------------------------------------------------------------------------
\* Requests go the way their kind says.

LEMMA IdleIs == Idle.pc = "idle" /\ \A r : Request(r) => r.pc # "idle" /\ r # Idle
  BY DEF Idle, Request, StepsOf

LEMMA Moves ==
    ASSUME NEW r, Request(r), NEW pc
    PROVE  To(r, pc) = [pc |-> pc, ask |-> r.ask, w |-> r.w, docs |-> r.docs, target |-> r.target,
                        content |-> r.content, floor |-> r.floor]
  BY DEF Request, Shape, To

\* What a step of handler h leaves of the others.
LEMMA ControlStep ==
    ASSUME ControlInv, NEW h \in Slot, NEW r, Goes(h, r), r = Idle \/ Request(r),
           scenario' = scenario, requests' \in Nat
    PROVE  ControlInv'
  BY DEF ControlInv, Goes

LEMMA ControlTo ==
    ASSUME ControlInv, NEW h \in Slot, Request(handlers[h]), NEW pc \in StepsOf(handlers[h].ask.kind),
           Goes(h, To(handlers[h], pc)), scenario' = scenario, requests' = requests
    PROVE  ControlInv'
  <1>1. Request(To(handlers[h], pc))
    BY Moves DEF Request, Shape
  <1> QED BY <1>1, ControlStep DEF ControlInv

LEMMA ControlEnd ==
    ASSUME ControlInv, NEW h \in Slot, Goes(h, Idle), scenario' = scenario, requests' = requests
    PROVE  ControlInv'
  BY ControlStep DEF ControlInv

\* The steps at which each kind may be.
LEMMA KindAt ==
    ASSUME NEW r, Request(r)
    PROVE  /\ r.ask.kind \in {"upload", "agent", "reanalyze", "download"}
           /\ r.pc \in {"local", "put"} => r.ask.kind \in {"upload", "agent"}
           /\ r.pc \in {"clean", "delete"} => r.ask.kind = "upload"
           /\ r.pc = "read" => r.ask.kind \in {"reanalyze", "download"}
           /\ r.pc = "docs" => r.ask.kind \in {"upload", "reanalyze", "download"}
           /\ r.pc \in {"llm", "clear", "items", "overview"} => r.ask.kind = "reanalyze"
           /\ r.pc \in {"docs", "local", "put", "clean", "delete", "read", "llm", "clear", "items", "overview"}
  BY DEF Request, StepsOf, Ask

LEMMA BusyIs ==
    ASSUME ControlInv, NEW h \in Slot
    PROVE  Busy(h) <=> Request(handlers[h])
  BY IdleIs DEF ControlInv, Busy, At

LEMMA ControlArrive ==
    ASSUME ControlInv, NEW h \in Slot, Arrive(h)
    PROVE  ControlInv'
  <1>1. PICK w \in Worker, ask \in scenario.asked[requests + 1] :
           Goes(h, [pc |-> FirstStep(ask), ask |-> ask, w |-> w, docs |-> Nil, target |-> 0, content |-> 0,
                    floor |-> IF Settled(PRD_FILENAME) THEN last[PRD_FILENAME] ELSE 0])
    BY DEF Arrive
  <1>2. PICK r : r = [pc |-> FirstStep(ask), ask |-> ask, w |-> w, docs |-> Nil, target |-> 0, content |-> 0,
                      floor |-> IF Settled(PRD_FILENAME) THEN last[PRD_FILENAME] ELSE 0]
    OBVIOUS
  <1>3. ask \in Ask
    <2>1. scenario.asked \in Seq(SUBSET Ask) /\ requests < Len(scenario.asked) /\ requests \in Nat
      BY Asking DEF ControlInv, Arrive
    <2>2. scenario.asked[requests + 1] \in SUBSET Ask
      BY <2>1
    <2> QED BY <2>2
  <1>4. FirstStep(ask) \in StepsOf(ask.kind)
    BY <1>3 DEF FirstStep, NeedsRows, StepsOf, Ask
  <1>5. Request(r)
    BY <1>2, <1>3, <1>4 DEF Request, Shape
  <1>6. requests' \in Nat /\ scenario' = scenario
    BY DEF ControlInv, Arrive
  <1> QED BY <1>1, <1>2, <1>5, <1>6, ControlStep

\* A request that knows where it writes.
LEMMA Filled ==
    ASSUME NEW p, NEW v, NEW s, NEW q, NEW a, NEW w, NEW d, NEW t, NEW c, NEW f,
           p = [pc |-> "put", ask |-> a, w |-> w, docs |-> d, target |-> t, content |-> c, floor |-> f],
           q = [p EXCEPT !.target = v, !.content = s]
    PROVE  q = [pc |-> "put", ask |-> a, w |-> w, docs |-> d, target |-> v, content |-> s, floor |-> f]
  OBVIOUS

LEMMA ControlServe ==
    ASSUME ControlInv, NEW h \in Slot,
           \/ get_documents(h) \/ WriteLocal(h) \/ PutObject(h) \/ PutFails(h)
           \/ CleanStale(h) \/ RemoveFails(h) \/ delete_documents_by_ids(h)
    PROVE  ControlInv'
  <1>0. /\ Busy(h) /\ scenario' = scenario /\ requests' = requests
    BY DEF get_documents, WriteLocal, PutObject, PutFails, CleanStale, RemoveFails, delete_documents_by_ids,
           Uploads, Cleans, Busy, At
  <1>1. Request(handlers[h])
    BY <1>0, BusyIs
  <1>2. PICK r : r = handlers[h] /\ Request(r)
    BY <1>1
  <1>3. CASE get_documents(h)
    <2>1. PICK q : q = [To(r, IF r.ask.kind = "upload" THEN "local" ELSE "read") EXCEPT !.docs = rows]
      OBVIOUS
    <2>2. Request(q)
      <3>1. r.ask \in Ask /\ r.ask.kind \in {"upload", "reanalyze", "download"}
        BY <1>2, <1>3, KindAt DEF get_documents, At, Request
      <3>2. (IF r.ask.kind = "upload" THEN "local" ELSE "read") \in StepsOf(r.ask.kind)
        BY <3>1 DEF StepsOf
      <3> QED BY <1>2, <2>1, <3>1, <3>2, Moves DEF Request, Shape
    <2>3. Goes(h, q) \/ Goes(h, Idle)
      BY <1>2, <1>3, <2>1 DEF get_documents
    <2> QED BY <1>0, <2>2, <2>3, ControlStep DEF ControlInv
  <1>4. CASE WriteLocal(h)
    <2>0. PICK v, s : v = SaveVersion(r) /\ s = saves + 1
      OBVIOUS
    <2>1. PICK q : q = [To(r, "put") EXCEPT !.target = v, !.content = s]
      OBVIOUS
    <2>2. Request(q)
      <3>1. r.ask \in Ask /\ r.ask.kind \in {"upload", "agent"}
        BY <1>2, <1>4, KindAt DEF WriteLocal, At, Request
      <3>2. "put" \in StepsOf(r.ask.kind)
        BY <3>1 DEF StepsOf
      <3>3. q = [pc |-> "put", ask |-> r.ask, w |-> r.w, docs |-> r.docs, target |-> v,
                 content |-> s, floor |-> r.floor]
        <4>1. PICK p : p = To(r, "put")
          OBVIOUS
        <4>2. p = [pc |-> "put", ask |-> r.ask, w |-> r.w, docs |-> r.docs, target |-> r.target,
                   content |-> r.content, floor |-> r.floor]
          BY <1>2, <4>1, Moves
        <4>3. q = [p EXCEPT !.target = v, !.content = s]
          BY <2>1, <4>1
        <4> QED BY <4>2, <4>3, Filled
      <3> QED BY <3>1, <3>2, <3>3 DEF Request, Shape
    <2>3. Goes(h, q)
      BY <1>2, <1>4, <2>0, <2>1 DEF WriteLocal
    <2> QED BY <1>0, <2>2, <2>3, ControlStep DEF ControlInv
  <1>5. CASE PutObject(h) \/ PutFails(h)
    <2>1. Goes(h, IF r.ask.kind = "upload" THEN To(r, "clean") ELSE Idle)
      BY <1>2, <1>5 DEF PutObject, PutFails, Uploads
    <2>2. r.ask.kind = "upload" => "clean" \in StepsOf(r.ask.kind)
      BY DEF StepsOf
    <2> QED BY <1>0, <1>2, <2>1, <2>2, ControlTo, ControlEnd
  <1>6. CASE CleanStale(h) \/ RemoveFails(h)
    <2>1. Goes(h, IF Stale(r) = {} THEN Idle ELSE To(r, "delete"))
      BY <1>2, <1>6 DEF CleanStale, RemoveFails, Cleans
    <2>2. "delete" \in StepsOf(r.ask.kind)
      BY <1>2, <1>6, KindAt DEF CleanStale, RemoveFails, At, StepsOf
    <2> QED BY <1>0, <1>2, <2>1, <2>2, ControlTo, ControlEnd
  <1>7. CASE delete_documents_by_ids(h)
    BY <1>0, <1>7, ControlEnd DEF delete_documents_by_ids
  <1> QED BY <1>3, <1>4, <1>5, <1>6, <1>7

LEMMA ControlReanalyze ==
    ASSUME ControlInv, NEW h \in Slot,
           \/ ReadContent(h) \/ GetFails(h) \/ Extract(h) \/ delete_prd_items(h) \/ save_prd_items(h)
           \/ save_project_overview(h) \/ MySQLFails(h)
    PROVE  ControlInv'
  <1>0. /\ Busy(h) /\ scenario' = scenario /\ requests' = requests
    BY DEF ReadContent, GetFails, Extract, delete_prd_items, save_prd_items, save_project_overview, MySQLFails,
           Reads, Busy, At
  <1>1. Request(handlers[h])
    BY <1>0, BusyIs
  <1>2. PICK r : r = handlers[h] /\ Request(r)
    BY <1>1
  <1>3. ASSUME NEW works, Reads(h, works)
        PROVE  ControlInv'
    <2>1. PICK c : c = Content(r, works)
      OBVIOUS
    <2>2. PICK q : q = [To(r, "llm") EXCEPT !.content = c]
      OBVIOUS
    <2>3. Goes(h, Idle) \/ (Goes(h, q) /\ r.ask.kind # "download")
      BY <1>2, <1>3, <2>1, <2>2 DEF Reads
    <2>4. r.ask.kind # "download" => Request(q)
      <3>1. r.ask \in Ask /\ r.ask.kind \in {"reanalyze", "download"}
        BY <1>2, <1>3, KindAt DEF Reads, At, Request
      <3>2. r.ask.kind = "reanalyze" => "llm" \in StepsOf(r.ask.kind)
        BY DEF StepsOf
      <3> QED BY <1>2, <2>2, <3>1, <3>2, Moves DEF Request, Shape
    <2> QED BY <1>0, <2>3, <2>4, ControlStep, ControlEnd DEF ControlInv
  <1>4. ASSUME NEW pc, Goes(h, To(r, pc)), pc \in {"clear", "items", "overview"}, r.ask.kind = "reanalyze"
        PROVE  ControlInv'
    <2>1. pc \in StepsOf(r.ask.kind)
      BY <1>4 DEF StepsOf
    <2> QED BY <1>0, <1>2, <1>4, <2>1, ControlTo
  <1>5. CASE Extract(h)
    BY <1>0, <1>2, <1>4, <1>5, ControlEnd, KindAt DEF Extract, At
  <1>6. CASE delete_prd_items(h)
    <2>1. PICK pc : pc = IF Extracted[r.content] = {} THEN "overview" ELSE "items"
      OBVIOUS
    <2>2. Goes(h, To(r, pc)) /\ pc \in {"clear", "items", "overview"}
      BY <1>2, <1>6, <2>1 DEF delete_prd_items
    <2>3. r.ask.kind = "reanalyze"
      BY <1>2, <1>6, KindAt DEF delete_prd_items, At
    <2> QED BY <1>4, <2>2, <2>3
  <1>7. CASE save_prd_items(h)
    BY <1>2, <1>4, <1>7, KindAt DEF save_prd_items, At
  <1>8. CASE save_project_overview(h)
    BY <1>0, <1>8, ControlEnd DEF save_project_overview
  <1>9. CASE MySQLFails(h)
    <2>1. Goes(h, IF r.pc = "docs" /\ ~NeedsRows(r.ask) THEN To(r, "read") ELSE Idle)
      BY <1>2, <1>9 DEF MySQLFails
    <2>2. r.pc = "docs" /\ ~NeedsRows(r.ask) => "read" \in StepsOf(r.ask.kind)
      BY <1>2, KindAt DEF NeedsRows, StepsOf
    <2> QED BY <1>0, <1>2, <2>1, <2>2, ControlTo, ControlEnd
  <1> QED BY <1>3, <1>5, <1>6, <1>7, <1>8, <1>9 DEF ReadContent, GetFails

LEMMA ControlStays ==
    ASSUME ControlInv, [Next]_vars
    PROVE  ControlInv'
  <1>1. ASSUME NEW ws, handlers' = Ended(ws), scenario' = scenario, requests' = requests
        PROVE  ControlInv'
    BY <1>1 DEF ControlInv, Ended
  <1>2. CASE \E w \in Worker : Restart(w)
    BY <1>1, <1>2 DEF Restart
  <1>3. CASE Redeploy
    BY <1>1, <1>3 DEF Redeploy
  <1>4. CASE RunTask \/ TaskFails \/ UNCHANGED vars
    <2>1. handlers' = handlers /\ scenario' = scenario /\ requests' = requests
      BY <1>4 DEF RunTask, TaskFails, vars
    <2> QED BY <2>1 DEF ControlInv
  <1> QED BY <1>2, <1>3, <1>4, ControlArrive, ControlServe, ControlReanalyze DEF Next

LEMMA ControlStarts == Init => ControlInv
  BY DEF Init, ControlInv


-----------------------------------------------------------------------------
\* What plans, and what was planned.

LEMMA PlannerIs ==
    ASSUME ControlInv
    PROVE  /\ ~Planner(Idle)
           /\ \A h \in Slot : /\ Busy(h) <=> handlers[h] # Idle
                              /\ Planner(handlers[h]) => Busy(h) /\ Plans(handlers[h])
                              /\ handlers[h].pc \in {"llm", "clear", "items", "overview"}
                                    => Planner(handlers[h]) /\ handlers[h].ask.kind = "reanalyze"
           /\ Planning <=> (\E h \in Slot : Planner(handlers[h])) \/ PlanTasks # {}
  <1>1. \A h \in Slot : Busy(h) <=> handlers[h] # Idle
    BY BusyIs, IdleIs DEF ControlInv
  <1>2. ASSUME NEW h \in Slot, handlers[h].pc \in {"llm", "clear", "items", "overview"}
        PROVE  Planner(handlers[h]) /\ handlers[h].ask.kind = "reanalyze"
    <2>1. Request(handlers[h])
      BY <1>2, IdleIs DEF ControlInv
    <2> QED BY <1>2, <2>1, IdleIs, KindAt DEF Planner, Plans
  <1> QED BY <1>1, <1>2 DEF Planner, Planning, PlanTasks

\* A step of handler h that has no part in what is planned.
LEMMA PlanQuiet ==
    ASSUME ControlInv, PlanInv, Clean' => Clean, NEW h \in Slot, NEW r, Goes(h, r),
           PlanTasks' = PlanTasks, UNCHANGED <<items, overview, plan>>,
           Clean' => {handlers[h].pc, r.pc} \cap {"items", "overview"} = {},
           Clean' /\ Planner(r) => Planner(handlers[h]) \/ ~Planning
    PROVE  PlanInv'
  <1> SUFFICES ASSUME Clean' PROVE PlanInv'
    BY DEF PlanInv
  <1>1. handlers'[h] = r /\ \A g \in Slot \ {h} : handlers'[g] = handlers[g]
    BY DEF Goes, ControlInv
  <1>2. \A g \in Slot : Planner(handlers'[g]) => Planner(handlers[g]) \/ (g = h /\ ~Planning)
    BY <1>1
  <1>3. \A f, g \in Slot : Planner(handlers'[f]) /\ Planner(handlers'[g]) => f = g
    BY <1>1, <1>2, PlannerIs DEF PlanInv
  <1>4. (\E g \in Slot : Planner(handlers'[g])) => PlanTasks' = {}
    BY <1>2, PlannerIs DEF PlanInv
  <1>5. \A g \in Slot : handlers'[g].pc \in {"items", "overview"}
                          => g # h /\ handlers'[g] = handlers[g]
    BY <1>1
  <1>6. \A g \in Slot : handlers[g].pc \in {"items", "overview"} => handlers'[g] = handlers[g]
    BY <1>1
  <1>7. PlanTasks # {} => plan = 0
    BY DEF PlanInv
  <1>8. \A g \in Slot : handlers'[g].pc = "items" => \A i \in Item : items'[i] = 0
    BY <1>5 DEF PlanInv, At
  <1>9. \A g \in Slot : handlers'[g].pc = "overview" => ItemsAre(handlers[g].content)'
    BY <1>5 DEF PlanInv, At, ItemsAre
  <1>10. (\A g \in Slot : handlers'[g].pc \notin {"items", "overview"})
            => \A g \in Slot : handlers[g].pc \notin {"items", "overview"}
    BY <1>6
  <1>11. /\ plan' # 0 /\ PlanTasks' = {}
         /\ \A g \in Slot : handlers'[g].pc \notin {"items", "overview"}
         => overview' = plan' /\ ItemsAre(plan)'
    BY <1>10 DEF PlanInv, ItemsAre
  <1> QED BY <1>3, <1>4, <1>7, <1>8, <1>9, <1>11 DEF PlanInv, At, Planner, ItemsAre

\* A step that takes a plan on: the one request that plans, while no task writes.
LEMMA PlanAlone ==
    ASSUME ControlInv, PlanInv, Clean, NEW h \in Slot, Planner(handlers[h]), NEW r, Goes(h, r)
    PROVE  /\ PlanTasks = {}
           /\ handlers'[h] = r
           /\ \A g \in Slot \ {h} : /\ handlers'[g] = handlers[g] /\ ~Planner(handlers[g])
                                    /\ handlers[g].pc \notin {"items", "overview"}
  <1>1. handlers'[h] = r /\ \A g \in Slot \ {h} : handlers'[g] = handlers[g]
    BY DEF Goes, ControlInv
  <1>2. \A g \in Slot \ {h} : ~Planner(handlers[g])
    BY DEF PlanInv
  <1> QED BY <1>1, <1>2, PlannerIs DEF PlanInv

\* The agent's plan is left to tasks.
LEMMA PlanUploads ==
    ASSUME ControlInv, PlanInv, NEW h \in Slot, NEW uploaded, At(h, "put"), Uploads(h, uploaded)
    PROVE  PlanInv'
  <1>1. PICK r : r = handlers[h]
    OBVIOUS
  <1>2. Request(r) /\ r.ask.kind \in {"upload", "agent"} /\ r.pc = "put"
    <2>1. r.pc = "put"
      BY <1>1 DEF At
    <2>2. Request(r)
      BY <1>1, <2>1, IdleIs DEF ControlInv
    <2> QED BY <2>1, <2>2, KindAt
  <1>3. Clean' <=> Clean
    BY DEF Uploads, Clean
  <1>4. CASE Plans(r)
    <2> SUFFICES ASSUME Clean PROVE PlanInv'
      BY <1>3 DEF PlanInv
    <2>1. Planner(handlers[h])
      BY <1>1, <1>2, <1>4, IdleIs DEF Planner
    <2>2. Goes(h, Idle) /\ plan' = 0
      BY <1>1, <1>2, <1>4 DEF Uploads, Plans
    <2>3. handlers'[h] = Idle /\ \A g \in Slot \ {h} : handlers'[g] = handlers[g] /\ ~Planner(handlers[g])
                              /\ handlers[g].pc \notin {"items", "overview"}
      BY <2>1, <2>2, PlanAlone
    <2>4. \A g \in Slot : ~Planner(handlers'[g]) /\ handlers'[g].pc \notin {"items", "overview"}
      BY <2>3, PlannerIs, IdleIs
    <2> QED BY <2>2, <2>4 DEF PlanInv, At, Planner
  <1>5. CASE ~Plans(r)
    <2>1. PICK q : q = IF r.ask.kind = "upload" THEN To(r, "clean") ELSE Idle
      OBVIOUS
    <2>2. Goes(h, q) /\ UNCHANGED <<items, overview, plan>> /\ Planned(r) = {}
      BY <1>1, <1>5, <2>1 DEF Uploads, Planned
    <2>3. PlanTasks' = PlanTasks
      <3>1. tasks' = tasks \cup {Record(r, uploaded)}
        BY <1>1, <2>2 DEF Uploads
      <3>2. Record(r, uploaded).kind = "record"
        BY DEF Record
      <3> QED BY <3>1, <3>2 DEF PlanTasks
    <2>4. q.pc \notin {"items", "overview"} /\ ~Planner(q)
      BY <1>2, <1>5, <2>1, Moves, IdleIs DEF Planner, Plans
    <2> QED BY <1>1, <1>2, <1>3, <2>2, <2>3, <2>4, PlanQuiet
  <1> QED BY <1>4, <1>5

\* delete_prd_items, save_prd_items, save_project_overview.
LEMMA PlanWrites ==
    ASSUME ControlInv, PlanInv, NEW h \in Slot,
           delete_prd_items(h) \/ save_prd_items(h) \/ save_project_overview(h)
    PROVE  PlanInv'
  <1>1. PICK r : r = handlers[h] /\ Request(r)
    BY IdleIs DEF ControlInv, delete_prd_items, save_prd_items, save_project_overview, At
  <1>2. r.pc \in {"clear", "items", "overview"} /\ seen' = seen /\ tasks' = tasks
    BY <1>1 DEF delete_prd_items, save_prd_items, save_project_overview, At
  <1> SUFFICES ASSUME Clean PROVE PlanInv'
    BY <1>2 DEF PlanInv, Clean
  <1>3. Planner(handlers[h])
    BY <1>1, <1>2, PlannerIs
  <1>4. ASSUME NEW q, Goes(h, q)
        PROVE  /\ handlers'[h] = q /\ PlanTasks' = {}
               /\ \A g \in Slot \ {h} : ~Planner(handlers'[g]) /\ handlers'[g].pc \notin {"items", "overview"}
    BY <1>2, <1>3, <1>4, PlanAlone DEF PlanTasks
  <1>5. CASE delete_prd_items(h)
    <2>0. PICK pc \in {"items", "overview"} : pc = IF Extracted[r.content] = {} THEN "overview" ELSE "items"
      OBVIOUS
    <2>1. PICK q : q = To(r, pc)
      OBVIOUS
    <2>a. Goes(h, q) /\ plan' = plan
      BY <1>1, <1>5, <2>0, <2>1 DEF delete_prd_items, history
    <2>b. \A i \in Item : items'[i] = 0
      BY <1>5 DEF delete_prd_items, NoItems
    <2>2. Goes(h, q) /\ (\A i \in Item : items'[i] = 0) /\ plan' = plan
      BY <2>a, <2>b
    <2>3. q.pc \in {"items", "overview"} /\ q.content = r.content
          /\ (q.pc = "overview" => Extracted[r.content] = {})
      BY <1>1, <2>0, <2>1, Moves
    <2>4. ItemsAre(r.content)' \/ q.pc = "items"
      BY <2>2, <2>3 DEF ItemsAre
    <2> QED BY <1>4, <2>2, <2>3, <2>4 DEF PlanInv, At, ItemsAre, Planner
  <1>6. CASE save_prd_items(h)
    <2>1. PICK q : q = To(r, "overview")
      OBVIOUS
    <2>2. Goes(h, q) /\ items' = WithItems(r.content) /\ r.pc = "items"
      BY <1>1, <1>6, <2>1 DEF save_prd_items, At
    <2>3. q.pc = "overview" /\ q.content = r.content
      BY <1>1, <2>1, Moves
    <2>4. \A i \in Item : items[i] = 0
      BY <1>1, <2>2 DEF PlanInv, At
    <2>5. \A i \in Item : items'[i] = IF i \in Extracted[r.content] THEN r.content ELSE 0
      BY <2>2, <2>4 DEF WithItems
    <2> QED BY <1>4, <2>2, <2>3, <2>5 DEF PlanInv, At, ItemsAre, Planner
  <1>7. CASE save_project_overview(h)
    <2>1. Goes(h, Idle) /\ items' = items /\ overview' = r.content /\ plan' = r.content /\ r.pc = "overview"
      BY <1>1, <1>7 DEF save_project_overview, At
    <2>2. ItemsAre(r.content)
      BY <1>1, <2>1 DEF PlanInv, At
    <2> QED BY <1>4, <2>1, <2>2, IdleIs, PlannerIs DEF PlanInv, At, ItemsAre, Planner
  <1> QED BY <1>5, <1>6, <1>7

\* Tasks that nobody waits for.
LEMMA PlanTask ==
    ASSUME ControlInv, PlanInv, RunTask
    PROVE  PlanInv'
  <1> SUFFICES ASSUME Clean PROVE PlanInv'
    BY DEF RunTask, PlanInv, Clean
  <1>1. PICK t \in tasks : /\ save_document_record(t) \/ persist_prd_items(t) \/ persist_project_overview(t)
                           /\ tasks' = tasks \ {t}
                           /\ handlers' = handlers /\ plan' = plan
    BY DEF RunTask, history
  <1>2. CASE t.kind = "record"
    <2>1. PlanTasks' = PlanTasks /\ UNCHANGED <<items, overview>>
      BY <1>1, <1>2 DEF PlanTasks, save_document_record, persist_prd_items, persist_project_overview
    <2> QED BY <1>1, <2>1 DEF PlanInv, At, ItemsAre, Planner
  <1>3. CASE t.kind # "record"
    <2>1. PlanTasks # {} /\ PlanTasks' \subseteq PlanTasks
      BY <1>1, <1>3 DEF PlanTasks
    <2>2. plan = 0 /\ \A h \in Slot : ~Planner(handlers[h]) /\ handlers[h].pc \notin {"items", "overview"}
      BY <2>1, PlannerIs DEF PlanInv
    <2> QED BY <1>1, <2>2 DEF PlanInv, At, Planner
  <1> QED BY <1>2, <1>3

\* A step that is lost, and one that loses nothing.
LEMMA PlanTrouble ==
    ASSUME ControlInv, PlanInv, TaskFails \/ Redeploy \/ (\E w \in Worker : Restart(w))
    PROVE  PlanInv'
  <1>1. CASE "torn" \in seen'
    BY <1>1 DEF PlanInv, Clean
  <1>2. CASE "torn" \notin seen'
    <2>1. /\ Redeploy /\ handlers' = handlers /\ tasks = {} /\ tasks' = {}
          /\ UNCHANGED <<items, overview, plan>>
      BY <1>2 DEF TaskFails, Redeploy, Restart, history
    <2>2. Clean' => Clean
      BY <2>1 DEF Clean, Redeploy
    <2> QED BY <2>1, <2>2 DEF PlanInv, At, ItemsAre, Planner, PlanTasks
  <1> QED BY <1>1, <1>2

\* Requests that plan nothing, and the steps before a reanalysis writes.
LEMMA PlanServe ==
    ASSUME ControlInv, PlanInv, NEW h \in Slot,
           \/ Arrive(h) \/ get_documents(h) \/ WriteLocal(h) \/ CleanStale(h) \/ RemoveFails(h)
           \/ delete_documents_by_ids(h) \/ ReadContent(h) \/ GetFails(h) \/ Extract(h) \/ MySQLFails(h)
    PROVE  PlanInv'
  <1>0. /\ UNCHANGED <<items, overview, plan, tasks>> /\ PlanTasks' = PlanTasks /\ (Clean' => Clean)
    <2>1. UNCHANGED <<items, overview, plan, tasks>>
      BY DEF Arrive, get_documents, WriteLocal, CleanStale, RemoveFails, delete_documents_by_ids, ReadContent, GetFails,
             Extract, MySQLFails, Cleans, Reads, stores, history
    <2>2. \A x \in {"mixed", "torn"} : x \in seen => x \in seen'
      BY DEF Arrive, get_documents, WriteLocal, CleanStale, RemoveFails, delete_documents_by_ids, ReadContent, GetFails,
             Extract, MySQLFails, Cleans, Reads
    <2> QED BY <2>1, <2>2 DEF PlanTasks, Clean
  <1>1. CASE Arrive(h)
    <2>1. PICK w \in Worker, ask \in scenario.asked[requests + 1] :
             \E r : /\ r = [pc |-> FirstStep(ask), ask |-> ask, w |-> w, docs |-> Nil, target |-> 0, content |-> 0,
                            floor |-> IF Settled(PRD_FILENAME) THEN last[PRD_FILENAME] ELSE 0]
                    /\ Goes(h, r)
                    /\ Plans(r) /\ Planning => "mixed" \in seen'
      BY <1>1 DEF Arrive
    <2>2. PICK r : /\ r.pc = FirstStep(ask)
                   /\ Goes(h, r)
                   /\ Plans(r) /\ Planning => "mixed" \in seen'
      BY <2>1
    <2>3. handlers[h].pc = "idle" /\ r.pc \in {"local", "docs", "read"}
      BY <1>1, <2>2 DEF Arrive, Busy, At, FirstStep
    <2>4. Clean' /\ Planner(r) => ~Planning
      BY <2>2 DEF Clean, Planner
    <2>5. {handlers[h].pc, r.pc} \cap {"items", "overview"} = {}
      BY <2>3
    <2> QED BY <1>0, <2>2, <2>4, <2>5, PlanQuiet
  <1>2. ASSUME Busy(h)
        PROVE  Request(handlers[h])
    BY <1>2, BusyIs
  <1>3. ASSUME NEW pc, Request(handlers[h]), Goes(h, To(handlers[h], pc)), pc \notin {"items", "overview"},
               handlers[h].pc \notin {"items", "overview"}
        PROVE  PlanInv'
    <2>1. PICK q : q = To(handlers[h], pc)
      OBVIOUS
    <2>2. q.pc = pc /\ (Planner(q) => Planner(handlers[h]))
      BY <1>3, <2>1, Moves, IdleIs DEF Planner, Plans
    <2> QED BY <1>0, <1>3, <2>1, <2>2, PlanQuiet
  <1>4. ASSUME Goes(h, Idle), handlers[h].pc \notin {"items", "overview"}
        PROVE  PlanInv'
    BY <1>0, <1>4, PlanQuiet, PlannerIs, IdleIs
  <1>5. ASSUME Request(handlers[h]), NEW q, Goes(h, q), q.ask = handlers[h].ask, q.pc \notin {"items", "overview"},
               handlers[h].pc \notin {"items", "overview"}
        PROVE  PlanInv'
    <2>1. Planner(q) => Planner(handlers[h])
      BY <1>5, IdleIs DEF Planner, Plans
    <2> QED BY <1>0, <1>5, <2>1, PlanQuiet
  <1>6. CASE get_documents(h)
    <2>1. PICK r : r = handlers[h] /\ Request(r) /\ r.pc = "docs"
      BY <1>2, <1>6 DEF get_documents, At, Busy
    <2>2. PICK q : q = [To(r, IF r.ask.kind = "upload" THEN "local" ELSE "read") EXCEPT !.docs = rows]
      OBVIOUS
    <2>3. q.ask = r.ask /\ q.pc \in {"local", "read"}
      BY <2>1, <2>2, Moves
    <2>4. Goes(h, q) \/ Goes(h, Idle)
      BY <1>6, <2>1, <2>2 DEF get_documents
    <2> QED BY <1>4, <1>5, <2>1, <2>3, <2>4
  <1>7. CASE WriteLocal(h)
    <2>1. PICK r : r = handlers[h] /\ Request(r) /\ r.pc = "local"
      BY <1>2, <1>7 DEF WriteLocal, At, Busy
    <2>2. PICK q : q = [To(r, "put") EXCEPT !.target = SaveVersion(r), !.content = saves + 1]
      OBVIOUS
    <2>3. q.ask = r.ask /\ q.pc = "put"
      BY <2>1, <2>2, Moves
    <2> QED BY <1>5, <1>7, <2>1, <2>2, <2>3 DEF WriteLocal
  <1>8. CASE CleanStale(h) \/ RemoveFails(h)
    <2>1. Request(handlers[h]) /\ handlers[h].pc = "clean"
      BY <1>2, <1>8 DEF CleanStale, RemoveFails, At, Busy
    <2>2. Goes(h, Idle) \/ Goes(h, To(handlers[h], "delete"))
      BY <1>8 DEF CleanStale, RemoveFails, Cleans
    <2> QED BY <1>3, <1>4, <2>1, <2>2
  <1>9. CASE delete_documents_by_ids(h)
    BY <1>4, <1>9 DEF delete_documents_by_ids, At
  <1>10. CASE ReadContent(h) \/ GetFails(h)
    <2>1. PICK works : Reads(h, works)
      BY <1>10 DEF ReadContent, GetFails
    <2>2. PICK r : r = handlers[h] /\ Request(r) /\ r.pc = "read"
      BY <1>2, <2>1 DEF Reads, At, Busy
    <2>3. PICK c : c = Content(r, works)
      OBVIOUS
    <2>4. PICK q : q = [To(r, "llm") EXCEPT !.content = c]
      OBVIOUS
    <2>5. q.ask = r.ask /\ q.pc = "llm"
      BY <2>2, <2>4, Moves
    <2>6. Goes(h, Idle) \/ Goes(h, q)
      BY <2>1, <2>2, <2>3, <2>4 DEF Reads
    <2> QED BY <1>4, <1>5, <2>2, <2>5, <2>6
  <1>11. CASE Extract(h)
    <2>1. Request(handlers[h]) /\ handlers[h].pc = "llm"
      BY <1>2, <1>11 DEF Extract, At, Busy
    <2> QED BY <1>3, <1>4, <1>11, <2>1 DEF Extract
  <1>12. CASE MySQLFails(h)
    <2>1. CASE handlers[h].pc = "docs"
      <3>1. Request(handlers[h])
        BY <1>2, <1>12 DEF MySQLFails, Runs
      <3> QED BY <1>3, <1>4, <1>12, <2>1, <3>1 DEF MySQLFails
    <2>2. CASE handlers[h].pc # "docs"
      <3>1. "torn" \in seen'
        BY <1>12, <2>2 DEF MySQLFails
      <3> QED BY <3>1 DEF PlanInv, Clean
    <2> QED BY <2>1, <2>2
  <1> QED BY <1>1, <1>6, <1>7, <1>8, <1>9, <1>10, <1>11, <1>12

LEMMA PlanStays ==
    ASSUME ControlInv, PlanInv, [Next]_vars
    PROVE  PlanInv'
  <1>1. CASE UNCHANGED vars
    BY <1>1 DEF vars, stores, history, PlanInv, Clean, At, ItemsAre, Planner, PlanTasks
  <1>2. ASSUME NEW h \in Slot, PutObject(h) \/ PutFails(h)
        PROVE  PlanInv'
    BY <1>2, PlanUploads DEF PutObject, PutFails
  <1> QED BY <1>1, <1>2, PlanServe, PlanWrites, PlanTask, PlanTrouble DEF Next

LEMMA PlanStarts == Init => PlanInv
  <1> SUFFICES ASSUME Init PROVE PlanInv
    OBVIOUS
  <1>1. plan = 0 /\ PlanTasks = {} /\ \A h \in Slot : handlers[h] = Idle
    BY DEF Init, PlanTasks
  <1> QED BY <1>1, IdleIs DEF PlanInv, At, Planner

\* The inductive invariant of Spec.
THEOREM PlansStayWhole == Spec => [](ControlInv /\ PlanInv)
  <1>1. Init => ControlInv /\ PlanInv
    BY ControlStarts, PlanStarts
  <1>2. ControlInv /\ PlanInv /\ [Next]_vars => (ControlInv /\ PlanInv)'
    BY ControlStays, PlanStays
  <1> QED BY <1>1, <1>2, PTL DEF Spec

\* After a reanalysis that nothing overlapped the items are those of its document and the
\* overview is of the same one, whatever ran before: document_router.py 355-385.
THEOREM ReanalysesAreExact == Spec => []ReanalysisExact
  <1>1. ControlInv /\ PlanInv => ReanalysisExact
    <2> SUFFICES ASSUME ControlInv, PlanInv, plan # 0, ~Planning, Clean
                 PROVE  overview = plan /\ ItemsAre(plan)
      BY DEF ReanalysisExact, Clean, ItemsAre
    <2>1. PlanTasks = {} /\ \A h \in Slot : handlers[h].pc \notin {"items", "overview"}
      BY PlannerIs
    <2> QED BY <2>1 DEF PlanInv
  <1> QED BY <1>1, PlansStayWhole, PTL

\* The newest version an earlier release left, one if it left none, and the PRD's key there.
Top(s) == Max({1} \cup {k.version : k \in DOMAIN s.left})
PrdKey(s) == [name |-> PRD_FILENAME, version |-> Top(s)]
\* The names an earlier release had for the PRD.
OldName(s, n) == n # PRD_FILENAME /\ \E k \in DOMAIN s.left : k.name = n /\ s.left[k].stage = PRD_STAGE
MayWrite(s, name, stage) == ~OldName(s, name) /\ (stage = PRD_STAGE => name = PRD_FILENAME)

\* What ai_documents may hold: no version above the newest left, the PRD at that one if
\* there ever was one, and of the old names what was left.
Table(s, T) ==
    /\ T \in [Key -> Row \cup {Nil}]
    /\ Top(s) = 1 \/ T[PrdKey(s)] # Nil
    /\ \A k \in Key : T[k] # Nil =>
          /\ k.version \in 1..Top(s) /\ (T[k].path = "object" => s.minio)
          /\ IsPrd(k, T[k]) => k.name = PRD_FILENAME \/ OldName(s, k.name)
          /\ OldName(s, k.name) => k \in DOMAIN s.left /\ T[k] = s.left[k]

Writing(r) == r.pc # "idle" /\ Writes(r)
Uploading(r) == r.pc \in {"local", "put", "clean", "delete"} /\ r.ask.kind = "upload"
Saved(r) == r.pc \in {"put", "clean", "delete"}

\* What a request and a task carry, after n saves.
RequestOk(s, n, r) ==
    r.pc # "idle" =>
        /\ r.w \in Worker /\ r.content \in 0..n
        /\ r.docs # Nil => Table(s, r.docs)
        /\ Uploading(r) => r.docs # Nil
        /\ Writes(r) => MayWrite(s, r.ask.name, r.ask.stage)
        /\ Saved(r) => r.content # 0 /\ r.target \in 1..Top(s) /\ (r.ask.kind = "upload" => r.target = Top(s))
RecordOk(s, n, t) ==
    /\ t.key \in Key /\ t.key.version \in 1..Top(s)
    /\ t.id \in 1..n /\ t.path \in {"object", "local"} /\ (t.path = "object" => s.minio) /\ t.stage \in Stage
    /\ MayWrite(s, t.key.name, t.stage)
TaskOk(s, n, t) ==
    /\ t.kind \in {"record", "overview", "items"}
    /\ IF t.kind = "record" THEN RecordOk(s, n, t) ELSE t.content \in 0..n

StoreInv ==
    /\ saves \in Nat \ {0}
    /\ local \in [Key -> 0..saves] /\ objects \in [Key -> 0..saves]
    /\ items \in [Item -> 0..saves] /\ overview \in 0..saves
    /\ last \in [Name -> 0..saves]
    /\ Table(scenario, rows)
    /\ \A k \in Key : local[k] # 0 => k.version \in 1..Top(scenario)
    /\ \A h \in Slot : RequestOk(scenario, saves, handlers[h])
    /\ \A t \in tasks : TaskOk(scenario, saves, t)

-----------------------------------------------------------------------------
\* Versions.

LEMMA MaxOfVersions ==
    ASSUME NEW S \in SUBSET Version, S # {}
    PROVE  Max(S) \in S /\ \A x \in S : x <= Max(S)
  <1>1. IsFiniteSet(Version) /\ Version \subseteq Int /\ \A x \in Version : x \in Int
    <2>1. PICK n \in Int : n = 2
      OBVIOUS
    <2>2. IsFiniteSet(0..n)
      BY FS_Interval
    <2> QED BY <2>1, <2>2 DEF Version
  <1>2. Max(S) \in S /\ \A x \in S : Max(S) >= x
    BY <1>1, MaxIn
  <1> QED BY <1>1, <1>2

LEMMA Keys ==
    /\ \A k \in Key : /\ k.name \in Name /\ k.version \in 0..2
                      /\ k = [name |-> k.name, version |-> k.version]
    /\ \A n \in Name, v \in 0..2 : [name |-> n, version |-> v] \in Key
    /\ PRD_FILENAME \in Name
  BY DEF Key, Version, Name

LEMMA Left ==
    ASSUME ControlInv
    PROVE  /\ DOMAIN scenario.left \subseteq Key /\ (DOMAIN scenario.left # {} => scenario.minio)
           /\ \A k \in DOMAIN scenario.left :
                 /\ k.version >= 1 /\ scenario.left[k] \in Row /\ scenario.left[k].id <= 0
                 /\ scenario.left[k].path = "object"
                 /\ \A j \in DOMAIN scenario.left : scenario.left[j].id = scenario.left[k].id => j = k
                 /\ k.version = 1 \/ \E j \in DOMAIN scenario.left : j.name = PRD_FILENAME /\ j.version >= k.version
  BY Leaving DEF ControlInv

LEMMA Tops ==
    ASSUME ControlInv
    PROVE  /\ Top(scenario) \in 1..2 /\ PrdKey(scenario) \in Key /\ PrdKey(scenario).name = PRD_FILENAME /\ PrdKey(scenario).version = Top(scenario)
           /\ \A k \in DOMAIN scenario.left : k.version \in 1..Top(scenario)
           /\ Top(scenario) = 1 \/ PrdKey(scenario) \in DOMAIN scenario.left
           /\ \A k \in Key : k.name = PRD_FILENAME /\ k.version = Top(scenario) => k = PrdKey(scenario)
  <1> DEFINE left == scenario.left
  <1> DEFINE V == {1} \cup {k.version : k \in DOMAIN left}
  <1>1. V \in SUBSET (1..2)
    <2>1. \A k \in DOMAIN left : k.version \in 1..2
      BY Left, Keys
    <2> QED BY <2>1
  <1>2. Max(V) \in V /\ \A x \in V : x <= Max(V)
    <2>1. V \in SUBSET Version /\ V # {}
      BY <1>1 DEF Version
    <2> QED BY <2>1, MaxOfVersions
  <1>3. Top(scenario) = Max(V)
    BY DEF Top
  <1>4. Top(scenario) \in 1..2 /\ \A k \in DOMAIN left : k.version \in 1..Top(scenario)
    BY <1>1, <1>2, <1>3
  <1>5. PrdKey(scenario) \in Key /\ PrdKey(scenario).name = PRD_FILENAME /\ PrdKey(scenario).version = Top(scenario)
    <2>1. Top(scenario) \in 0..2
      BY <1>4
    <2>2. \A v \in 0..2 : [name |-> PRD_FILENAME, version |-> v] \in Key
      BY Keys
    <2> QED BY <2>1, <2>2 DEF PrdKey
  <1>6. \A k \in Key : k.name = PRD_FILENAME /\ k.version = Top(scenario) => k = PrdKey(scenario)
    BY Keys DEF PrdKey
  <1>7. Top(scenario) = 1 \/ PrdKey(scenario) \in DOMAIN left
    <2> SUFFICES ASSUME Top(scenario) # 1 PROVE PrdKey(scenario) \in DOMAIN left
      OBVIOUS
    <2>1. PICK k \in DOMAIN left : k.version = Top(scenario)
      BY <1>2, <1>3
    <2>2. PICK j \in DOMAIN left : j.name = PRD_FILENAME /\ j.version >= k.version
      BY <2>1, Left
    <2>3. j.version = Top(scenario) /\ j \in Key
      BY <1>4, <2>1, <2>2, Left
    <2> QED BY <1>6, <2>2, <2>3
  <1> QED BY <1>4, <1>5, <1>6, <1>7

\* The files on the disk have no version above Top(scenario).
LEMMA LatestIs ==
    ASSUME ControlInv, StoreInv
    PROVE  /\ latest_version \in 0..Top(scenario)
           /\ \A k \in Key : local[k] # 0 => k.version <= latest_version
           /\ latest_version # 0 => \E k \in Key : local[k] # 0 /\ k.version = latest_version
  <1> DEFINE V == {0} \cup {k.version : k \in {j \in Key : local[j] # 0}}
  <1>1. V \in SUBSET Version /\ V # {}
    BY Keys DEF Version
  <1>2. Max(V) \in V /\ \A x \in V : x <= Max(V)
    BY <1>1, MaxOfVersions
  <1>3. latest_version = Max(V)
    BY DEF latest_version
  <1>4. \A x \in V : x \in 0..Top(scenario)
    BY Tops DEF StoreInv
  <1> HIDE DEF V
  <1>5. \A k \in Key : local[k] # 0 => k.version \in V
    BY DEF V
  <1>6. latest_version # 0 => \E k \in Key : local[k] # 0 /\ k.version = latest_version
    BY <1>2, <1>3 DEF V
  <1> QED BY <1>2, <1>3, <1>4, <1>5, <1>6

\* An upload writes where the newest PRD is.
LEMMA TargetIs ==
    ASSUME ControlInv, NEW T, Table(scenario, T)
    PROVE  TargetVersion(T) = Top(scenario)
  <1> DEFINE V == {k.version : k \in PrdDocs(T)}
  <1>1. \A k \in PrdDocs(T) : k.version \in 1..Top(scenario) /\ k \in Key
    BY DEF PrdDocs, Table
  <1>2. CASE PrdDocs(T) = {}
    <2>1. ~(PrdKey(scenario) \in Key /\ T[PrdKey(scenario)] # Nil)
      BY <1>2, Tops DEF PrdDocs, IsPrd
    <2> QED BY <1>2, <2>1, Tops DEF Table, TargetVersion
  <1>3. CASE PrdDocs(T) # {}
    <2>1. V \in SUBSET Version /\ V # {}
      BY <1>1, <1>3, Keys DEF Version
    <2>2. Max(V) \in V /\ \A x \in V : x <= Max(V)
      BY <2>1, MaxOfVersions
    <2>3. TargetVersion(T) = Max(V)
      BY <1>3 DEF TargetVersion
    <2>4. \A x \in V : x \in 1..Top(scenario)
      BY <1>1
    <2>5. Top(scenario) \in V \/ Top(scenario) = 1
      <3> SUFFICES ASSUME Top(scenario) # 1 PROVE Top(scenario) \in V
        OBVIOUS
      <3>1. PrdKey(scenario) \in PrdDocs(T)
        BY Tops DEF Table, PrdDocs, IsPrd
      <3> QED BY <3>1, Tops
    <2> HIDE DEF V
    <2> QED BY <2>2, <2>3, <2>4, <2>5, Tops
  <1> QED BY <1>2, <1>3

-----------------------------------------------------------------------------
\* What each step does to the requests.

\* Handler h takes q, the others stay.
Moved(h, q) == handlers'[h] = q /\ \A g \in Slot \ {h} : handlers'[g] = handlers[g]
\* A later step of the same request.
Onward(q, r) ==
    /\ q.ask = r.ask /\ q.w = r.w /\ q.docs = r.docs /\ q.target = r.target
    /\ q.content = r.content /\ q.floor = r.floor

LEMMA GoesMoves ==
    ASSUME ControlInv, NEW h \in Slot, NEW q, Goes(h, q)
    PROVE  Moved(h, q)
  BY DEF ControlInv, Goes, Moved

LEMMA ToGoesOn ==
    ASSUME NEW r, Request(r), NEW pc
    PROVE  To(r, pc).pc = pc /\ Onward(To(r, pc), r)
  BY Moves DEF Onward

LEMMA RequestAt ==
    ASSUME ControlInv, NEW h \in Slot, handlers[h].pc # "idle"
    PROVE  Request(handlers[h])
  BY IdleIs DEF ControlInv

LEMMA Arriving ==
    ASSUME ControlInv, NEW h \in Slot, Arrive(h)
    PROVE  \E q : /\ Moved(h, q) /\ handlers[h].pc = "idle"
                  /\ q.ask \in Ask /\ q.pc = FirstStep(q.ask) /\ q.w \in Worker
                  /\ q.docs = Nil /\ q.target = 0 /\ q.content = 0
                  /\ q.floor = IF Settled(PRD_FILENAME) THEN last[PRD_FILENAME] ELSE 0
                  /\ Writes(q) => MayWrite(scenario, q.ask.name, q.ask.stage)
                  /\ seen' = seen \cup (IF Writes(q) /\ ~Settled(q.ask.name) THEN {"crowded"} ELSE {})
                                  \cup (IF Plans(q) /\ Planning THEN {"mixed"} ELSE {})
  <1>1. PICK w \in Worker, ask \in scenario.asked[requests + 1] :
           LET q == [pc |-> FirstStep(ask), ask |-> ask, w |-> w, docs |-> Nil, target |-> 0, content |-> 0,
                     floor |-> IF Settled(PRD_FILENAME) THEN last[PRD_FILENAME] ELSE 0]
           IN  /\ Goes(h, q)
               /\ seen' = seen \cup (IF Writes(q) /\ ~Settled(ask.name) THEN {"crowded"} ELSE {})
                               \cup (IF Plans(q) /\ Planning THEN {"mixed"} ELSE {})
    BY DEF Arrive
  <1>2. PICK q : q = [pc |-> FirstStep(ask), ask |-> ask, w |-> w, docs |-> Nil, target |-> 0, content |-> 0,
                      floor |-> IF Settled(PRD_FILENAME) THEN last[PRD_FILENAME] ELSE 0]
    OBVIOUS
  <1>3. /\ Goes(h, q)
        /\ seen' = seen \cup (IF Writes(q) /\ ~Settled(ask.name) THEN {"crowded"} ELSE {})
                        \cup (IF Plans(q) /\ Planning THEN {"mixed"} ELSE {})
    BY <1>1, <1>2
  <1>4. Moved(h, q)
    BY <1>3, GoesMoves
  <1>5. /\ q.ask = ask /\ q.pc = FirstStep(ask) /\ q.w = w /\ q.docs = Nil /\ q.target = 0 /\ q.content = 0
        /\ q.floor = IF Settled(PRD_FILENAME) THEN last[PRD_FILENAME] ELSE 0
    BY <1>2
  <1>6. handlers[h].pc = "idle"
    BY DEF Arrive, Busy, At
  <1>7. requests + 1 \in 1..Len(scenario.asked) /\ scenario \in Scenarios /\ scenario.asked \in Seq(SUBSET Ask)
    BY Asking DEF ControlInv, Arrive
  <1>8. ask \in Ask
    <2>1. scenario.asked[requests + 1] \in SUBSET Ask
      BY <1>7
    <2> QED BY <2>1
  <1>9. Writes(q) => MayWrite(scenario, ask.name, ask.stage)
    <2> SUFFICES ASSUME ask.kind \in {"upload", "agent"} PROVE MayWrite(scenario, ask.name, ask.stage)
      BY <1>5 DEF Writes
    <2>1. CASE ask.kind = "upload"
      BY <1>8, <2>1 DEF Ask, MayWrite, OldName
    <2>2. CASE ask.kind = "agent"
      BY <1>7, <2>2, Saving DEF MayWrite, OldName
    <2> QED BY <2>1, <2>2
  <1> QED BY <1>3, <1>4, <1>5, <1>6, <1>8, <1>9

LEMMA Getting ==
    ASSUME ControlInv, NEW h \in Slot, get_documents(h)
    PROVE  \E q : LET r == handlers[h] IN
                  /\ Moved(h, q) /\ Request(r) /\ r.pc = "docs"
                  /\ \/ q = Idle
                     \/ /\ q.pc = IF r.ask.kind = "upload" THEN "local" ELSE "read"
                        /\ q.ask = r.ask /\ q.w = r.w /\ q.docs = rows /\ q.target = r.target
                        /\ q.content = r.content /\ q.floor = r.floor
  <1>1. PICK r : r = handlers[h] /\ Request(r) /\ r.pc = "docs"
    BY RequestAt DEF get_documents, At
  <1>2. PICK p : p = To(r, IF r.ask.kind = "upload" THEN "local" ELSE "read")
    OBVIOUS
  <1>3. PICK q : q = IF Unlisted(r, rows) THEN Idle ELSE [p EXCEPT !.docs = rows]
    OBVIOUS
  <1>4. Moved(h, q)
    BY <1>1, <1>2, <1>3, GoesMoves DEF get_documents
  <1>5. p = [pc |-> IF r.ask.kind = "upload" THEN "local" ELSE "read", ask |-> r.ask, w |-> r.w, docs |-> r.docs,
             target |-> r.target, content |-> r.content, floor |-> r.floor]
    BY <1>1, <1>2, Moves
  <1> QED BY <1>1, <1>3, <1>4, <1>5

LEMMA WritingLocal ==
    ASSUME ControlInv, NEW h \in Slot, WriteLocal(h)
    PROVE  \E q : LET r == handlers[h] IN
                  /\ Moved(h, q) /\ Request(r) /\ r.pc = "local" /\ r.ask.kind \in {"upload", "agent"}
                  /\ q.pc = "put" /\ q.ask = r.ask /\ q.w = r.w /\ q.docs = r.docs /\ q.floor = r.floor
                  /\ q.target = SaveVersion(r) /\ q.content = saves + 1
                  /\ local' = [local EXCEPT ![KeyOf(q)] = saves + 1]
                  /\ seen' = (seen \ (IF r.ask.name = PRD_FILENAME THEN {"uploaded"} ELSE {}))
                               \cup (IF r.ask.kind = "upload" THEN {"uploaded"} ELSE {})
                               \cup (IF \E k \in KeysOf(r.ask.name) : k.version > q.target THEN {"older"} ELSE {})
                  /\ saves' = saves + 1 /\ last' = [last EXCEPT ![r.ask.name] = saves + 1]
                  /\ UNCHANGED <<objects, rows, items, overview, tasks, scenario, served>>
  <1>1. PICK r : r = handlers[h] /\ Request(r) /\ r.pc = "local"
    BY RequestAt DEF WriteLocal, At
  <1>2. PICK v, s : v = SaveVersion(r) /\ s = saves + 1
    OBVIOUS
  <1>3. PICK p : p = To(r, "put")
    OBVIOUS
  <1>4. PICK q : q = [p EXCEPT !.target = v, !.content = s]
    OBVIOUS
  <1>5. p = [pc |-> "put", ask |-> r.ask, w |-> r.w, docs |-> r.docs,
             target |-> r.target, content |-> r.content, floor |-> r.floor]
    BY <1>1, <1>3, Moves
  <1>6. q = [pc |-> "put", ask |-> r.ask, w |-> r.w, docs |-> r.docs, target |-> v, content |-> s, floor |-> r.floor]
    BY <1>4, <1>5, Filled
  <1>7. /\ Goes(h, q) /\ local' = [local EXCEPT ![KeyOf(q)] = q.content]
        /\ seen' = (seen \ (IF r.ask.name = PRD_FILENAME THEN {"uploaded"} ELSE {}))
                     \cup (IF r.ask.kind = "upload" THEN {"uploaded"} ELSE {})
                     \cup (IF \E k \in KeysOf(r.ask.name) : k.version > q.target THEN {"older"} ELSE {})
        /\ saves' = saves + 1 /\ last' = [last EXCEPT ![r.ask.name] = q.content]
        /\ UNCHANGED <<objects, rows, items, overview, tasks, scenario, served>>
    BY <1>1, <1>2, <1>3, <1>4 DEF WriteLocal
  <1>8. Moved(h, q)
    BY <1>7, GoesMoves
  <1>9. r.ask.kind \in {"upload", "agent"}
    BY <1>1, KindAt
  <1> QED BY <1>1, <1>2, <1>6, <1>7, <1>8, <1>9

LEMMA Putting ==
    ASSUME ControlInv, NEW h \in Slot, PutObject(h) \/ PutFails(h)
    PROVE  \E uploaded, q : LET r == handlers[h] IN
                  /\ uploaded \in BOOLEAN /\ (uploaded => scenario.minio)
                  /\ Moved(h, q) /\ Request(r) /\ r.pc = "put" /\ r.ask.kind \in {"upload", "agent"}
                  /\ \/ r.ask.kind = "upload" /\ q.pc = "clean" /\ Onward(q, r)
                     \/ r.ask.kind = "agent" /\ q = Idle
                  /\ objects' = IF uploaded THEN [objects EXCEPT ![KeyOf(r)] = r.content] ELSE objects
                  /\ tasks' = tasks \cup {Record(r, uploaded)} \cup Planned(r)
                  /\ UNCHANGED <<local, rows, items, overview, scenario, saves, last, served, seen>>
  <1>1. PICK r : r = handlers[h] /\ Request(r) /\ r.pc = "put"
    BY RequestAt DEF PutObject, PutFails, At
  <1>2. r.ask.kind \in {"upload", "agent"}
    BY <1>1, KindAt
  <1>4. ASSUME NEW u, Uploads(h, u), u \in BOOLEAN, u => scenario.minio
        PROVE  \E v, q :
                  /\ v \in BOOLEAN /\ (v => scenario.minio)
                  /\ Moved(h, q) /\ Request(r) /\ r.pc = "put" /\ r.ask.kind \in {"upload", "agent"}
                  /\ \/ r.ask.kind = "upload" /\ q.pc = "clean" /\ Onward(q, r)
                     \/ r.ask.kind = "agent" /\ q = Idle
                  /\ objects' = IF v THEN [objects EXCEPT ![KeyOf(r)] = r.content] ELSE objects
                  /\ tasks' = tasks \cup {Record(r, v)} \cup Planned(r)
                  /\ UNCHANGED <<local, rows, items, overview, scenario, saves, last, served, seen>>
    <2>1. PICK q : q = IF r.ask.kind = "upload" THEN To(r, "clean") ELSE Idle
      OBVIOUS
    <2>2. /\ Goes(h, q)
          /\ objects' = IF u THEN [objects EXCEPT ![KeyOf(r)] = r.content] ELSE objects
          /\ tasks' = tasks \cup {Record(r, u)} \cup Planned(r)
          /\ UNCHANGED <<local, rows, items, overview, scenario, saves, last, served, seen>>
      BY <1>1, <1>4, <2>1 DEF Uploads
    <2>3. Moved(h, q)
      BY <2>2, GoesMoves
    <2>4. \/ r.ask.kind = "upload" /\ q.pc = "clean" /\ Onward(q, r)
          \/ r.ask.kind = "agent" /\ q = Idle
      BY <1>1, <1>2, <2>1, ToGoesOn
    <2> QED BY <1>1, <1>2, <1>4, <2>2, <2>3, <2>4
  <1>5. CASE PutFails(h)
    BY <1>1, <1>4, <1>5 DEF PutFails
  <1>6. CASE PutObject(h)
    <2>1. scenario.minio \in BOOLEAN
      BY Leaving DEF ControlInv
    <2> QED BY <1>1, <1>4, <1>6, <2>1 DEF PutObject
  <1> QED BY <1>5, <1>6

LEMMA Cleaning ==
    ASSUME ControlInv, NEW h \in Slot, CleanStale(h) \/ RemoveFails(h)
    PROVE  \E removed, q : LET r == handlers[h] IN
                  /\ removed \subseteq Stale(r)
                  /\ Moved(h, q) /\ Request(r) /\ r.pc = "clean" /\ r.ask.kind = "upload"
                  /\ \/ Stale(r) = {} /\ q = Idle
                     \/ q.pc = "delete" /\ Onward(q, r)
                  /\ objects' = Without(objects, {k \in removed : InMinio(r, k)})
                  /\ local' = Without(local, {k \in removed : r.docs[k].path = "local"})
                  /\ UNCHANGED <<rows, items, overview, tasks, scenario, saves, last, served, seen>>
  <1>1. PICK r : r = handlers[h] /\ Request(r) /\ r.pc = "clean"
    BY RequestAt DEF CleanStale, RemoveFails, At
  <1>2. r.ask.kind = "upload"
    BY <1>1, KindAt
  <1>3. PICK removed : removed \subseteq Stale(r) /\ Cleans(h, removed)
    BY <1>1 DEF CleanStale, RemoveFails
  <1>4. PICK q : q = IF Stale(r) = {} THEN Idle ELSE To(r, "delete")
    OBVIOUS
  <1>5. /\ Goes(h, q)
        /\ objects' = Without(objects, {k \in removed : InMinio(r, k)})
        /\ local' = Without(local, {k \in removed : r.docs[k].path = "local"})
        /\ UNCHANGED <<rows, items, overview, tasks, scenario, saves, seen>>
    BY <1>1, <1>3, <1>4 DEF Cleans
  <1>6. UNCHANGED <<last, served>>
    BY DEF CleanStale, RemoveFails, Cleans, history
  <1>7. Moved(h, q)
    BY <1>5, GoesMoves
  <1>8. \/ Stale(r) = {} /\ q = Idle
        \/ q.pc = "delete" /\ Onward(q, r)
    BY <1>1, <1>4, ToGoesOn
  <1> QED BY <1>1, <1>2, <1>3, <1>5, <1>6, <1>7, <1>8

LEMMA Deleting ==
    ASSUME ControlInv, NEW h \in Slot, delete_documents_by_ids(h)
    PROVE  LET r == handlers[h] IN
           /\ Moved(h, Idle) /\ Request(r) /\ r.pc = "delete" /\ r.ask.kind = "upload"
           /\ rows' = [k \in Key |-> IF rows[k] # Nil /\ \E j \in Stale(r) : r.docs[j].id = rows[k].id
                                     THEN Nil ELSE rows[k]]
           /\ UNCHANGED <<local, objects, items, overview, tasks, scenario, saves, last, served, seen>>
  <1>1. PICK r : r = handlers[h] /\ Request(r) /\ r.pc = "delete"
    BY RequestAt DEF delete_documents_by_ids, At
  <1>2. Moved(h, Idle)
    BY GoesMoves DEF delete_documents_by_ids
  <1>3. r.ask.kind = "upload"
    BY <1>1, KindAt
  <1>4. UNCHANGED <<local, objects, items, overview, tasks, scenario, saves, last, served, seen>>
    BY DEF delete_documents_by_ids, history
  <1>5. \A k \in Key : rows[k] # Nil /\ rows[k].id \in {r.docs[j].id : j \in Stale(r)}
                        <=> rows[k] # Nil /\ \E j \in Stale(r) : r.docs[j].id = rows[k].id
    OBVIOUS
  <1>6. rows' = [k \in Key |-> IF rows[k] # Nil /\ rows[k].id \in {r.docs[j].id : j \in Stale(r)}
                              THEN Nil ELSE rows[k]]
    BY <1>1 DEF delete_documents_by_ids
  <1>7. rows' = [k \in Key |-> IF rows[k] # Nil /\ \E j \in Stale(r) : r.docs[j].id = rows[k].id
                              THEN Nil ELSE rows[k]]
    BY <1>5, <1>6
  <1> QED BY <1>1, <1>2, <1>3, <1>4, <1>7

LEMMA Reading ==
    ASSUME ControlInv, NEW h \in Slot, ReadContent(h) \/ GetFails(h)
    PROVE  \E works, q : LET r == handlers[h] IN
                  /\ works \in BOOLEAN
                  /\ Moved(h, q) /\ Request(r) /\ r.pc = "read"
                  /\ IF r.ask.kind = "download"
                     THEN q = Idle /\ served' = [content |-> Content(r, works), floor |-> r.floor]
                     ELSE /\ \/ q = Idle
                             \/ /\ q.pc = "llm" /\ q.ask = r.ask /\ q.w = r.w /\ q.docs = r.docs
                                /\ q.target = r.target /\ q.content = Content(r, works) /\ q.floor = r.floor
                          /\ served' = served
                  /\ UNCHANGED <<local, objects, rows, items, overview, tasks, scenario, saves, last, seen>>
  <1>1. PICK works \in BOOLEAN : Reads(h, works)
    BY DEF ReadContent, GetFails
  <1>2. PICK r : r = handlers[h] /\ Request(r) /\ r.pc = "read"
    BY <1>1, RequestAt DEF Reads, At
  <1>3. PICK c : c = Content(r, works)
    OBVIOUS
  <1>4. PICK p : p = To(r, "llm")
    OBVIOUS
  <1>5. PICK q : q = IF r.ask.kind = "download" \/ c = 0 THEN Idle ELSE [p EXCEPT !.content = c]
    OBVIOUS
  <1>6. Goes(h, q)
    BY <1>1, <1>2, <1>3, <1>4, <1>5 DEF Reads
  <1>7. p = [pc |-> "llm", ask |-> r.ask, w |-> r.w, docs |-> r.docs,
             target |-> r.target, content |-> r.content, floor |-> r.floor]
    BY <1>2, <1>4, Moves
  <1>8. IF r.ask.kind = "download" THEN served' = [content |-> c, floor |-> r.floor] ELSE served' = served
    BY <1>1, <1>2, <1>3 DEF Reads
  <1>9. UNCHANGED <<local, objects, rows, items, overview, tasks, scenario, saves, last, seen>>
    BY <1>1 DEF Reads, stores
  <1>10. \/ q = Idle
         \/ /\ q.pc = "llm" /\ q.ask = r.ask /\ q.w = r.w /\ q.docs = r.docs
            /\ q.target = r.target /\ q.content = c /\ q.floor = r.floor
    BY <1>5, <1>7
  <1>11. r.ask.kind = "download" => q = Idle
    BY <1>5
  <1>12. Moved(h, q)
    BY <1>6, GoesMoves
  <1> QED BY <1>2, <1>3, <1>8, <1>9, <1>10, <1>11, <1>12

\* The steps of a reanalysis after its answer, and what MySQL refuses.
LEMMA Going ==
    ASSUME ControlInv, NEW h \in Slot,
           \/ Extract(h) \/ delete_prd_items(h) \/ save_prd_items(h) \/ save_project_overview(h) \/ MySQLFails(h)
    PROVE  \E q : LET r == handlers[h] IN
                  /\ Moved(h, q) /\ Request(r) /\ r.pc \in {"docs", "delete", "llm", "clear", "items", "overview"}
                  /\ \/ q = Idle
                     \/ q.pc \in {"clear", "items", "overview"} /\ r.ask.kind = "reanalyze" /\ Onward(q, r)
                     \/ r.pc = "docs" /\ q.pc = "read" /\ r.ask.kind # "upload" /\ Onward(q, r)
                  /\ r.pc = "delete" => "torn" \in seen'
                  /\ items' \in {items, NoItems, WithItems(r.content)}
                  /\ overview' \in {overview, r.content}
                  /\ seen' \in {seen, seen \cup {"torn"}}
                  /\ UNCHANGED <<local, objects, rows, tasks, scenario, saves, last, served>>
  <1>1. PICK r : /\ r = handlers[h] /\ Request(r)
                 /\ r.pc \in {"docs", "delete", "llm", "clear", "items", "overview"}
    BY RequestAt DEF Extract, delete_prd_items, save_prd_items, save_project_overview, MySQLFails, At
  <1>2. PICK pc : pc = IF Extract(h) THEN "clear"
                       ELSE IF delete_prd_items(h) THEN (IF Extracted[r.content] = {} THEN "overview" ELSE "items")
                       ELSE IF save_prd_items(h) THEN "overview" ELSE "read"
    OBVIOUS
  <1>3. PICK q : (q = To(r, pc) \/ q = Idle) /\ Goes(h, q)
                 /\ (q # Idle /\ r.pc = "docs" => ~NeedsRows(r.ask))
    <2>1. CASE Extract(h)
      BY <1>1, <1>2, <2>1 DEF Extract, At
    <2>2. CASE delete_prd_items(h) /\ ~Extract(h)
      BY <1>1, <1>2, <2>2 DEF delete_prd_items, At
    <2>3. CASE save_prd_items(h) /\ ~Extract(h) /\ ~delete_prd_items(h)
      BY <1>1, <1>2, <2>3 DEF save_prd_items, At
    <2>4. CASE save_project_overview(h)
      BY <1>1, <2>4 DEF save_project_overview, At
    <2>5. CASE MySQLFails(h) /\ ~Extract(h) /\ ~delete_prd_items(h) /\ ~save_prd_items(h)
      BY <1>1, <1>2, <2>5 DEF MySQLFails
    <2> QED BY <2>1, <2>2, <2>3, <2>4, <2>5
  <1>4. Moved(h, q)
    BY <1>3, GoesMoves
  <1>5. q = Idle \/ (q.pc = pc /\ Onward(q, r))
    BY <1>1, <1>3, ToGoesOn
  <1>6. pc = "read" /\ r.pc # "docs" => Moved(h, Idle)
    <2> SUFFICES ASSUME pc = "read", r.pc # "docs" PROVE Goes(h, Idle)
      BY GoesMoves
    <2>1. save_project_overview(h) \/ MySQLFails(h)
      BY <1>2
    <2> QED BY <1>1, <2>1 DEF save_project_overview, MySQLFails
  <1>7. pc \in {"clear", "items", "overview", "read"}
    BY <1>2
  <1>8. pc # "read" => r.ask.kind = "reanalyze"
    <2> SUFFICES ASSUME pc # "read" PROVE r.pc \in {"llm", "clear", "items"}
      BY <1>1, KindAt
    <2>1. Extract(h) \/ delete_prd_items(h) \/ save_prd_items(h)
      BY <1>2
    <2> QED BY <1>1, <2>1 DEF Extract, delete_prd_items, save_prd_items, At
  <1>9. /\ r.pc = "delete" => "torn" \in seen'
        /\ items' \in {items, NoItems, WithItems(r.content)}
        /\ overview' \in {overview, r.content}
        /\ seen' \in {seen, seen \cup {"torn"}}
        /\ UNCHANGED <<local, objects, rows, tasks, scenario, saves, last, served>>
    <2>1. CASE Extract(h)
      BY <1>1, <2>1 DEF Extract, At, stores, history
    <2>2. CASE delete_prd_items(h)
      BY <1>1, <2>2 DEF delete_prd_items, At, history
    <2>3. CASE save_prd_items(h)
      BY <1>1, <2>3 DEF save_prd_items, At, history
    <2>4. CASE save_project_overview(h)
      BY <1>1, <2>4 DEF save_project_overview, At
    <2>5. CASE MySQLFails(h)
      BY <1>1, <2>5 DEF MySQLFails, At, stores, history
    <2> QED BY <2>1, <2>2, <2>3, <2>4, <2>5
  <1>10. r.pc = "docs" /\ q # Idle => r.ask.kind # "upload"
    BY <1>3 DEF NeedsRows
  <1> QED BY <1>1, <1>4, <1>5, <1>6, <1>7, <1>8, <1>9, <1>10, IdleIs

\* What ends without its request: a step of another, a restart.
LEMMA Ending ==
    ASSUME ControlInv, TaskFails \/ Redeploy \/ \E w \in Worker : Restart(w)
    PROVE  /\ \A h \in Slot : handlers'[h] \in {Idle, handlers[h]}
           /\ tasks' \subseteq tasks
           /\ UNCHANGED <<objects, rows, items, overview, scenario, saves, last, served>>
           /\ \/ local' = local /\ seen' = seen \cup {"torn"}
              \/ /\ local' = [k \in Key |-> 0]
                 /\ seen \subseteq seen' /\ "bare" \in seen'
                 /\ seen' \subseteq seen \cup {"bare", "torn", "lost"}
                 /\ handlers' # handlers \/ tasks # {} => "torn" \in seen'
                 /\ (\E k \in Key : rows[k] # Nil /\ rows[k].path = "local") => "lost" \in seen'
                 /\ handlers' = Ended(Worker) /\ tasks' = {}
  <1>1. \A ws : handlers' = Ended(ws) => \A h \in Slot : handlers'[h] \in {Idle, handlers[h]}
    BY DEF Ended
  <1>2. CASE TaskFails
    BY <1>2 DEF TaskFails, stores, history
  <1>3. CASE \E w \in Worker : Restart(w)
    BY <1>1, <1>3 DEF Restart, stores, history
  <1>4. CASE Redeploy
    BY <1>1, <1>4 DEF Redeploy, history
  <1> QED BY <1>2, <1>3, <1>4

\* A number of a row belongs to one key, in the table and in every copy of it.
Owns(own, n, T) == \A k \in Key : T[k] # Nil => T[k].id <= n /\ own[T[k].id] = k
OwnRequest(own, n, r) ==
    /\ r.pc # "idle" /\ r.docs # Nil => Owns(own, n, r.docs)
    /\ r.pc = "put" => own[r.content] = KeyOf(r)
OwnTask(own, t) == t.kind = "record" => own[t.id] = t.key
OwnedBy(own) ==
    /\ own \in [Int -> Key]
    /\ Owns(own, saves, rows)
    /\ \A h \in Slot : OwnRequest(own, saves, handlers[h])
    /\ \A t \in tasks : OwnTask(own, t)
OwnInv == \E own : OwnedBy(own)

-----------------------------------------------------------------------------
\* What requests read and write is in bounds.

LEMMA RowIs == \A x \in Row : x # Nil /\ x.id \in Int /\ x.path \in {"object", "local"} /\ x.stage \in Stage
  BY NilAssumption DEF Row

LEMMA TableIs ==
    ASSUME NEW s, NEW T, Table(s, T)
    PROVE  /\ T # Nil
           /\ \A k \in Key : T[k] # Nil => T[k] \in Row
  BY NilAssumption DEF Table

\* If there is a PRD, its newest row is that of Top.
LEMMA NewestIs ==
    ASSUME ControlInv, NEW T, Table(scenario, T), RowsFor(T, PRD_FILENAME) # {}
    PROVE  /\ Newest(T, PRD_FILENAME) = PrdKey(scenario) /\ T[PrdKey(scenario)] # Nil
           /\ PrdKey(scenario) \in RowsFor(T, PRD_FILENAME)
  <1>1. \A k \in RowsFor(T, PRD_FILENAME) :
           k \in Key /\ T[k] # Nil /\ k.name = PRD_FILENAME /\ k.version \in 1..Top(scenario)
    BY DEF RowsFor, Table
  <1>2. PrdKey(scenario) \in RowsFor(T, PRD_FILENAME)
    <2>1. CASE Top(scenario) = 1
      <3>1. PICK k \in RowsFor(T, PRD_FILENAME) : TRUE
        OBVIOUS
      <3>2. k.version = Top(scenario)
        BY <1>1, <2>1, <3>1
      <3> QED BY <1>1, <3>1, <3>2, Tops
    <2>2. CASE Top(scenario) # 1
      BY <2>2, Tops DEF Table, RowsFor
    <2> QED BY <2>1, <2>2
  <1>3. \A j \in RowsFor(T, PRD_FILENAME) : j.version <= PrdKey(scenario).version
    BY <1>1, Tops
  <1>4. \A k \in RowsFor(T, PRD_FILENAME) :
           (\A j \in RowsFor(T, PRD_FILENAME) : j.version <= k.version) => k = PrdKey(scenario)
    <2> SUFFICES ASSUME NEW k \in RowsFor(T, PRD_FILENAME), \A j \in RowsFor(T, PRD_FILENAME) : j.version <= k.version
                 PROVE  k = PrdKey(scenario)
      OBVIOUS
    <2>1. Top(scenario) <= k.version
      BY <1>2, Tops
    <2>2. k.version = Top(scenario)
      BY <1>1, <2>1, Tops
    <2> QED BY <1>1, <2>2, Tops
  <1> QED BY <1>1, <1>2, <1>3, <1>4 DEF Newest

LEMMA FirstIs ==
    ASSUME ControlInv, NEW T, Table(scenario, T), RowsFor(T, PRD_FILENAME) # {}
    PROVE  FirstPrd(T) \in Key
  <1> DEFINE R == RowsFor(T, PRD_FILENAME)
  <1> DEFINE at(v) == [name |-> PRD_FILENAME, version |-> v]
  <1>1. \A k \in R : k \in {at(0), at(1), at(2)} /\ T[k].id \in Int
    <2>1. \A k \in R : k \in Key /\ T[k] # Nil /\ k.name = PRD_FILENAME
      BY DEF RowsFor
    <2>2. \A k \in R : T[k].id \in Int
      BY <2>1, TableIs, RowIs
    <2>3. \A k \in R : k.version \in {0, 1, 2} /\ k = at(k.version)
      BY <2>1, Keys
    <2> QED BY <2>2, <2>3
  <1>2. R # {} /\ R \subseteq Key
    BY DEF RowsFor
  <1> HIDE DEF R
  <1>3. PICK a, b, c : a = at(0) /\ b = at(1) /\ c = at(2)
    OBVIOUS
  <1>4. R \subseteq {a, b, c} /\ \A k \in R : T[k].id \in Int
    BY <1>1, <1>3
  <1>5. \E k \in R : \A j \in R : T[k].id <= T[j].id
    BY <1>2, <1>4
  <1>6. FirstPrd(T) \in R
    BY <1>5 DEF FirstPrd, R
  <1> QED BY <1>2, <1>6

LEMMA FallbackIs ==
    ASSUME ControlInv, StoreInv, NEW v \in 0..2
    PROVE  Fallback(PRD_FILENAME, v) \in 0..saves
  <1>1. latest_version \in 0..2
    BY LatestIs, Tops
  <1>2. PICK u \in 0..2 : u = IF v # 0 THEN v ELSE IF latest_version = 0 THEN 1 ELSE latest_version
    BY <1>1
  <1>3. [name |-> PRD_FILENAME, version |-> u] \in Key
    BY Keys
  <1>4. Fallback(PRD_FILENAME, v) = local[[name |-> PRD_FILENAME, version |-> u]]
    BY <1>2 DEF Fallback
  <1> QED BY <1>3, <1>4 DEF StoreInv

LEMMA ContentIs ==
    ASSUME ControlInv, StoreInv, NEW r, r.docs # Nil => Table(scenario, r.docs), NEW works
    PROVE  Content(r, works) \in 0..saves
  <1>1. ASSUME r.docs # Nil, RowsFor(r.docs, PRD_FILENAME) # {} PROVE Chosen(r) \in Key
    BY <1>1, NewestIs, FirstIs, Tops DEF Chosen
  <1>2. FromMinio(r, works) \in 0..saves
    <2>1. CASE works /\ r.docs # Nil /\ RowsFor(r.docs, PRD_FILENAME) # {} /\ r.docs[Chosen(r)].path = "object"
      BY <1>1, <2>1 DEF FromMinio, StoreInv
    <2>2. CASE ~(works /\ r.docs # Nil /\ RowsFor(r.docs, PRD_FILENAME) # {} /\ r.docs[Chosen(r)].path = "object")
      <3>1. FromMinio(r, works) = 0
        BY <2>2 DEF FromMinio
      <3> QED BY <3>1 DEF StoreInv
    <2> QED BY <2>1, <2>2
  <1>3. Fallback(PRD_FILENAME, 0) \in 0..saves
    BY FallbackIs
  <1>4. r.docs # Nil /\ RowsFor(r.docs, PRD_FILENAME) # {} => Fallback(PRD_FILENAME, Chosen(r).version) \in 0..saves
    <2> SUFFICES ASSUME r.docs # Nil, RowsFor(r.docs, PRD_FILENAME) # {}
                 PROVE  Fallback(PRD_FILENAME, Chosen(r).version) \in 0..saves
      OBVIOUS
    <2>1. Chosen(r).version \in 0..2
      BY <1>1, Keys
    <2> QED BY <2>1, FallbackIs
  <1> QED BY <1>2, <1>3, <1>4 DEF Content

LEMMA SaveIs ==
    ASSUME ControlInv, StoreInv, NEW r, r.docs # Nil => Table(scenario, r.docs), Uploading(r) => r.docs # Nil, r.pc = "local"
    PROVE  SaveVersion(r) \in 1..Top(scenario) /\ (r.ask.kind = "upload" => SaveVersion(r) = Top(scenario))
  <1>1. CASE r.ask.kind = "upload"
    <2>1. Table(scenario, r.docs)
      BY <1>1 DEF Uploading
    <2> QED BY <1>1, <2>1, TargetIs, Tops DEF SaveVersion
  <1>2. CASE r.ask.kind # "upload"
    BY <1>2, LatestIs, Tops DEF SaveVersion
  <1> QED BY <1>1, <1>2

LEMMA AskIs ==
    ASSUME NEW a \in Ask
    PROVE  /\ a.kind \in {"upload", "agent"} => a.name \in Name /\ a.stage \in Stage
           /\ a.kind = "upload" => a.name = PRD_FILENAME /\ a.stage = PRD_STAGE
  <1>1. a.kind = "upload" => a.name = PRD_FILENAME /\ a.stage = PRD_STAGE
    BY DEF Ask
  <1>2. a.kind = "agent" => a.name \in Name /\ a.stage \in Stage
    BY DEF Ask
  <1>3. PRD_STAGE \in Stage
    BY DEF Stage
  <1> QED BY <1>1, <1>2, <1>3, Keys

\* Where a save writes.
LEMMA KeyIs ==
    ASSUME ControlInv, NEW r, Request(r), r.ask.kind \in {"upload", "agent"}, r.target \in 1..Top(scenario)
    PROVE  /\ KeyOf(r) \in Key /\ KeyOf(r).name = r.ask.name /\ KeyOf(r).version = r.target
           /\ r.ask.kind = "upload" /\ r.target = Top(scenario) => KeyOf(r) = PrdKey(scenario)
  <1>1. r.ask \in Ask
    BY DEF Request
  <1>2. r.ask.name \in Name /\ r.target \in 0..2 /\ (r.ask.kind = "upload" => r.ask.name = PRD_FILENAME)
    BY <1>1, AskIs, Tops
  <1> QED BY <1>2, Keys DEF KeyOf, PrdKey
-----------------------------------------------------------------------------
\* The types and versions are kept.

LEMMA MoreSaves ==
    ASSUME NEW s, NEW n \in Nat, NEW m \in Nat, n <= m
    PROVE  /\ \A r : RequestOk(s, n, r) => RequestOk(s, m, r)
           /\ \A t : TaskOk(s, n, t) => TaskOk(s, m, t)
  <1>1. \A x : x \in 0..n => x \in 0..m
    OBVIOUS
  <1>2. \A x : x \in 1..n => x \in 1..m
    OBVIOUS
  <1> QED BY <1>1, <1>2 DEF RequestOk, TaskOk, RecordOk

\* A request that goes on unchanged, and one that ends.
LEMMA OnwardOk ==
    ASSUME NEW s, NEW n, NEW r, NEW q, RequestOk(s, n, r), r.pc # "idle", Onward(q, r), Writes(r) = Writes(q),
           Uploading(q) => Uploading(r), Saved(q) => Saved(r)
    PROVE  RequestOk(s, n, q)
  BY DEF RequestOk, Onward

LEMMA IdleOk == \A s, n : RequestOk(s, n, Idle)
  BY DEF RequestOk, Idle

LEMMA StoreRequests ==
    ASSUME StoreInv, scenario' = scenario, saves' \in Nat, saves <= saves', NEW h \in Slot, NEW q, Moved(h, q),
           RequestOk(scenario, saves', q)
    PROVE  \A g \in Slot : RequestOk(scenario', saves', handlers'[g])
  <1>1. \A g \in Slot : RequestOk(scenario, saves', handlers[g])
    BY MoreSaves DEF StoreInv
  <1> QED BY <1>1 DEF Moved

\* Steps of a request that write to no store.
LEMMA StoreQuiet ==
    ASSUME StoreInv, NEW h \in Slot, NEW q, Moved(h, q), RequestOk(scenario, saves, q),
           UNCHANGED <<local, objects, rows, items, overview, tasks, scenario, saves, last>>
    PROVE  StoreInv'
  <1>1. saves \in Nat /\ saves <= saves
    BY DEF StoreInv
  <1>2. \A g \in Slot : RequestOk(scenario', saves', handlers'[g])
    BY <1>1, StoreRequests
  <1> QED BY <1>2 DEF StoreInv

LEMMA StoreArrive ==
    ASSUME ControlInv, StoreInv, NEW h \in Slot, Arrive(h)
    PROVE  StoreInv'
  <1>1. PICK q : /\ Moved(h, q) /\ q.ask \in Ask /\ q.pc = FirstStep(q.ask) /\ q.w \in Worker
                 /\ q.docs = Nil /\ q.content = 0
                 /\ Writes(q) => MayWrite(scenario, q.ask.name, q.ask.stage)
    BY Arriving
  <1>2. q.pc \in {"local", "docs", "read"} /\ (q.pc = "local" => q.ask.kind = "agent")
    BY <1>1 DEF FirstStep
  <1>3. RequestOk(scenario, saves, q)
    BY <1>1, <1>2 DEF RequestOk, Uploading, Saved, StoreInv
  <1> QED BY <1>1, <1>3, StoreQuiet DEF Arrive, stores, history

LEMMA StoreGet ==
    ASSUME ControlInv, StoreInv, NEW h \in Slot, get_documents(h)
    PROVE  StoreInv'
  <1>1. PICK r : r = handlers[h]
    OBVIOUS
  <1>2. PICK q : /\ Moved(h, q) /\ r.pc = "docs"
                 /\ \/ q = Idle
                    \/ /\ q.pc = IF r.ask.kind = "upload" THEN "local" ELSE "read"
                       /\ q.ask = r.ask /\ q.w = r.w /\ q.docs = rows /\ q.content = r.content
    BY <1>1, Getting
  <1>3. Table(scenario, rows) /\ rows # Nil
    BY TableIs DEF StoreInv
  <1>4. RequestOk(scenario, saves, r)
    BY <1>1 DEF StoreInv
  <1>5. RequestOk(scenario, saves, q)
    <2>1. CASE q = Idle
      BY <2>1, IdleOk
    <2>2. CASE q # Idle
      BY <1>2, <1>3, <1>4, <2>2 DEF RequestOk, Saved, Writes
    <2> QED BY <2>1, <2>2
  <1> QED BY <1>2, <1>5, StoreQuiet DEF get_documents, stores, history

LEMMA StoreWrite ==
    ASSUME ControlInv, StoreInv, NEW h \in Slot, WriteLocal(h)
    PROVE  StoreInv'
  <1>1. PICK r : r = handlers[h]
    OBVIOUS
  <1>2. PICK q : /\ Moved(h, q) /\ Request(r) /\ r.pc = "local" /\ r.ask.kind \in {"upload", "agent"}
                 /\ q.pc = "put" /\ q.ask = r.ask /\ q.w = r.w /\ q.docs = r.docs
                 /\ q.target = SaveVersion(r) /\ q.content = saves + 1
                 /\ local' = [local EXCEPT ![KeyOf(q)] = saves + 1]
                 /\ saves' = saves + 1 /\ last' = [last EXCEPT ![r.ask.name] = saves + 1]
                 /\ UNCHANGED <<objects, rows, items, overview, tasks, scenario>>
    BY <1>1, WritingLocal
  <1>3. RequestOk(scenario, saves, r) /\ saves \in Nat \ {0}
    BY <1>1 DEF StoreInv
  <1>4. q.target \in 1..Top(scenario) /\ (q.ask.kind = "upload" => q.target = Top(scenario))
    <2>1. (r.docs # Nil => Table(scenario, r.docs)) /\ (Uploading(r) => r.docs # Nil)
      BY <1>2, <1>3 DEF RequestOk
    <2> QED BY <1>2, <2>1, SaveIs
  <1>5. KeyOf(q) \in Key /\ KeyOf(q).version \in 1..Top(scenario)
    <2>1. r.ask \in Ask
      BY <1>2 DEF Request
    <2>2. r.ask.name \in Name /\ q.target \in 0..2
      BY <1>2, <1>4, <2>1, AskIs, Tops
    <2> QED BY <1>2, <1>4, <2>2, Keys DEF KeyOf
  <1>6. RequestOk(scenario, saves', q)
    <2>1. q.content \in 0..saves' /\ Writes(q) = Writes(r) /\ (Uploading(q) => Uploading(r))
      BY <1>2, <1>3 DEF Writes, Uploading
    <2> QED BY <1>2, <1>3, <1>4, <2>1 DEF RequestOk
  <1>7. \A g \in Slot : RequestOk(scenario', saves', handlers'[g])
    BY <1>2, <1>3, <1>6, StoreRequests
  <1>8. \A t \in tasks' : TaskOk(scenario', saves', t)
    <2>1. \A t \in tasks : TaskOk(scenario, saves, t)
      BY DEF StoreInv
    <2> QED BY <1>2, <1>3, <2>1, MoreSaves
  <1>9. /\ local' \in [Key -> 0..saves'] /\ objects' \in [Key -> 0..saves'] /\ last' \in [Name -> 0..saves']
        /\ items' \in [Item -> 0..saves'] /\ overview' \in 0..saves'
    <2>1. \A x \in 0..saves : x \in 0..saves'
      BY <1>2, <1>3
    <2>2. saves + 1 \in 0..saves'
      BY <1>2, <1>3
    <2> QED BY <1>2, <2>1, <2>2 DEF StoreInv
  <1>10. \A k \in Key : local'[k] # 0 => k.version \in 1..Top(scenario')
    BY <1>2, <1>5 DEF StoreInv
  <1> QED BY <1>2, <1>3, <1>7, <1>8, <1>9, <1>10 DEF StoreInv

\* What a save leaves to tasks.
LEMMA LeavesOk ==
    ASSUME ControlInv, StoreInv, NEW r, Request(r), RequestOk(scenario, saves, r), r.pc = "put",
           r.ask.kind \in {"upload", "agent"}, NEW u \in BOOLEAN, u => scenario.minio
    PROVE  /\ TaskOk(scenario, saves, Record(r, u)) /\ Record(r, u).kind = "record"
           /\ Record(r, u).key = KeyOf(r) /\ Record(r, u).id = r.content
           /\ Record(r, u).path = (IF u THEN "object" ELSE "local") /\ Record(r, u).stage = r.ask.stage
           /\ \A t \in Planned(r) : TaskOk(scenario, saves, t) /\ t.kind # "record"
  <1>1. /\ r.ask \in Ask /\ r.target \in 1..Top(scenario) /\ MayWrite(scenario, r.ask.name, r.ask.stage)
        /\ r.content \in 1..saves
    BY DEF StoreInv, Request, RequestOk, Saved, Writes
  <1>2. KeyOf(r) \in Key /\ KeyOf(r).name = r.ask.name /\ KeyOf(r).version = r.target
    BY <1>1, KeyIs
  <1>3. Record(r, u) = [kind |-> "record", w |-> r.w, key |-> KeyOf(r), path |-> IF u THEN "object" ELSE "local",
                        stage |-> r.ask.stage, id |-> r.content]
    BY DEF Record, StoredPath
  <1>4. r.ask.stage \in Stage
    BY <1>1, AskIs
  <1>5. RecordOk(scenario, saves, Record(r, u))
    BY <1>1, <1>2, <1>3, <1>4 DEF RecordOk
  <1>6. \A t \in Planned(r) : t.kind \in {"overview", "items"} /\ t.content = r.content
    BY DEF Planned
  <1>7. \A t \in Planned(r) : TaskOk(scenario, saves, t) /\ t.kind # "record"
    BY <1>1, <1>6 DEF TaskOk, StoreInv
  <1> QED BY <1>3, <1>5, <1>7 DEF TaskOk

LEMMA StorePut ==
    ASSUME ControlInv, StoreInv, NEW h \in Slot, PutObject(h) \/ PutFails(h)
    PROVE  StoreInv'
  <1>1. PICK r : r = handlers[h]
    OBVIOUS
  <1>2. PICK u, q :
            /\ u \in BOOLEAN /\ (u => scenario.minio)
            /\ Moved(h, q) /\ Request(r) /\ r.pc = "put" /\ r.ask.kind \in {"upload", "agent"}
            /\ \/ r.ask.kind = "upload" /\ q.pc = "clean" /\ Onward(q, r)
               \/ r.ask.kind = "agent" /\ q = Idle
            /\ objects' = IF u THEN [objects EXCEPT ![KeyOf(r)] = r.content] ELSE objects
            /\ tasks' = tasks \cup {Record(r, u)} \cup Planned(r)
            /\ UNCHANGED <<local, rows, items, overview, scenario, saves, last>>
    BY <1>1, Putting
  <1>3. RequestOk(scenario, saves, r) /\ saves \in Nat \ {0}
    BY <1>1 DEF StoreInv
  <1>4. RequestOk(scenario, saves, q)
    <2>1. CASE q = Idle
      BY <2>1, IdleOk
    <2>2. CASE r.ask.kind = "upload" /\ q.pc = "clean" /\ Onward(q, r)
      BY <1>2, <1>3, <2>2, OnwardOk DEF Onward, Writes, Uploading, Saved
    <2> QED BY <1>2, <2>1, <2>2
  <1>5. \A g \in Slot : RequestOk(scenario', saves', handlers'[g])
    BY <1>2, <1>3, <1>4, StoreRequests
  <1>6. \A t \in tasks' : TaskOk(scenario', saves', t)
    BY <1>1, <1>2, <1>3, LeavesOk DEF StoreInv
  <1>7. objects' \in [Key -> 0..saves']
    <2>1. r.content \in 0..saves
      BY <1>2, <1>3 DEF RequestOk
    <2>2. CASE u
      BY <1>2, <2>1, <2>2 DEF StoreInv
    <2>3. CASE ~u
      BY <1>2, <2>3 DEF StoreInv
    <2> QED BY <2>2, <2>3
  <1> QED BY <1>2, <1>5, <1>6, <1>7 DEF StoreInv

LEMMA StoreClean ==
    ASSUME ControlInv, StoreInv, NEW h \in Slot, CleanStale(h) \/ RemoveFails(h)
    PROVE  StoreInv'
  <1>1. PICK r : r = handlers[h]
    OBVIOUS
  <1>2. PICK removed, q :
            /\ Moved(h, q) /\ Request(r) /\ r.pc = "clean" /\ r.ask.kind = "upload"
            /\ \/ Stale(r) = {} /\ q = Idle
               \/ q.pc = "delete" /\ Onward(q, r)
            /\ objects' = Without(objects, {k \in removed : InMinio(r, k)})
            /\ local' = Without(local, {k \in removed : r.docs[k].path = "local"})
            /\ UNCHANGED <<rows, items, overview, tasks, scenario, saves, last>>
    BY <1>1, Cleaning
  <1>3. RequestOk(scenario, saves, r) /\ saves \in Nat \ {0}
    BY <1>1 DEF StoreInv
  <1>4. RequestOk(scenario, saves, q)
    BY <1>2, <1>3, IdleOk, OnwardOk DEF Onward, Writes, Uploading, Saved
  <1>5. \A g \in Slot : RequestOk(scenario', saves', handlers'[g])
    BY <1>2, <1>3, <1>4, StoreRequests
  <1>6. \A S, f : f \in [Key -> 0..saves] => /\ Without(f, S) \in [Key -> 0..saves]
                                           /\ \A k \in Key : Without(f, S)[k] # 0 => f[k] # 0
    BY <1>3 DEF Without
  <1>7. /\ local' \in [Key -> 0..saves] /\ objects' \in [Key -> 0..saves]
        /\ \A k \in Key : local'[k] # 0 => local[k] # 0
    BY <1>2, <1>6 DEF StoreInv
  <1> QED BY <1>2, <1>5, <1>7 DEF StoreInv

LEMMA StoreRead ==
    ASSUME ControlInv, StoreInv, NEW h \in Slot, ReadContent(h) \/ GetFails(h)
    PROVE  StoreInv'
  <1>1. PICK r : r = handlers[h]
    OBVIOUS
  <1>2. PICK works, q :
            /\ Moved(h, q) /\ r.pc = "read"
            /\ \/ q = Idle
               \/ /\ q.pc = "llm" /\ q.ask = r.ask /\ q.w = r.w /\ q.docs = r.docs
                  /\ q.content = Content(r, works)
            /\ UNCHANGED <<local, objects, rows, items, overview, tasks, scenario, saves, last>>
    BY <1>1, Reading
  <1>3. RequestOk(scenario, saves, r)
    BY <1>1 DEF StoreInv
  <1>4. Content(r, works) \in 0..saves
    BY <1>2, <1>3, ContentIs DEF RequestOk
  <1>5. RequestOk(scenario, saves, q)
    <2>1. CASE q = Idle
      BY <2>1, IdleOk
    <2>2. CASE q # Idle
      BY <1>2, <1>3, <1>4, <2>2 DEF RequestOk, Uploading, Saved, Writes
    <2> QED BY <2>1, <2>2
  <1> QED BY <1>2, <1>5, StoreQuiet

LEMMA StoreGoes ==
    ASSUME ControlInv, StoreInv, NEW h \in Slot,
           \/ Extract(h) \/ delete_prd_items(h) \/ save_prd_items(h) \/ save_project_overview(h) \/ MySQLFails(h)
    PROVE  StoreInv'
  <1>1. PICK r : r = handlers[h]
    OBVIOUS
  <1>2. PICK q :
            /\ Moved(h, q) /\ Request(r) /\ r.pc \in {"docs", "delete", "llm", "clear", "items", "overview"}
            /\ \/ q = Idle
               \/ q.pc \in {"clear", "items", "overview"} /\ Onward(q, r)
               \/ r.pc = "docs" /\ q.pc = "read" /\ Onward(q, r)
            /\ items' \in {items, NoItems, WithItems(r.content)}
            /\ overview' \in {overview, r.content}
            /\ UNCHANGED <<local, objects, rows, tasks, scenario, saves, last>>
    BY <1>1, Going
  <1>3. RequestOk(scenario, saves, r) /\ saves \in Nat \ {0}
    BY <1>1 DEF StoreInv
  <1>4. RequestOk(scenario, saves, q)
    BY <1>2, <1>3, IdleOk, OnwardOk DEF Onward, Writes, Uploading, Saved
  <1>5. \A g \in Slot : RequestOk(scenario', saves', handlers'[g])
    BY <1>2, <1>3, <1>4, StoreRequests
  <1>6. r.content \in 0..saves
    BY <1>2, <1>3 DEF RequestOk
  <1>7. items' \in [Item -> 0..saves] /\ overview' \in 0..saves
    BY <1>2, <1>3, <1>6 DEF StoreInv, NoItems, WithItems
  <1> QED BY <1>2, <1>5, <1>7 DEF StoreInv

LEMMA StoreEnd ==
    ASSUME ControlInv, StoreInv, TaskFails \/ Redeploy \/ \E w \in Worker : Restart(w)
    PROVE  StoreInv'
  <1>1. /\ \A h \in Slot : handlers'[h] \in {Idle, handlers[h]}
        /\ tasks' \subseteq tasks
        /\ UNCHANGED <<objects, rows, items, overview, scenario, saves, last>>
        /\ local' \in {local, [k \in Key |-> 0]}
    BY Ending
  <1>2. \A h \in Slot : RequestOk(scenario, saves, handlers'[h])
    BY <1>1, IdleOk DEF StoreInv
  <1>3. local' \in [Key -> 0..saves] /\ \A k \in Key : local'[k] # 0 => k.version \in 1..Top(scenario)
    BY <1>1 DEF StoreInv
  <1> QED BY <1>1, <1>2, <1>3 DEF StoreInv

LEMMA StoreTask ==
    ASSUME ControlInv, StoreInv, RunTask
    PROVE  StoreInv'
  <1>1. PICK t \in tasks : /\ save_document_record(t) \/ persist_prd_items(t) \/ persist_project_overview(t)
                           /\ tasks' = tasks \ {t}
                           /\ UNCHANGED <<local, objects, handlers, scenario, saves, last>>
    BY DEF RunTask, history
  <1>2. TaskOk(scenario, saves, t) /\ saves \in Nat \ {0}
    BY DEF StoreInv
  <1>3. CASE save_document_record(t)
    <2>1. RecordOk(scenario, saves, t)
      BY <1>2, <1>3 DEF TaskOk, save_document_record
    <2>2. PICK x : x = [id |-> IF rows[t.key] = Nil THEN t.id ELSE rows[t.key].id, path |-> t.path, stage |-> t.stage]
      OBVIOUS
    <2>3. rows' = [rows EXCEPT ![t.key] = x] /\ UNCHANGED <<items, overview>>
      BY <1>3, <2>2 DEF save_document_record
    <2>4. rows[t.key] # Nil => rows[t.key].id \in Int
      BY <2>1, TableIs, RowIs DEF StoreInv, RecordOk
    <2>5. x \in Row /\ x # Nil
      <3>1. x \in Row
        BY <2>1, <2>2, <2>4 DEF RecordOk, Row
      <3> QED BY <3>1, RowIs
    <2>6. IsPrd(t.key, x) => t.key.name = PRD_FILENAME
      BY <2>1, <2>2 DEF RecordOk, MayWrite, IsPrd
    <2>7. Table(scenario, rows')
      <3>1. Table(scenario, rows) /\ t.key \in Key
        BY <2>1 DEF StoreInv, RecordOk
      <3>2. rows' \in [Key -> Row \cup {Nil}] /\ rows'[t.key] = x /\ \A k \in Key \ {t.key} : rows'[k] = rows[k]
        BY <2>3, <2>5, <3>1 DEF Table
      <3>3. Top(scenario) = 1 \/ rows'[PrdKey(scenario)] # Nil
        BY <2>5, <3>1, <3>2, Tops DEF Table
      <3>4. \A k \in Key : rows'[k] # Nil =>
              /\ k.version \in 1..Top(scenario) /\ (rows'[k].path = "object" => scenario.minio)
              /\ IsPrd(k, rows'[k]) => k.name = PRD_FILENAME \/ OldName(scenario, k.name)
              /\ OldName(scenario, k.name) => k \in DOMAIN scenario.left /\ rows'[k] = scenario.left[k]
        BY <2>1, <2>2, <2>6, <3>1, <3>2 DEF Table, RecordOk, MayWrite
      <3> QED BY <3>2, <3>3, <3>4 DEF Table
    <2> QED BY <1>1, <2>3, <2>7 DEF StoreInv
  <1>4. CASE persist_prd_items(t) \/ persist_project_overview(t)
    <2>1. t.content \in 0..saves /\ rows' = rows
      BY <1>2, <1>4 DEF TaskOk, persist_prd_items, persist_project_overview
    <2>2. items' \in [Item -> 0..saves] /\ overview' \in 0..saves
      BY <1>4, <2>1 DEF StoreInv, persist_prd_items, persist_project_overview, WithItems
    <2> QED BY <1>1, <2>1, <2>2 DEF StoreInv
  <1> QED BY <1>1, <1>3, <1>4

-----------------------------------------------------------------------------
\* Numbers of rows keep their keys.

LEMMA OwnRequests ==
    ASSUME NEW own, OwnedBy(own), NEW h \in Slot, NEW q, Moved(h, q), OwnRequest(own, saves, q), saves' = saves
    PROVE  \A g \in Slot : OwnRequest(own, saves', handlers'[g])
  BY DEF OwnedBy, Moved

LEMMA OwnOnward ==
    ASSUME NEW own, NEW n, NEW r, NEW q, OwnRequest(own, n, r), r.pc # "idle", q.docs = r.docs, q.pc # "put"
    PROVE  OwnRequest(own, n, q)
  BY DEF OwnRequest

LEMMA OwnIdle == \A own, n : OwnRequest(own, n, Idle)
  BY DEF OwnRequest, Idle

\* Steps that only take rows away and write no task.
LEMMA OwnQuiet ==
    ASSUME NEW own, OwnedBy(own), saves' = saves, tasks' \subseteq tasks,
           \A k \in Key : rows'[k] \in {rows[k], Nil},
           \A g \in Slot : OwnRequest(own, saves, handlers'[g])
    PROVE  OwnedBy(own)'
  BY DEF OwnedBy, Owns

LEMMA OwnWrite ==
    ASSUME ControlInv, StoreInv, OwnInv, NEW h \in Slot, WriteLocal(h)
    PROVE  OwnInv'
  <1>1. PICK own : OwnedBy(own)
    BY DEF OwnInv
  <1>2. PICK r : r = handlers[h]
    OBVIOUS
  <1>3. PICK q : /\ Moved(h, q) /\ Request(r) /\ r.pc = "local" /\ r.ask.kind \in {"upload", "agent"}
                 /\ q.pc = "put" /\ q.ask = r.ask /\ q.docs = r.docs /\ q.content = saves + 1
                 /\ q.target = SaveVersion(r)
                 /\ saves' = saves + 1 /\ UNCHANGED <<rows, tasks, scenario>>
    BY <1>2, WritingLocal
  <1>4. saves \in Nat \ {0} /\ RequestOk(scenario, saves, r)
    BY <1>2 DEF StoreInv
  <1>5. KeyOf(q) \in Key
    <2>1. (r.docs # Nil => Table(scenario, r.docs)) /\ (Uploading(r) => r.docs # Nil)
      BY <1>3, <1>4 DEF RequestOk
    <2>2. q.target \in 0..2
      BY <1>3, <2>1, SaveIs, Tops
    <2>3. r.ask.name \in Name
      BY <1>3, AskIs DEF Request
    <2> QED BY <1>3, <2>2, <2>3, Keys DEF KeyOf
  <1>6. PICK new : new = [own EXCEPT ![saves + 1] = KeyOf(q)]
    OBVIOUS
  <1>7. /\ new \in [Int -> Key] /\ new[saves + 1] = KeyOf(q)
        /\ \A i \in Int : i <= saves => new[i] = own[i]
    BY <1>1, <1>4, <1>5, <1>6 DEF OwnedBy
  <1>8. ASSUME NEW T, Table(scenario, T), Owns(own, saves, T) PROVE Owns(new, saves + 1, T)
    <2>1. \A k \in Key : T[k] # Nil => T[k].id \in Int
      BY <1>8, TableIs, RowIs
    <2>2. \A i \in Int : i <= saves => i <= saves + 1
      BY <1>4
    <2> QED BY <1>7, <1>8, <2>1, <2>2 DEF Owns
  <1>9. \A g \in Slot : OwnRequest(new, saves', handlers'[g])
    <2>1. ASSUME NEW g \in Slot, g # h PROVE OwnRequest(new, saves + 1, handlers[g])
      <3>1. OwnRequest(own, saves, handlers[g]) /\ RequestOk(scenario, saves, handlers[g])
        BY <1>1 DEF OwnedBy, StoreInv
      <3>2. handlers[g].pc = "put" => handlers[g].content \in Int /\ handlers[g].content <= saves
        BY <1>4, <3>1 DEF RequestOk
      <3> QED BY <1>7, <1>8, <3>1, <3>2 DEF OwnRequest, RequestOk
    <2>2. OwnRequest(new, saves + 1, q)
      <3>1. OwnRequest(own, saves, r)
        BY <1>1, <1>2 DEF OwnedBy
      <3> QED BY <1>3, <1>4, <1>7, <1>8, <3>1 DEF OwnRequest, RequestOk
    <2> QED BY <1>3, <2>1, <2>2 DEF Moved
  <1>10. \A t \in tasks' : OwnTask(new, t)
    <2> SUFFICES ASSUME NEW t \in tasks, t.kind = "record" PROVE new[t.id] = t.key
      BY <1>3 DEF OwnTask
    <2>1. own[t.id] = t.key
      BY <1>1 DEF OwnedBy, OwnTask
    <2>2. t.id \in Int /\ t.id <= saves
      BY <1>4 DEF StoreInv, TaskOk, RecordOk
    <2> QED BY <1>7, <2>1, <2>2
  <1>11. Owns(new, saves', rows')
    BY <1>1, <1>3, <1>8 DEF StoreInv, OwnedBy
  <1>12. OwnedBy(new)'
    BY <1>7, <1>9, <1>10, <1>11 DEF OwnedBy
  <1> QED BY <1>12 DEF OwnInv

LEMMA OwnPut ==
    ASSUME ControlInv, StoreInv, OwnInv, NEW h \in Slot, PutObject(h) \/ PutFails(h)
    PROVE  OwnInv'
  <1>1. PICK own : OwnedBy(own)
    BY DEF OwnInv
  <1>2. PICK r : r = handlers[h]
    OBVIOUS
  <1>3. PICK u, q :
            /\ u \in BOOLEAN /\ (u => scenario.minio)
            /\ Moved(h, q) /\ Request(r) /\ r.pc = "put" /\ r.ask.kind \in {"upload", "agent"}
            /\ \/ r.ask.kind = "upload" /\ q.pc = "clean" /\ Onward(q, r)
               \/ r.ask.kind = "agent" /\ q = Idle
            /\ tasks' = tasks \cup {Record(r, u)} \cup Planned(r)
            /\ UNCHANGED <<rows, saves>>
    BY <1>2, Putting
  <1>4. RequestOk(scenario, saves, r) /\ OwnRequest(own, saves, r)
    BY <1>1, <1>2 DEF StoreInv, OwnedBy
  <1>5. OwnRequest(own, saves, q)
    BY <1>3, <1>4, OwnOnward, OwnIdle DEF Onward
  <1>6. \A g \in Slot : OwnRequest(own, saves', handlers'[g])
    BY <1>1, <1>3, <1>5, OwnRequests
  <1>7. \A t \in tasks' : OwnTask(own, t)
    <2>1. OwnTask(own, Record(r, u))
      BY <1>3, <1>4, LeavesOk DEF OwnTask, OwnRequest
    <2>2. \A t \in Planned(r) : OwnTask(own, t)
      BY <1>3, <1>4, LeavesOk DEF OwnTask
    <2> QED BY <1>1, <1>3, <2>1, <2>2 DEF OwnedBy
  <1>8. OwnedBy(own)'
    BY <1>1, <1>3, <1>6, <1>7 DEF OwnedBy
  <1> QED BY <1>8 DEF OwnInv

LEMMA OwnTasks ==
    ASSUME StoreInv, OwnInv, RunTask
    PROVE  OwnInv'
  <1>1. PICK own : OwnedBy(own)
    BY DEF OwnInv
  <1>2. PICK t \in tasks : /\ save_document_record(t) \/ rows' = rows
                           /\ tasks' = tasks \ {t} /\ UNCHANGED <<handlers, saves>>
    BY DEF RunTask, persist_prd_items, persist_project_overview
  <1>3. Owns(own, saves, rows')
    <2>1. CASE rows' = rows
      BY <1>1, <2>1 DEF OwnedBy
    <2>2. CASE save_document_record(t)
      <3>1. RecordOk(scenario, saves, t) /\ own[t.id] = t.key /\ saves \in Nat
        BY <1>1, <2>2 DEF StoreInv, TaskOk, OwnedBy, OwnTask, save_document_record
      <3>2. PICK x : x = [id |-> IF rows[t.key] = Nil THEN t.id ELSE rows[t.key].id, path |-> t.path, stage |-> t.stage]
        OBVIOUS
      <3>3. rows' = [rows EXCEPT ![t.key] = x]
        BY <2>2, <3>2 DEF save_document_record
      <3>4. DOMAIN rows = Key
        BY DEF StoreInv, Table
      <3>5. Owns(own, saves, rows)
        BY <1>1 DEF OwnedBy
      <3>6. x.id <= saves /\ own[x.id] = t.key
        BY <3>1, <3>2, <3>5 DEF Owns, RecordOk
      <3> QED BY <3>3, <3>4, <3>5, <3>6 DEF Owns
    <2> QED BY <1>2, <2>1, <2>2
  <1>4. OwnedBy(own)'
    BY <1>1, <1>2, <1>3 DEF OwnedBy
  <1> QED BY <1>4 DEF OwnInv

LEMMA OwnStays ==
    ASSUME ControlInv, StoreInv, OwnInv, [Next]_vars
    PROVE  OwnInv'
  <1>1. PICK own : OwnedBy(own)
    BY DEF OwnInv
  <1>2. ASSUME NEW h \in Slot, NEW q, Moved(h, q), OwnRequest(own, saves, q), saves' = saves, tasks' \subseteq tasks,
               \A k \in Key : rows'[k] \in {rows[k], Nil}
        PROVE  OwnInv'
    BY <1>1, <1>2, OwnRequests, OwnQuiet DEF OwnInv
  <1>3. ASSUME NEW h \in Slot, Arrive(h) PROVE OwnInv'
    <2>1. PICK q : Moved(h, q) /\ q.docs = Nil /\ q.pc = FirstStep(q.ask)
      BY <1>3, Arriving
    <2>2. OwnRequest(own, saves, q)
      BY <2>1 DEF OwnRequest, FirstStep
    <2> QED BY <1>2, <1>3, <2>1, <2>2 DEF Arrive, stores
  <1>4. ASSUME NEW h \in Slot, get_documents(h) PROVE OwnInv'
    <2>1. PICK q : Moved(h, q) /\ (q = Idle \/ (q.docs = rows /\ q.pc \in {"local", "read"}))
      BY <1>4, Getting
    <2>2. OwnRequest(own, saves, q)
      BY <1>1, <2>1, OwnIdle DEF OwnRequest, OwnedBy
    <2> QED BY <1>2, <1>4, <2>1, <2>2 DEF get_documents, stores
  <1>5. ASSUME NEW h \in Slot, NEW q, Moved(h, q), q = Idle \/ (handlers[h].pc # "idle" /\ q.docs = handlers[h].docs /\ q.pc # "put"),
               saves' = saves, tasks' \subseteq tasks, \A k \in Key : rows'[k] \in {rows[k], Nil}
        PROVE  OwnInv'
    <2>1. OwnRequest(own, saves, handlers[h])
      BY <1>1 DEF OwnedBy
    <2>2. OwnRequest(own, saves, q)
      BY <1>5, <2>1, OwnOnward, OwnIdle
    <2> QED BY <1>2, <1>5, <2>2
  <1>6. ASSUME NEW h \in Slot, CleanStale(h) \/ RemoveFails(h) PROVE OwnInv'
    <2>1. PICK q : /\ Moved(h, q) /\ handlers[h].pc = "clean"
                   /\ q = Idle \/ (q.pc = "delete" /\ Onward(q, handlers[h]))
                   /\ UNCHANGED <<rows, tasks, saves>>
      BY <1>6, Cleaning
    <2> QED BY <1>5, <2>1 DEF Onward
  <1>7. ASSUME NEW h \in Slot, delete_documents_by_ids(h) PROVE OwnInv'
    <2>1. Moved(h, Idle) /\ UNCHANGED <<tasks, saves>>
      BY <1>7, Deleting
    <2>2. \A k \in Key : rows'[k] \in {rows[k], Nil}
      BY <1>7, Deleting
    <2> QED BY <1>5, <2>1, <2>2
  <1>8. ASSUME NEW h \in Slot, ReadContent(h) \/ GetFails(h) PROVE OwnInv'
    <2>1. PICK q : /\ Moved(h, q) /\ handlers[h].pc = "read"
                   /\ q = Idle \/ (q.pc = "llm" /\ q.docs = handlers[h].docs)
                   /\ UNCHANGED <<rows, tasks, saves>>
      BY <1>8, Reading
    <2> QED BY <1>5, <2>1
  <1>9. ASSUME NEW h \in Slot,
               \/ Extract(h) \/ delete_prd_items(h) \/ save_prd_items(h) \/ save_project_overview(h) \/ MySQLFails(h)
        PROVE  OwnInv'
    <2>1. PICK q : /\ Moved(h, q) /\ handlers[h].pc \in {"docs", "delete", "llm", "clear", "items", "overview"}
                   /\ q = Idle \/ (q.pc \in {"clear", "items", "overview", "read"} /\ Onward(q, handlers[h]))
                   /\ UNCHANGED <<rows, tasks, saves>>
      BY <1>9, Going
    <2> QED BY <1>5, <2>1 DEF Onward
  <1>10. CASE TaskFails \/ Redeploy \/ \E w \in Worker : Restart(w)
    <2>1. /\ \A h \in Slot : handlers'[h] \in {Idle, handlers[h]}
          /\ tasks' \subseteq tasks /\ UNCHANGED <<rows, saves>>
      BY <1>10, Ending
    <2>2. \A g \in Slot : OwnRequest(own, saves, handlers'[g])
      BY <1>1, <2>1, OwnIdle DEF OwnedBy
    <2> QED BY <1>1, <2>1, <2>2, OwnQuiet DEF OwnInv
  <1>11. CASE UNCHANGED vars
    BY <1>1, <1>11 DEF vars, stores, OwnInv, OwnedBy, Owns, OwnRequest, OwnTask
  <1> QED BY <1>3, <1>4, <1>6, <1>7, <1>8, <1>9, <1>10, <1>11, OwnWrite, OwnPut, OwnTasks DEF Next

-----------------------------------------------------------------------------
\* The row of the newest PRD is not among the stale ones.

LEMMA PrdKeyStays ==
    ASSUME ControlInv, StoreInv, OwnInv, NEW h \in Slot, Saved(handlers[h]), handlers[h].ask.kind = "upload",
           rows[PrdKey(scenario)] # Nil, NEW k \in Stale(handlers[h]),
           handlers[h].docs[k].id = rows[PrdKey(scenario)].id
    PROVE  FALSE
  <1>1. PICK own : OwnedBy(own)
    BY DEF OwnInv
  <1>2. RequestOk(scenario, saves, handlers[h]) /\ handlers[h].pc # "idle"
    BY DEF StoreInv, Saved
  <1>3. handlers[h].docs # Nil /\ handlers[h].target = Top(scenario)
    BY <1>2 DEF RequestOk, Uploading, Saved
  <1>4. k \in Key /\ handlers[h].docs[k] # Nil
    BY DEF Stale, PrdDocs
  <1>5. own[handlers[h].docs[k].id] = k
    BY <1>1, <1>2, <1>3, <1>4 DEF OwnedBy, OwnRequest, Owns
  <1>6. own[rows[PrdKey(scenario)].id] = PrdKey(scenario)
    BY <1>1, Tops DEF OwnedBy, Owns
  <1>7. k = PrdKey(scenario)
    BY <1>5, <1>6
  <1> QED BY <1>3, <1>7, Tops DEF Stale

LEMMA StoreDelete ==
    ASSUME ControlInv, StoreInv, OwnInv, NEW h \in Slot, delete_documents_by_ids(h)
    PROVE  StoreInv'
  <1>1. PICK r : r = handlers[h]
    OBVIOUS
  <1>2. /\ Moved(h, Idle) /\ r.pc = "delete" /\ r.ask.kind = "upload"
        /\ rows' = [k \in Key |-> IF rows[k] # Nil /\ \E j \in Stale(r) : r.docs[j].id = rows[k].id
                                  THEN Nil ELSE rows[k]]
        /\ UNCHANGED <<local, objects, items, overview, tasks, scenario, saves, last>>
    BY <1>1, Deleting
  <1>3. saves \in Nat /\ \A g \in Slot : RequestOk(scenario', saves', handlers'[g])
    BY <1>2, IdleOk, StoreRequests DEF StoreInv
  <1>4. rows' \in [Key -> Row \cup {Nil}] /\ \A k \in Key : rows'[k] # Nil => rows[k] # Nil /\ rows'[k] = rows[k]
    BY <1>2 DEF StoreInv, Table
  <1>5. rows[PrdKey(scenario)] # Nil => rows'[PrdKey(scenario)] # Nil
    BY <1>1, <1>2, PrdKeyStays, Tops DEF Saved
  <1>6. Table(scenario, rows')
    BY <1>4, <1>5 DEF StoreInv, Table
  <1> QED BY <1>2, <1>3, <1>6 DEF StoreInv

LEMMA StoreStays ==
    ASSUME ControlInv, StoreInv, OwnInv, [Next]_vars
    PROVE  StoreInv'
  <1>1. CASE UNCHANGED vars
    BY <1>1 DEF vars, stores, history, StoreInv
  <1> QED BY <1>1, StoreArrive, StoreGet, StoreWrite, StorePut, StoreClean, StoreDelete, StoreRead, StoreGoes,
             StoreTask, StoreEnd DEF Next

LEMMA StoreStarts == Init => StoreInv /\ OwnInv
  <1> SUFFICES ASSUME Init PROVE StoreInv /\ OwnInv
    OBVIOUS
  <1> DEFINE left == scenario.left
  <1>1. /\ local = [k \in Key |-> IF k \in DOMAIN left /\ scenario.disk THEN 1 ELSE 0]
        /\ objects = [k \in Key |-> IF k \in DOMAIN left THEN 1 ELSE 0]
        /\ rows = [k \in Key |-> IF k \in DOMAIN left THEN left[k] ELSE Nil]
        /\ items = [i \in Item |-> 0] /\ overview = 0 /\ tasks = {} /\ saves = 1
        /\ handlers = [h \in Slot |-> Idle]
        /\ last = [n \in Name |-> IF \E k \in DOMAIN left : k.name = n THEN 1 ELSE 0]
    BY DEF Init
  <1>2. ControlInv
    BY ControlStarts
  <1>3. \A k \in Key : rows[k] # Nil => k \in DOMAIN left /\ rows[k] = left[k]
    BY <1>1
  <1>4. Table(scenario, rows)
    <2>1. rows \in [Key -> Row \cup {Nil}]
      BY <1>1, <1>2, Left
    <2>2. Top(scenario) = 1 \/ rows[PrdKey(scenario)] # Nil
      <3> SUFFICES ASSUME Top(scenario) # 1 PROVE rows[PrdKey(scenario)] # Nil
        OBVIOUS
      <3>1. PrdKey(scenario) \in DOMAIN left /\ PrdKey(scenario) \in Key
        BY <1>2, Tops
      <3>2. left[PrdKey(scenario)] \in Row
        BY <1>2, <3>1, Left
      <3> QED BY <1>1, <3>1, <3>2, RowIs
    <2>3. \A k \in Key : OldName(scenario, k.name) /\ rows[k] # Nil => k \in DOMAIN left /\ rows[k] = left[k]
      BY <1>3
    <2>4. \A k \in Key : rows[k] # Nil => k.version \in 1..Top(scenario) /\ (rows[k].path = "object" => scenario.minio)
      BY <1>2, <1>3, Tops, Left
    <2>5. \A k \in Key : rows[k] # Nil /\ IsPrd(k, rows[k]) => k.name = PRD_FILENAME \/ OldName(scenario, k.name)
      BY <1>3 DEF IsPrd, OldName
    <2> QED BY <2>1, <2>2, <2>3, <2>4, <2>5 DEF Table
  <1>5. StoreInv
    <2>1. \A k \in Key : local[k] # 0 => k.version \in 1..Top(scenario)
      BY <1>1, <1>2, Tops
    <2>2. \A h \in Slot : RequestOk(scenario, saves, handlers[h])
      BY <1>1, IdleOk
    <2> QED BY <1>1, <1>4, <2>1, <2>2 DEF StoreInv
  <1>6. OwnInv
    <2>1. PICK own : own = [i \in Int |-> IF \E k \in DOMAIN left : left[k].id = i
                                          THEN CHOOSE k \in DOMAIN left : left[k].id = i ELSE PrdKey(scenario)]
      OBVIOUS
    <2>2. own \in [Int -> Key]
      BY <1>2, <2>1, Left, Tops
    <2>3. \A k \in DOMAIN left : own[left[k].id] = k
      <3> SUFFICES ASSUME NEW k \in DOMAIN left PROVE own[left[k].id] = k
        OBVIOUS
      <3>1. left[k].id \in Int /\ \A j \in DOMAIN left : left[j].id = left[k].id => j = k
        BY <1>2, Left, RowIs
      <3> QED BY <2>1, <3>1
    <2>4. Owns(own, saves, rows)
      <3>1. \A k \in DOMAIN left : left[k].id <= 1
        <4>1. \A k \in DOMAIN left : left[k].id \in Int /\ left[k].id <= 0
          BY <1>2, Left, RowIs
        <4> QED BY <4>1
      <3> QED BY <1>1, <1>3, <2>3, <3>1 DEF Owns
    <2>5. OwnedBy(own)
      BY <1>1, <2>2, <2>4, OwnIdle DEF OwnedBy
    <2> QED BY <2>5 DEF OwnInv
  <1> QED BY <1>5, <1>6

-----------------------------------------------------------------------------
\* While no save came beside another of its document, saves of a document are one after
\* the other: a request that still has to write a document is alone with it, and one that
\* wrote it has at most its own row left to a task.
OrderInv ==
    "crowded" \notin seen =>
        /\ \A g, h \in Slot :
              Writing(handlers[g]) /\ Writing(handlers[h]) /\ handlers[g].ask.name = handlers[h].ask.name => g = h
        /\ \A t \in tasks, h \in Slot :
              t.kind = "record" /\ Writing(handlers[h]) /\ handlers[h].ask.name = t.key.name =>
                  handlers[h].pc \in {"clean", "delete"} /\ t.key = KeyOf(handlers[h])
        /\ \A t, u \in tasks : t.kind = "record" /\ u.kind = "record" /\ t.key.name = u.key.name => t = u

\* A PRD below the newest version.
LowKey(k) == k.name = PRD_FILENAME /\ k # PrdKey(scenario)
LowPending ==
    \/ \E h \in Slot : At(h, "put") /\ LowKey(KeyOf(handlers[h]))
    \/ \E t \in tasks : t.kind = "record" /\ LowKey(t.key)
\* Such a save is never under way beside an upload.
LowInv ==
    ~Collided /\ LowPending =>
        "older" \in seen /\ "uploaded" \notin seen /\ \A h \in Slot : ~Uploading(handlers[h])

\* What an upload has to remove.
StaleRow(k) == k # PrdKey(scenario) /\ rows[k] # Nil /\ IsPrd(k, rows[k])
\* Each upload under way has seen it.
CoverInv ==
    ~Collided => \A h \in Slot : Uploading(handlers[h]) => \A k \in Key : StaleRow(k) =>
        LET docs == handlers[h].docs IN docs[k] # Nil /\ IsPrd(k, docs[k]) /\ docs[k].id = rows[k].id

-----------------------------------------------------------------------------
\* What was seen stays seen, but for the upload.

LEMMA SeenGrows ==
    ASSUME ControlInv, [Next]_vars
    PROVE  /\ \A x \in {"crowded", "older", "torn", "lost", "bare"} : x \in seen => x \in seen'
           /\ scenario' = scenario
           /\ (\A h \in Slot : ~WriteLocal(h)) =>
                 ("older" \in seen' => "older" \in seen) /\ ("uploaded" \in seen' <=> "uploaded" \in seen)
           /\ ~Redeploy => ("bare" \in seen' => "bare" \in seen)
  <1>1. ASSUME NEW h \in Slot, Arrive(h)
        PROVE  /\ seen \subseteq seen' /\ seen' \subseteq seen \cup {"crowded", "mixed"} /\ scenario' = scenario
    BY <1>1, Arriving DEF Arrive
  <1>2. ASSUME NEW h \in Slot, WriteLocal(h)
        PROVE  /\ seen \ {"uploaded"} \subseteq seen' /\ seen' \subseteq seen \cup {"uploaded", "older"} /\ scenario' = scenario
    BY <1>2, WritingLocal
  <1>3. ASSUME NEW h \in Slot, Next, ~Arrive(h), ~WriteLocal(h),
               \/ get_documents(h) \/ PutObject(h) \/ CleanStale(h) \/ delete_documents_by_ids(h) \/ ReadContent(h)
               \/ PutFails(h) \/ RemoveFails(h) \/ GetFails(h)
        PROVE  seen' = seen /\ scenario' = scenario
    BY <1>3, Putting, Cleaning, Deleting, Reading DEF get_documents
  <1>4. ASSUME NEW h \in Slot,
               \/ Extract(h) \/ delete_prd_items(h) \/ save_prd_items(h) \/ save_project_overview(h) \/ MySQLFails(h)
        PROVE  seen' \in {seen, seen \cup {"torn"}} /\ scenario' = scenario
    BY <1>4, Going
  <1>5. CASE Redeploy
    <2>1. seen \subseteq seen' /\ seen' \subseteq seen \cup {"bare", "torn", "lost"} /\ scenario' = scenario
      BY <1>5, Ending
    <2> QED BY <1>5, <2>1
  <1>6. CASE RunTask
    BY <1>6 DEF RunTask
  <1>7. CASE UNCHANGED vars
    BY <1>7 DEF vars
  <1>8. CASE TaskFails \/ \E w \in Worker : Restart(w)
    <2>1. seen' = seen \cup {"torn"} /\ scenario' = scenario
      BY <1>8 DEF TaskFails, Restart
    <2> QED BY <1>8, <2>1
  <1> QED BY <1>1, <1>2, <1>3, <1>4, <1>5, <1>6, <1>7, <1>8 DEF Next

LEMMA Ruled ==
    ASSUME ControlInv, [Next]_vars
    PROVE  /\ Collided => Collided'
           /\ Whole' => Whole
           /\ Apart' => Apart
           /\ Backed' => Backed
           /\ Apart => ~Collided
  BY SeenGrows DEF Collided, Whole, Apart, Backed

-----------------------------------------------------------------------------
\* Saves of a document are one after the other.

\* A step of h that saves nothing to MinIO.
LEMMA Follows ==
    ASSUME ControlInv, NEW h \in Slot,
           \/ get_documents(h) \/ WriteLocal(h) \/ CleanStale(h) \/ RemoveFails(h) \/ delete_documents_by_ids(h)
           \/ ReadContent(h) \/ GetFails(h)
           \/ Extract(h) \/ delete_prd_items(h) \/ save_prd_items(h) \/ save_project_overview(h) \/ MySQLFails(h)
    PROVE  \E q : LET r == handlers[h] IN
                  /\ Moved(h, q) /\ Request(r) /\ r.pc # "idle" /\ tasks' = tasks /\ scenario' = scenario
                  /\ \/ q = Idle
                     \/ /\ q.ask = r.ask
                        /\ r.pc \in {"clean", "delete"} => q.pc \in {"clean", "delete"} /\ q.target = r.target
  <1>1. PICK r : r = handlers[h]
    OBVIOUS
  <1>2. CASE get_documents(h)
    BY <1>1, <1>2, Getting DEF get_documents
  <1>3. CASE WriteLocal(h)
    BY <1>1, <1>3, WritingLocal
  <1>4. CASE CleanStale(h) \/ RemoveFails(h)
    BY <1>1, <1>4, Cleaning DEF Onward
  <1>5. CASE delete_documents_by_ids(h)
    <2>1. /\ Moved(h, Idle) /\ Request(handlers[h]) /\ handlers[h].pc # "idle" /\ tasks' = tasks /\ scenario' = scenario
      BY <1>5, Deleting
    <2> QED BY <2>1
  <1>6. CASE ReadContent(h) \/ GetFails(h)
    BY <1>1, <1>6, Reading
  <1>7. CASE Extract(h) \/ delete_prd_items(h) \/ save_prd_items(h) \/ save_project_overview(h) \/ MySQLFails(h)
    <2>1. PICK q :
            /\ Moved(h, q) /\ Request(r) /\ r.pc \in {"docs", "delete", "llm", "clear", "items", "overview"}
            /\ \/ q = Idle
               \/ q.pc \in {"clear", "items", "overview"} /\ r.ask.kind = "reanalyze" /\ Onward(q, r)
               \/ r.pc = "docs" /\ q.pc = "read" /\ Onward(q, r)
            /\ UNCHANGED <<tasks, scenario>>
      BY <1>1, <1>7, Going
    <2>2. r.pc \in {"clean", "delete"} => r.ask.kind = "upload"
      BY <2>1, KindAt
    <2> QED BY <1>1, <2>1, <2>2 DEF Onward
  <1> QED BY <1>2, <1>3, <1>4, <1>5, <1>6, <1>7

LEMMA OrderQuiet ==
    ASSUME OrderInv, "crowded" \in seen => "crowded" \in seen', tasks' \subseteq tasks,
           \A h \in Slot :
              \/ handlers'[h].pc = "idle" \/ handlers'[h] = handlers[h]
              \/ /\ handlers[h].pc # "idle" /\ handlers'[h].ask = handlers[h].ask
                 /\ handlers[h].pc \in {"clean", "delete"} =>
                       handlers'[h].pc \in {"clean", "delete"} /\ handlers'[h].target = handlers[h].target
    PROVE  OrderInv'
  <1>1. \A h \in Slot : Writing(handlers'[h]) =>
           /\ Writing(handlers[h]) /\ handlers'[h].ask = handlers[h].ask
           /\ handlers[h].pc \in {"clean", "delete"} =>
                 handlers'[h].pc \in {"clean", "delete"} /\ KeyOf(handlers'[h]) = KeyOf(handlers[h])
    BY DEF Writing, Writes, KeyOf
  <1> QED BY <1>1 DEF OrderInv

LEMMA OrderArrive ==
    ASSUME ControlInv, OrderInv, NEW h \in Slot, Arrive(h), "crowded" \in seen => "crowded" \in seen'
    PROVE  OrderInv'
  <1>1. PICK q : /\ Moved(h, q) /\ handlers[h].pc = "idle"
                 /\ Writes(q) /\ ~Settled(q.ask.name) => "crowded" \in seen'
    BY Arriving
  <1>2. tasks' = tasks
    BY DEF Arrive
  <1> SUFFICES ASSUME "crowded" \notin seen' PROVE OrderInv'
    BY DEF OrderInv
  <1>3. Writing(q) =>
          /\ \A g \in Slot \ {h} : Writing(handlers[g]) => handlers[g].ask.name # q.ask.name
          /\ \A t \in tasks : t.kind = "record" => t.key.name # q.ask.name
    BY <1>1 DEF Settled, Writing, Busy, At
  <1> QED BY <1>1, <1>2, <1>3 DEF OrderInv, Moved

LEMMA OrderPut ==
    ASSUME ControlInv, StoreInv, OrderInv, NEW h \in Slot, PutObject(h) \/ PutFails(h)
    PROVE  OrderInv'
  <1>1. PICK r : r = handlers[h]
    OBVIOUS
  <1>2. PICK u, q :
            /\ u \in BOOLEAN /\ (u => scenario.minio)
            /\ Moved(h, q) /\ Request(r) /\ r.pc = "put" /\ r.ask.kind \in {"upload", "agent"}
            /\ \/ r.ask.kind = "upload" /\ q.pc = "clean" /\ Onward(q, r)
               \/ r.ask.kind = "agent" /\ q = Idle
            /\ tasks' = tasks \cup {Record(r, u)} \cup Planned(r) /\ seen' = seen
    BY <1>1, Putting
  <1>3. RequestOk(scenario, saves, r)
    BY <1>1 DEF StoreInv
  <1>4. PICK new : new = Record(r, u)
    OBVIOUS
  <1>5. /\ new.key = KeyOf(r) /\ KeyOf(r).name = r.ask.name
        /\ \A t \in tasks' : t.kind = "record" => t = new \/ t \in tasks
    <2>1. r.target \in 1..Top(scenario)
      BY <1>2, <1>3 DEF RequestOk, Saved
    <2> QED BY <1>2, <1>3, <1>4, <2>1, LeavesOk, KeyIs
  <1> SUFFICES ASSUME "crowded" \notin seen' PROVE OrderInv'
    BY DEF OrderInv
  <1>6. Writing(r)
    BY <1>2 DEF Writing, Writes
  <1>7. \A t \in tasks : t.kind = "record" => t.key.name # r.ask.name
    BY <1>1, <1>2, <1>6 DEF OrderInv
  <1>8. \A g \in Slot \ {h} : Writing(handlers[g]) => handlers[g].ask.name # r.ask.name
    BY <1>1, <1>2, <1>6 DEF OrderInv
  <1>9. Writing(q) => q.ask = r.ask /\ q.pc = "clean" /\ KeyOf(q) = KeyOf(r)
    BY <1>2 DEF Writing, Idle, Onward, KeyOf
  <1>10. ~Writing(Idle)
    BY DEF Writing, Idle
  <1>11. \A g \in Slot : Writing(handlers'[g]) =>
            \/ g = h /\ handlers'[g] = q
            \/ g # h /\ handlers'[g] = handlers[g] /\ handlers[g].ask.name # r.ask.name
    BY <1>2, <1>8 DEF Moved
  <1>12. \A g1, g2 \in Slot :
            Writing(handlers'[g1]) /\ Writing(handlers'[g2]) /\ handlers'[g1].ask.name = handlers'[g2].ask.name => g1 = g2
    BY <1>2, <1>9, <1>11 DEF OrderInv
  <1>13. \A t \in tasks', g \in Slot :
            t.kind = "record" /\ Writing(handlers'[g]) /\ handlers'[g].ask.name = t.key.name =>
                handlers'[g].pc \in {"clean", "delete"} /\ t.key = KeyOf(handlers'[g])
    BY <1>2, <1>5, <1>7, <1>9, <1>11 DEF OrderInv
  <1>14. \A t1, t2 \in tasks' : t1.kind = "record" /\ t2.kind = "record" /\ t1.key.name = t2.key.name => t1 = t2
    BY <1>2, <1>5, <1>7 DEF OrderInv
  <1> QED BY <1>12, <1>13, <1>14 DEF OrderInv

LEMMA OrderStays ==
    ASSUME ControlInv, StoreInv, OrderInv, [Next]_vars
    PROVE  OrderInv'
  <1>1. "crowded" \in seen => "crowded" \in seen'
    BY SeenGrows
  <1>2. ASSUME NEW h \in Slot,
           \/ get_documents(h) \/ WriteLocal(h) \/ CleanStale(h) \/ RemoveFails(h) \/ delete_documents_by_ids(h)
           \/ ReadContent(h) \/ GetFails(h)
           \/ Extract(h) \/ delete_prd_items(h) \/ save_prd_items(h) \/ save_project_overview(h) \/ MySQLFails(h)
        PROVE  OrderInv'
    <2>1. PICK q : LET r == handlers[h] IN
                  /\ Moved(h, q) /\ r.pc # "idle" /\ tasks' = tasks
                  /\ \/ q = Idle
                     \/ /\ q.ask = r.ask
                        /\ r.pc \in {"clean", "delete"} => q.pc \in {"clean", "delete"} /\ q.target = r.target
      BY <1>2, Follows
    <2> QED BY <1>1, <2>1, OrderQuiet, IdleIs DEF Moved
  <1>3. CASE TaskFails \/ Redeploy \/ \E w \in Worker : Restart(w)
    <2>1. tasks' \subseteq tasks /\ \A h \in Slot : handlers'[h] \in {Idle, handlers[h]}
      BY <1>3, Ending
    <2> QED BY <1>1, <2>1, OrderQuiet, IdleIs
  <1>4. CASE RunTask
    BY <1>1, <1>4, OrderQuiet DEF RunTask
  <1>5. CASE UNCHANGED vars
    BY <1>1, <1>5, OrderQuiet DEF vars
  <1> QED BY <1>1, <1>2, <1>3, <1>4, <1>5, OrderArrive, OrderPut DEF Next

-----------------------------------------------------------------------------
\* A PRD below the newest is not saved beside an upload.

LEMMA LowQuiet ==
    ASSUME ControlInv, LowInv, [Next]_vars, \A h \in Slot : ~WriteLocal(h), LowPending' => LowPending,
           \A h \in Slot : Uploading(handlers'[h]) => \E g \in Slot : Uploading(handlers[g])
    PROVE  LowInv'
  BY SeenGrows, Ruled DEF LowInv

\* Steps that bring no save.
LEMMA LowSame ==
    ASSUME scenario' = scenario, tasks' \subseteq tasks,
           \A h \in Slot : handlers'[h].pc = "put" => handlers'[h] = handlers[h]
    PROVE  LowPending' => LowPending
  <1>1. \A k : LowKey(k)' <=> LowKey(k)
    BY DEF LowKey
  <1>3. ASSUME NEW h \in Slot, At(h, "put")', LowKey(KeyOf(handlers[h]))' PROVE LowPending
    <2>1. handlers'[h] = handlers[h] /\ At(h, "put")
      BY <1>3 DEF At
    <2>2. LowKey(KeyOf(handlers[h]))
      BY <1>3, <2>1 DEF LowKey, KeyOf
    <2> QED BY <2>1, <2>2 DEF LowPending
  <1>4. ASSUME NEW t \in tasks', t.kind = "record", LowKey(t.key)' PROVE LowPending
    BY <1>4 DEF LowPending, LowKey
  <1> QED BY <1>3, <1>4 DEF LowPending

\* Who saves a PRD below the newest is the only one that still has to write a PRD.
LEMMA LowAlone ==
    ASSUME ControlInv, StoreInv, OrderInv, LowInv, LowPending, ~Collided,
           NEW h \in Slot, Writing(handlers[h]), handlers[h].ask.name = PRD_FILENAME
    PROVE  handlers[h].pc \in {"put", "clean", "delete"}
  <1>1. "crowded" \notin seen
    BY DEF LowInv, Collided
  <1>2. CASE \E t \in tasks : t.kind = "record" /\ LowKey(t.key)
    BY <1>1, <1>2 DEF OrderInv, LowKey
  <1>3. CASE \E g \in Slot : At(g, "put") /\ LowKey(KeyOf(handlers[g]))
    <2>1. PICK g \in Slot : At(g, "put") /\ LowKey(KeyOf(handlers[g]))
      BY <1>3
    <2>2. handlers[g].ask.name = PRD_FILENAME
      BY <2>1 DEF LowKey, KeyOf
    <2>3. Writing(handlers[g])
      BY <2>1, RequestAt, KindAt DEF At, Writing, Writes
    <2>4. g = h
      BY <1>1, <2>2, <2>3 DEF OrderInv
    <2> QED BY <2>1, <2>4 DEF At
  <1> QED BY <1>2, <1>3 DEF LowPending

LEMMA LowGet ==
    ASSUME ControlInv, StoreInv, OrderInv, LowInv, [Next]_vars, NEW h \in Slot, get_documents(h)
    PROVE  LowInv'
  <1>1. PICK r : r = handlers[h]
    OBVIOUS
  <1>2. PICK q : /\ Moved(h, q) /\ Request(r) /\ r.pc = "docs"
                 /\ \/ q = Idle
                    \/ /\ q.pc = IF r.ask.kind = "upload" THEN "local" ELSE "read"
                       /\ q.ask = r.ask
    BY <1>1, Getting
  <1>3. scenario' = scenario /\ tasks' = tasks /\ seen' = seen
    BY DEF get_documents
  <1>4. LowPending' => LowPending
    BY <1>2, <1>3, LowSame, IdleIs DEF Moved
  <1>5. LowPending /\ ~Collided => r.ask.kind # "upload"
    <2> SUFFICES ASSUME LowPending, ~Collided, r.ask.kind = "upload" PROVE FALSE
      OBVIOUS
    <2>1. r.ask.name = PRD_FILENAME /\ Writing(r)
      BY <1>2, AskIs DEF Request, Writing, Writes
    <2> QED BY <1>1, <1>2, <2>1, LowAlone
  <1>6. LowPending /\ ~Collided => \A g \in Slot : ~Uploading(handlers'[g])
    BY <1>2, <1>5, IdleIs DEF LowInv, Moved, Uploading
  <1> QED BY <1>3, <1>4, <1>6 DEF LowInv, Collided

LEMMA LowWrite ==
    ASSUME ControlInv, StoreInv, OrderInv, LowInv, [Next]_vars, NEW h \in Slot, WriteLocal(h)
    PROVE  LowInv'
  <1>1. PICK r : r = handlers[h]
    OBVIOUS
  <1>2. PICK q :
            /\ Moved(h, q) /\ Request(r) /\ r.pc = "local" /\ r.ask.kind \in {"upload", "agent"}
            /\ q.pc = "put" /\ q.ask = r.ask /\ q.target = SaveVersion(r)
            /\ seen' = (seen \ (IF r.ask.name = PRD_FILENAME THEN {"uploaded"} ELSE {}))
                         \cup (IF r.ask.kind = "upload" THEN {"uploaded"} ELSE {})
                         \cup (IF \E k \in KeysOf(r.ask.name) : k.version > q.target THEN {"older"} ELSE {})
            /\ UNCHANGED <<tasks, scenario>>
    BY <1>1, WritingLocal
  <1>3. q.target \in 1..Top(scenario) /\ (r.ask.kind = "upload" => q.target = Top(scenario))
    <2>1. RequestOk(scenario, saves, r)
      BY <1>1 DEF StoreInv
    <2>2. (r.docs # Nil => Table(scenario, r.docs)) /\ (Uploading(r) => r.docs # Nil)
      BY <1>2, <2>1 DEF RequestOk
    <2> QED BY <1>2, <2>2, SaveIs
  <1>4. /\ KeyOf(q) \in Key /\ KeyOf(q).name = r.ask.name /\ KeyOf(q).version = q.target
        /\ r.ask.kind = "upload" => KeyOf(q) = PrdKey(scenario) /\ r.ask.name = PRD_FILENAME
    <2>1. r.ask \in Ask
      BY <1>2 DEF Request
    <2>2. r.ask.name \in Name /\ q.target \in 0..2 /\ (r.ask.kind = "upload" => r.ask.name = PRD_FILENAME)
      BY <1>2, <1>3, <2>1, AskIs, Tops
    <2> QED BY <1>2, <1>3, <2>2, Keys DEF KeyOf, PrdKey
  <1> SUFFICES ASSUME ~Collided', LowPending'
               PROVE  "older" \in seen' /\ "uploaded" \notin seen' /\ \A g \in Slot : ~Uploading(handlers'[g])
    BY DEF LowInv
  <1>5. ~Collided
    BY Ruled
  <1>6. ~LowPending \/ (r.ask.name # PRD_FILENAME)
    <2> SUFFICES ASSUME LowPending, r.ask.name = PRD_FILENAME PROVE FALSE
      OBVIOUS
    <2>1. Writing(r)
      BY <1>2 DEF Writing, Writes
    <2> QED BY <1>1, <1>2, <1>5, <2>1, LowAlone
  <1>7. CASE LowPending
    <2>1. r.ask.kind = "agent" /\ r.ask.name # PRD_FILENAME
      BY <1>2, <1>4, <1>6, <1>7
    <2>2. "older" \in seen' /\ "uploaded" \notin seen'
      BY <1>2, <1>5, <1>7, <2>1 DEF LowInv
    <2>3. ~Uploading(q)
      BY <1>2, <2>1 DEF Uploading
    <2> QED BY <1>2, <1>5, <1>7, <2>2, <2>3 DEF LowInv, Moved
  <1>8. CASE ~LowPending
    <2>1. LowKey(KeyOf(q))
      <3>1. ASSUME NEW g \in Slot, At(g, "put")', LowKey(KeyOf(handlers[g]))' PROVE LowKey(KeyOf(q))
        <4>1. CASE g = h
          BY <1>2, <3>1, <4>1 DEF LowKey, KeyOf, Moved
        <4>2. CASE g # h
          BY <1>2, <1>8, <3>1, <4>2 DEF LowKey, KeyOf, Moved, At, LowPending
        <4> QED BY <4>1, <4>2
      <3>2. ASSUME NEW t \in tasks', t.kind = "record", LowKey(t.key)' PROVE FALSE
        BY <1>2, <1>8, <3>2 DEF LowPending, LowKey
      <3>3. LowPending'
        OBVIOUS
      <3> QED BY <3>1, <3>2, <3>3 DEF LowPending
    <2>2. r.ask.name = PRD_FILENAME /\ r.ask.kind = "agent" /\ q.target < Top(scenario)
      <3>1. KeyOf(q) # PrdKey(scenario) /\ KeyOf(q).name = PRD_FILENAME
        BY <2>1 DEF LowKey
      <3>2. KeyOf(q).version # Top(scenario)
        BY <1>4, <3>1, Tops
      <3> QED BY <1>2, <1>3, <1>4, <3>1, <3>2, Tops
    <2>3. \E k \in KeysOf(r.ask.name) : k.version > q.target
      <3>1. PrdKey(scenario) \in KeysOf(PRD_FILENAME)
        BY <1>3, <2>2, Tops DEF StoreInv, Table, KeysOf
      <3>2. PrdKey(scenario).version > q.target
        BY <1>3, <2>2, Tops
      <3> QED BY <2>2, <3>1, <3>2
    <2>4. "older" \in seen' /\ "uploaded" \notin seen'
      BY <1>2, <2>2, <2>3
    <2>5. "crowded" \notin seen
      BY <2>4, SeenGrows DEF Collided
    <2>6. \A g \in Slot \ {h} : ~Uploading(handlers[g])
      <3> SUFFICES ASSUME NEW g \in Slot \ {h}, Uploading(handlers[g]) PROVE FALSE
        OBVIOUS
      <3>1. Request(handlers[g]) /\ handlers[g].ask.kind = "upload" /\ handlers[g].pc # "idle"
        BY RequestAt DEF Uploading
      <3>2. handlers[g].ask.name = PRD_FILENAME /\ Writing(handlers[g])
        BY <3>1, AskIs DEF Request, Writing, Writes
      <3>3. Writing(r)
        BY <1>2 DEF Writing, Writes
      <3> QED BY <1>1, <2>2, <2>5, <3>2, <3>3 DEF OrderInv
    <2>7. ~Uploading(q)
      BY <1>2, <2>2 DEF Uploading
    <2> QED BY <1>2, <2>4, <2>6, <2>7 DEF Moved
  <1> QED BY <1>7, <1>8

LEMMA LowPut ==
    ASSUME ControlInv, StoreInv, LowInv, [Next]_vars, NEW h \in Slot, PutObject(h) \/ PutFails(h)
    PROVE  LowInv'
  <1>1. PICK r : r = handlers[h]
    OBVIOUS
  <1>2. PICK u, q :
            /\ u \in BOOLEAN /\ (u => scenario.minio)
            /\ Moved(h, q) /\ Request(r) /\ r.pc = "put" /\ r.ask.kind \in {"upload", "agent"}
            /\ \/ r.ask.kind = "upload" /\ q.pc = "clean" /\ Onward(q, r)
               \/ r.ask.kind = "agent" /\ q = Idle
            /\ tasks' = tasks \cup {Record(r, u)} \cup Planned(r)
            /\ seen' = seen /\ scenario' = scenario
    BY <1>1, Putting
  <1>3. RequestOk(scenario, saves, r)
    BY <1>1 DEF StoreInv
  <1>4. \A t \in tasks' : t.kind = "record" => t.key = KeyOf(r) \/ t \in tasks
    BY <1>2, <1>3, LeavesOk
  <1>5. LowPending' => LowPending
    <2>1. ASSUME NEW g \in Slot, At(g, "put")', LowKey(KeyOf(handlers[g]))' PROVE LowPending
      <3>1. g # h
        BY <1>2, <2>1 DEF At, Moved, Idle
      <3>2. handlers'[g] = handlers[g]
        BY <1>2, <3>1 DEF Moved
      <3> QED BY <1>2, <2>1, <3>2 DEF At, LowKey, KeyOf, LowPending
    <2>2. ASSUME NEW t \in tasks', t.kind = "record", LowKey(t.key)' PROVE LowPending
      BY <1>1, <1>2, <1>4, <2>2 DEF LowPending, LowKey, At
    <2> QED BY <2>1, <2>2 DEF LowPending
  <1>6. \A g \in Slot : Uploading(handlers'[g]) => Uploading(handlers[g])
    BY <1>1, <1>2 DEF Moved, Uploading, Idle
  <1> QED BY <1>2, <1>5, <1>6 DEF LowInv, Collided

\* The other steps.
LEMMA LowServe ==
    ASSUME ControlInv, LowInv, [Next]_vars, NEW h \in Slot,
           \/ CleanStale(h) \/ RemoveFails(h) \/ delete_documents_by_ids(h) \/ ReadContent(h) \/ GetFails(h)
           \/ Extract(h) \/ delete_prd_items(h) \/ save_prd_items(h) \/ save_project_overview(h) \/ MySQLFails(h)
    PROVE  LowInv'
  <1>1. PICK q :
            /\ Moved(h, q) /\ q.pc # "put" /\ (Uploading(q) => Uploading(handlers[h]))
            /\ tasks' = tasks /\ scenario' = scenario
            /\ seen \subseteq seen' /\ seen' \subseteq seen \cup {"torn"}
    <2>1. CASE CleanStale(h) \/ RemoveFails(h)
      BY <2>1, Cleaning, IdleIs DEF Uploading, Onward
    <2>2. CASE delete_documents_by_ids(h)
      BY <2>2, Deleting, IdleIs DEF Uploading
    <2>3. CASE ReadContent(h) \/ GetFails(h)
      BY <2>3, Reading, IdleIs DEF Uploading
    <2>4. CASE Extract(h) \/ delete_prd_items(h) \/ save_prd_items(h) \/ save_project_overview(h) \/ MySQLFails(h)
      BY <2>4, Going, IdleIs DEF Uploading
    <2> QED BY <2>1, <2>2, <2>3, <2>4
  <1>2. LowPending' => LowPending
    BY <1>1, LowSame DEF Moved
  <1>3. \A g \in Slot : Uploading(handlers'[g]) => Uploading(handlers[g])
    BY <1>1 DEF Moved
  <1> QED BY <1>1, <1>2, <1>3 DEF LowInv, Collided

LEMMA LowStays ==
    ASSUME ControlInv, StoreInv, OrderInv, LowInv, [Next]_vars
    PROVE  LowInv'
  <1>1. ASSUME NEW h \in Slot, Arrive(h) PROVE LowInv'
    <2>1. PICK q : /\ Moved(h, q) /\ q.pc = FirstStep(q.ask)
                   /\ seen \subseteq seen' /\ seen' \subseteq seen \cup {"crowded", "mixed"}
      BY <1>1, Arriving
    <2>2. q.pc # "put" /\ ~Uploading(q)
      BY <2>1 DEF FirstStep, Uploading
    <2>3. tasks' = tasks /\ scenario' = scenario
      BY <1>1 DEF Arrive
    <2>4. LowPending' => LowPending
      BY <2>1, <2>2, <2>3, LowSame DEF Moved
    <2>5. \A g \in Slot : Uploading(handlers'[g]) => Uploading(handlers[g])
      BY <2>1, <2>2 DEF Moved
    <2> QED BY <2>1, <2>4, <2>5 DEF LowInv, Collided
  <1>2. CASE TaskFails \/ Redeploy \/ \E w \in Worker : Restart(w)
    <2>1. /\ tasks' \subseteq tasks /\ \A h \in Slot : handlers'[h] \in {Idle, handlers[h]}
          /\ scenario' = scenario /\ seen \subseteq seen' /\ seen' \subseteq seen \cup {"bare", "torn", "lost"}
      BY <1>2, Ending
    <2>2. LowPending' => LowPending
      BY <2>1, LowSame, IdleIs
    <2>3. \A g \in Slot : Uploading(handlers'[g]) => Uploading(handlers[g])
      BY <2>1, IdleIs DEF Uploading
    <2> QED BY <2>1, <2>2, <2>3 DEF LowInv, Collided
  <1>3. CASE RunTask
    <2>1. tasks' \subseteq tasks /\ UNCHANGED <<handlers, scenario, seen>>
      BY <1>3 DEF RunTask
    <2> QED BY <2>1, LowSame DEF LowInv, Collided
  <1>4. CASE UNCHANGED vars
    <2>1. UNCHANGED <<tasks, handlers, scenario, seen>>
      BY <1>4 DEF vars
    <2> QED BY <2>1, LowSame DEF LowInv, Collided
  <1> QED BY <1>1, <1>2, <1>3, <1>4, LowGet, LowWrite, LowPut, LowServe DEF Next

\* Every row and every task leads to its file, until an upload takes the row away.
There(k, path) == IF path = "object" THEN objects[k] # 0 ELSE local[k] # 0
Kept == Whole /\ Backed /\ ~Collided
FileInv ==
    Kept =>
        /\ \A k \in Key : rows[k] # Nil =>
              There(k, rows[k].path) \/ (StaleRow(k) /\ \E h \in Slot : At(h, "delete"))
        /\ \A t \in tasks : t.kind = "record" => There(t.key, t.path)
        /\ \A h \in Slot : At(h, "put") => local[KeyOf(handlers[h])] # 0

\* After an upload no stale row is left, or an upload under way takes it away; and the PRD
\* has a row, or one is on its way.
Replaced == Whole /\ ~Collided /\ "uploaded" \in seen
UploadedInv ==
    Replaced =>
        /\ \/ \E h \in Slot : Saved(handlers[h]) /\ handlers[h].ask.kind = "upload"
           \/ \A k \in Key : ~StaleRow(k)
        /\ \/ rows[PrdKey(scenario)] # Nil
           \/ \E h \in Slot : At(h, "put") /\ KeyOf(handlers[h]) = PrdKey(scenario)
           \/ \E t \in tasks : t.kind = "record" /\ t.key = PrdKey(scenario)

-----------------------------------------------------------------------------
\* Uploads under way have seen every stale row.

LEMMA CoverQuiet ==
    ASSUME ControlInv, CoverInv, [Next]_vars, \A k \in Key : rows'[k] # Nil => rows'[k] = rows[k],
           \A h \in Slot : Uploading(handlers'[h]) => Uploading(handlers[h]) /\ handlers'[h].docs = handlers[h].docs
    PROVE  CoverInv'
  <1>1. \A k \in Key : StaleRow(k)' => StaleRow(k) /\ rows'[k] = rows[k]
    BY SeenGrows DEF StaleRow
  <1> QED BY <1>1, Ruled DEF CoverInv

\* What a task writes is stale only if it is a PRD below the newest.
LEMMA RecordStale ==
    ASSUME ControlInv, StoreInv, NEW t \in tasks, save_document_record(t)
    PROVE  /\ t.key \in Key /\ rows'[t.key] # Nil /\ rows'[t.key].path = t.path
           /\ \A k \in Key : k # t.key => rows'[k] = rows[k]
           /\ t.key # PrdKey(scenario) /\ IsPrd(t.key, rows'[t.key]) => LowPending
           /\ t.key # PrdKey(scenario) /\ t.key.name = PRD_FILENAME => LowPending
  <1>1. t.kind = "record" /\ RecordOk(scenario, saves, t)
    BY DEF StoreInv, TaskOk, save_document_record
  <1>2. PICK x : x = [id |-> IF rows[t.key] = Nil THEN t.id ELSE rows[t.key].id, path |-> t.path, stage |-> t.stage]
    OBVIOUS
  <1>3. rows' = [rows EXCEPT ![t.key] = x] /\ DOMAIN rows = Key
    BY <1>2 DEF save_document_record, StoreInv, Table
  <1>4. rows[t.key] # Nil => rows[t.key].id \in Int
    BY <1>1, TableIs, RowIs DEF StoreInv, RecordOk
  <1>5. x # Nil
    <2>1. x \in Row
      BY <1>1, <1>2, <1>4 DEF RecordOk, Row
    <2> QED BY <2>1, RowIs
  <1>6. IsPrd(t.key, x) => t.key.name = PRD_FILENAME
    BY <1>1, <1>2 DEF RecordOk, MayWrite, IsPrd
  <1>7. t.key # PrdKey(scenario) /\ t.key.name = PRD_FILENAME => LowPending
    BY <1>1 DEF LowPending, LowKey
  <1> QED BY <1>1, <1>2, <1>3, <1>5, <1>6, <1>7 DEF RecordOk

LEMMA CoverStays ==
    ASSUME ControlInv, StoreInv, LowInv, CoverInv, [Next]_vars
    PROVE  CoverInv'
  <1>1. ASSUME NEW h \in Slot, Arrive(h) PROVE CoverInv'
    <2>1. PICK q : Moved(h, q) /\ q.pc = FirstStep(q.ask)
      BY <1>1, Arriving
    <2>2. ~Uploading(q)
      BY <2>1 DEF FirstStep, Uploading
    <2>3. rows' = rows
      BY <1>1 DEF Arrive, stores
    <2> QED BY <2>1, <2>2, <2>3, CoverQuiet DEF Moved
  <1>2. ASSUME NEW h \in Slot, get_documents(h) PROVE CoverInv'
    <2>1. PICK q : Moved(h, q) /\ (q = Idle \/ q.docs = rows)
      BY <1>2, Getting
    <2>2. rows' = rows /\ scenario' = scenario /\ seen' = seen
      BY <1>2 DEF get_documents, stores
    <2> QED BY <2>1, <2>2, IdleIs DEF CoverInv, Moved, StaleRow, Collided, Uploading
  <1>3. ASSUME NEW h \in Slot, NEW q, Moved(h, q), rows' = rows,
               Uploading(q) => Uploading(handlers[h]) /\ q.docs = handlers[h].docs
        PROVE  CoverInv'
    BY <1>3, CoverQuiet DEF Moved
  <1>4. ASSUME NEW h \in Slot, WriteLocal(h) PROVE CoverInv'
    <2>1. PICK q : /\ Moved(h, q) /\ handlers[h].pc = "local" /\ q.ask = handlers[h].ask /\ q.docs = handlers[h].docs
                   /\ rows' = rows
      BY <1>4, WritingLocal
    <2> QED BY <1>3, <2>1 DEF Uploading
  <1>5. ASSUME NEW h \in Slot, PutObject(h) \/ PutFails(h) PROVE CoverInv'
    <2>1. PICK q : /\ Moved(h, q) /\ handlers[h].pc = "put" /\ rows' = rows
                   /\ \/ handlers[h].ask.kind = "upload" /\ q.pc = "clean" /\ Onward(q, handlers[h])
                      \/ q = Idle
      BY <1>5, Putting
    <2> QED BY <1>3, <2>1, IdleIs DEF Uploading, Onward
  <1>6. ASSUME NEW h \in Slot, CleanStale(h) \/ RemoveFails(h) PROVE CoverInv'
    <2>1. PICK q : /\ Moved(h, q) /\ handlers[h].pc = "clean" /\ rows' = rows
                   /\ q = Idle \/ (q.pc = "delete" /\ Onward(q, handlers[h]))
      BY <1>6, Cleaning
    <2> QED BY <1>3, <2>1, IdleIs DEF Uploading, Onward
  <1>7. ASSUME NEW h \in Slot, delete_documents_by_ids(h) PROVE CoverInv'
    <2>1. Moved(h, Idle)
      BY <1>7, Deleting
    <2>2. \A k \in Key : rows'[k] # Nil => rows'[k] = rows[k]
      BY <1>7, Deleting
    <2> QED BY <2>1, <2>2, CoverQuiet, IdleIs DEF Moved, Uploading
  <1>8. ASSUME NEW h \in Slot, ReadContent(h) \/ GetFails(h) PROVE CoverInv'
    <2>1. PICK q : Moved(h, q) /\ rows' = rows /\ (q = Idle \/ q.pc = "llm")
      BY <1>8, Reading
    <2> QED BY <1>3, <2>1, IdleIs DEF Uploading
  <1>9. ASSUME NEW h \in Slot,
               \/ Extract(h) \/ delete_prd_items(h) \/ save_prd_items(h) \/ save_project_overview(h) \/ MySQLFails(h)
        PROVE  CoverInv'
    <2>1. PICK q : Moved(h, q) /\ rows' = rows /\ (q = Idle \/ q.pc \in {"clear", "items", "overview", "read"})
      BY <1>9, Going
    <2> QED BY <1>3, <2>1, IdleIs DEF Uploading
  <1>10. CASE TaskFails \/ Redeploy \/ \E w \in Worker : Restart(w)
    <2>1. rows' = rows /\ \A h \in Slot : handlers'[h] \in {Idle, handlers[h]}
      BY <1>10, Ending
    <2> QED BY <2>1, CoverQuiet, IdleIs DEF Uploading
  <1>11. CASE RunTask
    <2>1. PICK t \in tasks : /\ save_document_record(t) \/ rows' = rows
                             /\ UNCHANGED <<handlers, scenario, seen>>
      BY <1>11 DEF RunTask, persist_prd_items, persist_project_overview
    <2>2. CASE rows' = rows
      BY <2>1, <2>2, CoverQuiet
    <2>3. CASE save_document_record(t)
      <3>1. /\ t.key \in Key /\ \A k \in Key : k # t.key => rows'[k] = rows[k]
            /\ t.key # PrdKey(scenario) /\ IsPrd(t.key, rows'[t.key]) => LowPending
        BY <2>3, RecordStale
      <3>2. CASE LowPending
        BY <2>1, <3>2 DEF CoverInv, LowInv, Collided
      <3>3. CASE ~LowPending
        <4>1. \A k \in Key : StaleRow(k)' => StaleRow(k) /\ rows'[k] = rows[k]
          BY <2>1, <3>1, <3>3 DEF StaleRow
        <4> QED BY <2>1, <4>1 DEF CoverInv, Collided
      <3> QED BY <3>2, <3>3
    <2> QED BY <2>1, <2>2, <2>3
  <1>12. CASE UNCHANGED vars
    <2>1. rows' = rows /\ handlers' = handlers
      BY <1>12 DEF vars, stores
    <2> QED BY <2>1, CoverQuiet
  <1> QED BY <1>1, <1>2, <1>4, <1>5, <1>6, <1>7, <1>8, <1>9, <1>10, <1>11, <1>12 DEF Next

-----------------------------------------------------------------------------
\* A disk that is emptied beside no request and no task.

LEMMA EmptiedAlone ==
    ASSUME ControlInv, StoreInv, TaskFails \/ Redeploy \/ \E w \in Worker : Restart(w), Whole'
    PROVE  /\ \A h \in Slot : handlers[h].pc = "idle"
           /\ handlers' = handlers /\ tasks = {} /\ tasks' = {}
           /\ local' = [k \in Key |-> 0] /\ "bare" \in seen' /\ UNCHANGED <<objects, rows, scenario, last, served>>
           /\ (\E k \in Key : rows[k] # Nil /\ rows[k].path = "local") => "lost" \in seen'
           /\ seen' \subseteq seen \cup {"bare", "lost"} /\ seen \subseteq seen'
  <1>1. /\ local' = [k \in Key |-> 0] /\ "bare" \in seen' /\ UNCHANGED <<objects, rows, scenario, last, served>>
        /\ (\E k \in Key : rows[k] # Nil /\ rows[k].path = "local") => "lost" \in seen'
        /\ seen \subseteq seen' /\ seen' \subseteq seen \cup {"bare", "torn", "lost"}
        /\ handlers' = handlers /\ tasks = {} /\ tasks' = {} /\ handlers' = Ended(Worker)
    BY Ending DEF Whole
  <1>2. \A h \in Slot : handlers[h].pc = "idle"
    <2> SUFFICES ASSUME NEW h \in Slot, handlers[h].pc # "idle" PROVE FALSE
      OBVIOUS
    <2>1. handlers[h].w \in Worker
      BY DEF StoreInv, RequestOk
    <2>2. handlers'[h] = Idle
      BY <1>1, <2>1 DEF Ended, Busy, At
    <2> QED BY <1>1, <2>2, IdleIs
  <1> QED BY <1>1, <1>2 DEF Whole

\* An upload that cleans up takes the file of no row that stays, of no task and of no save.
LEMMA StaleIs ==
    ASSUME ControlInv, StoreInv, LowInv, ~Collided, NEW h \in Slot, Saved(handlers[h]), handlers[h].ask.kind = "upload",
           NEW k \in Stale(handlers[h])
    PROVE  /\ k \in Key /\ k # PrdKey(scenario)
           /\ rows[k] # Nil => StaleRow(k)
           /\ \A t \in tasks : t.kind = "record" => t.key # k
           /\ \A g \in Slot : At(g, "put") => KeyOf(handlers[g]) # k
  <1>1. PICK r : r = handlers[h]
    OBVIOUS
  <1>2. RequestOk(scenario, saves, r) /\ r.pc # "idle"
    BY <1>1 DEF StoreInv, Saved
  <1>3. Table(scenario, r.docs) /\ r.target = Top(scenario) /\ Uploading(r)
    BY <1>1, <1>2 DEF RequestOk, Uploading, Saved
  <1>4. k \in Key /\ r.docs[k] # Nil /\ IsPrd(k, r.docs[k]) /\ (k.name # PRD_FILENAME \/ k.version # Top(scenario))
    BY <1>1, <1>3 DEF Stale, PrdDocs
  <1>5. k # PrdKey(scenario)
    BY <1>4, Tops
  <1>6. LowKey(k) \/ OldName(scenario, k.name)
    BY <1>3, <1>4, <1>5 DEF Table, LowKey
  <1>7. ~LowPending
    BY <1>1, <1>3 DEF LowInv
  <1>8. rows[k] # Nil => IsPrd(k, rows[k])
    BY <1>3, <1>4, <1>6 DEF StoreInv, Table, LowKey, IsPrd
  <1>9. ASSUME NEW t \in tasks, t.kind = "record" PROVE t.key # k
    <2>1. ~OldName(scenario, t.key.name)
      BY <1>9 DEF StoreInv, TaskOk, RecordOk, MayWrite
    <2> QED BY <1>6, <1>7, <1>9, <2>1 DEF LowPending
  <1>10. ASSUME NEW g \in Slot, At(g, "put") PROVE KeyOf(handlers[g]) # k
    <2>1. Request(handlers[g]) /\ handlers[g].pc = "put" /\ handlers[g].ask.kind \in {"upload", "agent"}
      BY <1>10, RequestAt, KindAt DEF At
    <2>2. ~OldName(scenario, handlers[g].ask.name)
      BY <2>1 DEF StoreInv, RequestOk, MayWrite, Writes
    <2> QED BY <1>6, <1>7, <1>10, <2>2 DEF LowPending, KeyOf
  <1> QED BY <1>4, <1>5, <1>8, <1>9, <1>10 DEF StaleRow

\* An upload that deletes leaves no stale row.
LEMMA DeletesStale ==
    ASSUME ControlInv, StoreInv, OwnInv, CoverInv, ~Collided, NEW h \in Slot, delete_documents_by_ids(h)
    PROVE  /\ \A k \in Key : StaleRow(k) => rows'[k] = Nil
           /\ \A k \in Key : rows'[k] # Nil => rows'[k] = rows[k] /\ ~StaleRow(k)
           /\ rows[PrdKey(scenario)] # Nil => rows'[PrdKey(scenario)] = rows[PrdKey(scenario)]
  <1>1. PICK r : r = handlers[h]
    OBVIOUS
  <1>2. /\ r.pc = "delete" /\ r.ask.kind = "upload"
        /\ rows' = [k \in Key |-> IF rows[k] # Nil /\ \E j \in Stale(r) : r.docs[j].id = rows[k].id
                                  THEN Nil ELSE rows[k]]
    BY <1>1, Deleting
  <1>3. r.target = Top(scenario) /\ Uploading(r)
    BY <1>1, <1>2 DEF StoreInv, RequestOk, Saved, Uploading
  <1>4. ASSUME NEW k \in Key, StaleRow(k) PROVE rows'[k] = Nil
    <2>1. r.docs[k] # Nil /\ IsPrd(k, r.docs[k]) /\ r.docs[k].id = rows[k].id
      BY <1>1, <1>3, <1>4 DEF CoverInv
    <2>2. k.name # PRD_FILENAME \/ k.version # Top(scenario)
      BY <1>4, Tops DEF StaleRow
    <2>3. k \in Stale(r)
      BY <1>3, <2>1, <2>2 DEF Stale, PrdDocs
    <2> QED BY <1>2, <1>4, <2>1, <2>3 DEF StaleRow
  <1>5. \A k \in Key : rows'[k] # Nil => rows'[k] = rows[k]
    BY <1>2
  <1>6. rows[PrdKey(scenario)] # Nil => rows'[PrdKey(scenario)] = rows[PrdKey(scenario)]
    BY <1>1, <1>2, PrdKeyStays, Tops DEF Saved
  <1> QED BY <1>4, <1>5, <1>6

-----------------------------------------------------------------------------
\* Every row leads to its file.

LEMMA KeptRuled ==
    ASSUME ControlInv, [Next]_vars
    PROVE  (Kept' => Kept) /\ (Kept => ~Collided /\ Whole /\ Backed)
  BY Ruled DEF Kept

\* Steps that remove no file, let no upload end and begin no save.
LEMMA FileQuiet ==
    ASSUME ControlInv, FileInv, [Next]_vars, tasks' \subseteq tasks, rows' = rows,
           \A k \in Key : (local[k] # 0 => local'[k] # 0) /\ (objects[k] # 0 => objects'[k] # 0),
           Kept' => \A h \in Slot : At(h, "delete") => handlers'[h].pc = "delete",
           \A h \in Slot : handlers'[h].pc = "put" =>
              \/ handlers'[h] = handlers[h] /\ KeyOf(handlers[h]) \in Key
              \/ local'[KeyOf(handlers'[h])] # 0,
           \A t \in tasks : t.kind = "record" => t.key \in Key
    PROVE  FileInv'
  <1> SUFFICES ASSUME Kept' PROVE FileInv'
    BY DEF FileInv
  <1>1. Kept /\ scenario' = scenario
    BY KeptRuled, SeenGrows
  <1>2. \A k \in Key : \A p : There(k, p) => There(k, p)'
    BY DEF There
  <1>3. \A k \in Key : rows'[k] # Nil =>
           There(k, rows[k].path)' \/ (StaleRow(k)' /\ \E h \in Slot : At(h, "delete")')
    <2> SUFFICES ASSUME NEW k \in Key, rows[k] # Nil
                 PROVE  There(k, rows[k].path)' \/ (StaleRow(k)' /\ \E h \in Slot : At(h, "delete")')
      OBVIOUS
    <2>1. There(k, rows[k].path) \/ (StaleRow(k) /\ \E h \in Slot : At(h, "delete"))
      BY <1>1 DEF FileInv
    <2>2. There(k, rows[k].path) => There(k, rows[k].path)'
      BY <1>2 DEF There
    <2>3. StaleRow(k) => StaleRow(k)'
      BY <1>1 DEF StaleRow
    <2>4. \A h \in Slot : At(h, "delete") => At(h, "delete")'
      BY DEF At
    <2> QED BY <2>1, <2>2, <2>3, <2>4
  <1>4. \A t \in tasks' : t.kind = "record" => There(t.key, t.path)'
    <2> SUFFICES ASSUME NEW t \in tasks', t.kind = "record" PROVE There(t.key, t.path)'
      OBVIOUS
    <2>1. There(t.key, t.path) /\ t.key \in Key
      BY <1>1 DEF FileInv
    <2> QED BY <2>1 DEF There
  <1>5. \A h \in Slot : At(h, "put")' => local'[KeyOf(handlers'[h])] # 0
    BY <1>1 DEF FileInv, At
  <1> QED BY <1>3, <1>4, <1>5 DEF FileInv, KeyOf

LEMMA PutKey ==
    ASSUME ControlInv, StoreInv, NEW h \in Slot, handlers[h].pc = "put"
    PROVE  /\ KeyOf(handlers[h]) \in Key /\ KeyOf(handlers[h]).name = handlers[h].ask.name
           /\ handlers[h].content \in 1..saves /\ Writing(handlers[h]) /\ Request(handlers[h])
  <1>1. Request(handlers[h]) /\ handlers[h].ask.kind \in {"upload", "agent"}
    BY RequestAt, KindAt
  <1>2. handlers[h].target \in 1..Top(scenario) /\ handlers[h].content \in 1..saves
    BY DEF StoreInv, RequestOk, Saved
  <1> QED BY <1>1, <1>2, KeyIs DEF Writing, Writes

LEMMA TaskKey ==
    ASSUME StoreInv
    PROVE  \A t \in tasks : t.kind = "record" => t.key \in Key
  BY DEF StoreInv, TaskOk, RecordOk

\* What a save writes, and where.
LEMMA WriteKey ==
    ASSUME ControlInv, StoreInv, NEW h \in Slot, WriteLocal(h)
    PROVE  \E q : LET r == handlers[h] IN
            /\ Moved(h, q) /\ Request(r) /\ r.pc = "local" /\ r.ask.kind \in {"upload", "agent"}
            /\ q.pc = "put" /\ q.ask = r.ask /\ q.docs = r.docs /\ q.floor = r.floor
            /\ q.target \in 1..Top(scenario) /\ q.content = saves + 1 /\ Writing(r)
            /\ KeyOf(q) \in Key /\ KeyOf(q).name = r.ask.name /\ KeyOf(q).version = q.target
            /\ r.ask.kind = "upload" => KeyOf(q) = PrdKey(scenario) /\ r.ask.name = PRD_FILENAME
            /\ KeyOf(q).name = PRD_FILENAME /\ KeyOf(q) # PrdKey(scenario) => "older" \in seen'
            /\ r.ask.kind = "upload" => "uploaded" \in seen'
            /\ r.ask.kind = "agent" /\ r.ask.name = PRD_FILENAME => "uploaded" \notin seen'
            /\ r.ask.kind = "agent" /\ r.ask.name # PRD_FILENAME => ("uploaded" \in seen' <=> "uploaded" \in seen)
            /\ local' = [local EXCEPT ![KeyOf(q)] = saves + 1]
            /\ saves' = saves + 1 /\ saves \in Nat \ {0} /\ last' = [last EXCEPT ![r.ask.name] = saves + 1]
            /\ UNCHANGED <<objects, rows, tasks, scenario, served>>
  <1>1. PICK r : r = handlers[h]
    OBVIOUS
  <1>2. PICK q :
            /\ Moved(h, q) /\ Request(r) /\ r.pc = "local" /\ r.ask.kind \in {"upload", "agent"}
            /\ q.pc = "put" /\ q.ask = r.ask /\ q.docs = r.docs /\ q.floor = r.floor
            /\ q.target = SaveVersion(r) /\ q.content = saves + 1
            /\ local' = [local EXCEPT ![KeyOf(q)] = saves + 1]
            /\ seen' = (seen \ (IF r.ask.name = PRD_FILENAME THEN {"uploaded"} ELSE {}))
                         \cup (IF r.ask.kind = "upload" THEN {"uploaded"} ELSE {})
                         \cup (IF \E k \in KeysOf(r.ask.name) : k.version > q.target THEN {"older"} ELSE {})
            /\ saves' = saves + 1 /\ last' = [last EXCEPT ![r.ask.name] = saves + 1]
            /\ UNCHANGED <<objects, rows, tasks, scenario, served>>
    BY <1>1, WritingLocal
  <1>3. q.target \in 1..Top(scenario) /\ (r.ask.kind = "upload" => q.target = Top(scenario))
    <2>1. RequestOk(scenario, saves, r)
      BY <1>1 DEF StoreInv
    <2>2. (r.docs # Nil => Table(scenario, r.docs)) /\ (Uploading(r) => r.docs # Nil)
      BY <1>2, <2>1 DEF RequestOk
    <2> QED BY <1>2, <2>2, SaveIs
  <1>4. /\ KeyOf(q) \in Key /\ KeyOf(q).name = r.ask.name /\ KeyOf(q).version = q.target
        /\ r.ask.kind = "upload" => KeyOf(q) = PrdKey(scenario) /\ r.ask.name = PRD_FILENAME
    <2>1. r.ask \in Ask
      BY <1>2 DEF Request
    <2>2. r.ask.name \in Name /\ q.target \in 0..2 /\ (r.ask.kind = "upload" => r.ask.name = PRD_FILENAME)
      BY <1>2, <1>3, <2>1, AskIs, Tops
    <2> QED BY <1>2, <1>3, <2>2, Keys DEF KeyOf, PrdKey
  <1>5. KeyOf(q).name = PRD_FILENAME /\ KeyOf(q) # PrdKey(scenario) => "older" \in seen'
    <2> SUFFICES ASSUME r.ask.name = PRD_FILENAME, KeyOf(q) # PrdKey(scenario) PROVE "older" \in seen'
      BY <1>4
    <2>1. q.target < Top(scenario)
      <3>1. KeyOf(q).version # Top(scenario)
        BY <1>4, Tops
      <3> QED BY <1>3, <1>4, <3>1, Tops
    <2>2. PrdKey(scenario) \in KeysOf(PRD_FILENAME)
      BY <1>3, <2>1, Tops DEF StoreInv, Table, KeysOf
    <2>3. PrdKey(scenario).version > q.target
      BY <1>3, <2>1, Tops
    <2> QED BY <1>2, <2>2, <2>3
  <1>6. /\ r.ask.kind = "upload" => "uploaded" \in seen'
        /\ r.ask.kind = "agent" /\ r.ask.name = PRD_FILENAME => "uploaded" \notin seen'
        /\ r.ask.kind = "agent" /\ r.ask.name # PRD_FILENAME => ("uploaded" \in seen' <=> "uploaded" \in seen)
    BY <1>2
  <1>7. Writing(r) /\ saves \in Nat \ {0}
    BY <1>2 DEF Writing, Writes, StoreInv
  <1> QED BY <1>1, <1>2, <1>3, <1>4, <1>5, <1>6, <1>7

LEMMA FilePut ==
    ASSUME ControlInv, StoreInv, FileInv, [Next]_vars, NEW h \in Slot, PutObject(h) \/ PutFails(h)
    PROVE  FileInv'
  <1>1. PICK r : r = handlers[h]
    OBVIOUS
  <1>2. PICK u, q :
            /\ u \in BOOLEAN /\ (u => scenario.minio)
            /\ Moved(h, q) /\ Request(r) /\ r.pc = "put" /\ r.ask.kind \in {"upload", "agent"}
            /\ \/ r.ask.kind = "upload" /\ q.pc = "clean" /\ Onward(q, r)
               \/ r.ask.kind = "agent" /\ q = Idle
            /\ objects' = IF u THEN [objects EXCEPT ![KeyOf(r)] = r.content] ELSE objects
            /\ tasks' = tasks \cup {Record(r, u)} \cup Planned(r)
            /\ UNCHANGED <<local, rows, scenario>>
    BY <1>1, Putting
  <1>3. RequestOk(scenario, saves, r) /\ KeyOf(r) \in Key /\ r.content \in 1..saves /\ saves \in Nat
    BY <1>1, <1>2, PutKey DEF StoreInv
  <1> SUFFICES ASSUME Kept' PROVE FileInv'
    BY DEF FileInv
  <1>4. Kept
    BY KeptRuled
  <1>5. \A k \in Key : objects[k] # 0 => objects'[k] # 0
    BY <1>2, <1>3 DEF StoreInv
  <1>6. u => objects'[KeyOf(r)] # 0
    BY <1>2, <1>3 DEF StoreInv
  <1>7. \A k \in Key : rows'[k] # Nil =>
           There(k, rows[k].path)' \/ (StaleRow(k)' /\ \E g \in Slot : At(g, "delete")')
    <2> SUFFICES ASSUME NEW k \in Key, rows[k] # Nil
                 PROVE  There(k, rows[k].path)' \/ (StaleRow(k)' /\ \E g \in Slot : At(g, "delete")')
      BY <1>2
    <2>1. There(k, rows[k].path) \/ (StaleRow(k) /\ \E g \in Slot : At(g, "delete"))
      BY <1>4 DEF FileInv
    <2>2. There(k, rows[k].path) => There(k, rows[k].path)'
      BY <1>2, <1>5 DEF There
    <2>3. StaleRow(k) => StaleRow(k)'
      BY <1>2 DEF StaleRow
    <2>4. \A g \in Slot : At(g, "delete") => At(g, "delete")'
      BY <1>1, <1>2 DEF At, Moved
    <2> QED BY <2>1, <2>2, <2>3, <2>4
  <1>8. \A t \in tasks' : t.kind = "record" => There(t.key, t.path)'
    <2> SUFFICES ASSUME NEW t \in tasks', t.kind = "record" PROVE There(t.key, t.path)'
      OBVIOUS
    <2>1. CASE t = Record(r, u)
      <3>1. t.key = KeyOf(r) /\ t.path = IF u THEN "object" ELSE "local"
        BY <1>2, <1>3, <2>1, LeavesOk
      <3>2. local[KeyOf(r)] # 0
        BY <1>1, <1>2, <1>4 DEF FileInv, At
      <3> QED BY <1>2, <1>6, <3>1, <3>2 DEF There
    <2>2. CASE t \in tasks
      <3>1. There(t.key, t.path) /\ t.key \in Key
        BY <1>4, <2>2, TaskKey DEF FileInv
      <3> QED BY <1>2, <1>5, <3>1 DEF There
    <2>3. CASE t \in Planned(r)
      BY <1>2, <1>3, <2>3, LeavesOk
    <2> QED BY <1>2, <2>1, <2>2, <2>3
  <1>9. \A g \in Slot : At(g, "put")' => local'[KeyOf(handlers'[g])] # 0
    <2> SUFFICES ASSUME NEW g \in Slot, handlers'[g].pc = "put" PROVE local'[KeyOf(handlers'[g])] # 0
      BY DEF At
    <2>1. handlers'[g] = handlers[g]
      BY <1>2, IdleIs DEF Moved
    <2> QED BY <1>2, <1>4, <2>1 DEF FileInv, At
  <1> QED BY <1>7, <1>8, <1>9 DEF FileInv, KeyOf

LEMMA FileClean ==
    ASSUME ControlInv, StoreInv, LowInv, FileInv, [Next]_vars, NEW h \in Slot, CleanStale(h) \/ RemoveFails(h)
    PROVE  FileInv'
  <1>1. PICK r : r = handlers[h]
    OBVIOUS
  <1>2. PICK removed, q :
            /\ removed \subseteq Stale(r)
            /\ Moved(h, q) /\ Request(r) /\ r.pc = "clean" /\ r.ask.kind = "upload"
            /\ \/ Stale(r) = {} /\ q = Idle
               \/ q.pc = "delete" /\ Onward(q, r)
            /\ objects' = Without(objects, {k \in removed : InMinio(r, k)})
            /\ local' = Without(local, {k \in removed : r.docs[k].path = "local"})
            /\ UNCHANGED <<rows, tasks, scenario>>
    BY <1>1, Cleaning
  <1> SUFFICES ASSUME Kept' PROVE FileInv'
    BY DEF FileInv
  <1>3. Kept /\ ~Collided
    BY KeptRuled
  <1>4. \A k \in Stale(r) :
           /\ rows[k] # Nil => StaleRow(k)
           /\ \A t \in tasks : t.kind = "record" => t.key # k
           /\ \A g \in Slot : At(g, "put") => KeyOf(handlers[g]) # k
    BY <1>1, <1>2, <1>3, StaleIs DEF Saved
  <1>5. \A k \in Key : k \notin Stale(r) => local'[k] = local[k] /\ objects'[k] = objects[k]
    BY <1>2 DEF Without
  <1>6. \A k \in Key : k \notin Stale(r) => \A p : There(k, p) => There(k, p)'
    BY <1>5 DEF There
  <1>7. Stale(r) # {} => q.pc = "delete"
    BY <1>2
  <1>8. \A g \in Slot : At(g, "delete") => At(g, "delete")'
    BY <1>1, <1>2 DEF At, Moved
  <1>9. \A k \in Key : rows'[k] # Nil =>
           There(k, rows[k].path)' \/ (StaleRow(k)' /\ \E g \in Slot : At(g, "delete")')
    <2> SUFFICES ASSUME NEW k \in Key, rows[k] # Nil
                 PROVE  There(k, rows[k].path)' \/ (StaleRow(k)' /\ \E g \in Slot : At(g, "delete")')
      BY <1>2
    <2>1. There(k, rows[k].path) \/ (StaleRow(k) /\ \E g \in Slot : At(g, "delete"))
      BY <1>3 DEF FileInv
    <2>2. StaleRow(k) => StaleRow(k)'
      BY <1>2 DEF StaleRow
    <2>3. CASE k \in Stale(r)
      <3>1. At(h, "delete")'
        BY <1>2, <1>7, <2>3 DEF At, Moved
      <3> QED BY <1>4, <2>2, <2>3, <3>1
    <2>4. CASE k \notin Stale(r)
      <3>1. There(k, rows[k].path) => There(k, rows[k].path)'
        BY <1>2, <1>5, <2>4 DEF There
      <3> QED BY <1>8, <2>1, <2>2, <3>1
    <2> QED BY <2>3, <2>4
  <1>10. \A t \in tasks' : t.kind = "record" => There(t.key, t.path)'
    <2> SUFFICES ASSUME NEW t \in tasks', t.kind = "record" PROVE There(t.key, t.path)'
      OBVIOUS
    <2>1. There(t.key, t.path) /\ t.key \in Key /\ t.key \notin Stale(r)
      BY <1>2, <1>3, <1>4, TaskKey DEF FileInv
    <2> QED BY <1>5, <2>1 DEF There
  <1>11. \A g \in Slot : At(g, "put")' => local'[KeyOf(handlers'[g])] # 0
    <2> SUFFICES ASSUME NEW g \in Slot, handlers'[g].pc = "put" PROVE local'[KeyOf(handlers'[g])] # 0
      BY DEF At
    <2>1. handlers'[g] = handlers[g]
      BY <1>2, IdleIs DEF Moved
    <2>2. local[KeyOf(handlers[g])] # 0 /\ KeyOf(handlers[g]) \in Key /\ KeyOf(handlers[g]) \notin Stale(r)
      BY <1>3, <1>4, <2>1, PutKey DEF FileInv, At
    <2> QED BY <1>5, <2>1, <2>2
  <1> QED BY <1>9, <1>10, <1>11 DEF FileInv, KeyOf

LEMMA FileDelete ==
    ASSUME ControlInv, StoreInv, OwnInv, CoverInv, FileInv, [Next]_vars, NEW h \in Slot, delete_documents_by_ids(h)
    PROVE  FileInv'
  <1>1. Moved(h, Idle) /\ UNCHANGED <<local, objects, tasks, scenario>>
    BY Deleting
  <1> SUFFICES ASSUME Kept' PROVE FileInv'
    BY DEF FileInv
  <1>2. Kept /\ ~Collided
    BY KeptRuled
  <1>3. \A k \in Key : rows'[k] # Nil => rows'[k] = rows[k] /\ ~StaleRow(k)
    BY <1>2, DeletesStale
  <1>4. \A k \in Key : rows'[k] # Nil => There(k, rows[k].path)'
    <2> SUFFICES ASSUME NEW k \in Key, rows'[k] # Nil PROVE There(k, rows[k].path)'
      OBVIOUS
    <2>1. There(k, rows[k].path) /\ rows'[k] = rows[k]
      BY <1>2, <1>3 DEF FileInv
    <2> QED BY <1>1, <2>1 DEF There
  <1>5. \A t \in tasks' : t.kind = "record" => There(t.key, t.path)'
    BY <1>1, <1>2 DEF FileInv, There
  <1>6. \A g \in Slot : At(g, "put")' => local'[KeyOf(handlers'[g])] # 0
    <2> SUFFICES ASSUME NEW g \in Slot, handlers'[g].pc = "put" PROVE local'[KeyOf(handlers'[g])] # 0
      BY DEF At
    <2>1. handlers'[g] = handlers[g]
      BY <1>1, IdleIs DEF Moved
    <2> QED BY <1>1, <1>2, <2>1 DEF FileInv, At
  <1> QED BY <1>4, <1>5, <1>6 DEF FileInv, KeyOf

LEMMA FileTask ==
    ASSUME ControlInv, StoreInv, FileInv, [Next]_vars, RunTask
    PROVE  FileInv'
  <1>1. PICK t \in tasks : /\ save_document_record(t) \/ rows' = rows
                           /\ tasks' = tasks \ {t} /\ UNCHANGED <<local, objects, handlers, scenario, seen>>
    BY DEF RunTask, persist_prd_items, persist_project_overview
  <1>2. CASE rows' = rows
    <2>1. FileInv' \/ Kept
      BY KeptRuled DEF FileInv
    <2> QED BY <1>1, <1>2, <2>1 DEF FileInv, Kept, Whole, Backed, Collided, At, There, StaleRow, KeyOf
  <1>3. CASE save_document_record(t)
    <2>1. /\ t.key \in Key /\ rows'[t.key] # Nil /\ rows'[t.key].path = t.path /\ t.kind = "record"
          /\ \A k \in Key : k # t.key => rows'[k] = rows[k]
      BY <1>3, RecordStale DEF save_document_record
    <2> SUFFICES ASSUME Kept' PROVE FileInv'
      BY DEF FileInv
    <2>2. Kept
      BY KeptRuled
    <2>3. There(t.key, rows[t.key].path)'
      <3>1. There(t.key, t.path)
        BY <2>1, <2>2 DEF FileInv
      <3> QED BY <1>1, <2>1, <3>1 DEF There
    <2>4. \A k \in Key : rows'[k] # Nil =>
             There(k, rows[k].path)' \/ (StaleRow(k)' /\ \E g \in Slot : At(g, "delete")')
      <3> SUFFICES ASSUME NEW k \in Key, k # t.key, rows'[k] # Nil
                   PROVE  There(k, rows[k].path)' \/ (StaleRow(k)' /\ \E g \in Slot : At(g, "delete")')
        BY <2>3
      <3>1. There(k, rows[k].path) \/ (StaleRow(k) /\ \E g \in Slot : At(g, "delete"))
        BY <2>1, <2>2 DEF FileInv
      <3> QED BY <1>1, <2>1, <3>1 DEF There, StaleRow, At
    <2>5. \A u \in tasks' : u.kind = "record" => There(u.key, u.path)'
      BY <1>1, <2>2 DEF FileInv, There
    <2>6. \A g \in Slot : At(g, "put")' => local'[KeyOf(handlers'[g])] # 0
      BY <1>1, <2>2 DEF FileInv, At
    <2> QED BY <2>4, <2>5, <2>6 DEF FileInv, KeyOf
  <1> QED BY <1>1, <1>2, <1>3

LEMMA FileStays ==
    ASSUME ControlInv, StoreInv, OwnInv, LowInv, CoverInv, FileInv, [Next]_vars
    PROVE  FileInv'
  <1>1. \A g \in Slot : handlers[g].pc = "put" => KeyOf(handlers[g]) \in Key
    BY PutKey
  <1>2. ASSUME NEW h \in Slot, NEW q, Moved(h, q), q.pc # "put", Kept' => handlers[h].pc # "delete",
               UNCHANGED <<local, objects, rows, tasks>>
        PROVE  FileInv'
    <2>1. \A g \in Slot : handlers'[g].pc = "put" => handlers'[g] = handlers[g] /\ KeyOf(handlers[g]) \in Key
      BY <1>1, <1>2 DEF Moved
    <2>2. Kept' => \A g \in Slot : At(g, "delete") => handlers'[g].pc = "delete"
      BY <1>2 DEF Moved, At
    <2> QED BY <1>2, <2>1, <2>2, TaskKey, FileQuiet
  <1>3. ASSUME NEW h \in Slot, Arrive(h) PROVE FileInv'
    <2>1. PICK q : Moved(h, q) /\ handlers[h].pc = "idle" /\ q.pc = FirstStep(q.ask)
      BY <1>3, Arriving
    <2>2. UNCHANGED <<local, objects, rows, tasks>>
      BY <1>3 DEF Arrive, stores
    <2> QED BY <1>2, <2>1, <2>2 DEF FirstStep
  <1>4. ASSUME NEW h \in Slot, get_documents(h) PROVE FileInv'
    <2>1. PICK q : Moved(h, q) /\ handlers[h].pc = "docs" /\ (q = Idle \/ q.pc \in {"local", "read"})
      BY <1>4, Getting
    <2>2. UNCHANGED <<local, objects, rows, tasks>>
      BY <1>4 DEF get_documents, stores
    <2> QED BY <1>2, <2>1, <2>2, IdleIs
  <1>5. ASSUME NEW h \in Slot, WriteLocal(h) PROVE FileInv'
    <2>1. PICK q : /\ Moved(h, q) /\ handlers[h].pc = "local" /\ KeyOf(q) \in Key
                   /\ local' = [local EXCEPT ![KeyOf(q)] = saves + 1] /\ saves \in Nat
                   /\ UNCHANGED <<objects, rows, tasks>>
      BY <1>5, WriteKey
    <2>2. local'[KeyOf(q)] # 0 /\ \A k \in Key : local[k] # 0 => local'[k] # 0
      BY <2>1 DEF StoreInv
    <2>3. \A g \in Slot : handlers'[g].pc = "put" =>
             (handlers'[g] = handlers[g] /\ KeyOf(handlers[g]) \in Key) \/ local'[KeyOf(handlers'[g])] # 0
      BY <1>1, <2>1, <2>2 DEF Moved
    <2>4. \A g \in Slot : At(g, "delete") => handlers'[g].pc = "delete"
      BY <2>1 DEF Moved, At
    <2> QED BY <2>1, <2>2, <2>3, <2>4, TaskKey, FileQuiet
  <1>6. ASSUME NEW h \in Slot, ReadContent(h) \/ GetFails(h) PROVE FileInv'
    <2>1. PICK q : /\ Moved(h, q) /\ handlers[h].pc = "read" /\ (q = Idle \/ q.pc = "llm")
                   /\ UNCHANGED <<local, objects, rows, tasks>>
      BY <1>6, Reading
    <2> QED BY <1>2, <2>1, IdleIs
  <1>7. ASSUME NEW h \in Slot,
               \/ Extract(h) \/ delete_prd_items(h) \/ save_prd_items(h) \/ save_project_overview(h) \/ MySQLFails(h)
        PROVE  FileInv'
    <2>1. PICK q : /\ Moved(h, q) /\ (q = Idle \/ q.pc \in {"clear", "items", "overview", "read"})
                   /\ (handlers[h].pc = "delete" => "torn" \in seen')
                   /\ UNCHANGED <<local, objects, rows, tasks>>
      BY <1>7, Going
    <2> QED BY <1>2, <2>1, IdleIs DEF Kept, Whole
  <1>8. CASE TaskFails \/ Redeploy \/ \E w \in Worker : Restart(w)
    <2> SUFFICES ASSUME Kept' PROVE FileInv'
      BY DEF FileInv
    <2>1. /\ \A h \in Slot : handlers[h].pc = "idle"
          /\ handlers' = handlers /\ tasks' = {}
          /\ UNCHANGED <<objects, rows, scenario>>
          /\ (\E k \in Key : rows[k] # Nil /\ rows[k].path = "local") => "lost" \in seen'
      BY <1>8, EmptiedAlone DEF Kept
    <2>2. Kept
      BY KeptRuled
    <2>3. \A k \in Key : rows[k] # Nil => rows[k].path = "object" /\ There(k, rows[k].path)
      <3>1. \A k \in Key : rows[k] # Nil => rows[k].path = "object"
        BY <2>1, TableIs, RowIs DEF Kept, Backed, StoreInv
      <3> QED BY <2>1, <2>2, <3>1 DEF FileInv, At
    <2>4. \A k \in Key : rows'[k] # Nil => There(k, rows[k].path)'
      BY <2>1, <2>3 DEF There
    <2> QED BY <2>1, <2>4 DEF FileInv, At
  <1>9. CASE UNCHANGED vars
    BY <1>9 DEF vars, stores, FileInv, Kept, Whole, Backed, Collided, At, There, StaleRow, KeyOf
  <1> QED BY <1>3, <1>4, <1>5, <1>6, <1>7, <1>8, <1>9, FilePut, FileClean, FileDelete, FileTask DEF Next

-----------------------------------------------------------------------------
\* An upload replaces what was there.

LEMMA ReplacedRuled ==
    ASSUME ControlInv, [Next]_vars
    PROVE  /\ Replaced' => Whole /\ ~Collided /\ Whole'
           /\ (\A h \in Slot : ~WriteLocal(h)) => (Replaced' => Replaced)
           /\ scenario' = scenario
  BY Ruled, SeenGrows DEF Replaced

\* Steps that take nothing an upload has left.
LEMMA UploadedQuiet ==
    ASSUME UploadedInv, Replaced' => Replaced, scenario' = scenario,
           Replaced' =>
              /\ \A h \in Slot : Saved(handlers[h]) => Saved(handlers'[h]) /\ handlers'[h].ask = handlers[h].ask
              /\ rows' = rows /\ tasks \subseteq tasks'
              /\ \A h \in Slot : At(h, "put") => handlers'[h] = handlers[h]
    PROVE  UploadedInv'
  <1> SUFFICES ASSUME Replaced' PROVE UploadedInv'
    BY DEF UploadedInv
  <1>1. \/ \E h \in Slot : (Saved(handlers[h]) /\ handlers[h].ask.kind = "upload")'
        \/ \A k \in Key : ~StaleRow(k)'
    BY DEF UploadedInv, StaleRow
  <1>2. ASSUME NEW h \in Slot, At(h, "put"), KeyOf(handlers[h]) = PrdKey(scenario)
        PROVE  (At(h, "put") /\ KeyOf(handlers[h]) = PrdKey(scenario))'
    BY <1>2 DEF At, KeyOf
  <1>3. \/ (rows[PrdKey(scenario)] # Nil)'
        \/ \E h \in Slot : (At(h, "put") /\ KeyOf(handlers[h]) = PrdKey(scenario))'
        \/ \E t \in tasks' : t.kind = "record" /\ t.key = PrdKey(scenario)'
    BY <1>2 DEF UploadedInv
  <1> QED BY <1>1, <1>3 DEF UploadedInv

LEMMA UploadedWrite ==
    ASSUME ControlInv, StoreInv, UploadedInv, [Next]_vars, NEW h \in Slot, WriteLocal(h)
    PROVE  UploadedInv'
  <1>1. PICK r : r = handlers[h]
    OBVIOUS
  <1>2. PICK q :
            /\ Moved(h, q) /\ Request(r) /\ r.pc = "local" /\ r.ask.kind \in {"upload", "agent"}
            /\ q.pc = "put" /\ q.ask = r.ask
            /\ r.ask.kind = "upload" => KeyOf(q) = PrdKey(scenario) /\ r.ask.name = PRD_FILENAME
            /\ r.ask.kind = "agent" /\ r.ask.name = PRD_FILENAME => "uploaded" \notin seen'
            /\ r.ask.kind = "agent" /\ r.ask.name # PRD_FILENAME => ("uploaded" \in seen' <=> "uploaded" \in seen)
            /\ UNCHANGED <<rows, tasks, scenario>>
    BY <1>1, WriteKey
  <1>3. CASE r.ask.kind = "upload"
    <2>1. (Saved(handlers[h]) /\ handlers[h].ask.kind = "upload")'
      BY <1>2, <1>3 DEF Moved, Saved
    <2>2. (At(h, "put") /\ KeyOf(handlers[h]) = PrdKey(scenario))'
      BY <1>2, <1>3 DEF Moved, At, KeyOf
    <2> QED BY <2>1, <2>2 DEF UploadedInv
  <1>4. CASE r.ask.kind = "agent" /\ r.ask.name = PRD_FILENAME
    BY <1>2, <1>4 DEF UploadedInv, Replaced
  <1>5. CASE r.ask.kind = "agent" /\ r.ask.name # PRD_FILENAME
    <2>1. Replaced' => Replaced
      BY <1>2, <1>5, ReplacedRuled DEF Replaced
    <2>2. \A g \in Slot : Saved(handlers[g]) => g # h
      BY <1>1, <1>2 DEF Saved
    <2>3. \A g \in Slot : At(g, "put") => g # h
      BY <1>1, <1>2 DEF At
    <2> QED BY <1>2, <2>1, <2>2, <2>3, UploadedQuiet DEF Moved
  <1> QED BY <1>2, <1>3, <1>4, <1>5

LEMMA UploadedPut ==
    ASSUME ControlInv, StoreInv, UploadedInv, [Next]_vars, NEW h \in Slot, PutObject(h) \/ PutFails(h)
    PROVE  UploadedInv'
  <1>1. PICK r : r = handlers[h]
    OBVIOUS
  <1>2. PICK u, q :
            /\ u \in BOOLEAN /\ (u => scenario.minio)
            /\ Moved(h, q) /\ Request(r) /\ r.pc = "put" /\ r.ask.kind \in {"upload", "agent"}
            /\ \/ r.ask.kind = "upload" /\ q.pc = "clean" /\ Onward(q, r)
               \/ r.ask.kind = "agent" /\ q = Idle
            /\ tasks' = tasks \cup {Record(r, u)} \cup Planned(r)
            /\ UNCHANGED <<rows, scenario, seen>>
    BY <1>1, Putting
  <1>3. RequestOk(scenario, saves, r)
    BY <1>1 DEF StoreInv
  <1> SUFFICES ASSUME Replaced' PROVE UploadedInv'
    BY DEF UploadedInv
  <1>4. Replaced
    BY <1>2 DEF Replaced, Whole, Collided
  <1>5. \/ \E g \in Slot : (Saved(handlers[g]) /\ handlers[g].ask.kind = "upload")'
        \/ \A k \in Key : ~StaleRow(k)'
    <2>1. ASSUME NEW g \in Slot, Saved(handlers[g]), handlers[g].ask.kind = "upload"
          PROVE  (Saved(handlers[g]) /\ handlers[g].ask.kind = "upload")'
      BY <1>1, <1>2, <2>1 DEF Moved, Saved, Onward
    <2>2. \A k \in Key : StaleRow(k)' => StaleRow(k)
      BY <1>2 DEF StaleRow
    <2> QED BY <1>4, <2>1, <2>2 DEF UploadedInv
  <1>6. Record(r, u) \in tasks' /\ Record(r, u).kind = "record" /\ Record(r, u).key = KeyOf(r)
    BY <1>2, <1>3, LeavesOk
  <1>7. \/ (rows[PrdKey(scenario)] # Nil)'
        \/ \E g \in Slot : (At(g, "put") /\ KeyOf(handlers[g]) = PrdKey(scenario))'
        \/ \E t \in tasks' : t.kind = "record" /\ t.key = PrdKey(scenario)'
    <2>1. ASSUME NEW g \in Slot, At(g, "put"), KeyOf(handlers[g]) = PrdKey(scenario), g # h
          PROVE  (At(g, "put") /\ KeyOf(handlers[g]) = PrdKey(scenario))'
      BY <1>2, <2>1 DEF Moved, At, KeyOf
    <2> QED BY <1>1, <1>2, <1>4, <1>6, <2>1 DEF UploadedInv
  <1> QED BY <1>5, <1>7 DEF UploadedInv

LEMMA UploadedClean ==
    ASSUME ControlInv, StoreInv, CoverInv, UploadedInv, [Next]_vars, NEW h \in Slot, CleanStale(h) \/ RemoveFails(h)
    PROVE  UploadedInv'
  <1>1. PICK r : r = handlers[h]
    OBVIOUS
  <1>2. PICK q :
            /\ Moved(h, q) /\ Request(r) /\ r.pc = "clean" /\ r.ask.kind = "upload"
            /\ \/ Stale(r) = {} /\ q = Idle
               \/ q.pc = "delete" /\ Onward(q, r)
            /\ UNCHANGED <<rows, tasks, scenario, seen>>
    BY <1>1, Cleaning
  <1> SUFFICES ASSUME Replaced' PROVE UploadedInv'
    BY DEF UploadedInv
  <1>3. Replaced
    BY <1>2 DEF Replaced, Whole, Collided
  <1>4. \A g \in Slot : At(g, "put") => handlers'[g] = handlers[g]
    BY <1>1, <1>2 DEF Moved, At
  <1>5. \/ (rows[PrdKey(scenario)] # Nil)'
        \/ \E g \in Slot : (At(g, "put") /\ KeyOf(handlers[g]) = PrdKey(scenario))'
        \/ \E t \in tasks' : t.kind = "record" /\ t.key = PrdKey(scenario)'
    <2>1. ASSUME NEW g \in Slot, At(g, "put"), KeyOf(handlers[g]) = PrdKey(scenario)
          PROVE  (At(g, "put") /\ KeyOf(handlers[g]) = PrdKey(scenario))'
      BY <1>2, <1>4, <2>1 DEF At, KeyOf
    <2> QED BY <1>2, <1>3, <2>1 DEF UploadedInv
  <1>6. \/ \E g \in Slot : (Saved(handlers[g]) /\ handlers[g].ask.kind = "upload")'
        \/ \A k \in Key : ~StaleRow(k)'
    <2>1. CASE q.pc = "delete" /\ Onward(q, r)
      <3>1. (Saved(handlers[h]) /\ handlers[h].ask.kind = "upload")'
        BY <1>2, <2>1 DEF Moved, Saved, Onward
      <3> QED BY <3>1
    <2>2. CASE Stale(r) = {}
      <3>1. Uploading(r) /\ r.target = Top(scenario)
        BY <1>1, <1>2 DEF Uploading, StoreInv, RequestOk, Saved
      <3>2. \A k \in Key : ~StaleRow(k)
        <4> SUFFICES ASSUME NEW k \in Key, StaleRow(k) PROVE k \in Stale(r)
          BY <2>2
        <4>1. r.docs[k] # Nil /\ IsPrd(k, r.docs[k])
          BY <1>1, <1>3, <3>1 DEF CoverInv, Replaced
        <4>2. k.name # PRD_FILENAME \/ k.version # Top(scenario)
          BY Tops DEF StaleRow
        <4> QED BY <3>1, <4>1, <4>2 DEF Stale, PrdDocs
      <3> QED BY <1>2, <3>2 DEF StaleRow
    <2> QED BY <1>2, <2>1, <2>2
  <1> QED BY <1>5, <1>6 DEF UploadedInv

LEMMA UploadedDelete ==
    ASSUME ControlInv, StoreInv, OwnInv, CoverInv, UploadedInv, [Next]_vars, NEW h \in Slot, delete_documents_by_ids(h)
    PROVE  UploadedInv'
  <1>1. Moved(h, Idle) /\ handlers[h].pc = "delete" /\ UNCHANGED <<tasks, scenario, seen>>
    BY Deleting
  <1> SUFFICES ASSUME Replaced' PROVE UploadedInv'
    BY DEF UploadedInv
  <1>2. Replaced
    BY <1>1 DEF Replaced, Whole, Collided
  <1>3. /\ \A k \in Key : rows'[k] # Nil => rows'[k] = rows[k] /\ ~StaleRow(k)
        /\ rows[PrdKey(scenario)] # Nil => rows'[PrdKey(scenario)] = rows[PrdKey(scenario)]
    BY <1>2, DeletesStale DEF Replaced
  <1>4. \A k \in Key : ~StaleRow(k)'
    BY <1>1, <1>3 DEF StaleRow
  <1>5. \A g \in Slot : At(g, "put") => handlers'[g] = handlers[g]
    BY <1>1 DEF Moved, At
  <1>6. \/ (rows[PrdKey(scenario)] # Nil)'
        \/ \E g \in Slot : (At(g, "put") /\ KeyOf(handlers[g]) = PrdKey(scenario))'
        \/ \E t \in tasks' : t.kind = "record" /\ t.key = PrdKey(scenario)'
    <2>1. ASSUME NEW g \in Slot, At(g, "put"), KeyOf(handlers[g]) = PrdKey(scenario)
          PROVE  (At(g, "put") /\ KeyOf(handlers[g]) = PrdKey(scenario))'
      BY <1>1, <1>5, <2>1 DEF At, KeyOf
    <2> QED BY <1>1, <1>2, <1>3, <2>1 DEF UploadedInv
  <1> QED BY <1>4, <1>6 DEF UploadedInv

LEMMA UploadedTask ==
    ASSUME ControlInv, StoreInv, LowInv, UploadedInv, [Next]_vars, RunTask
    PROVE  UploadedInv'
  <1>1. PICK t \in tasks : /\ save_document_record(t) \/ (rows' = rows /\ t.kind # "record")
                           /\ tasks' = tasks \ {t} /\ UNCHANGED <<handlers, scenario, seen>>
    BY DEF RunTask, persist_prd_items, persist_project_overview
  <1> SUFFICES ASSUME Replaced' PROVE UploadedInv'
    BY DEF UploadedInv
  <1>2. Replaced
    BY <1>1 DEF Replaced, Whole, Collided
  <1>3. ~LowPending
    BY <1>2 DEF LowInv, Replaced
  <1>4. /\ \A k \in Key : StaleRow(k)' => StaleRow(k)
        /\ (t.kind = "record" /\ t.key = PrdKey(scenario)) \/ rows[PrdKey(scenario)] # Nil => rows'[PrdKey(scenario)] # Nil
    <2>1. CASE rows' = rows /\ t.kind # "record"
      BY <1>1, <2>1 DEF StaleRow
    <2>2. CASE save_document_record(t)
      <3>1. /\ t.key \in Key /\ rows'[t.key] # Nil /\ \A k \in Key : k # t.key => rows'[k] = rows[k]
            /\ t.key # PrdKey(scenario) => ~IsPrd(t.key, rows'[t.key])
        BY <1>3, <2>2, RecordStale
      <3> QED BY <1>1, <3>1, Tops DEF StaleRow
    <2> QED BY <1>1, <2>1, <2>2
  <1>5. \/ \E g \in Slot : (Saved(handlers[g]) /\ handlers[g].ask.kind = "upload")'
        \/ \A k \in Key : ~StaleRow(k)'
    BY <1>1, <1>2, <1>4 DEF UploadedInv
  <1>6. \/ (rows[PrdKey(scenario)] # Nil)'
        \/ \E g \in Slot : (At(g, "put") /\ KeyOf(handlers[g]) = PrdKey(scenario))'
        \/ \E u \in tasks' : u.kind = "record" /\ u.key = PrdKey(scenario)'
    <2>1. ASSUME NEW g \in Slot, At(g, "put"), KeyOf(handlers[g]) = PrdKey(scenario)
          PROVE  (At(g, "put") /\ KeyOf(handlers[g]) = PrdKey(scenario))'
      BY <1>1, <2>1 DEF At, KeyOf
    <2> QED BY <1>1, <1>2, <1>4, <2>1 DEF UploadedInv
  <1> QED BY <1>5, <1>6 DEF UploadedInv

LEMMA UploadedStays ==
    ASSUME ControlInv, StoreInv, OwnInv, LowInv, CoverInv, UploadedInv, [Next]_vars
    PROVE  UploadedInv'
  <1>1. ASSUME NEW h \in Slot, NEW q, Moved(h, q), \A g \in Slot : ~WriteLocal(g),
               Replaced' => handlers[h].pc \notin {"put", "clean", "delete"}, UNCHANGED <<rows, tasks>>
        PROVE  UploadedInv'
    <2>1. Replaced' => \A g \in Slot : Saved(handlers[g]) => handlers'[g] = handlers[g]
      BY <1>1 DEF Saved, Moved
    <2>2. Replaced' => \A g \in Slot : At(g, "put") => handlers'[g] = handlers[g]
      BY <1>1 DEF At, Moved
    <2> QED BY <1>1, <2>1, <2>2, ReplacedRuled, UploadedQuiet
  <1>2. ASSUME NEW h \in Slot, Arrive(h), \A g \in Slot : ~WriteLocal(g) PROVE UploadedInv'
    <2>1. PICK q : Moved(h, q) /\ handlers[h].pc = "idle"
      BY <1>2, Arriving
    <2> QED BY <1>1, <1>2, <2>1 DEF Arrive, stores
  <1>3. ASSUME NEW h \in Slot, get_documents(h), \A g \in Slot : ~WriteLocal(g) PROVE UploadedInv'
    <2>1. PICK q : Moved(h, q) /\ handlers[h].pc = "docs"
      BY <1>3, Getting
    <2> QED BY <1>1, <1>3, <2>1 DEF get_documents, stores
  <1>4. ASSUME NEW h \in Slot, ReadContent(h) \/ GetFails(h), \A g \in Slot : ~WriteLocal(g) PROVE UploadedInv'
    <2>1. PICK q : Moved(h, q) /\ handlers[h].pc = "read" /\ UNCHANGED <<rows, tasks>>
      BY <1>4, Reading
    <2> QED BY <1>1, <1>4, <2>1
  <1>5. ASSUME NEW h \in Slot, \A g \in Slot : ~WriteLocal(g),
               \/ Extract(h) \/ delete_prd_items(h) \/ save_prd_items(h) \/ save_project_overview(h) \/ MySQLFails(h)
        PROVE  UploadedInv'
    <2>1. PICK q : /\ Moved(h, q) /\ handlers[h].pc \in {"docs", "delete", "llm", "clear", "items", "overview"}
                   /\ (handlers[h].pc = "delete" => "torn" \in seen')
                   /\ UNCHANGED <<rows, tasks>>
      BY <1>5, Going
    <2> QED BY <1>1, <1>5, <2>1 DEF Replaced, Whole
  <1>6. CASE TaskFails \/ Redeploy \/ \E w \in Worker : Restart(w)
    <2>1. Whole' => handlers' = handlers /\ tasks = tasks' /\ rows' = rows
      BY <1>6, EmptiedAlone
    <2>2. seen' \subseteq seen \cup {"bare", "torn", "lost"}
      BY <1>6, Ending
    <2>3. Replaced' => Replaced
      BY <2>2, ReplacedRuled DEF Replaced
    <2> QED BY <2>1, <2>3, ReplacedRuled, UploadedQuiet DEF Replaced
  <1>7. CASE UNCHANGED vars
    <2>1. UNCHANGED <<handlers, tasks, rows, scenario, seen>>
      BY <1>7 DEF vars, stores
    <2> QED BY <2>1, UploadedQuiet DEF Replaced, Whole, Collided
  <1>8. ASSUME NEW h \in Slot, WriteLocal(h) PROVE UploadedInv'
    BY <1>8, UploadedWrite
  <1> QED BY <1>2, <1>3, <1>4, <1>5, <1>6, <1>7, <1>8, UploadedPut, UploadedClean, UploadedDelete, UploadedTask DEF Next

\* The latest PRD, and what is under way to give it a row.
LastPrd == last[PRD_FILENAME]
PrdPending ==
    \/ \E h \in Slot : At(h, "put") /\ handlers[h].ask.name = PRD_FILENAME
    \/ \E t \in tasks : t.kind = "record" /\ t.key.name = PRD_FILENAME
Holds(path) == IF path = "object" THEN objects[PrdKey(scenario)] = LastPrd ELSE local[PrdKey(scenario)] = LastPrd
Sound == Whole /\ Apart

\* A save under way, its task and in the end its row lead to the latest PRD.
LastInv ==
    Sound =>
        /\ \A h \in Slot : At(h, "put") /\ handlers[h].ask.name = PRD_FILENAME =>
              /\ KeyOf(handlers[h]) = PrdKey(scenario) /\ handlers[h].content = LastPrd
              /\ local[PrdKey(scenario)] = LastPrd
        /\ \A t \in tasks : t.kind = "record" /\ t.key.name = PRD_FILENAME =>
              t.key = PrdKey(scenario) /\ Holds(t.path)
        /\ ~PrdPending /\ LastPrd # 0 =>
              /\ rows[PrdKey(scenario)] # Nil
              /\ Holds(rows[PrdKey(scenario)].path) \/ ("lost" \in seen /\ rows[PrdKey(scenario)].path = "local")

\* The disk has the latest PRD or none; once it was emptied it has no earlier one.
DiskInv ==
    Sound =>
        /\ local[PrdKey(scenario)] \in {0, LastPrd}
        /\ "bare" \notin seen => local[PrdKey(scenario)] = LastPrd
        /\ "bare" \in seen => \A k \in Key : LowKey(k) => local[k] = 0

\* What a download finds in MinIO is no older than what was complete when it began.
Fresh(T, floor) ==
    T[PrdKey(scenario)] # Nil /\ T[PrdKey(scenario)].path = "object" => objects[PrdKey(scenario)] >= floor
FreshRequest(r) ==
    r.pc # "idle" /\ r.ask.kind = "download" =>
        r.floor \in 0..LastPrd /\ Fresh(rows, r.floor) /\ (r.docs # Nil => Fresh(r.docs, r.floor))
FreshInv == Sound => \A h \in Slot : FreshRequest(handlers[h])

PrdInv == LastInv /\ DiskInv /\ FreshInv

-----------------------------------------------------------------------------

LEMMA SoundRuled ==
    ASSUME ControlInv, [Next]_vars
    PROVE  /\ Sound' => Sound /\ Whole /\ Whole' /\ Apart /\ ~Collided /\ "crowded" \notin seen /\ "older" \notin seen'
           /\ "lost" \in seen => "lost" \in seen'
           /\ "bare" \in seen => "bare" \in seen'
           /\ ~Redeploy => ("bare" \in seen' => "bare" \in seen)
           /\ scenario' = scenario
  <1>1. Sound' => Whole /\ Apart
    BY Ruled DEF Sound
  <1>2. Apart => ~Collided
    BY Ruled
  <1> QED BY <1>1, <1>2, SeenGrows DEF Sound, Apart

\* Steps that save, record or remove no PRD at the newest version.
LEMMA PrdQuiet ==
    ASSUME ControlInv, StoreInv, PrdInv, [Next]_vars, ~Redeploy,
           last'[PRD_FILENAME] = last[PRD_FILENAME],
           objects'[PrdKey(scenario)] = objects[PrdKey(scenario)],
           local'[PrdKey(scenario)] = local[PrdKey(scenario)],
           \A k \in Key : LowKey(k) => local'[k] \in {0, local[k]},
           rows'[PrdKey(scenario)] = rows[PrdKey(scenario)],
           Sound' => \A t : t.kind = "record" /\ t.key.name = PRD_FILENAME => (t \in tasks <=> t \in tasks'),
           \A h \in Slot : (handlers'[h].pc = "put" /\ handlers'[h].ask.name = PRD_FILENAME) \/ (handlers[h].pc = "put" /\ handlers[h].ask.name = PRD_FILENAME)
              => handlers'[h] = handlers[h],
           Sound' => \A h \in Slot : handlers'[h] = handlers[h] \/ FreshRequest(handlers'[h])
    PROVE  PrdInv'
  <1> SUFFICES ASSUME Sound' PROVE PrdInv'
    BY DEF PrdInv, LastInv, DiskInv, FreshInv
  <1>1. /\ Sound /\ scenario' = scenario /\ ("bare" \in seen' <=> "bare" \in seen) /\ ("lost" \in seen => "lost" \in seen')
    BY SoundRuled
  <1>2. PrdKey(scenario)' = PrdKey(scenario) /\ LastPrd' = LastPrd /\ \A k : LowKey(k)' <=> LowKey(k)
    BY <1>1 DEF PrdKey, LastPrd, LowKey
  <1>3. \A p : Holds(p)' <=> Holds(p)
    BY <1>1, <1>2 DEF Holds
  <1>4. LastInv'
    <2>1. \A h \in Slot : (At(h, "put") /\ handlers[h].ask.name = PRD_FILENAME)' =>
              /\ (KeyOf(handlers[h]) = PrdKey(scenario) /\ handlers[h].content = LastPrd)'
              /\ (local[PrdKey(scenario)] = LastPrd)'
      <3> SUFFICES ASSUME NEW h \in Slot, (At(h, "put") /\ handlers[h].ask.name = PRD_FILENAME)'
                   PROVE  /\ (KeyOf(handlers[h]) = PrdKey(scenario) /\ handlers[h].content = LastPrd)'
                          /\ (local[PrdKey(scenario)] = LastPrd)'
        OBVIOUS
      <3>1. handlers'[h] = handlers[h]
        BY DEF At
      <3>2. /\ KeyOf(handlers[h]) = PrdKey(scenario) /\ handlers[h].content = LastPrd
            /\ local[PrdKey(scenario)] = LastPrd
        BY <1>1, <3>1 DEF PrdInv, LastInv, At
      <3> QED BY <1>1, <1>2, <3>1, <3>2 DEF KeyOf
    <2>2. \A t \in tasks' : t.kind = "record" /\ t.key.name = PRD_FILENAME =>
              t.key = PrdKey(scenario)' /\ Holds(t.path)'
      <3> SUFFICES ASSUME NEW t \in tasks', t.kind = "record", t.key.name = PRD_FILENAME
                   PROVE  t.key = PrdKey(scenario)' /\ Holds(t.path)'
        OBVIOUS
      <3>1. t.key = PrdKey(scenario) /\ Holds(t.path)
        BY <1>1 DEF PrdInv, LastInv
      <3> QED BY <1>2, <1>3, <3>1
    <2>3. PrdPending => PrdPending'
      BY DEF PrdPending, At
    <2>4. (~PrdPending /\ LastPrd # 0)' =>
              /\ (rows[PrdKey(scenario)] # Nil)'
              /\ Holds(rows[PrdKey(scenario)].path)' \/ ("lost" \in seen /\ rows[PrdKey(scenario)].path = "local")'
      <3> SUFFICES ASSUME ~PrdPending', LastPrd # 0
                   PROVE  /\ (rows[PrdKey(scenario)] # Nil)'
                          /\ Holds(rows[PrdKey(scenario)].path)' \/ ("lost" \in seen /\ rows[PrdKey(scenario)].path = "local")'
        BY <1>2
      <3>1. /\ rows[PrdKey(scenario)] # Nil
            /\ Holds(rows[PrdKey(scenario)].path) \/ ("lost" \in seen /\ rows[PrdKey(scenario)].path = "local")
        BY <1>1, <2>3 DEF PrdInv, LastInv
      <3>2. Holds(rows[PrdKey(scenario)].path) => Holds(rows[PrdKey(scenario)].path)'
        BY <1>1, <1>2 DEF Holds
      <3> QED BY <1>1, <1>2, <3>1, <3>2
    <2> QED BY <2>1, <2>2, <2>4 DEF LastInv
  <1>5. DiskInv'
    <2>1. \A k \in Key : "bare" \in seen' /\ LowKey(k)' => local'[k] = 0
      BY <1>1, <1>2 DEF PrdInv, DiskInv
    <2> QED BY <1>1, <1>2, <2>1 DEF PrdInv, DiskInv
  <1>6. FreshInv'
    <2> SUFFICES ASSUME NEW h \in Slot PROVE FreshRequest(handlers[h])'
      BY DEF FreshInv
    <2>1. FreshRequest(handlers'[h])
      BY <1>1 DEF PrdInv, FreshInv
    <2>2. \A f : Fresh(rows, f) => Fresh(rows, f)'
      BY <1>1, <1>2 DEF Fresh
    <2>3. ASSUME NEW T, NEW f, Fresh(T, f)
          PROVE  T[PrdKey(scenario)'] # Nil /\ T[PrdKey(scenario)'].path = "object" => objects'[PrdKey(scenario)'] >= f
      BY <1>1, <1>2, <2>3 DEF Fresh
    <2> QED BY <1>2, <2>1, <2>2, <2>3 DEF FreshRequest, Fresh
  <1> QED BY <1>4, <1>5, <1>6 DEF PrdInv

\* Who saves a PRD is alone with it.
LEMMA PrdAlone ==
    ASSUME ControlInv, StoreInv, OrderInv, "crowded" \notin seen, NEW h \in Slot,
           Writing(handlers[h]), handlers[h].ask.name = PRD_FILENAME
    PROVE  /\ \A g \in Slot : handlers[g].pc = "put" /\ handlers[g].ask.name = PRD_FILENAME => g = h
           /\ handlers[h].pc \in {"local", "put"} => \A t \in tasks : t.kind = "record" => t.key.name # PRD_FILENAME
  <1>1. \A g \in Slot : handlers[g].pc = "put" => Writing(handlers[g])
    BY PutKey
  <1> QED BY <1>1 DEF OrderInv

LEMMA PrdWrite ==
    ASSUME ControlInv, StoreInv, OrderInv, PrdInv, [Next]_vars, ~Redeploy, NEW h \in Slot, WriteLocal(h)
    PROVE  PrdInv'
  <1>1. PICK r : r = handlers[h]
    OBVIOUS
  <1>2. PICK q :
            /\ Moved(h, q) /\ Request(r) /\ r.pc = "local" /\ r.ask.kind \in {"upload", "agent"}
            /\ q.pc = "put" /\ q.ask = r.ask /\ q.content = saves + 1 /\ Writing(r)
            /\ KeyOf(q) \in Key /\ KeyOf(q).name = r.ask.name
            /\ KeyOf(q).name = PRD_FILENAME /\ KeyOf(q) # PrdKey(scenario) => "older" \in seen'
            /\ local' = [local EXCEPT ![KeyOf(q)] = saves + 1]
            /\ saves' = saves + 1 /\ saves \in Nat \ {0} /\ last' = [last EXCEPT ![r.ask.name] = saves + 1]
            /\ UNCHANGED <<objects, rows, tasks, scenario>>
    BY <1>1, WriteKey
  <1>3. FreshRequest(q)
    BY <1>2 DEF FreshRequest
  <1>4. \A k \in Key : local'[k] = IF k = KeyOf(q) THEN saves + 1 ELSE local[k]
    BY <1>2 DEF StoreInv
  <1>5. \A n \in Name : last'[n] = IF n = r.ask.name THEN saves + 1 ELSE last[n]
    BY <1>2 DEF StoreInv
  <1>6. CASE r.ask.name # PRD_FILENAME
    <2>1. \A g \in Slot : handlers'[g] = handlers[g] \/ (g = h /\ handlers'[g] = q)
      BY <1>2 DEF Moved
    <2>2. last'[PRD_FILENAME] = last[PRD_FILENAME]
      BY <1>5, <1>6, Keys
    <2>3. \A k \in Key : k.name = PRD_FILENAME => local'[k] = local[k]
      BY <1>2, <1>4, <1>6
    <2>4. local'[PrdKey(scenario)] = local[PrdKey(scenario)] /\ \A k \in Key : LowKey(k) => local'[k] \in {0, local[k]}
      BY <2>3, Tops DEF LowKey
    <2>5. \A g \in Slot : (handlers'[g].pc = "put" /\ handlers'[g].ask.name = PRD_FILENAME) \/ (handlers[g].pc = "put" /\ handlers[g].ask.name = PRD_FILENAME)
              => handlers'[g] = handlers[g]
      BY <1>1, <1>2, <1>6, <2>1
    <2> QED BY <1>2, <1>3, <2>1, <2>2, <2>4, <2>5, PrdQuiet
  <1>7. CASE r.ask.name = PRD_FILENAME
    <2> SUFFICES ASSUME Sound' PROVE PrdInv'
      BY DEF PrdInv, LastInv, DiskInv, FreshInv
    <2>1. /\ Sound /\ ("bare" \in seen' <=> "bare" \in seen) /\ "crowded" \notin seen /\ "older" \notin seen'
      BY SoundRuled
    <2>2. KeyOf(q) = PrdKey(scenario) /\ PrdKey(scenario)' = PrdKey(scenario) /\ PrdKey(scenario) \in Key
      BY <1>2, <1>7, <2>1, Tops DEF PrdKey
    <2>3. LastPrd' = saves + 1 /\ local'[PrdKey(scenario)] = saves + 1
      BY <1>4, <1>5, <1>7, <2>2, Keys DEF LastPrd
    <2>4. /\ \A g \in Slot \ {h} : ~(handlers[g].pc = "put" /\ handlers[g].ask.name = PRD_FILENAME)
          /\ \A t \in tasks : t.kind = "record" => t.key.name # PRD_FILENAME
      BY <1>1, <1>2, <1>7, <2>1, PrdAlone
    <2>5. LastInv'
      <3>1. \A g \in Slot : (At(g, "put") /\ handlers[g].ask.name = PRD_FILENAME)' =>
              /\ (KeyOf(handlers[g]) = PrdKey(scenario) /\ handlers[g].content = LastPrd)'
              /\ (local[PrdKey(scenario)] = LastPrd)'
        <4> SUFFICES ASSUME NEW g \in Slot, handlers'[g].pc = "put", handlers'[g].ask.name = PRD_FILENAME
                     PROVE  /\ (KeyOf(handlers[g]) = PrdKey(scenario) /\ handlers[g].content = LastPrd)'
                            /\ (local[PrdKey(scenario)] = LastPrd)'
          BY DEF At
        <4>1. handlers'[g] = q
          BY <1>2, <2>4 DEF Moved
        <4> QED BY <1>2, <2>2, <2>3, <4>1 DEF KeyOf
      <3>2. \A t \in tasks' : t.kind = "record" => t.key.name # PRD_FILENAME
        BY <1>2, <2>4
      <3>3. PrdPending'
        <4>1. (At(h, "put") /\ handlers[h].ask.name = PRD_FILENAME)'
          BY <1>2, <1>7 DEF Moved, At
        <4> QED BY <4>1 DEF PrdPending
      <3> QED BY <3>1, <3>2, <3>3 DEF LastInv
    <2>6. DiskInv'
      <3>1. \A k \in Key : LowKey(k)' => LowKey(k) /\ k # PrdKey(scenario)
        BY <2>2 DEF LowKey
      <3>2. \A k \in Key : "bare" \in seen' /\ LowKey(k)' => local'[k] = 0
        BY <1>4, <2>1, <2>2, <3>1 DEF PrdInv, DiskInv
      <3> QED BY <2>2, <2>3, <3>2 DEF DiskInv
    <2>7. FreshInv'
      <3> SUFFICES ASSUME NEW g \in Slot, handlers'[g].pc # "idle", handlers'[g].ask.kind = "download"
                   PROVE  FreshRequest(handlers[g])'
        BY DEF FreshInv, FreshRequest
      <3>1. handlers'[g] = handlers[g]
        BY <1>2 DEF Moved
      <3>2. FreshRequest(handlers[g])
        BY <2>1 DEF PrdInv, FreshInv
      <3>3. LastPrd \in 0..saves
        BY Keys DEF StoreInv, LastPrd
      <3>4. handlers[g].floor \in 0..LastPrd'
        BY <1>2, <2>3, <3>1, <3>2, <3>3 DEF FreshRequest
      <3> QED BY <1>2, <2>2, <3>1, <3>2, <3>4 DEF FreshRequest, Fresh
    <2> QED BY <2>5, <2>6, <2>7 DEF PrdInv
  <1> QED BY <1>6, <1>7

LEMMA PrdPut ==
    ASSUME ControlInv, StoreInv, OrderInv, PrdInv, [Next]_vars, ~Redeploy, NEW h \in Slot, PutObject(h) \/ PutFails(h)
    PROVE  PrdInv'
  <1>1. PICK r : r = handlers[h]
    OBVIOUS
  <1>2. PICK u, q :
            /\ u \in BOOLEAN /\ (u => scenario.minio)
            /\ Moved(h, q) /\ Request(r) /\ r.pc = "put" /\ r.ask.kind \in {"upload", "agent"}
            /\ \/ r.ask.kind = "upload" /\ q.pc = "clean" /\ Onward(q, r)
               \/ r.ask.kind = "agent" /\ q = Idle
            /\ objects' = IF u THEN [objects EXCEPT ![KeyOf(r)] = r.content] ELSE objects
            /\ tasks' = tasks \cup {Record(r, u)} \cup Planned(r)
            /\ UNCHANGED <<local, rows, scenario, last>>
    BY <1>1, Putting
  <1>3. /\ RequestOk(scenario, saves, r) /\ KeyOf(r) \in Key /\ KeyOf(r).name = r.ask.name /\ Writing(r)
    BY <1>1, <1>2, PutKey DEF StoreInv
  <1>4. FreshRequest(q) /\ q.pc # "put"
    BY <1>2 DEF FreshRequest, Idle, Onward
  <1>5. PICK new : new = Record(r, u)
    OBVIOUS
  <1>6. /\ new.kind = "record" /\ new.key = KeyOf(r) /\ new.path = IF u THEN "object" ELSE "local"
        /\ \A t \in Planned(r) : t.kind # "record"
    BY <1>2, <1>3, <1>5, LeavesOk
  <1>7. \A t : t.kind = "record" /\ t \in tasks' => t = new \/ t \in tasks
    BY <1>2, <1>5, <1>6
  <1>8. \A k \in Key : objects'[k] = IF u /\ k = KeyOf(r) THEN r.content ELSE objects[k]
    BY <1>2 DEF StoreInv
  <1>9. CASE r.ask.name # PRD_FILENAME
    <2>1. \A g \in Slot : handlers'[g] = handlers[g] \/ (g = h /\ handlers'[g] = q)
      BY <1>2 DEF Moved
    <2>2. objects'[PrdKey(scenario)] = objects[PrdKey(scenario)]
      BY <1>3, <1>8, <1>9, Tops
    <2>3. \A t : t.kind = "record" /\ t.key.name = PRD_FILENAME => (t \in tasks <=> t \in tasks')
      BY <1>2, <1>3, <1>6, <1>7, <1>9
    <2>4. \A g \in Slot : (handlers'[g].pc = "put" /\ handlers'[g].ask.name = PRD_FILENAME) \/ (handlers[g].pc = "put" /\ handlers[g].ask.name = PRD_FILENAME)
              => handlers'[g] = handlers[g]
      BY <1>1, <1>4, <1>9, <2>1
    <2>5. \A g \in Slot : handlers'[g] = handlers[g] \/ FreshRequest(handlers'[g])
      BY <1>4, <2>1
    <2> QED BY <1>2, <2>2, <2>3, <2>4, <2>5, PrdQuiet
  <1>10. CASE r.ask.name = PRD_FILENAME
    <2> SUFFICES ASSUME Sound' PROVE PrdInv'
      BY DEF PrdInv, LastInv, DiskInv, FreshInv
    <2>1. Sound /\ ("bare" \in seen' <=> "bare" \in seen) /\ "crowded" \notin seen
      BY SoundRuled
    <2>2. PrdKey(scenario)' = PrdKey(scenario) /\ PrdKey(scenario) \in Key /\ LastPrd' = LastPrd
      BY <1>2, Tops DEF PrdKey, LastPrd
    <2>3. KeyOf(r) = PrdKey(scenario) /\ r.content = LastPrd /\ local[PrdKey(scenario)] = LastPrd
      BY <1>1, <1>2, <1>10, <2>1 DEF PrdInv, LastInv, At
    <2>4. /\ \A g \in Slot \ {h} : ~(handlers[g].pc = "put" /\ handlers[g].ask.name = PRD_FILENAME)
          /\ \A t \in tasks : t.kind = "record" => t.key.name # PRD_FILENAME
      BY <1>1, <1>2, <1>3, <1>10, <2>1, PrdAlone
    <2>5. objects'[PrdKey(scenario)] \in {objects[PrdKey(scenario)], LastPrd} /\ (u => objects'[PrdKey(scenario)] = LastPrd)
      BY <1>8, <2>2, <2>3
    <2>6. LastInv'
      <3>1. \A g \in Slot : ~(At(g, "put") /\ handlers[g].ask.name = PRD_FILENAME)'
        BY <1>2, <1>4, <2>4 DEF Moved, At
      <3>2. \A t \in tasks' : t.kind = "record" /\ t.key.name = PRD_FILENAME => t.key = PrdKey(scenario)' /\ Holds(t.path)'
        <4> SUFFICES ASSUME NEW t \in tasks', t.kind = "record", t.key.name = PRD_FILENAME
                     PROVE  t.key = PrdKey(scenario)' /\ Holds(t.path)'
          OBVIOUS
        <4>1. t = new
          BY <1>7, <2>4
        <4> QED BY <1>2, <1>6, <2>2, <2>3, <2>5, <4>1 DEF Holds
      <3>3. PrdPending'
        <4>1. new \in tasks' /\ new.key.name = PRD_FILENAME
          BY <1>2, <1>3, <1>5, <1>6, <1>10
        <4> QED BY <1>6, <4>1 DEF PrdPending
      <3> QED BY <3>1, <3>2, <3>3 DEF LastInv
    <2>7. DiskInv'
      BY <1>2, <2>1, <2>2 DEF PrdInv, DiskInv, LowKey
    <2>8. FreshInv'
      <3> SUFFICES ASSUME NEW g \in Slot, handlers'[g].pc # "idle", handlers'[g].ask.kind = "download"
                   PROVE  FreshRequest(handlers[g])'
        BY DEF FreshInv, FreshRequest
      <3>1. handlers'[g] = handlers[g]
        BY <1>2, IdleIs DEF Moved, Onward
      <3>2. FreshRequest(handlers[g])
        BY <2>1 DEF PrdInv, FreshInv
      <3>3. handlers[g].floor \in 0..LastPrd /\ LastPrd \in Nat
        BY <3>1, <3>2, Keys DEF FreshRequest, StoreInv, LastPrd
      <3>4. objects[PrdKey(scenario)] \in Nat
        BY <2>2 DEF StoreInv
      <3>5. \A T : Fresh(T, handlers[g].floor) =>
               (T[PrdKey(scenario)] # Nil /\ T[PrdKey(scenario)].path = "object" => objects'[PrdKey(scenario)] >= handlers[g].floor)
        BY <2>5, <3>3, <3>4 DEF Fresh
      <3> QED BY <1>2, <2>2, <3>1, <3>2, <3>5 DEF FreshRequest, Fresh
    <2> QED BY <2>6, <2>7, <2>8 DEF PrdInv
  <1> QED BY <1>9, <1>10

LEMMA PrdTask ==
    ASSUME ControlInv, StoreInv, OrderInv, PrdInv, [Next]_vars, ~Redeploy, RunTask
    PROVE  PrdInv'
  <1>1. PICK t \in tasks : /\ save_document_record(t) \/ (rows' = rows /\ t.kind # "record")
                           /\ tasks' = tasks \ {t} /\ UNCHANGED <<local, objects, handlers, scenario, seen, last>>
    BY DEF RunTask, persist_prd_items, persist_project_overview, history
  <1>2. CASE ~(t.kind = "record" /\ t.key.name = PRD_FILENAME)
    <2>1. rows'[PrdKey(scenario)] = rows[PrdKey(scenario)]
      BY <1>1, <1>2, RecordStale, Tops DEF save_document_record
    <2>2. \A u : u.kind = "record" /\ u.key.name = PRD_FILENAME => (u \in tasks <=> u \in tasks')
      BY <1>1, <1>2
    <2> QED BY <1>1, <2>1, <2>2, PrdQuiet
  <1>3. CASE t.kind = "record" /\ t.key.name = PRD_FILENAME
    <2> SUFFICES ASSUME Sound' PROVE PrdInv'
      BY DEF PrdInv, LastInv, DiskInv, FreshInv
    <2>1. Sound /\ "crowded" \notin seen
      BY SoundRuled
    <2>2. PrdKey(scenario)' = PrdKey(scenario) /\ PrdKey(scenario) \in Key /\ LastPrd' = LastPrd
      BY <1>1, Tops DEF PrdKey, LastPrd
    <2>3. t.key = PrdKey(scenario) /\ Holds(t.path) /\ save_document_record(t)
      BY <1>1, <1>3, <2>1 DEF PrdInv, LastInv
    <2>4. rows'[PrdKey(scenario)] # Nil /\ rows'[PrdKey(scenario)].path = t.path
      BY <2>3, RecordStale
    <2>5. LastInv'
      <3>1. \A g \in Slot : (At(g, "put") /\ handlers[g].ask.name = PRD_FILENAME)' =>
              /\ (KeyOf(handlers[g]) = PrdKey(scenario) /\ handlers[g].content = LastPrd)'
              /\ (local[PrdKey(scenario)] = LastPrd)'
        <4> SUFFICES ASSUME NEW g \in Slot, At(g, "put")', handlers'[g].ask.name = PRD_FILENAME
                     PROVE  /\ (KeyOf(handlers[g]) = PrdKey(scenario) /\ handlers[g].content = LastPrd)'
                            /\ (local[PrdKey(scenario)] = LastPrd)'
          OBVIOUS
        <4>1. /\ KeyOf(handlers[g]) = PrdKey(scenario) /\ handlers[g].content = LastPrd
              /\ local[PrdKey(scenario)] = LastPrd
          BY <1>1, <2>1 DEF PrdInv, LastInv, At
        <4> QED BY <1>1, <2>2, <4>1 DEF KeyOf
      <3>2. \A u \in tasks' : u.kind = "record" /\ u.key.name = PRD_FILENAME => u.key = PrdKey(scenario)' /\ Holds(u.path)'
        <4>1. \A p : Holds(p) => Holds(p)'
          BY <1>1, <2>2 DEF Holds
        <4> QED BY <1>1, <2>1, <2>2, <4>1 DEF PrdInv, LastInv
      <3>3. (rows[PrdKey(scenario)] # Nil)' /\ Holds(rows[PrdKey(scenario)].path)'
        BY <1>1, <2>2, <2>3, <2>4 DEF Holds
      <3> QED BY <3>1, <3>2, <3>3 DEF LastInv
    <2>6. DiskInv'
      BY <1>1, <2>1, <2>2 DEF PrdInv, DiskInv, LowKey
    <2>7. FreshInv'
      <3> SUFFICES ASSUME NEW g \in Slot, handlers'[g].pc # "idle", handlers'[g].ask.kind = "download"
                   PROVE  FreshRequest(handlers[g])'
        BY DEF FreshInv, FreshRequest
      <3>1. FreshRequest(handlers[g])
        BY <2>1 DEF PrdInv, FreshInv
      <3>2. handlers[g].floor \in 0..LastPrd /\ LastPrd \in Nat
        BY <1>1, <3>1, Keys DEF FreshRequest, StoreInv, LastPrd
      <3>3. t.path = "object" => objects'[PrdKey(scenario)] >= handlers[g].floor
        BY <1>1, <2>3, <3>2 DEF Holds
      <3> QED BY <1>1, <2>2, <2>4, <3>1, <3>3 DEF FreshRequest, Fresh
    <2> QED BY <2>5, <2>6, <2>7 DEF PrdInv
  <1> QED BY <1>2, <1>3

LEMMA PrdEmptied ==
    ASSUME ControlInv, StoreInv, PrdInv, [Next]_vars, TaskFails \/ Redeploy \/ \E w \in Worker : Restart(w)
    PROVE  PrdInv'
  <1> SUFFICES ASSUME Sound' PROVE PrdInv'
    BY DEF PrdInv, LastInv, DiskInv, FreshInv
  <1>1. Sound /\ Whole'
    BY SoundRuled
  <1>2. /\ \A h \in Slot : handlers[h].pc = "idle"
        /\ handlers' = handlers /\ tasks = {} /\ tasks' = {}
        /\ local' = [k \in Key |-> 0] /\ "bare" \in seen' /\ UNCHANGED <<objects, rows, scenario, last>>
        /\ (\E k \in Key : rows[k] # Nil /\ rows[k].path = "local") => "lost" \in seen'
        /\ seen \subseteq seen'
    BY <1>1, EmptiedAlone
  <1>3. PrdKey(scenario)' = PrdKey(scenario) /\ PrdKey(scenario) \in Key /\ LastPrd' = LastPrd
    BY <1>2, Tops DEF PrdKey, LastPrd
  <1>4. LastInv'
    <2>1. ~PrdPending
      BY <1>2 DEF PrdPending, At
    <2>2. LastPrd # 0 =>
             /\ (rows[PrdKey(scenario)] # Nil)'
             /\ Holds(rows[PrdKey(scenario)].path)' \/ ("lost" \in seen /\ rows[PrdKey(scenario)].path = "local")'
      <3> SUFFICES ASSUME LastPrd # 0
                   PROVE  /\ (rows[PrdKey(scenario)] # Nil)'
                          /\ Holds(rows[PrdKey(scenario)].path)' \/ ("lost" \in seen /\ rows[PrdKey(scenario)].path = "local")'
        OBVIOUS
      <3>1. /\ rows[PrdKey(scenario)] # Nil
            /\ Holds(rows[PrdKey(scenario)].path) \/ rows[PrdKey(scenario)].path = "local"
        BY <1>1, <2>1 DEF PrdInv, LastInv
      <3>2. rows[PrdKey(scenario)].path \in {"object", "local"}
        BY <1>3, <3>1, TableIs, RowIs DEF StoreInv
      <3>3. CASE rows[PrdKey(scenario)].path = "local"
        BY <1>2, <1>3, <3>1, <3>3
      <3>4. CASE rows[PrdKey(scenario)].path = "object"
        BY <1>2, <1>3, <3>1, <3>4 DEF Holds
      <3> QED BY <3>2, <3>3, <3>4
    <2> QED BY <1>2, <1>3, <2>2 DEF LastInv, At
  <1>5. DiskInv'
    BY <1>2, <1>3 DEF DiskInv
  <1>6. FreshInv'
    BY <1>2 DEF FreshInv, FreshRequest
  <1> QED BY <1>4, <1>5, <1>6 DEF PrdInv

LEMMA PrdArrive ==
    ASSUME ControlInv, StoreInv, PrdInv, [Next]_vars, ~Redeploy, NEW h \in Slot, Arrive(h)
    PROVE  PrdInv'
  <1>1. PICK q : /\ Moved(h, q) /\ handlers[h].pc = "idle" /\ q.docs = Nil /\ q.pc = FirstStep(q.ask)
                 /\ q.floor = IF Settled(PRD_FILENAME) THEN last[PRD_FILENAME] ELSE 0
    BY Arriving
  <1>2. UNCHANGED <<local, objects, rows, tasks, last>> /\ q.pc # "put"
    BY <1>1 DEF Arrive, stores, history, FirstStep
  <1>3. ASSUME Sound PROVE FreshRequest(q)
    <2>1. LastPrd \in Nat /\ objects[PrdKey(scenario)] \in Nat
      BY Keys, Tops DEF StoreInv, LastPrd
    <2>2. Settled(PRD_FILENAME) => ~PrdPending
      <3>1. \A g \in Slot : handlers[g].pc = "put" => Writing(handlers[g])
        BY PutKey
      <3> QED BY <3>1 DEF Settled, PrdPending, At, Busy, Writing
    <2>3. Settled(PRD_FILENAME) => Fresh(rows, LastPrd)
      BY <1>3, <2>1, <2>2 DEF PrdInv, LastInv, Fresh, Holds
    <2>4. Fresh(rows, 0)
      BY <2>1 DEF Fresh
    <2>5. q.floor \in 0..LastPrd /\ Fresh(rows, q.floor)
      BY <1>1, <2>1, <2>3, <2>4 DEF LastPrd
    <2> QED BY <1>1, <2>5 DEF FreshRequest
  <1>4. Sound' => \A g \in Slot : handlers'[g] = handlers[g] \/ FreshRequest(handlers'[g])
    BY <1>1, <1>3, SoundRuled DEF Moved
  <1>5. \A g \in Slot : handlers'[g].pc = "put" \/ handlers[g].pc = "put" => handlers'[g] = handlers[g]
    BY <1>1, <1>2 DEF Moved
  <1> QED BY <1>2, <1>4, <1>5, PrdQuiet, Tops

\* Steps that touch no store.
LEMMA PrdGoes ==
    ASSUME ControlInv, StoreInv, PrdInv, [Next]_vars, ~Redeploy, NEW h \in Slot, NEW q, Moved(h, q),
           handlers[h].pc # "put", q.pc # "put", UNCHANGED <<local, objects, rows, tasks, last>>,
           q.pc # "idle" /\ q.ask.kind = "download" =>
              /\ handlers[h].pc # "idle" /\ q.ask = handlers[h].ask /\ q.floor = handlers[h].floor
              /\ q.docs \in {handlers[h].docs, rows}
    PROVE  PrdInv'
  <1>1. ASSUME Sound PROVE FreshRequest(q)
    <2>1. FreshRequest(handlers[h])
      BY <1>1 DEF PrdInv, FreshInv
    <2> QED BY <2>1 DEF FreshRequest
  <1>2. Sound' => \A g \in Slot : handlers'[g] = handlers[g] \/ FreshRequest(handlers'[g])
    BY <1>1, SoundRuled DEF Moved
  <1>3. \A g \in Slot : handlers'[g].pc = "put" \/ handlers[g].pc = "put" => handlers'[g] = handlers[g]
    BY DEF Moved
  <1> QED BY <1>2, <1>3, PrdQuiet, Tops

LEMMA PrdClean ==
    ASSUME ControlInv, StoreInv, PrdInv, [Next]_vars, ~Redeploy, NEW h \in Slot, CleanStale(h) \/ RemoveFails(h)
    PROVE  PrdInv'
  <1>1. PICK r : r = handlers[h]
    OBVIOUS
  <1>2. PICK removed, q :
            /\ removed \subseteq Stale(r)
            /\ Moved(h, q) /\ Request(r) /\ r.pc = "clean" /\ r.ask.kind = "upload"
            /\ \/ Stale(r) = {} /\ q = Idle
               \/ q.pc = "delete" /\ Onward(q, r)
            /\ objects' = Without(objects, {k \in removed : InMinio(r, k)})
            /\ local' = Without(local, {k \in removed : r.docs[k].path = "local"})
            /\ UNCHANGED <<rows, tasks, scenario, last>>
    BY <1>1, Cleaning
  <1>3. r.target = Top(scenario)
    BY <1>1, <1>2 DEF StoreInv, RequestOk, Saved
  <1>4. PrdKey(scenario) \notin Stale(r) /\ PrdKey(scenario) \in Key
    BY <1>3, Tops DEF Stale
  <1>5. /\ local'[PrdKey(scenario)] = local[PrdKey(scenario)]
        /\ objects'[PrdKey(scenario)] = objects[PrdKey(scenario)]
        /\ \A k \in Key : local'[k] \in {0, local[k]}
    BY <1>2, <1>4 DEF Without
  <1>6. FreshRequest(q) /\ q.pc # "put"
    BY <1>2 DEF FreshRequest, Idle, Onward
  <1>7. \A g \in Slot : handlers'[g] = handlers[g] \/ FreshRequest(handlers'[g])
    BY <1>2, <1>6 DEF Moved
  <1>8. \A g \in Slot : handlers'[g].pc = "put" \/ handlers[g].pc = "put" => handlers'[g] = handlers[g]
    BY <1>1, <1>2, <1>6 DEF Moved
  <1> QED BY <1>2, <1>5, <1>7, <1>8, PrdQuiet

LEMMA PrdDelete ==
    ASSUME ControlInv, StoreInv, OwnInv, PrdInv, [Next]_vars, ~Redeploy, NEW h \in Slot, delete_documents_by_ids(h)
    PROVE  PrdInv'
  <1>1. PICK r : r = handlers[h]
    OBVIOUS
  <1>2. /\ Moved(h, Idle) /\ r.pc = "delete" /\ r.ask.kind = "upload"
        /\ rows' = [k \in Key |-> IF rows[k] # Nil /\ \E j \in Stale(r) : r.docs[j].id = rows[k].id
                                  THEN Nil ELSE rows[k]]
        /\ UNCHANGED <<local, objects, tasks, scenario, last>>
    BY <1>1, Deleting
  <1>3. rows'[PrdKey(scenario)] = rows[PrdKey(scenario)]
    BY <1>1, <1>2, PrdKeyStays, Tops DEF Saved
  <1>4. \A g \in Slot : handlers'[g] = handlers[g] \/ FreshRequest(handlers'[g])
    BY <1>2 DEF Moved, FreshRequest, Idle
  <1>5. \A g \in Slot : handlers'[g].pc = "put" \/ handlers[g].pc = "put" => handlers'[g] = handlers[g]
    BY <1>1, <1>2, IdleIs DEF Moved
  <1> QED BY <1>2, <1>3, <1>4, <1>5, PrdQuiet

LEMMA PrdStays ==
    ASSUME ControlInv, StoreInv, OwnInv, OrderInv, PrdInv, [Next]_vars
    PROVE  PrdInv'
  <1>1. CASE TaskFails \/ Redeploy \/ \E w \in Worker : Restart(w)
    BY <1>1, PrdEmptied
  <1> SUFFICES ASSUME ~Redeploy PROVE PrdInv'
    BY <1>1
  <1>2. ASSUME NEW h \in Slot, get_documents(h) PROVE PrdInv'
    <2>1. PICK q : /\ Moved(h, q) /\ handlers[h].pc = "docs"
                   /\ \/ q = Idle
                      \/ /\ q.pc \in {"local", "read"} /\ q.ask = handlers[h].ask
                         /\ q.docs = rows /\ q.floor = handlers[h].floor
      BY <1>2, Getting
    <2>2. UNCHANGED <<local, objects, rows, tasks, last>>
      BY <1>2 DEF get_documents, stores, history
    <2> QED BY <2>1, <2>2, PrdGoes, IdleIs
  <1>3. ASSUME NEW h \in Slot, ReadContent(h) \/ GetFails(h) PROVE PrdInv'
    <2>1. PICK q : /\ Moved(h, q) /\ handlers[h].pc = "read"
                   /\ q = Idle \/ (q.pc = "llm" /\ q.ask = handlers[h].ask /\ q.ask.kind # "download")
                   /\ UNCHANGED <<local, objects, rows, tasks, last>>
      BY <1>3, Reading
    <2> QED BY <2>1, PrdGoes, IdleIs
  <1>4. ASSUME NEW h \in Slot,
               \/ Extract(h) \/ delete_prd_items(h) \/ save_prd_items(h) \/ save_project_overview(h) \/ MySQLFails(h)
        PROVE  PrdInv'
    <2>1. PICK q : /\ Moved(h, q) /\ handlers[h].pc \in {"docs", "delete", "llm", "clear", "items", "overview"}
                   /\ q = Idle \/ (q.pc \in {"clear", "items", "overview", "read"} /\ Onward(q, handlers[h]))
                   /\ UNCHANGED <<local, objects, rows, tasks, last>>
      BY <1>4, Going
    <2> QED BY <2>1, PrdGoes, IdleIs DEF Onward
  <1>5. CASE UNCHANGED vars
    <2>1. UNCHANGED <<local, objects, rows, tasks, last, handlers>>
      BY <1>5 DEF vars, stores, history
    <2> QED BY <2>1, PrdQuiet, Tops
  <1> QED BY <1>1, <1>2, <1>3, <1>4, <1>5, PrdArrive, PrdWrite, PrdPut, PrdClean, PrdDelete, PrdTask DEF Next

-----------------------------------------------------------------------------
\* What a download is served.

LEMMA FallbackAt ==
    ASSUME ControlInv, StoreInv, NEW v \in {0, Top(scenario)}
    PROVE  /\ local[PrdKey(scenario)] # 0 => Fallback(PRD_FILENAME, v) = local[PrdKey(scenario)]
           /\ Fallback(PRD_FILENAME, v) \in {0} \cup {local[k] : k \in {j \in Key : j = PrdKey(scenario) \/ LowKey(j)}}
  <1>1. latest_version \in 0..2 /\ Top(scenario) \in 1..2
    BY LatestIs, Tops
  <1>2. PICK u \in 0..2 : u = IF v # 0 THEN v ELSE IF latest_version = 0 THEN 1 ELSE latest_version
    BY <1>1
  <1>3. PICK k : k = [name |-> PRD_FILENAME, version |-> u]
    OBVIOUS
  <1>4. k \in Key /\ k.name = PRD_FILENAME /\ k.version = u
    BY <1>3, Keys
  <1>5. Fallback(PRD_FILENAME, v) = local[k]
    BY <1>2, <1>3 DEF Fallback
  <1>6. local[PrdKey(scenario)] # 0 => u = Top(scenario)
    <2> SUFFICES ASSUME local[PrdKey(scenario)] # 0, v = 0 PROVE u = Top(scenario)
      BY <1>1, <1>2
    <2>1. Top(scenario) <= latest_version /\ latest_version <= Top(scenario)
      BY LatestIs, Tops
    <2> QED BY <1>1, <1>2, <2>1
  <1>7. u = Top(scenario) => k = PrdKey(scenario)
    BY <1>4, Tops
  <1> QED BY <1>4, <1>5, <1>6, <1>7 DEF LowKey

\* What a download takes, from MinIO or from the disk.
LEMMA ContentOf ==
    ASSUME ControlInv, StoreInv, NEW r, r.ask.kind = "download", r.docs # Nil => Table(scenario, r.docs), NEW works \in BOOLEAN
    PROVE  \/ /\ works /\ r.docs # Nil /\ r.docs[PrdKey(scenario)] # Nil
              /\ r.docs[PrdKey(scenario)].path = "object" /\ objects[PrdKey(scenario)] # 0
              /\ Content(r, works) = objects[PrdKey(scenario)]
           \/ /\ ~(works /\ r.docs # Nil /\ r.docs[PrdKey(scenario)] # Nil
                   /\ r.docs[PrdKey(scenario)].path = "object" /\ objects[PrdKey(scenario)] # 0)
              /\ \E v \in {0, Top(scenario)} : Content(r, works) = Fallback(PRD_FILENAME, v)
  <1>1. r.docs # Nil /\ r.docs[PrdKey(scenario)] # Nil <=> r.docs # Nil /\ RowsFor(r.docs, PRD_FILENAME) # {}
    BY NewestIs, Tops DEF RowsFor
  <1>2. r.docs # Nil /\ RowsFor(r.docs, PRD_FILENAME) # {} => Chosen(r) = PrdKey(scenario) /\ Chosen(r).version = Top(scenario)
    BY NewestIs, Tops DEF Chosen
  <1>3. FromMinio(r, works) = IF /\ works /\ r.docs # Nil /\ r.docs[PrdKey(scenario)] # Nil
                                /\ r.docs[PrdKey(scenario)].path = "object"
                             THEN objects[PrdKey(scenario)] ELSE 0
    BY <1>1, <1>2 DEF FromMinio
  <1>4. PICK m : m = FromMinio(r, works)
    OBVIOUS
  <1>5. Content(r, works) = IF m # 0 THEN m
                            ELSE IF r.ask.by_id /\ r.docs # Nil /\ RowsFor(r.docs, PRD_FILENAME) # {}
                            THEN Fallback(PRD_FILENAME, Top(scenario)) ELSE Fallback(PRD_FILENAME, 0)
    BY <1>2, <1>4 DEF Content
  <1>6. CASE m # 0
    BY <1>3, <1>4, <1>5, <1>6
  <1>7. CASE m = 0
    <2>1. \E v \in {0, Top(scenario)} : Content(r, works) = Fallback(PRD_FILENAME, v)
      BY <1>5, <1>7
    <2> QED BY <1>3, <1>4, <1>7, <2>1
  <1> QED BY <1>6, <1>7

LEMMA ServedStays ==
    ASSUME ControlInv, StoreInv, PrdInv, DownloadFresh, [Next]_vars
    PROVE  DownloadFresh'
  <1>1. CASE served' = served
    BY <1>1, SoundRuled DEF DownloadFresh, Sound
  <1>2. ASSUME NEW h \in Slot, ReadContent(h) \/ GetFails(h) PROVE DownloadFresh'
    <2>1. PICK r : r = handlers[h]
      OBVIOUS
    <2>2. PICK works : /\ works \in BOOLEAN /\ r.pc = "read" /\ seen' = seen
                       /\ r.ask.kind = "download" => served' = [content |-> Content(r, works), floor |-> r.floor]
                       /\ r.ask.kind # "download" => served' = served
      BY <1>2, <2>1, Reading
    <2> SUFFICES ASSUME Sound', r.ask.kind = "download" PROVE DownloadFresh'
      BY <1>1, <2>2 DEF DownloadFresh, Sound
    <2>3. Sound
      BY SoundRuled
    <2>4. FreshRequest(r) /\ RequestOk(scenario, saves, r)
      BY <2>1, <2>3 DEF PrdInv, FreshInv, StoreInv
    <2>5. r.floor \in 0..LastPrd /\ (r.docs # Nil => Fresh(r.docs, r.floor) /\ Table(scenario, r.docs))
      BY <2>2, <2>4 DEF FreshRequest, RequestOk
    <2>6. PICK c : c = Content(r, works)
      OBVIOUS
    <2>7. c >= r.floor \/ (c = 0 /\ "bare" \in seen)
      <3>1. CASE /\ r.docs # Nil /\ r.docs[PrdKey(scenario)] # Nil
                 /\ r.docs[PrdKey(scenario)].path = "object" /\ c = objects[PrdKey(scenario)]
        BY <2>5, <3>1 DEF Fresh
      <3>2. ASSUME NEW v \in {0, Top(scenario)}, c = Fallback(PRD_FILENAME, v)
            PROVE  c >= r.floor \/ (c = 0 /\ "bare" \in seen)
        <4>1. LastPrd \in Nat
          BY Keys DEF StoreInv, LastPrd
        <4>2. CASE local[PrdKey(scenario)] # 0
          <5>1. c = LastPrd
            BY <2>3, <3>2, <4>2, FallbackAt DEF PrdInv, DiskInv
          <5> QED BY <2>5, <4>1, <5>1
        <4>3. CASE local[PrdKey(scenario)] = 0 /\ "bare" \notin seen
          <5>1. LastPrd = 0
            BY <2>3, <4>3 DEF PrdInv, DiskInv
          <5>2. c \in 0..saves /\ saves \in Nat
            <6>1. \A k \in Key : local[k] \in 0..saves
              BY DEF StoreInv
            <6> QED BY <3>2, <6>1, FallbackAt DEF StoreInv
          <5> QED BY <2>5, <5>1, <5>2
        <4>4. CASE local[PrdKey(scenario)] = 0 /\ "bare" \in seen
          <5>1. \A k \in Key : k = PrdKey(scenario) \/ LowKey(k) => local[k] = 0
            BY <2>3, <4>4 DEF PrdInv, DiskInv
          <5> QED BY <3>2, <4>4, <5>1, FallbackAt
        <4> QED BY <4>2, <4>3, <4>4
      <3> QED BY <2>1, <2>2, <2>5, <2>6, <3>1, <3>2, ContentOf
    <2>8. served' = [content |-> c, floor |-> r.floor]
      BY <2>2, <2>6
    <2> QED BY <2>2, <2>7, <2>8 DEF DownloadFresh
  <1>3. ASSUME NEW h \in Slot, ~ReadContent(h), ~GetFails(h),
               \/ Arrive(h) \/ get_documents(h) \/ WriteLocal(h) \/ PutObject(h) \/ PutFails(h)
               \/ CleanStale(h) \/ RemoveFails(h) \/ delete_documents_by_ids(h)
               \/ Extract(h) \/ delete_prd_items(h) \/ save_prd_items(h) \/ save_project_overview(h) \/ MySQLFails(h)
        PROVE  served' = served
    BY <1>3, WritingLocal, Putting, Cleaning, Deleting, Going DEF Arrive, get_documents, history
  <1>4. CASE TaskFails \/ Redeploy \/ \E w \in Worker : Restart(w)
    BY <1>1, <1>4, Ending
  <1>5. CASE RunTask
    BY <1>1, <1>5 DEF RunTask, history
  <1>6. CASE UNCHANGED vars
    BY <1>1, <1>6 DEF vars, history
  <1> QED BY <1>1, <1>2, <1>3, <1>4, <1>5, <1>6 DEF Next

-----------------------------------------------------------------------------
\* All of it together.

SavingInv == OrderInv /\ LowInv /\ CoverInv
Inv == ControlInv /\ StoreInv /\ OwnInv /\ SavingInv /\ FileInv /\ UploadedInv /\ PrdInv

LEMMA SavesStart == Init => SavingInv /\ FileInv /\ UploadedInv /\ PrdInv
  <1> SUFFICES ASSUME Init PROVE SavingInv /\ FileInv /\ UploadedInv /\ PrdInv
    OBVIOUS
  <1> DEFINE left == scenario.left
  <1>1. /\ local = [k \in Key |-> IF k \in DOMAIN left /\ scenario.disk THEN 1 ELSE 0]
        /\ objects = [k \in Key |-> IF k \in DOMAIN left THEN 1 ELSE 0]
        /\ rows = [k \in Key |-> IF k \in DOMAIN left THEN left[k] ELSE Nil]
        /\ tasks = {} /\ \A h \in Slot : handlers[h].pc = "idle"
        /\ last = [n \in Name |-> IF \E k \in DOMAIN left : k.name = n THEN 1 ELSE 0]
        /\ seen = IF scenario.disk THEN {} ELSE {"bare"}
    BY IdleIs DEF Init
  <1>2. ControlInv /\ StoreInv
    BY ControlStarts, StoreStarts
  <1>3. OrderInv
    BY <1>1 DEF OrderInv, Writing
  <1>4. LowInv
    BY <1>1 DEF LowInv, LowPending, At
  <1>5. CoverInv
    BY <1>1 DEF CoverInv, Uploading
  <1>6. \A k \in Key : rows[k] # Nil => k \in DOMAIN left /\ rows[k].path = "object" /\ objects[k] = 1
    BY <1>1, <1>2, Left
  <1>7. FileInv
    BY <1>1, <1>6 DEF FileInv, There, At
  <1>8. UploadedInv
    BY <1>1 DEF UploadedInv, Replaced
  <1>9. LastPrd = IF PrdKey(scenario) \in DOMAIN left THEN 1 ELSE 0
    <2>1. (\E k \in DOMAIN left : k.name = PRD_FILENAME) <=> PrdKey(scenario) \in DOMAIN left
      <3> SUFFICES ASSUME NEW k \in DOMAIN left, k.name = PRD_FILENAME, Top(scenario) = 1
                   PROVE  PrdKey(scenario) \in DOMAIN left
        BY <1>2, Tops
      <3>1. k \in Key /\ k.version \in 1..1
        BY <1>2, Left, Tops
      <3>2. k.version = Top(scenario)
        BY <3>1
      <3>3. k = PrdKey(scenario)
        BY <1>2, <3>1, <3>2, Tops
      <3> QED BY <3>3
    <2> QED BY <1>1, <2>1, Keys DEF LastPrd
  <1>10. PrdKey(scenario) \in Key
    BY <1>2, Tops
  <1>11. PrdKey(scenario) \in DOMAIN left => rows[PrdKey(scenario)] = left[PrdKey(scenario)] /\ rows[PrdKey(scenario)] # Nil
    <2>1. \A k \in DOMAIN left : left[k] # Nil
      BY <1>2, Left, RowIs
    <2> QED BY <1>1, <1>10, <2>1
  <1>12. LastInv
    BY <1>1, <1>6, <1>9, <1>10, <1>11 DEF LastInv, Holds, At
  <1>13. DiskInv
    BY <1>1, <1>9, <1>10 DEF DiskInv
  <1>14. FreshInv
    BY <1>1 DEF FreshInv, FreshRequest
  <1> QED BY <1>3, <1>4, <1>5, <1>7, <1>8, <1>12, <1>13, <1>14 DEF SavingInv, PrdInv

\* The inductive invariant of the documents.
THEOREM StoresKeepOrder == Spec => []Inv
  <1>1. Init => Inv
    BY ControlStarts, StoreStarts, SavesStart DEF Inv
  <1>2. Inv /\ [Next]_vars => Inv'
    BY ControlStays, StoreStays, OwnStays, OrderStays, LowStays, CoverStays, FileStays, UploadedStays, PrdStays
       DEF Inv, SavingInv
  <1> QED BY <1>1, <1>2, PTL DEF Spec

\* While no task of a PRD is open and none is under way, no upload is.
LEMMA SettledIs ==
    ASSUME ControlInv, StoreInv, Settled(PRD_FILENAME)
    PROVE  /\ \A h \in Slot : handlers[h].pc \notin {"clean", "delete"}
           /\ \A h \in Slot : ~(Saved(handlers[h]) /\ handlers[h].ask.kind = "upload")
           /\ \A h \in Slot : At(h, "put") => handlers[h].ask.name # PRD_FILENAME
           /\ \A t \in tasks : t.kind = "record" => t.key.name # PRD_FILENAME
  <1>1. ASSUME NEW h \in Slot, handlers[h].pc \in {"put", "clean", "delete"}, handlers[h].ask.kind = "upload"
        PROVE  FALSE
    <2>1. Request(handlers[h]) /\ Writing(handlers[h])
      BY <1>1, RequestAt DEF Writing, Writes
    <2>2. handlers[h].ask.name = PRD_FILENAME
      BY <1>1, <2>1, AskIs DEF Request
    <2> QED BY <2>1, <2>2 DEF Settled, Busy, At, Writing
  <1>2. \A h \in Slot : handlers[h].pc \in {"clean", "delete"} => handlers[h].ask.kind = "upload"
    BY RequestAt, KindAt
  <1>3. \A h \in Slot : At(h, "put") => handlers[h].ask.name # PRD_FILENAME
    BY PutKey DEF Settled, At, Busy, Writing
  <1> QED BY <1>1, <1>2, <1>3 DEF Saved, Settled

\* While uploads and saves go on, fail and clean up, what is stored was saved, versions
\* count from one, and at rest every row leads to its document: the cleanup removes files
\* before rows, and never the file another row needs (document_router.py 69-99,
\* writer.py 50-147).
THEOREM RowsLeadToDocuments == Spec => []DocumentsInv
  <1>1. Inv => TypeOK
    <2> SUFFICES ASSUME StoreInv PROVE TypeOK
      BY DEF Inv
    <2>1. \A k \in Key : rows[k] # Nil => rows[k].path \in {"object", "local"} /\ k.version >= 1
      BY TableIs, RowIs DEF StoreInv, Table
    <2> QED BY <2>1 DEF TypeOK, StoreInv
  <1>2. Inv => RowsReadable
    <2> SUFFICES ASSUME Inv, PrdSettled, Backed, ~Collided, NEW k \in Key, rows[k] # Nil
                 PROVE  IF rows[k].path = "object" THEN objects[k] # 0 ELSE local[k] # 0
      BY DEF RowsReadable
    <2>1. \A h \in Slot : ~At(h, "delete")
      BY SettledIs DEF Inv, PrdSettled, At
    <2>2. There(k, rows[k].path)
      BY <2>1 DEF Inv, FileInv, Kept, PrdSettled
    <2> QED BY <2>2 DEF There
  <1> QED BY <1>1, <1>2, StoresKeepOrder, PTL DEF DocumentsInv

\* Once an upload of a PRD is through, and no save beside it went below the version the
\* document had, one row is left that is a PRD, whatever names and versions there were
\* before (document_router.py:107, 130-153).
THEOREM UploadsReplace == Spec => []UploadReplaces
  <1>1. Inv => UploadReplaces
    <2> SUFFICES ASSUME Inv, PrdSettled, ~Collided, "uploaded" \in seen
                 PROVE  {k \in Key : rows[k] # Nil /\ IsPrd(k, rows[k])} =
                            {[name |-> PRD_FILENAME, version |-> Max({k.version : k \in KeysOf(PRD_FILENAME)})]}
      BY DEF UploadReplaces
    <2> DEFINE top == PrdKey(scenario)
    <2>1. ControlInv /\ StoreInv /\ Whole /\ Settled(PRD_FILENAME)
      BY DEF Inv, PrdSettled
    <2>2. top \in Key /\ top.name = PRD_FILENAME
      BY <2>1, Tops
    <2>3. \A k \in Key : ~StaleRow(k)
      BY <2>1, SettledIs DEF Inv, UploadedInv, Replaced
    <2>4. \A h \in Slot : At(h, "put") => KeyOf(handlers[h]) # top
      BY <2>1, <2>2, SettledIs DEF KeyOf
    <2>5. rows[top] # Nil
      BY <2>1, <2>2, <2>4, SettledIs DEF Inv, UploadedInv, Replaced
    <2>6. {k \in Key : rows[k] # Nil /\ IsPrd(k, rows[k])} = {top}
      BY <2>2, <2>3, <2>5 DEF StaleRow, IsPrd
    <2>7. KeysOf(PRD_FILENAME) = {top}
      BY <2>2, <2>3, <2>5 DEF StaleRow, IsPrd, KeysOf
    <2>8. Max({k.version : k \in KeysOf(PRD_FILENAME)}) = Top(scenario)
      <3>1. {k.version : k \in KeysOf(PRD_FILENAME)} = {Top(scenario)}
        BY <2>1, <2>7, Tops
      <3>2. {Top(scenario)} \in SUBSET Version
        BY <2>1, Tops DEF Version
      <3>3. Max({Top(scenario)}) \in {Top(scenario)}
        BY <3>2, MaxOfVersions
      <3> QED BY <3>1, <3>3
    <2> QED BY <2>6, <2>8 DEF PrdKey
  <1> QED BY <1>1, StoresKeepOrder, PTL

\* Whatever MinIO refused and wherever the disk went, the PRD that is downloaded, by name
\* or by the id of its newest row, is the last one saved: pipeline_router.py 67-107,
\* document_router.py 185-229, writer.py 50-112.
THEOREM DownloadsAreLast == Spec => []DownloadIsLast
  <1>1. Inv => DownloadIsLast
    <2> SUFFICES ASSUME Inv, PrdSettled, Apart, Backed, last[PRD_FILENAME] # 0, NEW by_id \in BOOLEAN
                 PROVE  Downloads(by_id) = last[PRD_FILENAME]
      BY DEF DownloadIsLast
    <2> DEFINE top == PrdKey(scenario)
    <2>1. ControlInv /\ StoreInv /\ LastInv /\ Sound /\ Settled(PRD_FILENAME)
      BY DEF Inv, PrdInv, Sound, PrdSettled
    <2>2. ~PrdPending
      BY <2>1, SettledIs DEF PrdPending
    <2>3. rows[top] # Nil /\ Holds(rows[top].path)
      BY <2>1, <2>2 DEF LastInv, LastPrd, Backed
    <2>4. top \in Key /\ rows[top].path \in {"object", "local"} /\ (rows[top].path = "object" => scenario.minio)
      BY <2>1, <2>3, Tops, TableIs, RowIs DEF StoreInv, Table
    <2>5. PICK r : r = [ask |-> [kind |-> "download", by_id |-> by_id], docs |-> IF scenario.minio \/ by_id THEN rows ELSE Nil]
      OBVIOUS
    <2>6. r.ask.kind = "download" /\ (r.docs # Nil => r.docs = rows) /\ (scenario.minio => r.docs = rows)
      BY <2>5
    <2>7. rows # Nil /\ Table(scenario, rows)
      BY <2>1, TableIs DEF StoreInv
    <2>8. Downloads(by_id) = Content(r, TRUE)
      BY <2>5 DEF Downloads
    <2>9. CASE rows[top].path = "object"
      <3>1. objects[top] = LastPrd /\ LastPrd # 0 /\ r.docs = rows
        BY <2>3, <2>4, <2>6, <2>9 DEF Holds, LastPrd
      <3>2. Content(r, TRUE) = objects[top]
        BY <2>1, <2>3, <2>6, <2>7, <2>9, <3>1, ContentOf
      <3> QED BY <2>8, <3>1, <3>2 DEF LastPrd
    <2>10. CASE rows[top].path = "local"
      <3>1. local[top] = LastPrd /\ local[top] # 0
        BY <2>3, <2>10 DEF Holds, LastPrd
      <3>2. \E v \in {0, Top(scenario)} : Content(r, TRUE) = Fallback(PRD_FILENAME, v)
        BY <2>1, <2>6, <2>7, <2>10, ContentOf
      <3>3. Content(r, TRUE) = local[top]
        BY <2>1, <3>1, <3>2, FallbackAt
      <3> QED BY <2>8, <3>1, <3>3 DEF LastPrd
    <2> QED BY <2>4, <2>9, <2>10
  <1> QED BY <1>1, StoresKeepOrder, PTL

\* A download that runs beside uploads and failing reads never serves a PRD older than
\* the one that was complete when it began; it finds none only if the disk was emptied
\* (pipeline_router.py 67-107, document_router.py 185-229).
THEOREM DownloadsAreFresh == Spec => []DownloadFresh
  <1>1. Init => DownloadFresh
    BY DEF Init, DownloadFresh
  <1>2. Inv /\ DownloadFresh /\ [Next]_vars => DownloadFresh'
    BY ServedStays DEF Inv
  <1> QED BY <1>1, <1>2, StoresKeepOrder, PTL DEF Spec

=============================================================================
