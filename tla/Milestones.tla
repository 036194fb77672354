----------------------------- MODULE Milestones -----------------------------
(***************************************************************************)
(* The milestones of one project, from the match to the owner's final      *)
(* acceptance: server/internal/service's MilestoneService, StartProject of *)
(* ProjectService, and the AI agent, which writes plans into the same      *)
(* table (ai-agent/app/db/repository.py, GoTasksRepository).               *)
(*                                                                         *)
(* As in BidMatching a request is one action per read and one per commit.  *)
(* Create alone locks: it takes the project's row FOR UPDATE, and an       *)
(* UPDATE of that row waits for it.  Reads never wait.                     *)
(***************************************************************************)
EXTENDS Integers, Sequences, FiniteSetsExt

CONSTANTS
    Handler,       \* goroutines serving requests, and tasks of the AI agent
    Ratio,         \* payment ratios a client may ask for, in 1/100 percent
    Order,         \* sort orders a client may ask for
    Plans,         \* plans the AI agent may write: sequences of ratios as stored
    MaxMilestones, \* bound on the rows of the milestones table
    Faults,        \* whether a request may die half way
    None           \* SQL NULL

ASSUME MilestonesAssumption ==
    /\ MaxMilestones \in Nat
    /\ Ratio \subseteq Nat
    /\ Order \subseteq Nat
    /\ Plans \subseteq Seq(Nat)
    /\ Faults \in BOOLEAN
    /\ None \notin Nat \cup Handler

VARIABLES
    status,  \* the project's status
    ms,      \* table milestones, by primary key
    lastMs,  \* last primary key handed out
    lock,    \* the transaction that holds the project's row
    req      \* what each handler is doing, and what it has read

vars == <<status, ms, lastMs, lock, req>>
-----------------------------------------------------------------------------
\* model.ProjectStatus*
Aligning == 4
InProgress == 5
Accepting == 6
Completed == 7

\* The milestone statuses; 0 is a row that is not there.
Absent == 0
Waiting == 1
Working == 2
Done == 3
Revising == 4
Delivered == 5

Whole == 10000  \* 100 percent, as Create counts it

MsId == 1 .. MaxMilestones

MsRow == [order : Nat \cup {None}, ratio : Nat \cup {None},
          planned : BOOLEAN, status : Absent .. Delivered]

Stage == {"idle", "msLock", "msCheck", "msInsert", "save", "startList",
          "startWrite", "completeProject", "completeWrite", "completeList",
          "deliverList", "submit", "finish", "begin", "plan"}

Request == [at : Stage, ms : MsId \cup {None}, row : MsRow,
            append : BOOLEAN,   \* Create was asked for no particular order
            running : BOOLEAN,  \* CompleteMilestone saw the project in progress
            plan : Seq(Nat)]    \* the ratios of the plan to write

NoRow == [order |-> None, ratio |-> None, planned |-> FALSE, status |-> Absent]

Idle == [at |-> "idle", ms |-> None, row |-> NoRow,
         append |-> FALSE, running |-> FALSE, plan |-> <<>>]

TypeOK ==
    /\ status \in Aligning .. Completed
    /\ ms \in [MsId -> MsRow]
    /\ lastMs \in 0 .. MaxMilestones
    /\ lock \in Handler \cup {None}
    /\ req \in [Handler -> Request]

Init ==
    /\ status = Aligning
    /\ ms = [m \in MsId |-> NoRow]
    /\ lastMs = 0
    /\ lock = None
    /\ req = [h \in Handler |-> Idle]
-----------------------------------------------------------------------------
Begin(h, r) == req[h].at = "idle" /\ req' = [req EXCEPT ![h] = r]
Goto(h, stage) == req' = [req EXCEPT ![h].at = stage]
Finish(h) == req' = [req EXCEPT ![h] = Idle]

\* The transaction of handler h ends, if it has one.
Release(h) == lock' = IF lock = h THEN None ELSE lock

Present == {m \in MsId : ms[m].status # Absent}

\* Mutation runs only: a project without milestones counts as done.
AllDoneVacuous == \A m \in Present : ms[m].status = Done

AllDone == Present # {} /\ \A m \in Present : ms[m].status = Done

Share(x) == IF x = None THEN 0 ELSE x
TotalRatio == MapThenSumSet(LAMBDA m : Share(ms[m].ratio), Present)

\* SELECT COALESCE(MAX(sort_order), -1) + 1, as the set of its one value.
NextOrder ==
    IF Present = {} THEN {0}
    ELSE {n \in {ms[m].order + 1 : m \in Present} :
            \A m \in Present : ms[m].order < n}

\* milestoneRepository.UpdateFields: a row deleted meanwhile stays deleted.
SetStatus(m, s) ==
    ms' = IF ms[m].status = Absent THEN ms ELSE [ms EXCEPT ![m].status = s]

\* The rows that requests on their way will insert; counting them keeps
\* MaxMilestones from ever stopping one half way.
Creating == {h \in Handler : req[h].at \in {"msLock", "msCheck", "msInsert"}}
Room == MaxMilestones - lastMs - Cardinality(Creating)
            - MapThenSumSet(LAMBDA h : Len(req[h].plan), Handler)
-----------------------------------------------------------------------------
(***************************************************************************)
(* Mutated forms of the actions below, each a plausible slip in the code.  *)
(* Only mutation runs use them.                                            *)
(***************************************************************************)
\* Create reads the project without FOR UPDATE.
MsLockPlainRead(h) ==
    /\ req[h].at = "msLock"
    /\ Goto(h, "msCheck")
    /\ UNCHANGED <<status, ms, lastMs, lock>>

\* The project is submitted when its last milestone completes.
CompleteListLast(h) ==
    /\ req[h].at = "completeList"
    /\ IF /\ req[h].running /\ AllDone
          /\ \A m \in Present : ms[m].order <= ms[req[h].ms].order
       THEN Goto(h, "submit")
       ELSE Finish(h)
    /\ UNCHANGED <<status, ms, lastMs, lock>>

-----------------------------------------------------------------------------
\* MilestoneService.Create, asked for order o and ratio r (None: not given).
CreateRead(h, o, r) ==
    /\ Room > 0
    /\ Begin(h, [Idle EXCEPT !.at = "msLock", !.append = (o = None),
                             !.row = [order |-> o, ratio |-> r, planned |-> FALSE,
                                      status |-> Waiting]])
    /\ UNCHANGED <<status, ms, lastMs, lock>>

\* SELECT ... FOR UPDATE
MsLock(h) ==
    /\ req[h].at = "msLock"
    /\ lock = None
    /\ lock' = h
    /\ Goto(h, "msCheck")
    /\ UNCHANGED <<status, ms, lastMs>>

\* Refuses a ratio that exceeds the whole, else settles the order.
MsCheck(h) ==
    /\ req[h].at = "msCheck"
    /\ \/ /\ TotalRatio + Share(req[h].row.ratio) > Whole
          /\ Finish(h)
          /\ Release(h)
       \/ /\ TotalRatio + Share(req[h].row.ratio) <= Whole
          /\ IF req[h].append
             THEN \E n \in NextOrder :
                    req' = [req EXCEPT ![h].at = "msInsert", ![h].row.order = n]
             ELSE Goto(h, "msInsert")
          /\ UNCHANGED lock
    /\ UNCHANGED <<status, ms, lastMs>>

MsInsert(h) ==
    /\ req[h].at = "msInsert"
    /\ lastMs < MaxMilestones
    /\ lastMs' = lastMs + 1
    /\ ms' = [ms EXCEPT ![lastMs + 1] = req[h].row]
    /\ Finish(h)
    /\ Release(h)
    /\ UNCHANGED status
-----------------------------------------------------------------------------
\* MilestoneService.Deliver by the provider, Accept and RequestRevision by the
\* owner read the whole row, change its status and save the whole row.
SaveLater(h, m, s) ==
    /\ Begin(h, [Idle EXCEPT !.at = "save", !.ms = m, !.row = [ms[m] EXCEPT !.status = s]])
    /\ UNCHANGED <<status, ms, lastMs, lock>>

DeliverRead(h, m) == ms[m].status \in {Working, Revising} /\ SaveLater(h, m, Delivered)
AcceptRead(h, m) == ms[m].status = Delivered /\ SaveLater(h, m, Done)
RevisionRead(h, m) == ms[m].status = Delivered /\ SaveLater(h, m, Revising)

\* gorm's Save updates the row, or inserts it again if it is gone.
SaveRow(h) ==
    /\ req[h].at = "save"
    /\ ms' = [ms EXCEPT ![req[h].ms] = req[h].row]
    /\ Finish(h)
    /\ UNCHANGED <<status, lastMs, lock>>

\* MilestoneService.StartMilestone, by the provider: reads the milestone, then
\* the list of all, then writes.
StartMsRead(h, m) ==
    /\ ms[m].status = Waiting
    /\ Begin(h, [Idle EXCEPT !.at = "startList", !.ms = m, !.row = ms[m]])
    /\ UNCHANGED <<status, ms, lastMs, lock>>

StartMsList(h) ==
    /\ req[h].at = "startList"
    /\ IF \A k \in Present : ms[k].order < req[h].row.order => ms[k].status = Done
       THEN Goto(h, "startWrite")
       ELSE Finish(h)
    /\ UNCHANGED <<status, ms, lastMs, lock>>

StartMsWrite(h) ==
    /\ req[h].at = "startWrite"
    /\ SetStatus(req[h].ms, Working)
    /\ Finish(h)
    /\ UNCHANGED <<status, lastMs, lock>>
-----------------------------------------------------------------------------
\* MilestoneService.CompleteMilestone, by the provider: reads the milestone and
\* the project, writes, lists all and, if all are done, submits the project.
CompleteRead(h, m) ==
    /\ ms[m].status \in {Waiting, Working, Revising}
    /\ Begin(h, [Idle EXCEPT !.at = "completeProject", !.ms = m])
    /\ UNCHANGED <<status, ms, lastMs, lock>>

CompleteProject(h) ==
    /\ req[h].at = "completeProject"
    /\ req' = [req EXCEPT ![h].at = "completeWrite", ![h].running = (status = InProgress)]
    /\ UNCHANGED <<status, ms, lastMs, lock>>

CompleteWrite(h) ==
    /\ req[h].at = "completeWrite"
    /\ SetStatus(req[h].ms, Done)
    /\ Goto(h, "completeList")
    /\ UNCHANGED <<status, lastMs, lock>>

CompleteList(h) ==
    /\ req[h].at = "completeList"
    /\ IF req[h].running /\ AllDone THEN Goto(h, "submit") ELSE Finish(h)
    /\ UNCHANGED <<status, ms, lastMs, lock>>

\* MilestoneService.DeliverProject, by the provider.
DeliverProjectRead(h) ==
    /\ status = InProgress
    /\ Begin(h, [Idle EXCEPT !.at = "deliverList"])
    /\ UNCHANGED <<status, ms, lastMs, lock>>

DeliverProjectList(h) ==
    /\ req[h].at = "deliverList"
    /\ IF AllDone THEN Goto(h, "submit") ELSE Finish(h)
    /\ UNCHANGED <<status, ms, lastMs, lock>>

\* An UPDATE of the project's row; it waits for the row's lock.
SetProject(h, s) ==
    /\ lock = None
    /\ status' = s
    /\ Finish(h)
    /\ UNCHANGED <<ms, lastMs, lock>>

Submit(h) == req[h].at = "submit" /\ SetProject(h, Accepting)

\* MilestoneService.AcceptProject, by the owner.
AcceptProjectRead(h) ==
    /\ status = Accepting
    /\ Begin(h, [Idle EXCEPT !.at = "finish"])
    /\ UNCHANGED <<status, ms, lastMs, lock>>

AcceptProjectWrite(h) == req[h].at = "finish" /\ SetProject(h, Completed)

\* ProjectService.StartProject, by the owner.
StartProjectRead(h) ==
    /\ status = Aligning
    /\ Begin(h, [Idle EXCEPT !.at = "begin"])
    /\ UNCHANGED <<status, ms, lastMs, lock>>

StartProjectWrite(h) == req[h].at = "begin" /\ SetProject(h, InProgress)

\* A request dies between two of its statements; its transaction rolls back.
Drop(h) ==
    /\ Faults
    /\ req[h].at # "idle"
    /\ Finish(h)
    /\ Release(h)
    /\ UNCHANGED <<status, ms, lastMs>>

\* GoTasksRepository.save_milestones_to_go, from a task the AI agent leaves
\* running: looks the project up, then replaces the table's rows in one
\* transaction that takes no lock on the project.
PlanRead(h, plan) ==
    /\ Len(plan) <= Room
    /\ Begin(h, [Idle EXCEPT !.at = "plan", !.plan = plan])
    /\ UNCHANGED <<status, ms, lastMs, lock>>

PlanWrite(h) ==
    /\ req[h].at = "plan"
    /\ lastMs + Len(req[h].plan) <= MaxMilestones
    /\ ms' = [m \in MsId |->
               IF m \in lastMs + 1 .. lastMs + Len(req[h].plan)
               THEN [order |-> m - lastMs - 1, ratio |-> req[h].plan[m - lastMs],
                     planned |-> TRUE, status |-> Waiting]
               ELSE NoRow]
    /\ lastMs' = lastMs + Len(req[h].plan)
    /\ Finish(h)
    /\ UNCHANGED <<status, lock>>
-----------------------------------------------------------------------------
\* A client's call reaches an idle handler.
Arrive(h) ==
    \/ \E o \in Order \cup {None}, r \in Ratio \cup {None} : CreateRead(h, o, r)
    \/ \E m \in MsId : \/ DeliverRead(h, m)
                       \/ AcceptRead(h, m)
                       \/ RevisionRead(h, m)
                       \/ StartMsRead(h, m)
                       \/ CompleteRead(h, m)
    \/ DeliverProjectRead(h)
    \/ AcceptProjectRead(h)
    \/ StartProjectRead(h)
    \/ \E plan \in Plans : PlanRead(h, plan)

\* The handler's own next statement.
Serve(h) ==
    \/ MsLock(h)
    \/ MsCheck(h)
    \/ MsInsert(h)
    \/ SaveRow(h)
    \/ StartMsList(h)
    \/ StartMsWrite(h)
    \/ CompleteProject(h)
    \/ CompleteWrite(h)
    \/ CompleteList(h)
    \/ DeliverProjectList(h)
    \/ Submit(h)
    \/ AcceptProjectWrite(h)
    \/ StartProjectWrite(h)
    \/ PlanWrite(h)

Next == \E h \in Handler : Arrive(h) \/ Serve(h) \/ Drop(h)

Spec == Init /\ [][Next]_vars

\* A goroutine that has started keeps running, and the database grants a row's
\* lock in the order of the requests for it.
FairSpec == Spec /\ \A h \in Handler : SF_vars(Serve(h))
-----------------------------------------------------------------------------
(***************************************************************************)
(* What holds whatever the interleaving of requests, and when they die.    *)
(***************************************************************************)
\* Create's transactions exclude one another: a handler past the lock holds it,
\* and nobody holds it who is elsewhere.
LockHeld == \A h \in Handler : req[h].at \in {"msCheck", "msInsert"} <=> lock = h

\* The milestones never add up to more than the whole payment: Create sums up
\* under the project's lock.
RatioCap == TotalRatio <= Whole

\* The order a Create settled on is still behind every milestone when it
\* inserts, so milestones made without an order never share one.
NextOrderFree ==
    \A h \in Handler : req[h].at = "msInsert" /\ req[h].append
        => \A m \in Present : ms[m].order < req[h].row.order

OnMilestone == {"save", "startList", "startWrite", "completeProject", "completeWrite"}

\* Every milestone has an order, and so has the row a Create is to insert; a
\* request about a milestone names one.
Ordered ==
    /\ \A m \in Present : ms[m].order \in Nat
    /\ \A h \in Handler :
          /\ req[h].at \in {"msLock", "msCheck"} => req[h].append \/ req[h].row.order \in Nat
          /\ req[h].at \in {"msLock", "msCheck", "msInsert"} => req[h].row.status = Waiting
          /\ req[h].at = "msInsert" => req[h].row.order \in Nat
          /\ req[h].at = "save" /\ req[h].row.status # Absent => req[h].row.order \in Nat
          /\ req[h].at \in OnMilestone => req[h].ms \in MsId

\* Without plans no row is ever deleted, so a row on its way to being saved is
\* still there and keeps its order.
Saved ==
    /\ \A m \in Present : m <= lastMs
    /\ \A h \in Handler :
          /\ req[h].at # "plan"
          /\ req[h].at = "save" => /\ req[h].ms \in Present
                                   /\ req[h].row.order = ms[req[h].ms].order
                                   /\ req[h].row.status # Absent

\* The inductive invariant of Spec.
MilestonesInv ==
    TypeOK /\ LockHeld /\ Ordered /\ (Plans = {} => Saved /\ NextOrderFree)

(***************************************************************************)
(* What holds when requests are served one at a time.                      *)
(***************************************************************************)
\* Each request looks like one atomic step of Delivery: what it checked about
\* milestones and project still holds when it writes.
Abstract == INSTANCE Delivery
                WITH order <- [m \in MsId |-> ms[m].order],
                     phase <- [m \in MsId |-> ms[m].status]
AtomicDelivery == Abstract!Spec

(***************************************************************************)
(* Liveness.                                                               *)
(***************************************************************************)
\* When the last milestones are completed by requests that race with each
\* other, one of them sees that all are done: the project is submitted, unless
\* a milestone is added or taken back meanwhile.
LastCompletionSubmits ==
    (/\ status = InProgress
     /\ AllDone
     /\ \E h \in Handler : req[h].at = "completeList" /\ req[h].running)
    ~> (status \in {Accepting, Completed} \/ ~AllDone)
=============================================================================
