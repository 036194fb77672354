-------------------------- MODULE MilestonesProofs --------------------------
(***************************************************************************)
(* Theorems about Milestones for every value of its constants: the project *)
(* lock of Create excludes, for any number of handlers, with or without    *)
(* plans and faults; without plans the order it settles on stays free and  *)
(* the ratios never add up to more than the whole; and handlers that do    *)
(* not overlap take the steps of Delivery, plans or not.                   *)
(*                                                                         *)
(* The argument: MilestonesInv is inductive.  Its parts speak of one       *)
(* handler at a time (RequestOK), so a step must keep what its own handler *)
(* knows and what every other handler knows (Step).  The others lose       *)
(* nothing as long as the lock does not change hands and rows keep their   *)
(* order (OthersKeep); only the insertion adds a row, and then the lock    *)
(* says that nobody else is about to insert.  RatioInv adds what the rows  *)
(* sum up to: a row about to be inserted fits, and a row about to be saved *)
(* has the ratio that is stored (FitsOK).  SerialInv is about handlers     *)
(* that take turns: what the busy one has read is what is stored (Fresh).  *)
(***************************************************************************)
EXTENDS Milestones, FoldFacts, FiniteSetTheorems, TLAPS

USE DEF Aligning, InProgress, Accepting, Completed, OnMilestone,
        Absent, Waiting, Working, Done, Revising, Delivered

\* What MilestonesInv says of a handler h whose request is r.
RequestOK(h, r) ==
    /\ r.at \in {"msCheck", "msInsert"} <=> lock = h
    /\ r.at \in {"msLock", "msCheck"} => r.append \/ r.row.order \in Nat
    /\ r.at \in {"msLock", "msCheck", "msInsert"} => r.row.status = Waiting
    /\ r.at = "msInsert" => r.row.order \in Nat
    /\ r.at = "save" /\ r.row.status # Absent => r.row.order \in Nat
    /\ r.at \in OnMilestone => r.ms \in MsId
    /\ Plans = {} =>
         /\ r.at # "plan"
         /\ r.at = "save" => /\ r.ms \in Present
                             /\ r.row.order = ms[r.ms].order
                             /\ r.row.status # Absent
         /\ r.at = "msInsert" /\ r.append =>
               \A m \in Present : ms[m].order < r.row.order

\* What it says of the table.
RowsOK ==
    /\ \A m \in Present : ms[m].order \in Nat
    /\ Plans = {} => \A m \in Present : m <= lastMs

\* MilestonesInv, handler by handler.
LEMMA PerHandler ==
    MilestonesInv <=> TypeOK /\ RowsOK /\ \A h \in Handler : RequestOK(h, req[h])
  BY DEF MilestonesInv, LockHeld, Ordered, Saved, NextOrderFree, RowsOK, RequestOK

\* The same after a step.
LEMMA PerHandlerNext ==
    MilestonesInv' <=> TypeOK' /\ RowsOK' /\ \A h \in Handler : RequestOK(h, req[h])'
  BY DEF MilestonesInv, LockHeld, Ordered, Saved, NextOrderFree, RowsOK, RequestOK,
         TypeOK, Present

\* An idle handler knows nothing and, unless it holds the lock, may know that.
LEMMA IdleOK ==
    /\ NoRow \in MsRow
    /\ Idle \in Request
    /\ \A h \in Handler : lock # h => RequestOK(h, Idle)
    /\ \A h \in Handler : lock' # h => RequestOK(h, Idle)'
  BY DEF NoRow, MsRow, Idle, Request, Stage, RequestOK, Present

\* The rows keep their order and the lock does not change hands among the others:
\* the others lose nothing.
LEMMA OthersKeep ==
    ASSUME MilestonesInv, NEW g \in Handler, req'[g] = req[g],
           lock = g <=> lock' = g,
           Plans = {} => /\ Present' = Present
                         /\ \A m \in Present : ms'[m].order = ms[m].order
    PROVE  RequestOK(g, req[g])'
  <1>1. RequestOK(g, req[g])
    BY PerHandler
  <1> QED
    BY <1>1 DEF RequestOK

\* A step of handler h that leaves the rows' order and the others' lock alone.
LEMMA Step ==
    ASSUME MilestonesInv, NEW h \in Handler, NEW r \in Request,
           req' = [req EXCEPT ![h] = r],
           status' \in Aligning .. Completed, ms' \in [MsId -> MsRow],
           lastMs' \in 0 .. MaxMilestones, lock' \in Handler \cup {None},
           RowsOK', RequestOK(h, r)',
           \A g \in Handler \ {h} : lock = g <=> lock' = g,
           Plans = {} => /\ Present' = Present
                         /\ \A m \in Present : ms'[m].order = ms[m].order
    PROVE  MilestonesInv'
  <1>1. TypeOK'
    BY DEF MilestonesInv, TypeOK
  <1>2. ASSUME NEW g \in Handler PROVE RequestOK(g, req[g])'
    <2>1. CASE g = h
      BY <2>1 DEF MilestonesInv, TypeOK
    <2>2. CASE g # h
      <3>1. req'[g] = req[g]
        BY <2>2 DEF MilestonesInv, TypeOK
      <3> QED
        BY <2>2, <3>1, OthersKeep
    <2> QED
      BY <2>1, <2>2
  <1> QED
    BY <1>1, <1>2, PerHandlerNext

\* A step that only changes what handler h knows.
LEMMA Think ==
    ASSUME MilestonesInv, NEW h \in Handler, NEW r \in Request, RequestOK(h, r),
           req' = [req EXCEPT ![h] = r],
           UNCHANGED <<status, ms, lastMs, lock>>
    PROVE  MilestonesInv'
  <1>1. RowsOK /\ TypeOK
    BY PerHandler
  <1>2. RowsOK' /\ RequestOK(h, r)' /\ Present' = Present
    BY <1>1 DEF RowsOK, RequestOK, Present
  <1>3. /\ status' \in Aligning .. Completed /\ ms' \in [MsId -> MsRow]
        /\ lastMs' \in 0 .. MaxMilestones /\ lock' \in Handler \cup {None}
    BY <1>1 DEF TypeOK
  <1> QED
    BY <1>2, <1>3, Step
-----------------------------------------------------------------------------
\* Reading a row and keeping it to be saved with another status keeps the invariant.
LEMMA SaveLaterInv ==
    ASSUME MilestonesInv, NEW h \in Handler, NEW m \in MsId,
           NEW s \in Waiting .. Delivered, ms[m].status # Absent, SaveLater(h, m, s)
    PROVE  MilestonesInv'
  <1> DEFINE row == [ms[m] EXCEPT !.status = s]
             q == [Idle EXCEPT !.at = "save", !.ms = m, !.row = row]
  <1>0. TypeOK /\ RowsOK /\ RequestOK(h, req[h]) /\ Idle \in Request
    BY PerHandler, IdleOK
  <1>1. row \in MsRow /\ row.status = s /\ row.order = ms[m].order
    BY <1>0 DEF TypeOK, MsRow
  <1>2. m \in Present /\ ms[m].order \in Nat
    BY <1>0 DEF RowsOK, Present
  <1>3. lock # h
    BY <1>0 DEF SaveLater, Begin, RequestOK
  <1>4. req' = [req EXCEPT ![h] = q] /\ UNCHANGED <<status, ms, lastMs, lock>>
    BY DEF SaveLater, Begin
  <1> HIDE DEF row
  <1>5. q.at = "save" /\ q.ms = m /\ q.row = row
    BY DEF Idle
  <1>6. q \in Request
    BY <1>0, <1>1 DEF Request, Stage, Idle
  <1> HIDE DEF q
  <1>7. RequestOK(h, q)
    BY <1>1, <1>2, <1>3, <1>5 DEF RequestOK
  <1> QED
    BY <1>4, <1>6, <1>7, Think

\* What a call reads keeps the invariant.
LEMMA ArriveInv ==
    ASSUME MilestonesInv, NEW h \in Handler, Arrive(h) PROVE MilestonesInv'
  <1> USE MilestonesAssumption
  <1>0. TypeOK /\ RowsOK /\ RequestOK(h, req[h]) /\ Idle \in Request
    BY PerHandler, IdleOK
  <1>1. ASSUME NEW o \in Order \cup {None}, NEW x \in Ratio \cup {None},
               CreateRead(h, o, x)
        PROVE  MilestonesInv'
    <2> DEFINE row == [order |-> o, ratio |-> x, planned |-> FALSE, status |-> Waiting]
               q == [Idle EXCEPT !.at = "msLock", !.append = (o = None), !.row = row]
    <2>1. row \in MsRow /\ row.status = Waiting /\ (o # None => row.order \in Nat)
      BY DEF MsRow
    <2>2. req' = [req EXCEPT ![h] = q] /\ UNCHANGED <<status, ms, lastMs, lock>>
      BY <1>1 DEF CreateRead, Begin
    <2>3. lock # h
      BY <1>0, <1>1 DEF CreateRead, Begin, RequestOK
    <2> HIDE DEF row
    <2>4. q.at = "msLock" /\ q.append = (o = None) /\ q.row = row
      BY DEF Idle
    <2>5. q \in Request
      BY <1>0, <2>1 DEF Request, Stage, Idle
    <2> HIDE DEF q
    <2>6. RequestOK(h, q)
      BY <2>1, <2>3, <2>4 DEF RequestOK
    <2> QED
      BY <2>2, <2>5, <2>6, Think
  <1>2. ASSUME NEW m \in MsId, DeliverRead(h, m) PROVE MilestonesInv'
    BY <1>2, SaveLaterInv DEF DeliverRead
  <1>3. ASSUME NEW m \in MsId, AcceptRead(h, m) PROVE MilestonesInv'
    BY <1>3, SaveLaterInv DEF AcceptRead
  <1>4. ASSUME NEW m \in MsId, RevisionRead(h, m) PROVE MilestonesInv'
    BY <1>4, SaveLaterInv DEF RevisionRead
  <1>5. ASSUME NEW m \in MsId, StartMsRead(h, m) PROVE MilestonesInv'
    <2> DEFINE q == [Idle EXCEPT !.at = "startList", !.ms = m, !.row = ms[m]]
    <2>1. q \in Request
      BY <1>0, <1>5 DEF StartMsRead, TypeOK, Request, Stage, Idle, MsRow
    <2>2. RequestOK(h, q)
      BY <1>0, <1>5 DEF StartMsRead, Begin, RequestOK, Idle
    <2> HIDE DEF q
    <2>3. req' = [req EXCEPT ![h] = q] /\ UNCHANGED <<status, ms, lastMs, lock>>
      BY <1>5 DEF StartMsRead, Begin, q
    <2> QED
      BY <2>1, <2>2, <2>3, Think
  <1>6. ASSUME NEW m \in MsId, CompleteRead(h, m) PROVE MilestonesInv'
    <2> DEFINE q == [Idle EXCEPT !.at = "completeProject", !.ms = m]
    <2>1. q \in Request
      BY <1>0, <1>6 DEF CompleteRead, TypeOK, Request, Stage, Idle, MsRow
    <2>2. RequestOK(h, q)
      BY <1>0, <1>6 DEF CompleteRead, Begin, RequestOK, Idle
    <2> HIDE DEF q
    <2>3. req' = [req EXCEPT ![h] = q] /\ UNCHANGED <<status, ms, lastMs, lock>>
      BY <1>6 DEF CompleteRead, Begin, q
    <2> QED
      BY <2>1, <2>2, <2>3, Think
  <1>7. ASSUME DeliverProjectRead(h) PROVE MilestonesInv'
    <2> DEFINE q == [Idle EXCEPT !.at = "deliverList"]
    <2>1. q \in Request
      BY <1>0, <1>7 DEF DeliverProjectRead, TypeOK, Request, Stage, Idle, MsRow
    <2>2. RequestOK(h, q)
      BY <1>0, <1>7 DEF DeliverProjectRead, Begin, RequestOK, Idle
    <2> HIDE DEF q
    <2>3. req' = [req EXCEPT ![h] = q] /\ UNCHANGED <<status, ms, lastMs, lock>>
      BY <1>7 DEF DeliverProjectRead, Begin, q
    <2> QED
      BY <2>1, <2>2, <2>3, Think
  <1>8. ASSUME AcceptProjectRead(h) PROVE MilestonesInv'
    <2> DEFINE q == [Idle EXCEPT !.at = "finish"]
    <2>1. q \in Request
      BY <1>0, <1>8 DEF AcceptProjectRead, TypeOK, Request, Stage, Idle, MsRow
    <2>2. RequestOK(h, q)
      BY <1>0, <1>8 DEF AcceptProjectRead, Begin, RequestOK, Idle
    <2> HIDE DEF q
    <2>3. req' = [req EXCEPT ![h] = q] /\ UNCHANGED <<status, ms, lastMs, lock>>
      BY <1>8 DEF AcceptProjectRead, Begin, q
    <2> QED
      BY <2>1, <2>2, <2>3, Think
  <1>9. ASSUME StartProjectRead(h) PROVE MilestonesInv'
    <2> DEFINE q == [Idle EXCEPT !.at = "begin"]
    <2>1. q \in Request
      BY <1>0, <1>9 DEF StartProjectRead, TypeOK, Request, Stage, Idle, MsRow
    <2>2. RequestOK(h, q)
      BY <1>0, <1>9 DEF StartProjectRead, Begin, RequestOK, Idle
    <2> HIDE DEF q
    <2>3. req' = [req EXCEPT ![h] = q] /\ UNCHANGED <<status, ms, lastMs, lock>>
      BY <1>9 DEF StartProjectRead, Begin, q
    <2> QED
      BY <2>1, <2>2, <2>3, Think
  <1>10. ASSUME NEW plan \in Plans, PlanRead(h, plan) PROVE MilestonesInv'
    <2> DEFINE q == [Idle EXCEPT !.at = "plan", !.plan = plan]
    <2>1. q \in Request
      BY <1>0, <1>10 DEF PlanRead, TypeOK, Request, Stage, Idle, MsRow
    <2>2. RequestOK(h, q)
      BY <1>0, <1>10 DEF PlanRead, Begin, RequestOK, Idle
    <2> HIDE DEF q
    <2>3. req' = [req EXCEPT ![h] = q] /\ UNCHANGED <<status, ms, lastMs, lock>>
      BY <1>10 DEF PlanRead, Begin, q
    <2> QED
      BY <2>1, <2>2, <2>3, Think
  <1> QED
    BY <1>1, <1>2, <1>3, <1>4, <1>5, <1>6, <1>7, <1>8, <1>9, <1>10 DEF Arrive

\* The reads a handler does on its way keep the invariant.
LEMMA ListInv ==
    ASSUME MilestonesInv, NEW h \in Handler,
           StartMsList(h) \/ CompleteProject(h) \/ CompleteList(h) \/ DeliverProjectList(h)
    PROVE  MilestonesInv'
  <1>0. TypeOK /\ RequestOK(h, req[h]) /\ Idle \in Request
    BY PerHandler, IdleOK
  <1>1. /\ req[h].at \in {"startList", "completeProject", "completeList", "deliverList"}
        /\ UNCHANGED <<status, ms, lastMs, lock>>
    BY DEF StartMsList, CompleteProject, CompleteList, DeliverProjectList
  <1>2. lock # h
    BY <1>0, <1>1 DEF RequestOK
  <1>3. CASE Finish(h)
    BY <1>0, <1>1, <1>2, <1>3, IdleOK, Think DEF Finish
  <1>4. ASSUME NEW s \in {"startWrite", "submit"}, Goto(h, s),
               s = "startWrite" => req[h].at = "startList"
        PROVE  MilestonesInv'
    <2> DEFINE q == [req[h] EXCEPT !.at = s]
    <2>1. q \in Request /\ q.at = s /\ (s = "startWrite" => q.ms \in MsId)
      BY <1>0, <1>4 DEF TypeOK, Request, Stage, RequestOK
    <2>2. req' = [req EXCEPT ![h] = q]
      BY <1>4 DEF Goto
    <2> HIDE DEF q
    <2>3. RequestOK(h, q)
      BY <1>2, <2>1 DEF RequestOK
    <2> QED
      BY <1>1, <2>1, <2>2, <2>3, Think
  <1>5. CASE CompleteProject(h)
    <2> DEFINE q == [req[h] EXCEPT !.at = "completeWrite", !.running = (status = InProgress)]
    <2>1. q \in Request /\ q.at = "completeWrite" /\ q.ms \in MsId
      BY <1>0, <1>5 DEF TypeOK, Request, Stage, RequestOK, CompleteProject
    <2>2. req' = [req EXCEPT ![h] = q]
      BY <1>5 DEF CompleteProject
    <2> HIDE DEF q
    <2>3. RequestOK(h, q)
      BY <1>2, <2>1 DEF RequestOK
    <2> QED
      BY <1>1, <2>1, <2>2, <2>3, Think
  <1> QED
    BY <1>3, <1>4, <1>5 DEF StartMsList, CompleteList, DeliverProjectList

-----------------------------------------------------------------------------
\* Taking the lock.
LEMMA LockInv ==
    ASSUME MilestonesInv, NEW h \in Handler, MsLock(h) PROVE MilestonesInv'
  <1>0. TypeOK /\ RowsOK /\ RequestOK(h, req[h])
    BY PerHandler
  <1>1. [req[h] EXCEPT !.at = "msCheck"] \in Request
    BY <1>0 DEF TypeOK, Request, Stage
  <1>2. PICK q \in Request : /\ q = [req[h] EXCEPT !.at = "msCheck"]
                             /\ req' = [req EXCEPT ![h] = q]
    BY <1>1 DEF MsLock, Goto
  <1>3. q.at = "msCheck" /\ q.row = req[h].row /\ q.append = req[h].append
    BY <1>0, <1>2 DEF TypeOK, Request
  <1>4. UNCHANGED <<status, ms, lastMs>> /\ lock' = h /\ lock = None /\ req[h].at = "msLock"
    BY DEF MsLock
  <1>5. RequestOK(h, q)' /\ RowsOK' /\ Present' = Present
    BY <1>0, <1>3, <1>4 DEF RequestOK, RowsOK, Present
  <1>6. \A g \in Handler \ {h} : lock = g <=> lock' = g
    BY <1>4, MilestonesAssumption
  <1>7. ms' \in [MsId -> MsRow] /\ status' \in Aligning .. Completed
        /\ lastMs' \in 0 .. MaxMilestones
    BY <1>0, <1>4 DEF TypeOK
  <1> QED
    BY <1>2, <1>4, <1>5, <1>6, <1>7, Step

\* The end of a request that writes at most the project's status.
LEMMA EndInv ==
    ASSUME MilestonesInv, NEW h \in Handler, Finish(h), Release(h),
           status' \in Aligning .. Completed, UNCHANGED <<ms, lastMs>>
    PROVE  MilestonesInv'
  <1>0. TypeOK /\ RowsOK
    BY PerHandler
  <1>1. lock' # h /\ lock' \in Handler \cup {None}
    BY <1>0, MilestonesAssumption DEF Release, TypeOK
  <1>2. \A g \in Handler \ {h} : lock = g <=> lock' = g
    BY MilestonesAssumption DEF Release
  <1>3. RequestOK(h, Idle)' /\ Idle \in Request
    BY <1>1, IdleOK
  <1>4. RowsOK' /\ Present' = Present
    BY <1>0 DEF RowsOK, Present
  <1>5. ms' \in [MsId -> MsRow] /\ lastMs' \in 0 .. MaxMilestones
    BY <1>0 DEF TypeOK
  <1> QED
    BY <1>1, <1>2, <1>3, <1>4, <1>5, Step DEF Finish

\* The sum and the order, under the lock.
LEMMA CheckInv ==
    ASSUME MilestonesInv, NEW h \in Handler, MsCheck(h) PROVE MilestonesInv'
  <1>0. TypeOK /\ RowsOK /\ RequestOK(h, req[h])
    BY PerHandler
  <1>1. CASE Finish(h) /\ Release(h)
    BY <1>0, <1>1, EndInv DEF MsCheck, TypeOK
  <1>2. ASSUME NEW n \in NextOrder, UNCHANGED lock, req[h].append,
               req' = [req EXCEPT ![h].at = "msInsert", ![h].row.order = n]
        PROVE  MilestonesInv'
    <2> DEFINE row == [req[h].row EXCEPT !.order = n]
               q == [req[h] EXCEPT !.at = "msInsert", !.row = row]
    <2>1. n \in Nat /\ \A m \in Present : ms[m].order < n
      BY <1>0 DEF NextOrder, RowsOK
    <2>2. req[h] \in Request /\ req[h].row \in MsRow
      BY <1>0 DEF TypeOK, Request
    <2>3. row \in MsRow /\ row.order = n /\ row.status = req[h].row.status
      BY <2>1, <2>2 DEF MsRow
    <2>4. req' = [req EXCEPT ![h] = q]
      BY <1>2
    <2> HIDE DEF row
    <2>5. q \in Request /\ q.at = "msInsert" /\ q.row = row
      BY <2>2, <2>3 DEF Request, Stage
    <2> HIDE DEF q
    <2>6. lock = h /\ req[h].row.status = Waiting
      BY <1>0 DEF RequestOK, MsCheck
    <2>7. RequestOK(h, q)
      BY <2>1, <2>3, <2>5, <2>6 DEF RequestOK
    <2> QED
      BY <1>2, <2>4, <2>5, <2>7, Think DEF MsCheck
  <1>3. CASE Goto(h, "msInsert") /\ UNCHANGED lock /\ ~req[h].append
    <2> DEFINE q == [req[h] EXCEPT !.at = "msInsert"]
    <2>1. q \in Request /\ q.at = "msInsert" /\ q.row = req[h].row /\ q.append = req[h].append
      BY <1>0 DEF TypeOK, Request, Stage
    <2>2. req' = [req EXCEPT ![h] = q]
      BY <1>3 DEF Goto
    <2> HIDE DEF q
    <2>3. RequestOK(h, q)
      BY <1>0, <1>3, <2>1 DEF RequestOK, MsCheck
    <2> QED
      BY <1>3, <2>1, <2>2, <2>3, Think DEF MsCheck
  <1> QED
    BY <1>1, <1>2, <1>3 DEF MsCheck

\* The insertion: the row goes last, and nobody else is about to insert.
LEMMA InsertInv ==
    ASSUME MilestonesInv, NEW h \in Handler, MsInsert(h) PROVE MilestonesInv'
  <1>0. TypeOK /\ RowsOK /\ RequestOK(h, req[h])
    BY PerHandler
  <1>1. lock = h /\ req[h].at = "msInsert" /\ lock' = None
        /\ req[h].row.order \in Nat /\ req[h].row.status = Waiting
    BY <1>0 DEF MsInsert, Release, RequestOK
  <1>2. lastMs + 1 \in MsId /\ lastMs' = lastMs + 1 /\ lastMs \in Nat
        /\ ms' = [ms EXCEPT ![lastMs + 1] = req[h].row] /\ req' = [req EXCEPT ![h] = Idle]
        /\ status' = status /\ req[h].row \in MsRow
    BY <1>0, MilestonesAssumption DEF MsInsert, Finish, TypeOK, MsId, Request
  <1>3. TypeOK'
    <2>1. ms' \in [MsId -> MsRow] /\ lastMs' \in 0 .. MaxMilestones
      BY <1>0, <1>2 DEF TypeOK, MsId
    <2>2. req' \in [Handler -> Request]
      BY <1>0, <1>2, IdleOK DEF TypeOK
    <2> QED
      BY <1>0, <1>1, <1>2, <2>1, <2>2 DEF TypeOK
  <1>4. /\ Present' = Present \cup {lastMs + 1}
        /\ \A m \in MsId \ {lastMs + 1} : ms'[m] = ms[m]
        /\ ms'[lastMs + 1] = req[h].row
    BY <1>0, <1>1, <1>2 DEF Present, TypeOK
  <1>5. RowsOK'
    BY <1>0, <1>1, <1>2, <1>4 DEF RowsOK, Present, MsId
  <1>6. ASSUME NEW g \in Handler PROVE RequestOK(g, req[g])'
    <2>1. CASE g = h
      BY <2>1, <1>0, <1>1, <1>2, IdleOK, MilestonesAssumption DEF TypeOK
    <2>2. CASE g # h
      <3>1. req'[g] = req[g] /\ RequestOK(g, req[g])
        BY <2>2, <1>0, <1>2, PerHandler DEF TypeOK
      <3>2. lock # g /\ lock' # g /\ req[g].at \notin {"msCheck", "msInsert"}
        BY <2>2, <1>1, <3>1, MilestonesAssumption DEF RequestOK
      <3>3. Plans = {} => \A m \in Present : m # lastMs + 1
        BY <1>0, <1>2 DEF RowsOK, Present, MsId
      <3>4. Plans = {} /\ req[g].at = "save"
                => req[g].ms \in Present' /\ ms'[req[g].ms].order = ms[req[g].ms].order
        BY <3>1, <3>3, <1>4 DEF RequestOK, Present
      <3> QED
        BY <3>1, <3>2, <3>4 DEF RequestOK
    <2> QED
      BY <2>1, <2>2
  <1> QED
    BY <1>3, <1>5, <1>6, PerHandlerNext

\* Writing a milestone: its order stays, and without plans it was there.
LEMMA WriteInv ==
    ASSUME MilestonesInv, NEW h \in Handler, lock # h, UNCHANGED <<status, lastMs, lock>>,
           NEW r \in Request, req' = [req EXCEPT ![h] = r],
           r.at \in {"idle", "completeList"},
           NEW m \in MsId, NEW row \in MsRow, ms' = [ms EXCEPT ![m] = row],
           row.status # Absent => row.order \in Nat,
           Plans = {} => m \in Present /\ row.status # Absent /\ row.order = ms[m].order
    PROVE  MilestonesInv'
  <1>0. TypeOK /\ RowsOK
    BY PerHandler
  <1>1. /\ ms' \in [MsId -> MsRow] /\ lastMs' \in 0 .. MaxMilestones
        /\ status' \in Aligning .. Completed /\ lock' \in Handler \cup {None}
    BY <1>0 DEF TypeOK
  <1>2. ms'[m] = row /\ \A k \in MsId \ {m} : ms'[k] = ms[k]
    BY <1>0 DEF TypeOK
  <1>3. Plans = {} => /\ Present' = Present
                      /\ \A k \in Present : ms'[k].order = ms[k].order
    BY <1>2 DEF Present
  <1>4. RowsOK'
    BY <1>0, <1>2, <1>3 DEF RowsOK, Present
  <1>5. RequestOK(h, r)'
    BY DEF RequestOK
  <1> QED
    BY <1>1, <1>3, <1>4, <1>5, Step

\* Save, and the UPDATEs of StartMilestone and CompleteMilestone.
LEMMA RowInv ==
    ASSUME MilestonesInv, NEW h \in Handler,
           SaveRow(h) \/ StartMsWrite(h) \/ CompleteWrite(h)
    PROVE  MilestonesInv'
  <1>0. TypeOK /\ RowsOK /\ RequestOK(h, req[h]) /\ Idle \in Request /\ Idle.at = "idle"
    BY PerHandler, IdleOK DEF Idle
  <1>1. req[h].at \in {"save", "startWrite", "completeWrite"}
        /\ UNCHANGED <<status, lastMs, lock>>
    BY DEF SaveRow, StartMsWrite, CompleteWrite
  <1>2. lock # h
    BY <1>0, <1>1 DEF RequestOK
  <1>3. req[h].ms \in MsId /\ req[h] \in Request /\ req[h].row \in MsRow
    BY <1>0, <1>1 DEF RequestOK, TypeOK, Request
  <1>4. CASE SaveRow(h)
    <2>1. req[h].row.status # Absent => req[h].row.order \in Nat
      BY <1>0, <1>4 DEF SaveRow, RequestOK
    <2>2. Plans = {} => /\ req[h].ms \in Present /\ req[h].row.status # Absent
                        /\ req[h].row.order = ms[req[h].ms].order
      BY <1>0, <1>4 DEF SaveRow, RequestOK
    <2> QED
      BY <1>0, <1>1, <1>2, <1>3, <1>4, <2>1, <2>2, WriteInv DEF SaveRow, Finish
  <1>5. ASSUME NEW s \in {Working, Done}, SetStatus(req[h].ms, s),
               NEW r \in Request, r.at \in {"idle", "completeList"},
               req' = [req EXCEPT ![h] = r]
        PROVE  MilestonesInv'
    <2>1. CASE ms[req[h].ms].status = Absent
      <3>1. ms' = ms /\ RequestOK(h, r)
        BY <1>2, <1>5, <2>1 DEF SetStatus, RequestOK
      <3> QED
        BY <1>1, <1>5, <3>1, Think
    <2>2. CASE ms[req[h].ms].status # Absent
      <3> DEFINE row == [ms[req[h].ms] EXCEPT !.status = s]
      <3>1. row \in MsRow /\ row.status = s /\ row.order = ms[req[h].ms].order
        BY <1>0, <1>3, <1>5 DEF TypeOK, MsRow
      <3>2. ms' = [ms EXCEPT ![req[h].ms] = row]
        BY <1>5, <2>2 DEF SetStatus
      <3>3. req[h].ms \in Present /\ ms[req[h].ms].order \in Nat
        BY <1>0, <1>3, <2>2 DEF Present, RowsOK
      <3> HIDE DEF row
      <3>4. row.order \in Nat /\ row.status # Absent
        BY <1>5, <3>1, <3>3
      <3>5. UNCHANGED <<status, lastMs, lock>>
        BY <1>1
      <3> QED
        BY <1>2, <1>3, <1>5, <3>1, <3>2, <3>3, <3>4, <3>5, WriteInv
    <2> QED
      BY <2>1, <2>2
  <1>6. CASE StartMsWrite(h)
    BY <1>0, <1>5, <1>6 DEF StartMsWrite, Finish
  <1>7. CASE CompleteWrite(h)
    <2>1. [req[h] EXCEPT !.at = "completeList"] \in Request
      BY <1>3 DEF Request, Stage
    <2>2. [req[h] EXCEPT !.at = "completeList"].at = "completeList"
      BY <1>3 DEF Request
    <2> QED
      BY <1>5, <1>7, <2>1, <2>2 DEF CompleteWrite, Goto
  <1> QED
    BY <1>4, <1>6, <1>7

\* A plan replaces every row; nothing is known of the old ones that depends on
\* their staying.
LEMMA PlanInv ==
    ASSUME MilestonesInv, NEW h \in Handler, PlanWrite(h) PROVE MilestonesInv'
  <1> DEFINE plan == req[h].plan
  <1>0. TypeOK /\ RequestOK(h, req[h]) /\ Idle \in Request /\ NoRow \in MsRow
    BY PerHandler, IdleOK
  <1>1. Plans # {} /\ lock # h
    BY <1>0 DEF PlanWrite, RequestOK
  <1>2. plan \in Seq(Nat) /\ Len(plan) \in Nat /\ lastMs \in Nat
    BY <1>0, MilestonesAssumption DEF TypeOK, Request
  <1>3. ASSUME NEW m \in MsId
        PROVE  ms'[m] \in MsRow /\ (ms'[m].status # Absent => ms'[m].order \in Nat)
    <2>1. CASE m \in lastMs + 1 .. lastMs + Len(plan)
      <3>1. m - lastMs \in 1 .. Len(plan) /\ m - lastMs - 1 \in Nat
        BY <1>2, <2>1
      <3>2. plan[m - lastMs] \in Nat
        BY <1>2, <3>1
      <3>3. ms'[m] = [order |-> m - lastMs - 1, ratio |-> plan[m - lastMs],
                      planned |-> TRUE, status |-> Waiting]
        BY <2>1 DEF PlanWrite
      <3> QED
        BY <3>1, <3>2, <3>3 DEF MsRow
    <2>2. CASE m \notin lastMs + 1 .. lastMs + Len(plan)
      <3>1. ms'[m] = NoRow
        BY <2>2 DEF PlanWrite
      <3> QED
        BY <1>0, <3>1 DEF NoRow
    <2> QED
      BY <2>1, <2>2
  <1>4. ms' \in [MsId -> MsRow] /\ RowsOK'
    BY <1>1, <1>3 DEF PlanWrite, RowsOK, Present
  <1>5. RequestOK(h, Idle)' /\ lastMs' \in 0 .. MaxMilestones
    BY <1>0, <1>1, <1>2, IdleOK, MilestonesAssumption DEF PlanWrite
  <1> QED
    BY <1>0, <1>1, <1>4, <1>5, Step DEF PlanWrite, Finish, TypeOK
-----------------------------------------------------------------------------
\* The invariant holds initially.
LEMMA InitInv == Init => MilestonesInv
  <1> SUFFICES ASSUME Init PROVE MilestonesInv
    OBVIOUS
  <1>1. NoRow \in MsRow /\ Idle \in Request /\ \A h \in Handler : RequestOK(h, Idle)
    BY IdleOK, MilestonesAssumption DEF Init
  <1>2. TypeOK
    BY <1>1, MilestonesAssumption DEF Init, TypeOK
  <1>3. RowsOK
    BY DEF Init, RowsOK, Present, NoRow
  <1> QED
    BY <1>1, <1>2, <1>3, PerHandler DEF Init

\* Every step keeps it.
LEMMA StepInv == MilestonesInv /\ [Next]_vars => MilestonesInv'
  <1> SUFFICES ASSUME MilestonesInv, [Next]_vars PROVE MilestonesInv'
    OBVIOUS
  <1>0. TypeOK
    BY PerHandler
  <1>1. ASSUME NEW h \in Handler, Serve(h) PROVE MilestonesInv'
    <2>1. CASE Submit(h) \/ AcceptProjectWrite(h) \/ StartProjectWrite(h)
      BY <2>1, EndInv, MilestonesAssumption
         DEF Submit, AcceptProjectWrite, StartProjectWrite, SetProject, Release
    <2> QED
      BY <1>1, <2>1, LockInv, CheckInv, InsertInv, RowInv, ListInv, PlanInv DEF Serve
  <1>2. ASSUME NEW h \in Handler, Drop(h) PROVE MilestonesInv'
    BY <1>0, <1>2, EndInv DEF Drop, TypeOK
  <1>3. CASE UNCHANGED vars
    <2>1. RowsOK' /\ TypeOK' /\ \A h \in Handler : RequestOK(h, req[h])'
      BY <1>3, PerHandler DEF vars, RowsOK, TypeOK, RequestOK, Present
    <2> QED
      BY <2>1, PerHandlerNext
  <1> QED
    BY <1>1, <1>2, <1>3, ArriveInv DEF Next

\* The inductive invariant holds in every reachable state.
THEOREM MilestonesInvariant == Spec => []MilestonesInv
  BY InitInv, StepInv, PTL DEF Spec

\* Every variable keeps its type.
THEOREM TypeCorrect == Spec => []TypeOK
  <1>1. MilestonesInv => TypeOK
    BY DEF MilestonesInv
  <1> QED
    BY <1>1, MilestonesInvariant, PTL

\* MilestoneService.Create's transactions exclude one another, for any number of
\* handlers, plans and faults: whoever sums the ratios up holds the project's
\* row until it has inserted, given up or died.
THEOREM CreatesExclude == Spec => []LockHeld
  <1>1. MilestonesInv => LockHeld
    BY DEF MilestonesInv
  <1> QED
    BY <1>1, MilestonesInvariant, PTL

\* Without plans the order a Create settled on is behind every milestone when it
\* inserts: concurrent Creates never give two milestones the same default order.
THEOREM DefaultOrdersDiffer ==
    ASSUME Plans = {} PROVE Spec => []NextOrderFree
  <1>1. MilestonesInv => NextOrderFree
    BY DEF MilestonesInv
  <1> QED
    BY <1>1, MilestonesInvariant, PTL

-----------------------------------------------------------------------------
(***************************************************************************)
(* Theorems about Milestones for behaviours in which requests, and the     *)
(* plans of the AI agent, do not overlap, for any number of handlers, any  *)
(* plans, and whichever requests die half way: then the milestones         *)
(* implement Delivery.                                                     *)
(*                                                                         *)
(* The argument: nobody but a busy handler writes, so what it read of a    *)
(* milestone, of the list and of the project still holds when it writes    *)
(* (Fresh), and each write is the abstract step its request stands for.    *)
(***************************************************************************)

Busy(h) == req[h].at # "idle"

\* No two requests overlap, and no plan is written while one is served.
OneAtATime == \A g, h \in Handler : Busy(g) /\ Busy(h) => g = h

\* What a milestone may be saved as.
CanBecome(from, to) ==
    \/ from \in {Working, Revising} /\ to = Delivered
    \/ from = Delivered /\ to \in {Done, Revising}

StartAllowed(order) == \A k \in Present : ms[k].order < order => ms[k].status = Done

\* What a handler has read is what the database holds.
Fresh(r) ==
    /\ r.at = "save" => /\ CanBecome(ms[r.ms].status, r.row.status)
                        /\ r.row = [ms[r.ms] EXCEPT !.status = r.row.status]
    /\ r.at \in {"startList", "startWrite"} => ms[r.ms].status = Waiting /\ r.row = ms[r.ms]
    /\ r.at = "startWrite" => StartAllowed(ms[r.ms].order)
    /\ r.at \in {"completeProject", "completeWrite"} => ms[r.ms].status \in {Waiting, Working, Revising}
    /\ r.at \in {"completeWrite", "completeList"} => (r.running => status = InProgress)
    /\ r.at = "msInsert" /\ r.append => \A m \in Present : ms[m].order < r.row.order
    /\ r.at \in {"deliverList", "submit"} => status = InProgress
    /\ r.at = "submit" => AllDone
    /\ r.at = "finish" => status = Accepting
    /\ r.at = "begin" => status = Aligning

\* Keys are handed out in order, also to the milestones of a plan.
Keyed == \A m \in Present : m <= lastMs

\* The inductive invariant of behaviours in which requests do not overlap.
SerialInv == Keyed /\ \A h \in Handler : Fresh(req[h])

-----------------------------------------------------------------------------
\* While a handler is busy the others know nothing that could become false.
LEMMA OthersFresh ==
    ASSUME MilestonesInv, OneAtATime, NEW h \in Handler, Busy(h),
           NEW r, req' = [req EXCEPT ![h] = r], Fresh(r)'
    PROVE  \A g \in Handler : Fresh(req[g])'
  <1> USE DEF MilestonesInv, TypeOK
  <1> SUFFICES ASSUME NEW g \in Handler PROVE Fresh(req[g])'
    OBVIOUS
  <1>1. CASE g = h
    BY <1>1
  <1>2. CASE g # h
    <2>1. req'[g].at = "idle"
      BY <1>2 DEF OneAtATime, Busy
    <2> QED
      BY <2>1 DEF Fresh
  <1> QED
    BY <1>1, <1>2

LEMMA IdleFresh == Fresh(Idle) /\ Fresh(Idle)'
  BY DEF Idle, Fresh

LEMMA FinishFresh ==
    ASSUME MilestonesInv, OneAtATime, NEW h \in Handler, Busy(h), Finish(h)
    PROVE  \A g \in Handler : Fresh(req[g])'
  BY IdleFresh, OthersFresh DEF Finish

\* A step of one handler that leaves the tables alone, from what is fresh to
\* what is fresh.
LEMMA QuietStep ==
    ASSUME MilestonesInv, SerialInv, NEW h \in Handler, NEW r,
           req' = [req EXCEPT ![h] = r], UNCHANGED <<status, ms, lastMs>>, Fresh(r)
    PROVE  SerialInv'
  <1> USE DEF MilestonesInv, TypeOK
  <1>1. ASSUME NEW g \in Handler PROVE Fresh(req[g])'
    <2>1. req'[g] = r \/ req'[g] = req[g]
      OBVIOUS
    <2>2. Fresh(r)' /\ (req'[g] = req[g] => Fresh(req[g])')
      BY DEF SerialInv, Fresh, Present, AllDone, StartAllowed
    <2>3. CASE req'[g] = r
      BY <2>2, <2>3 DEF Fresh
    <2> QED
      BY <2>1, <2>2, <2>3
  <1>2. Keyed'
    BY DEF SerialInv, Keyed, Present
  <1> QED
    BY <1>1, <1>2 DEF SerialInv

\* What a call reads is fresh.
LEMMA ArriveSerial ==
    ASSUME MilestonesInv, SerialInv, NEW h \in Handler, Arrive(h) PROVE SerialInv'
  <1> USE DEF MilestonesInv, TypeOK, MsRow
  <1>1. ASSUME NEW o \in Order \cup {None}, NEW x \in Ratio \cup {None}, CreateRead(h, o, x)
        PROVE  SerialInv'
    <2> DEFINE r == [Idle EXCEPT !.at = "msLock", !.append = (o = None),
                                 !.row = [order |-> o, ratio |-> x, planned |-> FALSE, status |-> Waiting]]
    <2>1. Fresh(r)
      BY DEF Fresh, Idle
    <2> QED
      BY <1>1, <2>1, QuietStep DEF CreateRead, Begin
  <1>2. ASSUME NEW m \in MsId, NEW s \in Waiting .. Delivered, CanBecome(ms[m].status, s), SaveLater(h, m, s)
        PROVE  SerialInv'
    <2> DEFINE r == [Idle EXCEPT !.at = "save", !.ms = m, !.row = [ms[m] EXCEPT !.status = s]]
    <2>1. r.row.status = s /\ r.ms = m /\ r.at = "save"
      BY DEF Idle
    <2>2. Fresh(r)
      BY <1>2, <2>1 DEF Fresh, Idle
    <2> QED
      BY <1>2, <2>2, QuietStep DEF SaveLater, Begin
  <1>3. ASSUME NEW m \in MsId, DeliverRead(h, m) \/ AcceptRead(h, m) \/ RevisionRead(h, m) PROVE SerialInv'
    BY <1>2, <1>3 DEF DeliverRead, AcceptRead, RevisionRead, CanBecome
  <1>4. ASSUME NEW m \in MsId, StartMsRead(h, m) PROVE SerialInv'
    <2> DEFINE r == [Idle EXCEPT !.at = "startList", !.ms = m, !.row = ms[m]]
    <2>1. Fresh(r)
      BY <1>4 DEF StartMsRead, Fresh, Idle
    <2> QED
      BY <1>4, <2>1, QuietStep DEF StartMsRead, Begin
  <1>5. ASSUME NEW m \in MsId, CompleteRead(h, m) PROVE SerialInv'
    <2> DEFINE r == [Idle EXCEPT !.at = "completeProject", !.ms = m]
    <2>1. Fresh(r)
      BY <1>5 DEF CompleteRead, Fresh, Idle
    <2> QED
      BY <1>5, <2>1, QuietStep DEF CompleteRead, Begin
  <1>6. ASSUME DeliverProjectRead(h) PROVE SerialInv'
    <2> DEFINE r == [Idle EXCEPT !.at = "deliverList"]
    <2>1. Fresh(r)
      BY <1>6 DEF DeliverProjectRead, Fresh, Idle
    <2> QED
      BY <1>6, <2>1, QuietStep DEF DeliverProjectRead, Begin
  <1>7. ASSUME AcceptProjectRead(h) PROVE SerialInv'
    <2> DEFINE r == [Idle EXCEPT !.at = "finish"]
    <2>1. Fresh(r)
      BY <1>7 DEF AcceptProjectRead, Fresh, Idle
    <2> QED
      BY <1>7, <2>1, QuietStep DEF AcceptProjectRead, Begin
  <1>8. ASSUME StartProjectRead(h) PROVE SerialInv'
    <2> DEFINE r == [Idle EXCEPT !.at = "begin"]
    <2>1. Fresh(r)
      BY <1>8 DEF StartProjectRead, Fresh, Idle
    <2> QED
      BY <1>8, <2>1, QuietStep DEF StartProjectRead, Begin
  <1>9. ASSUME NEW plan \in Plans, PlanRead(h, plan) PROVE SerialInv'
    <2> DEFINE r == [Idle EXCEPT !.at = "plan", !.plan = plan]
    <2>1. Fresh(r)
      BY DEF Fresh, Idle
    <2> QED
      BY <1>9, <2>1, QuietStep DEF PlanRead, Begin
  <1> QED
    BY <1>1, <1>3, <1>4, <1>5, <1>6, <1>7, <1>8, <1>9 DEF Arrive

\* A request that ends without a write leaves nothing to be wrong about.
LEMMA EndSerial ==
    ASSUME MilestonesInv, SerialInv, NEW h \in Handler, Finish(h), UNCHANGED <<status, ms, lastMs>>
    PROVE  SerialInv'
  BY IdleFresh, QuietStep DEF Finish

\* What a handler reads in the middle of a request is fresh as well.
LEMMA ThinkSerial ==
    ASSUME MilestonesInv, SerialInv, NEW h \in Handler,
           \/ MsLock(h) \/ MsCheck(h) \/ StartMsList(h) \/ CompleteProject(h)
           \/ CompleteList(h) \/ DeliverProjectList(h) \/ Drop(h)
    PROVE  SerialInv'
  <1> USE DEF MilestonesInv, TypeOK, Request
  <1>1. Fresh(req[h]) /\ req[h] \in Request
    BY DEF SerialInv
  <1>2. ASSUME MsLock(h) PROVE SerialInv'
    <2> DEFINE r == [req[h] EXCEPT !.at = "msCheck"]
    <2>1. Fresh(r)
      BY <1>1 DEF Fresh
    <2> QED
      BY <1>2, <2>1, QuietStep DEF MsLock, Goto
  <1>3. ASSUME MsCheck(h) PROVE SerialInv'
    <2>1. ASSUME req[h].append, NEW n \in NextOrder,
                 req' = [req EXCEPT ![h].at = "msInsert", ![h].row.order = n]
          PROVE  SerialInv'
      <3> DEFINE r == [req[h] EXCEPT !.at = "msInsert", !.row.order = n]
      <3>1. \A k \in Present : ms[k].order < n
        BY <2>1 DEF NextOrder
      <3>2. Fresh(r)
        BY <1>1, <3>1 DEF Fresh, MsRow
      <3>3. req' = [req EXCEPT ![h] = r]
        BY <2>1
      <3>4. UNCHANGED <<status, ms, lastMs>>
        BY <1>3 DEF MsCheck
      <3> HIDE DEF r
      <3> QED
        BY <3>2, <3>3, <3>4, QuietStep
    <2>2. ASSUME ~req[h].append, Goto(h, "msInsert") PROVE SerialInv'
      <3> DEFINE r == [req[h] EXCEPT !.at = "msInsert"]
      <3>1. Fresh(r)
        BY <1>1, <2>2 DEF Fresh
      <3> QED
        BY <1>3, <2>2, <3>1, QuietStep DEF MsCheck, Goto
    <2>3. ASSUME Finish(h) PROVE SerialInv'
      BY <1>3, <2>3, EndSerial DEF MsCheck
    <2> QED
      BY <1>3, <2>1, <2>2, <2>3 DEF MsCheck
  <1>4. ASSUME StartMsList(h) PROVE SerialInv'
    <2>1. ASSUME StartAllowed(req[h].row.order), Goto(h, "startWrite") PROVE SerialInv'
      <3> DEFINE r == [req[h] EXCEPT !.at = "startWrite"]
      <3>1. Fresh(r)
        BY <1>1, <1>4, <2>1 DEF StartMsList, Fresh
      <3> QED
        BY <1>4, <2>1, <3>1, QuietStep DEF StartMsList, Goto
    <2>2. ASSUME Finish(h) PROVE SerialInv'
      BY <1>4, <2>2, EndSerial DEF StartMsList
    <2> QED
      BY <1>4, <2>1, <2>2 DEF StartMsList, StartAllowed
  <1>5. ASSUME CompleteProject(h) PROVE SerialInv'
    <2> DEFINE r == [req[h] EXCEPT !.at = "completeWrite", !.running = (status = InProgress)]
    <2>1. Fresh(r)
      BY <1>1, <1>5 DEF CompleteProject, Fresh
    <2> QED
      BY <1>5, <2>1, QuietStep DEF CompleteProject
  <1>6. ASSUME CompleteList(h) \/ DeliverProjectList(h) PROVE SerialInv'
    <2>1. ASSUME AllDone, status = InProgress, Goto(h, "submit") PROVE SerialInv'
      <3> DEFINE r == [req[h] EXCEPT !.at = "submit"]
      <3>1. Fresh(r)
        BY <1>1, <2>1 DEF Fresh
      <3> QED
        BY <1>6, <2>1, <3>1, QuietStep DEF CompleteList, DeliverProjectList, Goto
    <2>2. ASSUME Finish(h) PROVE SerialInv'
      BY <1>6, <2>2, EndSerial DEF CompleteList, DeliverProjectList
    <2> QED
      BY <1>1, <1>6, <2>1, <2>2 DEF CompleteList, DeliverProjectList, Fresh
  <1> QED
    BY <1>2, <1>3, <1>4, <1>5, <1>6, EndSerial DEF Drop

-----------------------------------------------------------------------------
\* A milestone that is written was there, and is the one that was read, in
\* another status.
Target(r) == IF r.at = "save" THEN r.row.status ELSE IF r.at = "startWrite" THEN Working ELSE Done

LEMMA RowWritten ==
    ASSUME MilestonesInv, SerialInv, NEW h \in Handler,
           SaveRow(h) \/ StartMsWrite(h) \/ CompleteWrite(h)
    PROVE  LET m == req[h].ms
               s == Target(req[h])
           IN  /\ m \in MsId /\ s \in {Working, Done, Revising, Delivered}
               /\ ms[m].status # Absent
               /\ ms' = [ms EXCEPT ![m] = [ms[m] EXCEPT !.status = s]]
               /\ SaveRow(h) => CanBecome(ms[m].status, s)
               /\ StartMsWrite(h) => s = Working /\ ms[m].status = Waiting /\ StartAllowed(ms[m].order)
               /\ CompleteWrite(h) => s = Done /\ ms[m].status \in {Waiting, Working, Revising}
  <1> USE DEF MilestonesInv, TypeOK, Request
  <1> DEFINE m == req[h].ms
             s == Target(req[h])
  <1>1. Fresh(req[h]) /\ m \in MsId
    BY DEF SerialInv, SaveRow, StartMsWrite, CompleteWrite, Ordered
  <1>2. CASE SaveRow(h)
    <2>1. s = req[h].row.status /\ req[h].at = "save"
      BY <1>2 DEF SaveRow, Target
    <2>2. CanBecome(ms[m].status, s) /\ req[h].row = [ms[m] EXCEPT !.status = s]
      BY <1>1, <2>1 DEF Fresh
    <2>3. s \in {Working, Done, Revising, Delivered} /\ ms[m].status # Absent
      BY <2>2 DEF CanBecome
    <2>4. ms' = [ms EXCEPT ![m] = [ms[m] EXCEPT !.status = s]]
      BY <1>2, <2>2 DEF SaveRow
    <2>5. ~StartMsWrite(h) /\ ~CompleteWrite(h)
      BY <2>1 DEF StartMsWrite, CompleteWrite
    <2> QED
      BY <1>1, <2>2, <2>3, <2>4, <2>5
  <1>3. CASE StartMsWrite(h)
    <2>1. s = Working /\ ms[m].status = Waiting /\ StartAllowed(ms[m].order)
      BY <1>1, <1>3 DEF StartMsWrite, Fresh, Target
    <2>2. ms' = [ms EXCEPT ![m] = [ms[m] EXCEPT !.status = s]]
      BY <1>1, <1>3, <2>1 DEF StartMsWrite, SetStatus
    <2>3. ~SaveRow(h) /\ ~CompleteWrite(h)
      BY <1>3 DEF SaveRow, StartMsWrite, CompleteWrite
    <2> QED
      BY <1>1, <2>1, <2>2, <2>3
  <1>4. CASE CompleteWrite(h)
    <2>1. s = Done /\ ms[m].status \in {Waiting, Working, Revising}
      BY <1>1, <1>4 DEF CompleteWrite, Fresh, Target
    <2>2. ms' = [ms EXCEPT ![m] = [ms[m] EXCEPT !.status = s]]
      BY <1>1, <1>4, <2>1 DEF CompleteWrite, SetStatus
    <2>3. ~SaveRow(h) /\ ~StartMsWrite(h)
      BY <1>4 DEF SaveRow, StartMsWrite, CompleteWrite
    <2> QED
      BY <1>1, <2>1, <2>2, <2>3
  <1> QED
    BY <1>2, <1>3, <1>4

\* A new row has a key nobody had, with what was asked for.
LEMMA RowInserted ==
    ASSUME MilestonesInv, SerialInv, NEW h \in Handler, MsInsert(h)
    PROVE  \E m \in MsId, row \in MsRow :
              /\ m = lastMs + 1 /\ lastMs' = m
              /\ ms[m].status = Absent /\ row.status = Waiting
              /\ ms' = [ms EXCEPT ![m] = row]
  <1> USE DEF MilestonesInv, TypeOK, Request
  <1>1. lastMs + 1 \in MsId
    BY MilestonesAssumption DEF MsInsert, MsId
  <1>2. ms[lastMs + 1].status = Absent
    BY <1>1 DEF SerialInv, Keyed, Present, MsId
  <1>3. req[h].row \in MsRow /\ req[h].row.status = Waiting
    BY DEF MsInsert, Ordered
  <1> QED
    BY <1>1, <1>2, <1>3 DEF MsInsert

\* A plan's rows have keys nobody had; all others are gone.
LEMMA PlanWritten ==
    ASSUME MilestonesInv, SerialInv, NEW h \in Handler, PlanWrite(h)
    PROVE  /\ Keyed'
           /\ \A m \in MsId : ms[m].status # Absent => ms'[m].status = Absent
           /\ \A m \in MsId : ms'[m].status \in {Absent, Waiting}
  <1> USE DEF MilestonesInv, TypeOK, Request
  <1> DEFINE n == Len(req[h].plan)
  <1>1. n \in Nat /\ lastMs \in Nat /\ lastMs' = lastMs + n
    BY DEF PlanWrite
  <1>2. \A m \in MsId : ms'[m].status = IF m \in lastMs + 1 .. lastMs + n THEN Waiting ELSE Absent
    BY DEF PlanWrite, NoRow
  <1> HIDE DEF n
  <1>3. Keyed'
    BY <1>1, <1>2 DEF Keyed, Present, MsId
  <1>4. \A m \in MsId : ms[m].status # Absent => ms'[m].status = Absent
    BY <1>1, <1>2 DEF SerialInv, Keyed, Present, MsId
  <1> QED
    BY <1>2, <1>3, <1>4

-----------------------------------------------------------------------------
\* What a write leaves behind is fresh.
LEMMA WriteSerial ==
    ASSUME MilestonesInv, SerialInv, OneAtATime, NEW h \in Handler,
           \/ SaveRow(h) \/ StartMsWrite(h) \/ CompleteWrite(h) \/ MsInsert(h) \/ PlanWrite(h)
           \/ Submit(h) \/ AcceptProjectWrite(h) \/ StartProjectWrite(h)
    PROVE  SerialInv'
  <1> USE DEF MilestonesInv, TypeOK, Request
  <1>1. \A g \in Handler : Fresh(req[g])'
    <2>1. CASE CompleteWrite(h)
      <3> PICK r : r = [req[h] EXCEPT !.at = "completeList"]
        OBVIOUS
      <3>1. Fresh(req[h])
        BY DEF SerialInv
      <3>2. Fresh(r)'
        BY <2>1, <3>1 DEF CompleteWrite, Fresh
      <3> QED
        BY <2>1, <3>2, OthersFresh DEF CompleteWrite, Goto, Busy
    <2>2. CASE ~CompleteWrite(h)
      BY <2>2, FinishFresh
      DEF SaveRow, StartMsWrite, MsInsert, PlanWrite, Submit, AcceptProjectWrite, StartProjectWrite,
          SetProject, Busy
    <2> QED
      BY <2>1, <2>2
  <1>2. Keyed'
    <2>1. CASE SaveRow(h) \/ StartMsWrite(h) \/ CompleteWrite(h)
      <3> DEFINE m == req[h].ms
                 s == Target(req[h])
      <3>1. lastMs' = lastMs
        BY <2>1 DEF SaveRow, StartMsWrite, CompleteWrite
      <3>2. m \in MsId /\ ms[m].status # Absent /\ ms' = [ms EXCEPT ![m] = [ms[m] EXCEPT !.status = s]]
        BY <2>1, RowWritten
      <3> HIDE DEF m, s
      <3>3. \A k \in MsId : ms'[k].status # Absent => ms[k].status # Absent
        BY <3>2
      <3> QED
        BY <3>1, <3>3 DEF SerialInv, Keyed, Present
    <2>2. CASE MsInsert(h)
      <3>1. PICK m \in MsId, row \in MsRow : m = lastMs + 1 /\ lastMs' = m /\ ms' = [ms EXCEPT ![m] = row]
        BY <2>2, RowInserted
      <3>2. \A k \in MsId : k # m => ms'[k] = ms[k]
        BY <3>1
      <3> QED
        BY <3>1, <3>2 DEF SerialInv, Keyed, Present, MsId
    <2>3. CASE PlanWrite(h)
      BY <2>3, PlanWritten
    <2>4. CASE Submit(h) \/ AcceptProjectWrite(h) \/ StartProjectWrite(h)
      BY <2>4 DEF SerialInv, Keyed, Present, Submit, AcceptProjectWrite, StartProjectWrite, SetProject
    <2> QED
      BY <2>1, <2>2, <2>3, <2>4
  <1> QED
    BY <1>1, <1>2 DEF SerialInv

LEMMA SerialInit == Init => SerialInv
  BY DEF Init, SerialInv, Keyed, Present, NoRow, Idle, Fresh

LEMMA SerialStep ==
    ASSUME MilestonesInv, SerialInv, OneAtATime, [Next]_vars PROVE SerialInv'
  <1>1. ASSUME NEW h \in Handler, Serve(h) PROVE SerialInv'
    BY <1>1, ThinkSerial, WriteSerial DEF Serve
  <1>2. CASE UNCHANGED vars
    <2>1. ASSUME NEW h \in Handler PROVE Fresh(req[h])'
      BY <1>2 DEF vars, SerialInv, Fresh, Present, AllDone, StartAllowed
    <2> QED
      BY <1>2, <2>1 DEF vars, SerialInv, Keyed, Present
  <1> QED
    BY <1>1, <1>2, ArriveSerial, ThinkSerial DEF Next

\* As long as no two requests or plans overlap, every request decides on rows
\* that are still what it read when it writes (milestone_service.go).
THEOREM SerialInvariant == Spec /\ []OneAtATime => []SerialInv
  BY SerialInit, SerialStep, MilestonesInvariant, PTL DEF Spec

\* With plans too, an order that Create settles on is then still free.
THEOREM NextOrderStaysFree == Spec /\ []OneAtATime => []NextOrderFree
  <1>1. SerialInv => NextOrderFree
    BY DEF SerialInv, Fresh, NextOrderFree
  <1> QED
    BY <1>1, SerialInvariant, PTL

-----------------------------------------------------------------------------
\* Each write is the abstract step its request stands for.
LEMMA DeliveryStep ==
    ASSUME MilestonesInv, SerialInv, [Next]_vars
    PROVE  [Abstract!Next]_(Abstract!vars)
  <1> USE DEF MilestonesInv, TypeOK
  <1> DEFINE order == [k \in MsId |-> ms[k].order]
             phase == [k \in MsId |-> ms[k].status]
  <1>1. ASSUME NEW h \in Handler, SaveRow(h) \/ StartMsWrite(h) \/ CompleteWrite(h)
        PROVE  Abstract!Next
    <2> PICK m, s : m = req[h].ms /\ s = Target(req[h])
      OBVIOUS
    <2>1. /\ m \in MsId /\ s \in {Working, Done, Revising, Delivered}
          /\ ms[m].status # Absent
          /\ ms' = [ms EXCEPT ![m] = [ms[m] EXCEPT !.status = s]]
          /\ SaveRow(h) => CanBecome(ms[m].status, s)
          /\ StartMsWrite(h) => s = Working /\ ms[m].status = Waiting /\ StartAllowed(ms[m].order)
          /\ CompleteWrite(h) => s = Done /\ ms[m].status \in {Waiting, Working, Revising}
      BY <1>1, RowWritten
    <2>2. order' = order /\ phase' = [phase EXCEPT ![m] = s]
      <3>1. ms[m] \in MsRow
        BY <2>1
      <3>2. \A k \in MsId : /\ ms'[k].order = ms[k].order
                            /\ ms'[k].status = IF k = m THEN s ELSE ms[k].status
        BY <2>1, <3>1 DEF MsRow
      <3> QED
        BY <3>2
    <2>3. UNCHANGED status
      BY <1>1 DEF SaveRow, StartMsWrite, CompleteWrite
    <2>4. phase[m] = ms[m].status
      BY <2>1
    <2>5. CASE SaveRow(h)
      <3>1. CASE s = Delivered
        <4>1. Abstract!Deliver(m)
          BY <2>1, <2>2, <2>3, <2>4, <2>5, <3>1 DEF CanBecome, Abstract!Move, Abstract!Deliver
        <4> QED
          BY <2>1, <4>1 DEF Abstract!Next
      <3>2. CASE s = Done
        <4>1. Abstract!Accept(m)
          BY <2>1, <2>2, <2>3, <2>4, <2>5, <3>2 DEF CanBecome, Abstract!Move, Abstract!Accept
        <4> QED
          BY <2>1, <4>1 DEF Abstract!Next
      <3>3. CASE s = Revising
        <4>1. Abstract!Revise(m)
          BY <2>1, <2>2, <2>3, <2>4, <2>5, <3>3 DEF CanBecome, Abstract!Move, Abstract!Revise
        <4> QED
          BY <2>1, <4>1 DEF Abstract!Next
      <3> QED
        BY <2>1, <2>5, <3>1, <3>2, <3>3 DEF CanBecome
    <2>6. CASE StartMsWrite(h)
      <3>1. Abstract!Start(m)
        BY <2>1, <2>2, <2>3, <2>4, <2>6 DEF Abstract!Move,  StartAllowed, Present, Abstract!Present, Abstract!Start
      <3> QED
        BY <2>1, <3>1 DEF Abstract!Next
    <2>7. CASE CompleteWrite(h)
      <3>1. Abstract!Complete(m)
        BY <2>1, <2>2, <2>3, <2>4, <2>7 DEF Abstract!Move, Abstract!Complete
      <3> QED
        BY <2>1, <3>1 DEF Abstract!Next
    <2> QED
      BY <1>1, <2>5, <2>6, <2>7
  <1>2. ASSUME NEW h \in Handler, MsInsert(h) PROVE Abstract!Next
    <2>1. PICK m \in MsId, row \in MsRow :
              ms[m].status = Absent /\ row.status = Waiting /\ ms' = [ms EXCEPT ![m] = row]
      BY <1>2, RowInserted
    <2>2. phase[m] = 0 /\ phase' = [phase EXCEPT ![m] = 1] /\ \A k \in MsId \ {m} : order'[k] = order[k]
      BY <2>1
    <2>3. Abstract!Add(m)
      BY <1>2, <2>2 DEF MsInsert, Abstract!Add
    <2> QED
      BY <2>3 DEF Abstract!Next
  <1>3. ASSUME NEW h \in Handler, PlanWrite(h) PROVE Abstract!Next
    <2>1. Abstract!Replan
      BY <1>3, PlanWritten DEF PlanWrite, Abstract!Replan
    <2> QED
      BY <2>1 DEF Abstract!Next
  <1>4. ASSUME NEW h \in Handler, Submit(h) PROVE Abstract!Next
    <2>1. AllDone /\ status = InProgress
      BY <1>4 DEF Submit, SerialInv, Fresh
    <2>2. Abstract!Submit
      BY <1>4, <2>1
      DEF Submit, SetProject, AllDone, Present, Abstract!AllDone, Abstract!Present, Abstract!Submit, Abstract!Advance
    <2> QED
      BY <2>2 DEF Abstract!Next
  <1>5. ASSUME NEW h \in Handler, AcceptProjectWrite(h) PROVE Abstract!Next
    <2>1. Abstract!Advance(6, 7)
      BY <1>5 DEF AcceptProjectWrite, SetProject, SerialInv, Fresh, Abstract!Advance
    <2> QED
      BY <2>1 DEF Abstract!Next
  <1>6. ASSUME NEW h \in Handler, StartProjectWrite(h) PROVE Abstract!Next
    <2>1. Abstract!Advance(4, 5)
      BY <1>6 DEF StartProjectWrite, SetProject, SerialInv, Fresh, Abstract!Advance
    <2> QED
      BY <2>1 DEF Abstract!Next
  <1>7. ASSUME NEW h \in Handler,
               \/ Arrive(h) \/ MsLock(h) \/ MsCheck(h) \/ StartMsList(h) \/ CompleteProject(h)
               \/ CompleteList(h) \/ DeliverProjectList(h) \/ Drop(h)
        PROVE  UNCHANGED <<status, ms>>
    BY <1>7
    DEF Arrive, CreateRead, DeliverRead, AcceptRead, RevisionRead, SaveLater, StartMsRead, CompleteRead,
        DeliverProjectRead, AcceptProjectRead, StartProjectRead, PlanRead, MsLock, MsCheck, StartMsList,
        CompleteProject, CompleteList, DeliverProjectList, Drop
  <1>8. UNCHANGED vars => UNCHANGED <<status, ms>>
    BY DEF vars
  <1>9. UNCHANGED <<status, ms>> => UNCHANGED Abstract!vars
    BY DEF Abstract!vars
  <1> QED
    BY <1>1, <1>2, <1>3, <1>4, <1>5, <1>6, <1>7, <1>8, <1>9 DEF Next, Serve

\* As long as no two requests or plans overlap, the server delivers as Delivery
\* promises: milestones start in order, and a project is submitted only with
\* milestones that are all done.
THEOREM MilestonesImplementDelivery == Spec /\ []OneAtATime => AtomicDelivery
  <1>1. Init => Abstract!Init
    BY DEF Init, NoRow, Abstract!Init
  <1>2. MilestonesInv /\ SerialInv /\ [Next]_vars => [Abstract!Next]_(Abstract!vars)
    BY DeliveryStep
  <1> QED
    BY <1>1, <1>2, MilestonesInvariant, SerialInvariant, PTL DEF Spec, AtomicDelivery, Abstract!Spec

-----------------------------------------------------------------------------
(***************************************************************************)
(* The ratios under the lock.  What the milestones of a table add up to    *)
(* does not depend on the order the sum is taken in (FoldFacts), so a      *)
(* write that keeps the ratios keeps the sum, and an insertion adds one.   *)
(***************************************************************************)
There(t) == {m \in MsId : t[m].status # Absent}
Total(t) == MapThenSumSet(LAMBDA m : Share(t[m].ratio), There(t))
Shares(t) == [m \in There(t) |-> Share(t[m].ratio)]

\* The recursion the sum is defined by.
IsTotal(g, t) ==
    g = [s \in SUBSET There(t) |-> IF s = {} THEN 0
                                   ELSE Share(t[CHOOSE x \in s : TRUE].ratio) + g[s \ {CHOOSE x \in s : TRUE}]]

LEMMA FewThere ==
    ASSUME NEW t \in [MsId -> MsRow]
    PROVE  IsFiniteSet(There(t)) /\ Shares(t) \in [There(t) -> Nat]
  <1>1. IsFiniteSet(MsId)
    BY MilestonesAssumption, FS_Interval DEF MsId
  <1>2. IsFiniteSet(There(t))
    BY <1>1, FS_Subset DEF There
  <1>3. \A m \in There(t) : Share(t[m].ratio) \in Nat
    BY DEF There, Share, MsRow
  <1> QED BY <1>2, <1>3 DEF Shares

LEMMA TotalIsSum ==
    ASSUME NEW t \in [MsId -> MsRow]
    PROVE  \E g : IsSum(g, There(t), Shares(t)) /\ Total(t) = g[There(t)]
  <1> DEFINE it == CHOOSE g : IsTotal(g, t)
  <1>1. Total(t) = it[There(t)]
    BY DEF Total, MapThenSumSet, MapThenFoldSet, IsTotal
  <1>2. PICK g : IsSum(g, There(t), Shares(t))
    BY FewThere, SumExists
  <1>3. \A s \in SUBSET There(t) : s # {} => (CHOOSE x \in s : TRUE) \in There(t)
    OBVIOUS
  <1>4. \A g1 : IsSum(g1, There(t), Shares(t)) <=> IsTotal(g1, t)
    BY <1>3 DEF IsSum, IsTotal, Shares
  <1>5. IsTotal(it, t)
    BY <1>2, <1>4
  <1>6. IsSum(it, There(t), Shares(t))
    <2> HIDE DEF it
    <2> QED BY <1>4, <1>5
  <1> QED BY <1>1, <1>6

LEMMA TotalTyped ==
    ASSUME NEW t \in [MsId -> MsRow]
    PROVE  Total(t) \in Nat /\ (There(t) = {} => Total(t) = 0)
  <1>1. PICK g : IsSum(g, There(t), Shares(t)) /\ Total(t) = g[There(t)]
    BY TotalIsSum
  <1>2. g[There(t)] \in Nat
    BY <1>1, FewThere, SumTyped
  <1>3. There(t) = {} => g[There(t)] = 0
    BY <1>1 DEF IsSum
  <1> QED BY <1>1, <1>2, <1>3

\* A write that keeps the rows and their ratios keeps the sum.
LEMMA TotalKept ==
    ASSUME NEW t \in [MsId -> MsRow], NEW u \in [MsId -> MsRow], There(u) = There(t),
           \A m \in There(t) : u[m].ratio = t[m].ratio
    PROVE  Total(u) = Total(t)
  <1>1. PICK g : IsSum(g, There(t), Shares(t)) /\ Total(t) = g[There(t)]
    BY TotalIsSum
  <1>2. PICK h : IsSum(h, There(u), Shares(u)) /\ Total(u) = h[There(u)]
    BY TotalIsSum
  <1>3. \A m \in There(t) : Shares(t)[m] = Shares(u)[m]
    BY DEF Shares
  <1>4. \A s \in SUBSET There(t) : g[s] = h[s]
    <2>1. There(t) \subseteq There(u)
      OBVIOUS
    <2> QED BY <1>1, <1>2, <1>3, <2>1, FewThere, SumAgrees
  <1> QED BY <1>1, <1>2, <1>4

\* An insertion adds the share of the new row.
LEMMA TotalAdds ==
    ASSUME NEW t \in [MsId -> MsRow], NEW u \in [MsId -> MsRow], NEW m \in MsId, m \notin There(t),
           There(u) = There(t) \cup {m}, \A k \in There(t) : u[k].ratio = t[k].ratio
    PROVE  Total(u) = Total(t) + Share(u[m].ratio)
  <1>1. PICK g : IsSum(g, There(t), Shares(t)) /\ Total(t) = g[There(t)]
    BY TotalIsSum
  <1>2. PICK h : IsSum(h, There(u), Shares(u)) /\ Total(u) = h[There(u)]
    BY TotalIsSum
  <1>3. \A k \in There(t) : Shares(t)[k] = Shares(u)[k]
    BY DEF Shares
  <1>4. \A s \in SUBSET There(t) : g[s] = h[s]
    <2>1. There(t) \subseteq There(u)
      OBVIOUS
    <2> QED BY <1>1, <1>2, <1>3, <2>1, FewThere, SumAgrees
  <1>5. PICK D, f : D = There(u) /\ f = Shares(u) /\ IsFiniteSet(D) /\ f \in [D -> Nat]
    BY FewThere
  <1>6. h[D] = f[m] + h[D \ {m}]
    <2>1. IsSum(h, D, f) /\ m \in D /\ IsFiniteSet(D) /\ f \in [D -> Nat] /\ D \in SUBSET D
      BY <1>2, <1>5
    <2> QED BY <2>1, SumTakes
  <1>7. D \ {m} = There(t)
    BY <1>5
  <1>8. f[m] = Share(u[m].ratio) /\ Share(u[m].ratio) \in Nat
    BY <1>5 DEF Shares
  <1>9. Total(t) \in Nat
    BY TotalTyped
  <1>10. h[There(t)] = g[There(t)]
    BY <1>4
  <1>11. Total(u) = Share(u[m].ratio) + Total(t)
    BY <1>1, <1>2, <1>5, <1>6, <1>7, <1>8, <1>10
  <1> QED BY <1>8, <1>9, <1>11

\* What a request knows of the ratios: the row it is to insert still fits, and the row it is to
\* save has the ratio that is stored.
FitsOK(r) ==
    /\ r.at = "msInsert" => Total(ms) + Share(r.row.ratio) <= Whole
    /\ r.at = "save" => r.row.ratio = ms[r.ms].ratio

\* With MilestonesInv, the inductive invariant of behaviours without plans.
RatioInv == Total(ms) <= Whole /\ \A h \in Handler : FitsOK(req[h])

LEMMA TotalIsTotal == TotalRatio = Total(ms) /\ Present = There(ms) /\ Present' = There(ms')
  BY DEF TotalRatio, Total, Present, There

\* A step of handler h that keeps the rows and their ratios: the others lose nothing.
LEMMA RatioKept ==
    ASSUME MilestonesInv, MilestonesInv', Plans = {}, RatioInv, NEW h \in Handler,
           NEW r, req' = [req EXCEPT ![h] = r],
           Present' = Present, \A m \in Present : ms'[m].ratio = ms[m].ratio,
           r.at = "msInsert" => Total(ms) + Share(r.row.ratio) <= Whole,
           r.at = "save" => r.ms \in Present /\ r.row.ratio = ms[r.ms].ratio
    PROVE  RatioInv'
  <1>1. ms \in [MsId -> MsRow] /\ ms' \in [MsId -> MsRow] /\ req \in [Handler -> Request]
    BY DEF MilestonesInv, TypeOK
  <1>2. Total(ms') = Total(ms)
    BY <1>1, TotalIsTotal, TotalKept
  <1>3. ASSUME NEW g \in Handler
        PROVE  FitsOK(req[g])'
    <2>1. CASE g = h
      BY <1>1, <1>2, <2>1 DEF FitsOK
    <2>2. CASE g # h
      <3>1. req'[g] = req[g] /\ FitsOK(req[g])
        BY <1>1, <2>2 DEF RatioInv
      <3>2. req[g].at = "save" => req[g].ms \in Present
        BY PerHandler DEF RequestOK
      <3> QED BY <1>2, <3>1, <3>2 DEF FitsOK
    <2> QED BY <2>1, <2>2
  <1> QED BY <1>2, <1>3 DEF RatioInv

\* A step that leaves the table alone and does not end a sum.
LEMMA RatioThink ==
    ASSUME MilestonesInv, MilestonesInv', Plans = {}, RatioInv, NEW h \in Handler,
           NEW r, req' = [req EXCEPT ![h] = r], UNCHANGED ms, r.at \notin {"msInsert", "save"}
    PROVE  RatioInv'
  BY RatioKept DEF Present

LEMMA RatioInsert ==
    ASSUME MilestonesInv, MilestonesInv', Plans = {}, RatioInv, NEW h \in Handler, MsInsert(h)
    PROVE  RatioInv'
  <1>0. TypeOK /\ RowsOK /\ RequestOK(h, req[h]) /\ FitsOK(req[h])
    BY PerHandler DEF RatioInv
  <1>1. PICK row \in MsRow : row = req[h].row
    BY <1>0 DEF TypeOK, Request
  <1>2. lock = h /\ row.status = Waiting
    BY <1>0, <1>1 DEF MsInsert, RequestOK
  <1>3. PICK m \in MsId : m = lastMs + 1
    BY <1>0, MilestonesAssumption DEF MsInsert, TypeOK, MsId
  <1>4. ms' = [ms EXCEPT ![m] = row] /\ req' = [req EXCEPT ![h] = Idle]
    BY <1>1, <1>3 DEF MsInsert, Finish
  <1>5. ms \in [MsId -> MsRow] /\ ms' \in [MsId -> MsRow] /\ req \in [Handler -> Request]
    BY DEF MilestonesInv, TypeOK
  <1>6. m \notin There(ms) /\ There(ms') = There(ms) \cup {m} /\ ms'[m] = row
        /\ \A k \in There(ms) : ms'[k] = ms[k]
    <2>1. m \notin Present
      BY <1>0, <1>3 DEF RowsOK, TypeOK, MsId
    <2>2. m \notin There(ms)
      BY <2>1, TotalIsTotal
    <2>3. ms'[m] = row /\ \A k \in MsId \ {m} : ms'[k] = ms[k]
      BY <1>4, <1>5
    <2> QED BY <1>2, <2>2, <2>3 DEF There
  <1>7. Total(ms') = Total(ms) + Share(row.ratio)
    BY <1>5, <1>6, TotalAdds
  <1>8. Total(ms') <= Whole
    BY <1>0, <1>1, <1>7 DEF FitsOK, MsInsert
  <1>9. ASSUME NEW g \in Handler
        PROVE  FitsOK(req[g])'
    <2>1. CASE g = h
      BY <1>4, <1>5, <2>1 DEF FitsOK, Idle
    <2>2. CASE g # h
      <3>1. req'[g] = req[g] /\ FitsOK(req[g]) /\ RequestOK(g, req[g])
        BY <1>4, <1>5, <2>2, PerHandler DEF RatioInv
      <3>2. req[g].at # "msInsert"
        BY <1>2, <2>2, <3>1 DEF RequestOK
      <3>3. req[g].at = "save" => ms'[req[g].ms] = ms[req[g].ms]
        BY <1>6, <3>1, TotalIsTotal DEF RequestOK
      <3> QED BY <3>1, <3>2, <3>3 DEF FitsOK
    <2> QED BY <2>1, <2>2
  <1> QED BY <1>8, <1>9 DEF RatioInv

\* Saving a row, and changing the status of one: the ratio stays.
LEMMA RatioWrite ==
    ASSUME MilestonesInv, MilestonesInv', Plans = {}, RatioInv, NEW h \in Handler,
           SaveRow(h) \/ StartMsWrite(h) \/ CompleteWrite(h)
    PROVE  RatioInv'
  <1>0. TypeOK /\ RequestOK(h, req[h]) /\ FitsOK(req[h])
    BY PerHandler DEF RatioInv
  <1>1. ms \in [MsId -> MsRow] /\ ms' \in [MsId -> MsRow] /\ req \in [Handler -> Request]
    BY DEF MilestonesInv, TypeOK
  <1>2. CASE SaveRow(h)
    <2>1. req' = [req EXCEPT ![h] = Idle] /\ Idle.at = "idle"
      BY <1>2 DEF SaveRow, Finish, Idle
    <2>2. PICK m \in Present : m = req[h].ms /\ ms' = [ms EXCEPT ![m] = req[h].row]
      BY <1>0, <1>2 DEF SaveRow, RequestOK
    <2>3. req[h].row.status # Absent /\ req[h].row.ratio = ms[m].ratio
      BY <1>0, <1>2, <2>2 DEF SaveRow, RequestOK, FitsOK
    <2>4. Present' = Present /\ \A k \in Present : ms'[k].ratio = ms[k].ratio
      BY <1>1, <2>2, <2>3 DEF Present
    <2> QED BY <2>1, <2>4, RatioKept
  <1>3. ASSUME NEW s, s # Absent,
               ms' = IF ms[req[h].ms].status = Absent THEN ms ELSE [ms EXCEPT ![req[h].ms].status = s]
        PROVE  Present' = Present /\ \A k \in Present : ms'[k].ratio = ms[k].ratio
    BY <1>1, <1>3 DEF Present, MsRow
  <1>4. CASE StartMsWrite(h)
    <2>1. req' = [req EXCEPT ![h] = Idle] /\ Idle.at = "idle"
      BY <1>4 DEF StartMsWrite, Finish, Idle
    <2>2. Present' = Present /\ \A k \in Present : ms'[k].ratio = ms[k].ratio
      BY <1>3, <1>4 DEF StartMsWrite, SetStatus
    <2> QED BY <2>1, <2>2, RatioKept
  <1>5. CASE CompleteWrite(h)
    <2>1. PICK r : r = [req[h] EXCEPT !.at = "completeList"]
      OBVIOUS
    <2>2. r.at = "completeList"
      BY <1>1, <2>1 DEF Request
    <2>3. req' = [req EXCEPT ![h] = r]
      BY <1>5, <2>1 DEF CompleteWrite, Goto
    <2>4. Present' = Present /\ \A k \in Present : ms'[k].ratio = ms[k].ratio
      BY <1>3, <1>5 DEF CompleteWrite, SetStatus
    <2> QED BY <2>2, <2>3, <2>4, RatioKept
  <1> QED BY <1>2, <1>4, <1>5

\* The sum under the lock.
LEMMA RatioCheck ==
    ASSUME MilestonesInv, MilestonesInv', Plans = {}, RatioInv, NEW h \in Handler, MsCheck(h)
    PROVE  RatioInv'
  <1>1. req[h] \in Request /\ req[h].row \in MsRow
    BY DEF MilestonesInv, TypeOK, Request
  <1>2. CASE Finish(h)
    BY <1>2, RatioThink DEF MsCheck, Finish, Idle
  <1>3. ASSUME NEW r, req' = [req EXCEPT ![h] = r], r.at = "msInsert", r.row.ratio = req[h].row.ratio,
               TotalRatio + Share(req[h].row.ratio) <= Whole
        PROVE  RatioInv'
    BY <1>3, RatioKept, TotalIsTotal DEF MsCheck, Present
  <1>4. ASSUME NEW n, req' = [req EXCEPT ![h].at = "msInsert", ![h].row.order = n],
               TotalRatio + Share(req[h].row.ratio) <= Whole
        PROVE  RatioInv'
    <2>1. PICK r : r = [req[h] EXCEPT !.at = "msInsert", !.row.order = n]
      OBVIOUS
    <2>2. r.at = "msInsert" /\ r.row.ratio = req[h].row.ratio
      BY <1>1, <2>1 DEF Request, MsRow
    <2>3. req' = [req EXCEPT ![h] = r]
      BY <1>4, <2>1
    <2> QED BY <1>3, <1>4, <2>2, <2>3
  <1>5. ASSUME Goto(h, "msInsert"), TotalRatio + Share(req[h].row.ratio) <= Whole
        PROVE  RatioInv'
    <2>1. PICK r : r = [req[h] EXCEPT !.at = "msInsert"]
      OBVIOUS
    <2>2. r.at = "msInsert" /\ r.row.ratio = req[h].row.ratio
      BY <1>1, <2>1 DEF Request
    <2>3. req' = [req EXCEPT ![h] = r]
      BY <1>5, <2>1 DEF Goto
    <2> QED BY <1>3, <1>5, <2>2, <2>3
  <1> QED BY <1>2, <1>4, <1>5 DEF MsCheck

\* A row is read, to be saved with another status.
LEMMA RatioSaveLater ==
    ASSUME MilestonesInv, MilestonesInv', Plans = {}, RatioInv, NEW h \in Handler, NEW m \in Present,
           NEW s, SaveLater(h, m, s)
    PROVE  RatioInv'
  <1>1. ms[m] \in MsRow
    BY DEF MilestonesInv, TypeOK, Present
  <1>2. PICK r : r = [Idle EXCEPT !.at = "save", !.ms = m, !.row = [ms[m] EXCEPT !.status = s]]
    OBVIOUS
  <1>3. r.at = "save" /\ r.ms = m /\ r.row.ratio = ms[m].ratio
    BY <1>1, <1>2 DEF Idle, MsRow
  <1>4. req' = [req EXCEPT ![h] = r] /\ UNCHANGED ms
    BY <1>2 DEF SaveLater, Begin
  <1> QED BY <1>3, <1>4, RatioKept DEF Present

LEMMA RatioArrive ==
    ASSUME MilestonesInv, MilestonesInv', Plans = {}, RatioInv, NEW h \in Handler, Arrive(h)
    PROVE  RatioInv'
  <1>1. ASSUME NEW m \in MsId, DeliverRead(h, m) \/ AcceptRead(h, m) \/ RevisionRead(h, m)
        PROVE  RatioInv'
    <2>1. m \in Present
      BY <1>1 DEF DeliverRead, AcceptRead, RevisionRead, Present
    <2> QED BY <1>1, <2>1, RatioSaveLater DEF DeliverRead, AcceptRead, RevisionRead
  <1>2. ASSUME NEW r, Begin(h, r), UNCHANGED ms, r.at \notin {"msInsert", "save"}
        PROVE  RatioInv'
    BY <1>2, RatioThink DEF Begin
  <1>3. ASSUME NEW o, NEW x, CreateRead(h, o, x)
        PROVE  RatioInv'
    BY <1>2, <1>3 DEF CreateRead, Idle
  <1>4. ASSUME NEW m \in MsId, StartMsRead(h, m) \/ CompleteRead(h, m)
        PROVE  RatioInv'
    BY <1>2, <1>4 DEF StartMsRead, CompleteRead, Idle
  <1>5. CASE DeliverProjectRead(h) \/ AcceptProjectRead(h) \/ StartProjectRead(h)
    BY <1>2, <1>5 DEF DeliverProjectRead, AcceptProjectRead, StartProjectRead, Idle
  <1> QED BY <1>1, <1>3, <1>4, <1>5 DEF Arrive

LEMMA RatioServe ==
    ASSUME MilestonesInv, MilestonesInv', Plans = {}, RatioInv, NEW h \in Handler, Serve(h) \/ Drop(h)
    PROVE  RatioInv'
  <1>0. TypeOK /\ RequestOK(h, req[h])
    BY PerHandler
  <1>1. ASSUME Finish(h), UNCHANGED ms
        PROVE  RatioInv'
    BY <1>1, RatioThink DEF Finish, Idle
  <1>2. ASSUME NEW s, Goto(h, s), UNCHANGED ms, s \notin {"msInsert", "save"}
        PROVE  RatioInv'
    <2>1. PICK r : r = [req[h] EXCEPT !.at = s]
      OBVIOUS
    <2>2. r.at = s
      BY <1>0, <2>1 DEF TypeOK, Request
    <2> QED BY <1>2, <2>1, <2>2, RatioThink DEF Goto
  <1>3. CASE CompleteProject(h)
    <2>1. PICK r : r = [req[h] EXCEPT !.at = "completeWrite", !.running = (status = InProgress)]
      OBVIOUS
    <2>2. r.at = "completeWrite"
      BY <1>0, <2>1 DEF TypeOK, Request
    <2>3. req' = [req EXCEPT ![h] = r] /\ UNCHANGED ms
      BY <1>3, <2>1 DEF CompleteProject
    <2> QED BY <2>2, <2>3, RatioThink
  <1>4. ~PlanWrite(h)
    BY <1>0 DEF PlanWrite, RequestOK
  <1>5. CASE Submit(h) \/ AcceptProjectWrite(h) \/ StartProjectWrite(h) \/ Drop(h)
    BY <1>1, <1>5 DEF Submit, AcceptProjectWrite, StartProjectWrite, SetProject, Drop
  <1>6. CASE MsLock(h) \/ StartMsList(h) \/ CompleteList(h) \/ DeliverProjectList(h)
    BY <1>1, <1>2, <1>6 DEF MsLock, StartMsList, CompleteList, DeliverProjectList
  <1> QED BY <1>3, <1>4, <1>5, <1>6, RatioCheck, RatioInsert, RatioWrite DEF Serve

LEMMA RatioInit == Init => RatioInv
  <1> SUFFICES ASSUME Init PROVE RatioInv
    OBVIOUS
  <1>1. ms \in [MsId -> MsRow] /\ There(ms) = {}
    BY InitInv DEF MilestonesInv, TypeOK, Init, There, NoRow
  <1>2. Total(ms) = 0
    BY <1>1, TotalTyped
  <1> QED BY <1>2 DEF RatioInv, FitsOK, Init, Idle, Whole

\* Without plans the milestones never add up to more than the whole payment, for any number of
\* handlers, whichever requests die: milestone_service.go 57-101 sums up under the project's
\* lock, and no other write changes a ratio.
THEOREM RatiosAreCapped ==
    ASSUME Plans = {} PROVE Spec => []RatioCap
  <1>1. MilestonesInv /\ RatioInv /\ MilestonesInv' /\ [Next]_vars => RatioInv'
    <2> SUFFICES ASSUME MilestonesInv, RatioInv, MilestonesInv', [Next]_vars
                 PROVE  RatioInv'
      OBVIOUS
    <2>1. CASE UNCHANGED vars
      <3>1. ms' = ms /\ req' = req
        BY <2>1 DEF vars
      <3>2. Total(ms') = Total(ms)
        BY <3>1
      <3> QED BY <3>1, <3>2 DEF RatioInv, FitsOK
    <2> QED BY <2>1, RatioArrive, RatioServe DEF Next
  <1>2. RatioInv => RatioCap
    BY TotalIsTotal DEF RatioInv, RatioCap
  <1> QED BY <1>1, <1>2, RatioInit, MilestonesInvariant, PTL DEF Spec

=============================================================================
