------------------------ MODULE ProjectOrdersProofs ------------------------
(***************************************************************************)
(* Theorems about ProjectOrders for every value of its constants.          *)
(*                                                                         *)
(* The argument: LockHeld makes handlers past the lock exclude one         *)
(* another, so while one is between OrderFind and OrderInsert nobody else  *)
(* inserts, and Prepay only takes orders out of PendingOrders.             *)
(***************************************************************************)
EXTENDS ProjectOrders, TLAPS

USE DEF Absent, Pending, Paid

\* The empty row and the idle request are well typed.
LEMMA RowTypes == NoOrder \in Order /\ Idle \in Request
  BY DEF NoOrder, Order, Idle, Request

\* The invariant holds initially.
LEMMA InitInv == Init => OrdersInv
  BY RowTypes, OrdersAssumption
  DEF Init, Match!Init, OrdersInv, TypeOK, OrderId, LockHeld, StillNonePending, Known,
      OnePendingOrder, PendingOrders, Idle, NoOrder

\* A handler that touches neither the orders nor the lock, and is outside the
\* locked transaction before and after, keeps the invariant.
LEMMA OutsideStep ==
    ASSUME OrdersInv, NEW h \in Handler, NEW r \in Request,
           req[h].at \notin {"orderFind", "orderInsert"},
           r.at \in {"idle", "orderLock", "prepay"},
           r.at = "orderLock" => r.order.status = Pending,
           r.at = "prepay" => r.id \in OrderId,
           req' = [req EXCEPT ![h] = r],
           UNCHANGED <<provider, price, orders, lastOrder, lock>>
    PROVE  OrdersInv'
  BY DEF OrdersInv, TypeOK, LockHeld, StillNonePending, Known, OnePendingOrder, PendingOrders

\* CreateOrderByOwner reads the project.
LEMMA OrderReadInv ==
    ASSUME OrdersInv, NEW h \in Handler, NEW asked \in Price \cup {0}, OrderRead(h, asked)
    PROVE  OrdersInv'
  <1> DEFINE r == [Idle EXCEPT !.at = "orderLock",
                               !.order = [payee |-> provider, amount |-> AmountDue(asked),
                                          status |-> Pending]]
  <1>1. AmountDue(asked) \in Price
    BY OrdersAssumption DEF OrderRead, AmountDue, OrdersInv, TypeOK
  <1>2. [payee |-> provider, amount |-> AmountDue(asked), status |-> Pending] \in Order
    BY <1>1 DEF Order, OrdersInv, TypeOK
  <1>3. r \in Request /\ r.at = "orderLock" /\ r.order.status = Pending
    BY <1>2 DEF Idle, Request
  <1>4. req' = [req EXCEPT ![h] = r] /\ req[h].at = "idle"
    BY DEF OrderRead, Begin
  <1> HIDE DEF r
  <1> QED
    BY <1>3, <1>4, OutsideStep DEF OrderRead

\* Prepay reads an order.
LEMMA PrepayReadInv ==
    ASSUME OrdersInv, NEW h \in Handler, NEW o \in OrderId, PrepayRead(h, o)
    PROVE  OrdersInv'
  <1> DEFINE r == [at |-> "prepay", id |-> o, order |-> orders[o]]
  <1>1. r \in Request /\ r.at = "prepay" /\ r.id \in OrderId
    BY DEF Request, OrdersInv, TypeOK
  <1>2. req' = [req EXCEPT ![h] = r] /\ req[h].at = "idle"
    BY DEF PrepayRead, Begin
  <1> HIDE DEF r
  <1> QED
    BY <1>1, <1>2, OutsideStep DEF PrepayRead

\* Taking the lock: nobody else is past it.
LEMMA OrderLockInv ==
    ASSUME OrdersInv, NEW h \in Handler, OrderLock(h) PROVE OrdersInv'
  <1>1. TypeOK'
    BY DEF OrderLock, Goto, OrdersInv, TypeOK, Request
  <1>2. LockHeld'
    BY OrdersAssumption DEF OrderLock, Goto, OrdersInv, TypeOK, LockHeld
  <1>3. StillNonePending' /\ Known' /\ OnePendingOrder'
    BY DEF OrderLock, Goto, OrdersInv, TypeOK, StillNonePending, Known, OnePendingOrder,
       PendingOrders
  <1> QED
    BY <1>1, <1>2, <1>3 DEF OrdersInv

\* Looking for a pending order, which ends the transaction or goes on with it.
LEMMA OrderFindInv ==
    ASSUME OrdersInv, NEW h \in Handler, OrderFind(h) PROVE OrdersInv'
  <1> USE DEF OrdersInv, TypeOK
  <1>1. CASE PendingOrders # {} /\ Finish(h) /\ Release(h)
    <2>1. TypeOK'
      BY <1>1, RowTypes DEF OrderFind, Finish, Release
    <2>2. LockHeld'
      BY <1>1, OrdersAssumption DEF OrderFind, Finish, Release, Idle, LockHeld
    <2>3. StillNonePending' /\ Known' /\ OnePendingOrder'
      BY <1>1 DEF OrderFind, Finish, Idle, StillNonePending, Known, OnePendingOrder,
         PendingOrders
    <2> QED
      BY <2>1, <2>2, <2>3
  <1>2. CASE PendingOrders = {} /\ Goto(h, "orderInsert") /\ UNCHANGED lock
    <2>1. TypeOK'
      BY <1>2 DEF OrderFind, Goto, Request
    <2>2. LockHeld'
      BY <1>2 DEF OrderFind, Goto, LockHeld
    <2>3. PendingOrders' = {}
      BY <1>2 DEF OrderFind, PendingOrders
    <2>4. Known'
      BY <1>2 DEF OrderFind, Goto, Known
    <2> QED
      BY <2>1, <2>2, <2>3, <2>4 DEF StillNonePending, OnePendingOrder
  <1> QED
    BY <1>1, <1>2 DEF OrderFind

\* Inserting the order: it is the only pending one, and no other handler has
\* found none pending.
LEMMA OrderInsertInv ==
    ASSUME OrdersInv, NEW h \in Handler, OrderInsert(h) PROVE OrdersInv'
  <1> USE DEF OrdersInv, TypeOK
  <1>1. req[h] \in Request /\ lastOrder + 1 \in OrderId
    BY OrdersAssumption DEF OrderInsert, OrderId
  <1>2. TypeOK'
    BY <1>1, RowTypes, OrdersAssumption
    DEF OrderInsert, Finish, Release, Request
  <1>3. LockHeld'
    BY OrdersAssumption DEF OrderInsert, Finish, Release, Idle, LockHeld
  <1>4. \A g \in Handler : req'[g].at # "orderInsert"
    BY DEF OrderInsert, Finish, Idle, LockHeld
  <1>5. PendingOrders' \subseteq {lastOrder + 1}
    BY <1>1 DEF OrderInsert, StillNonePending, PendingOrders
  <1>6. Known'
    BY DEF OrderInsert, Finish, Idle, Known
  <1> QED
    BY <1>2, <1>3, <1>4, <1>5, <1>6 DEF StillNonePending, OnePendingOrder

\* A payment takes its order out of the pending ones and puts none in.
LEMMA PrepaySaveInv ==
    ASSUME OrdersInv, NEW h \in Handler, PrepaySave(h) PROVE OrdersInv'
  <1> USE DEF OrdersInv, TypeOK
  <1>1. req[h] \in Request /\ req[h].id \in OrderId
    BY DEF PrepaySave, Known
  <1>2. [req[h].order EXCEPT !.status = Paid] \in Order
    BY <1>1 DEF Request, Order
  <1>3. TypeOK'
    BY <1>1, <1>2, RowTypes DEF PrepaySave, Finish
  <1>4. LockHeld' /\ Known'
    BY DEF PrepaySave, Finish, Idle, LockHeld, Known
  <1>5. PendingOrders' \subseteq PendingOrders
    BY <1>1, <1>2 DEF PrepaySave, PendingOrders, Request, Order
  <1>6. StillNonePending' /\ OnePendingOrder'
    BY <1>5 DEF PrepaySave, Finish, Idle, StillNonePending, OnePendingOrder
  <1> QED
    BY <1>3, <1>4, <1>6

\* A request that dies gives the lock back, if it had it.
LEMMA DropInv ==
    ASSUME OrdersInv, NEW h \in Handler, Drop(h) PROVE OrdersInv'
  <1> USE DEF OrdersInv, TypeOK
  <1>1. TypeOK'
    BY RowTypes DEF Drop, Finish, Release
  <1>2. LockHeld'
    BY OrdersAssumption DEF Drop, Finish, Release, Idle, LockHeld
  <1>3. StillNonePending' /\ Known' /\ OnePendingOrder'
    BY DEF Drop, Finish, Idle, StillNonePending, Known, OnePendingOrder, PendingOrders
  <1> QED
    BY <1>1, <1>2, <1>3

\* The match changes; the orders do not.
LEMMA RematchInv == ASSUME OrdersInv, Rematch PROVE OrdersInv'
  BY DEF Rematch, Match!Next, Match!Engage, Match!Dissolve, OrdersInv, TypeOK, LockHeld,
     StillNonePending, Known, OnePendingOrder, PendingOrders

\* Every step keeps the invariant.
LEMMA StepInv == OrdersInv /\ [Next]_vars => OrdersInv'
  <1> SUFFICES ASSUME OrdersInv, [Next]_vars PROVE OrdersInv'
    OBVIOUS
  <1>1. CASE UNCHANGED vars
    BY <1>1 DEF vars, OrdersInv, TypeOK, LockHeld, StillNonePending, Known,
       OnePendingOrder, PendingOrders
  <1>2. CASE Next
    BY <1>2, RematchInv, OrderReadInv, PrepayReadInv, OrderLockInv, OrderFindInv,
       OrderInsertInv, PrepaySaveInv, DropInv
    DEF Next, Arrive, Serve
  <1> QED
    BY <1>1, <1>2

\* Types, the lock, and what its holder found out.
THEOREM OrdersInvariant == Spec => []OrdersInv
  BY InitInv, StepInv, PTL DEF Spec

\* No two orders of a project are ever waiting to be paid, for any number of
\* concurrent requests.
THEOREM NoDoubleOrder == Spec => []OnePendingOrder
  BY OrdersInvariant, PTL DEF OrdersInv
=============================================================================
