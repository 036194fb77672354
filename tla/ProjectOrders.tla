--------------------------- MODULE ProjectOrders ---------------------------
(***************************************************************************)
(* The payment orders of one project: server/internal/service's            *)
(* OrderService, while the project's match comes and goes (Engagement).    *)
(*                                                                         *)
(* CreateOrderByOwner reads the project first and locks its row later, in  *)
(* the transaction that looks for a pending order and inserts one.         *)
(* Accepting and rejecting bids updates that row and so waits for the      *)
(* lock; Prepay touches only the order.                                    *)
(***************************************************************************)
EXTENDS Integers, FiniteSets

CONSTANTS
    Handler,   \* goroutines serving requests
    Provider,  \* users whose bids may be accepted
    Price,     \* agreed prices, and amounts an owner may ask for
    MaxOrders, \* bound on the rows of the orders table
    Faults,    \* whether a request may die half way
    None       \* SQL NULL

ASSUME OrdersAssumption ==
    /\ MaxOrders \in Nat
    /\ Price \subseteq Nat
    /\ Faults \in BOOLEAN
    /\ None \notin Handler \cup Provider \cup Nat

VARIABLES
    provider,  \* projects.provider_id
    price,     \* projects.agreed_price
    orders,    \* table orders, by primary key
    lastOrder, \* last primary key handed out
    lock,      \* the transaction that holds the project's row
    req        \* what each handler is doing, and what it has read

vars == <<provider, price, orders, lastOrder, lock, req>>
-----------------------------------------------------------------------------
\* The order statuses; 0 is a row that is not there.
Absent == 0
Pending == 1
Paid == 2

OrderId == 1 .. MaxOrders

Order == [payee : Provider \cup {None}, amount : Price \cup {None},
          status : Absent .. Paid]

Request == [at : {"idle", "orderLock", "orderFind", "orderInsert", "prepay"},
            id : OrderId \cup {None}, order : Order]

NoOrder == [payee |-> None, amount |-> None, status |-> Absent]

Idle == [at |-> "idle", id |-> None, order |-> NoOrder]

TypeOK ==
    /\ provider \in Provider \cup {None}
    /\ price \in Price \cup {None}
    /\ orders \in [OrderId -> Order]
    /\ lastOrder \in 0 .. MaxOrders
    /\ lock \in Handler \cup {None}
    /\ req \in [Handler -> Request]

Match == INSTANCE Engagement

Init ==
    /\ Match!Init
    /\ orders = [o \in OrderId |-> NoOrder]
    /\ lastOrder = 0
    /\ lock = None
    /\ req = [h \in Handler |-> Idle]
-----------------------------------------------------------------------------
Begin(h, r) == req[h].at = "idle" /\ req' = [req EXCEPT ![h] = r]
Goto(h, stage) == req' = [req EXCEPT ![h].at = stage]
Finish(h) == req' = [req EXCEPT ![h] = Idle]

\* The transaction of handler h ends, if it has one.
Release(h) == lock' = IF lock = h THEN None ELSE lock

\* Requests on their way to inserting an order; counting them keeps MaxOrders
\* from ever stopping one half way.
Ordering == {h \in Handler : req[h].at \in {"orderLock", "orderFind", "orderInsert"}}

PendingOrders == {o \in OrderId : orders[o].status = Pending}

\* The amount an order is made out for: the one asked for, else the agreed price.
AmountDue(asked) == IF asked > 0 THEN asked ELSE price
-----------------------------------------------------------------------------
(***************************************************************************)
(* Mutated forms of the actions below, each a plausible slip in the code.  *)
(* Only mutation runs use them.                                            *)
(***************************************************************************)
\* The project is read without FOR UPDATE.
OrderLockPlainRead(h) ==
    /\ req[h].at = "orderLock"
    /\ Goto(h, "orderFind")
    /\ UNCHANGED <<provider, price, orders, lastOrder, lock>>

-----------------------------------------------------------------------------
\* OrderService.CreateOrderByOwner, for the amount asked (0: not given):
\* the project must have a provider and the amount must be positive.
OrderRead(h, asked) ==
    /\ provider # None
    /\ AmountDue(asked) # None /\ AmountDue(asked) > 0
    /\ lastOrder + Cardinality(Ordering) < MaxOrders
    /\ Begin(h, [Idle EXCEPT !.at = "orderLock",
                             !.order = [payee |-> provider, amount |-> AmountDue(asked),
                                        status |-> Pending]])
    /\ UNCHANGED <<provider, price, orders, lastOrder, lock>>

\* createPendingProjectOrderWithRepos: lock the project's row ...
OrderLock(h) ==
    /\ req[h].at = "orderLock"
    /\ lock = None
    /\ lock' = h
    /\ Goto(h, "orderFind")
    /\ UNCHANGED <<provider, price, orders, lastOrder>>

\* ... look for a pending order, from here on in the transaction's snapshot ...
OrderFind(h) ==
    /\ req[h].at = "orderFind"
    /\ \/ PendingOrders # {} /\ Finish(h) /\ Release(h)
       \/ PendingOrders = {} /\ Goto(h, "orderInsert") /\ UNCHANGED lock
    /\ UNCHANGED <<provider, price, orders, lastOrder>>

\* ... and insert the new one.
OrderInsert(h) ==
    /\ req[h].at = "orderInsert"
    /\ lastOrder < MaxOrders
    /\ lastOrder' = lastOrder + 1
    /\ orders' = [orders EXCEPT ![lastOrder + 1] = req[h].order]
    /\ Finish(h)
    /\ Release(h)
    /\ UNCHANGED <<provider, price>>

\* OrderService.Prepay, whatever the status of the order.
PrepayRead(h, o) ==
    /\ orders[o].status # Absent
    /\ Begin(h, [at |-> "prepay", id |-> o, order |-> orders[o]])
    /\ UNCHANGED <<provider, price, orders, lastOrder, lock>>

\* orderRepository.Update saves the whole row.
PrepaySave(h) ==
    /\ req[h].at = "prepay"
    /\ orders' = [orders EXCEPT ![req[h].id] = [req[h].order EXCEPT !.status = Paid]]
    /\ Finish(h)
    /\ UNCHANGED <<provider, price, lastOrder, lock>>

\* A bid is accepted, rejected or cancelled; the UPDATE waits for the row.
Rematch ==
    /\ lock = None
    /\ Match!Next
    /\ UNCHANGED <<orders, lastOrder, lock, req>>

\* A request dies; an open transaction rolls back.
Drop(h) ==
    /\ Faults
    /\ req[h].at # "idle"
    /\ Finish(h)
    /\ Release(h)
    /\ UNCHANGED <<provider, price, orders, lastOrder>>

Arrive(h) ==
    \/ \E asked \in Price \cup {0} : OrderRead(h, asked)
    \/ \E o \in OrderId : PrepayRead(h, o)

Serve(h) == OrderLock(h) \/ OrderFind(h) \/ OrderInsert(h) \/ PrepaySave(h)

Next == Rematch \/ \E h \in Handler : Arrive(h) \/ Serve(h) \/ Drop(h)

Spec == Init /\ [][Next]_vars
-----------------------------------------------------------------------------
\* A project never has two orders waiting to be paid, whoever asks for one and
\* whenever a request dies: createPendingProjectOrderWithRepos looks and
\* inserts under the lock of the project's row.
OnePendingOrder == \A o, p \in PendingOrders : o = p

\* A handler past the lock holds it, and nobody holds it who is elsewhere.
LockHeld == \A h \in Handler : req[h].at \in {"orderFind", "orderInsert"} <=> lock = h

\* What the holder of the lock found out stays true until it inserts: only it
\* adds orders, and no payment makes an order pending again.
StillNonePending == \A h \in Handler : req[h].at = "orderInsert" => PendingOrders = {}

\* An order on its way to insertion is to be inserted as pending, and a payment
\* is of a row of the table.
Known ==
    \A h \in Handler :
        /\ req[h].at \in {"orderLock", "orderFind", "orderInsert"} =>
               req[h].order.status = Pending
        /\ req[h].at = "prepay" => req[h].id \in OrderId

\* The inductive invariant of Spec.
OrdersInv == TypeOK /\ LockHeld /\ StillNonePending /\ Known /\ OnePendingOrder

=============================================================================
