------------------------------ MODULE Delivery ------------------------------
(***************************************************************************)
(* What the milestones of a project promise, each operation one step: work *)
(* on a milestone starts when all before it are done, its provider and its *)
(* owner pass it back and forth until it is done, and the project is       *)
(* submitted when there are milestones and all are done.                   *)
(***************************************************************************)
EXTENDS Integers

CONSTANTS MsId,  \* primary keys of the milestones
          None   \* the order of a milestone that is not there

VARIABLES status,  \* the project's status: aligning 4 .. completed 7
          order,   \* the order of each milestone
          phase    \* absent 0, waiting 1, working 2, done 3, revising 4, delivered 5

vars == <<status, order, phase>>
-----------------------------------------------------------------------------
Present == {m \in MsId : phase[m] # 0}
AllDone == Present # {} /\ \A m \in Present : phase[m] = 3

Init ==
    /\ status = 4
    /\ order = [m \in MsId |-> None]
    /\ phase = [m \in MsId |-> 0]

\* A milestone is added, at any time.
Add(m) ==
    /\ phase[m] = 0
    /\ phase' = [phase EXCEPT ![m] = 1]
    /\ \A k \in MsId \ {m} : order'[k] = order[k]
    /\ UNCHANGED status

Move(m, from, to) ==
    /\ phase[m] \in from
    /\ phase' = [phase EXCEPT ![m] = to]
    /\ UNCHANGED <<status, order>>

Start(m) ==
    /\ Move(m, {1}, 2)
    /\ \A k \in Present : order[k] < order[m] => phase[k] = 3

Deliver(m) == Move(m, {2, 4}, 5)
Accept(m) == Move(m, {5}, 3)
Revise(m) == Move(m, {5}, 4)
Complete(m) == Move(m, {1, 2, 4}, 3)

\* All milestones are replaced by a new plan.
Replan ==
    /\ \A m \in MsId : phase[m] # 0 => phase'[m] = 0
    /\ \A m \in MsId : phase'[m] \in {0, 1}
    /\ UNCHANGED status

Advance(from, to) ==
    /\ status = from
    /\ status' = to
    /\ UNCHANGED <<order, phase>>

Submit == AllDone /\ Advance(5, 6)

Next ==
    \/ \E m \in MsId : \/ Add(m)
                       \/ Start(m)
                       \/ Deliver(m)
                       \/ Accept(m)
                       \/ Revise(m)
                       \/ Complete(m)
    \/ Replan
    \/ Advance(4, 5)
    \/ Submit
    \/ Advance(6, 7)

Spec == Init /\ [][Next]_vars
=============================================================================
