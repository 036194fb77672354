-------------------------- MODULE ProjectLifecycle --------------------------
(***************************************************************************)
(* What the life of a project looks like from outside when requests are    *)
(* atomic: the status and the provider of one project, changed by one      *)
(* action per kind of request.  BidMatching implements this specification  *)
(* when its requests are served one at a time.                             *)
(*                                                                         *)
(* Engage and Release have no guard on the status: BidService.Accept,      *)
(* RejectBid and CancelMatch check the bid and never the project.          *)
(***************************************************************************)
EXTENDS Integers

CONSTANTS Provider, None

VARIABLES status, provider

Draft == 1
Published == 2
Matched == 3
Aligning == 4
InProgress == 5
Closed == 8

Init == status \in {Draft, Published} /\ provider = None

Publish == status = Draft /\ status' = Published /\ UNCHANGED provider

Engage == status' = Matched /\ provider' \in Provider

Release == status' = Published /\ provider' = None

\* Both parties confirmed the requirements, so there are two parties.
Align ==
    /\ status = Matched
    /\ provider # None
    /\ status' = Aligning
    /\ UNCHANGED provider

Start == status = Aligning /\ status' = InProgress /\ UNCHANGED provider

Close ==
    /\ status \in {Draft, Published}
    /\ status' = Closed
    /\ UNCHANGED provider

Next == Publish \/ Engage \/ Release \/ Align \/ Start \/ Close

Spec == Init /\ [][Next]_<<status, provider>>
=============================================================================
