----------------------------- MODULE Engagement -----------------------------
(***************************************************************************)
(* What the rest of the server may rely on about a project's match: its    *)
(* provider and its agreed price change together when a bid is accepted,   *)
(* and the provider alone is cleared when a bid is rejected or cancelled.  *)
(* BidMatching implements this specification under every interleaving;     *)
(* ProjectOrders takes it as its surroundings.                             *)
(***************************************************************************)
CONSTANTS Provider, Price, None

VARIABLES provider, price

Init == provider = None /\ price = None

\* A bid is accepted, whether or not the project had a provider.
Engage == provider' \in Provider /\ price' \in Price

\* The price of the last match stays behind.
Dissolve == provider' = None /\ UNCHANGED price

Next == Engage \/ Dissolve

Spec == Init /\ [][Next]_<<provider, price>>
=============================================================================
