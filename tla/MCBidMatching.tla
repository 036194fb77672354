---------------------------- MODULE MCBidMatching ----------------------------
(* Instances of BidMatching for TLC. *)
EXTENDS BidMatching, TLC

CONSTANTS h1, h2, p1, p2

\* Handlers are interchangeable, and so are providers.
ActorSymmetry == Permutations({h1, h2}) \cup Permutations({p1, p2})
=============================================================================
