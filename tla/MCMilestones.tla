---------------------------- MODULE MCMilestones ----------------------------
(* Instances of Milestones for TLC. *)
EXTENDS Milestones, TLC

CONSTANTS h1, h2

\* Handlers are interchangeable.
HandlerSymmetry == Permutations({h1, h2})

\* A plan of two milestones that share the payment equally, as the AI agent
\* stores it: 0.50 and 0.50.
NoPlans == {}
HalfHalf == {<<50, 50>>}
=============================================================================
