\* Two requests at a time, either may die.
CONSTANTS
    h1 = h1
    h2 = h2
    p1 = p1
    p2 = p2
    Handler = {h1, h2}
    Provider = {p1, p2}
    Team = {t1}
    Price = {100}
    QuickPrice = 100
    MaxBids = 2
    Faults = TRUE
    Owner = owner
    None = None
SPECIFICATION Spec
INVARIANTS
    MatchingInv
PROPERTIES
    NeverPendingAgain
    ImplementsEngagement
SYMMETRY ActorSymmetry
CHECK_DEADLOCK FALSE
