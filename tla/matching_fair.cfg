\* Two requests at a time, served fairly; no symmetry, because of liveness.
CONSTANTS
    h1 = h1
    h2 = h2
    p1 = p1
    p2 = p2
    Handler = {h1, h2}
    Provider = {p1, p2}
    Team = {t1}
    Price = {100}
    QuickPrice = 100
    MaxBids = 1
    Faults = FALSE
    Owner = owner
    None = None
SPECIFICATION FairSpec
PROPERTIES
    RacingConfirmationsAdvance
CHECK_DEADLOCK FALSE
