\* Two requests at a time, either may die.
CONSTANTS
    h1 = h1
    h2 = h2
    Handler = {h1, h2}
    Order = {1}
    Ratio = {4000, 7000}
    Plans <- NoPlans
    MaxMilestones = 2
    Faults = TRUE
    None = None
SPECIFICATION Spec
INVARIANTS
    MilestonesInv
    RatioCap
SYMMETRY HandlerSymmetry
CHECK_DEADLOCK FALSE
