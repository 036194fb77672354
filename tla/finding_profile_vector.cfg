SPECIFICATION Spec
CONSTANTS
    Provider = {p1, p2}
    Worker = {w1, w2}
    Slot = {h1, h2}
    Skill = {"go"}
    Nil = Nil
    Scenarios <- AllScenarios
    Users <- OneKnown
    Demand <- GoWanted
    TopK = 3
    MaxIterations = 2
INVARIANT RatedIsSearchable
SYMMETRY Interchangeable
CHECK_DEADLOCK FALSE
