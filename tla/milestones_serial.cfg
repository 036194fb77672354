\* One request or plan at a time, and it may die between two statements.
CONSTANTS
    h1 = h1
    h2 = h2
    Handler = {h1}
    Order = {1}
    Ratio = {4000}
    Plans <- HalfHalf
    MaxMilestones = 4
    Faults = TRUE
    None = None
SPECIFICATION Spec
PROPERTIES
    AtomicDelivery
CHECK_DEADLOCK FALSE
