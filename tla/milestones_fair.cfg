\* Two requests at a time, served fairly.
CONSTANTS
    h1 = h1
    h2 = h2
    Handler = {h1, h2}
    Order = {}
    Ratio = {}
    Plans <- NoPlans
    MaxMilestones = 2
    Faults = FALSE
    None = None
SPECIFICATION FairSpec
PROPERTIES
    LastCompletionSubmits
CHECK_DEADLOCK FALSE
