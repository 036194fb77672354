SPECIFICATION Spec
CONSTANTS
    Projects = {p1, p2}
    Slots = {h1, h2}
    Nil = Nil
    Scenarios <- AllScenarios
    MaxIterations = 2
INVARIANTS
    TypeOK
    HistoryOwn
    ProductsOwn
    StatusEarned
    StoresAgree
    PlanWhole
PROPERTIES
    HistoryKept
    StagesApart
CHECK_DEADLOCK FALSE
SYMMETRY Interchangeable
VIEW Visible
