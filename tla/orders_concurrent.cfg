\* Two requests at a time, either may die, while bids are accepted and rejected.
CONSTANTS
    h1 = h1
    h2 = h2
    p1 = p1
    p2 = p2
    Handler = {h1, h2}
    Provider = {p1, p2}
    Price = {0, 100}
    MaxOrders = 3
    Faults = TRUE
    None = None
SPECIFICATION Spec
INVARIANTS
    OrdersInv
SYMMETRY ActorSymmetry
CHECK_DEADLOCK FALSE
