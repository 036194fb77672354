\* One request at a time; a request may die between two statements.
CONSTANTS
    h1 = h1
    h2 = h2
    p1 = p1
    p2 = p2
    Handler = {h1}
    Provider = {p1, p2}
    Team = {t1}
    Price = {100, 200}
    QuickPrice = 100
    MaxBids = 2
    Faults = TRUE
    Owner = owner
    None = None
SPECIFICATION Spec
INVARIANTS
    BidCountAtMost
    MatchedBidAccepted
    OneRecommendation
PROPERTIES
    AtomicLifecycle
CHECK_DEADLOCK FALSE
