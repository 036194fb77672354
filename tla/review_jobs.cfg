\* Two pushes and one repetition by hand; two entries on a page.
CONSTANTS
    MaxFiles = 3
    MaxPatch = 3
    MaxContext = 2
    MaxChunk = 14
    MaxChunks = 2
    ShortPatch = 2
    SmallChange = 2
    Near = 2
    Contents <- TwoContents
    Answers <- ThreeAnswers
    Legacy <- NoneOrDoubled
    MaxComments = 1
    PageSize = 1
    MaxPushes = 2
    MaxDispatches = 1
    MaxActs = 1
    Faults = TRUE
SPECIFICATION FairSpec
INVARIANTS
    ReviewInv
    PackingSound
    ThreadKeysUnique
    FindingsTracked
    ThreadsSettled
PROPERTIES
    LastPushReported
CHECK_DEADLOCK FALSE
