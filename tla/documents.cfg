SPECIFICATION Spec
CONSTANTS
    Worker = {w1, w2}
    Slot = {h1, h2}
    Nil = Nil
    Scenarios <- AllScenarios
    Extracted <- ItemsOf
INVARIANTS
    DownloadIsLast
    DownloadFresh
    DocumentsInv
    UploadReplaces
    ReanalysisExact
SYMMETRY Interchangeable
CHECK_DEADLOCK FALSE
