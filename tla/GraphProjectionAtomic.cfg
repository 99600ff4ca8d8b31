\* Rebuilds in the lane, honest replies: readers see whole runs.
SPECIFICATION Spec
CONSTANTS
    Rebuilders = {r1, r2}
    MaxRuns = 3
    BatchCount = 2
    ExclusiveLane = TRUE
    RepliesMayBeLost = FALSE
INVARIANTS
    TypeOK
    ActiveIsWhole
    StagingAccounted
    FailedMeansUnchanged
    CompletedIsShown
    ListsWholeOrEmpty
PROPERTIES
    AtomicSpec
