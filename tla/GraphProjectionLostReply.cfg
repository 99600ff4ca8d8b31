\* An activation whose reply is lost is aborted after it took effect.
SPECIFICATION Spec
CONSTANTS
    Rebuilders = {r1, r2}
    MaxRuns = 2
    BatchCount = 2
    ExclusiveLane = TRUE
    RepliesMayBeLost = TRUE
INVARIANTS
    FailedMeansUnchanged
