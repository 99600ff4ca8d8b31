\* Two loops, deliveries as slow as they like, jobs that fail.
SPECIFICATION Spec
CONSTANTS
    Alice = Alice
    Workers = {w1, w2}
    Requests = {q1}
    CallerOf <- OneCaller
    MaxJobs = 2
    MaxFaults = 0
    MaxAttempts = 2
    SubmissionLimit = 2
    MaxStreamLength = 2
    StatusMayExpire = FALSE
SYMMETRY LoopSymmetry
INVARIANTS
    WorkIsBounded
    DeadMeansNeverCompleted
PROPERTIES
    TerminalStatusIsFinal
