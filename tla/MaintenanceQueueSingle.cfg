\* The deployed worker, one loop: process deaths, expiring keys, trimming.
SPECIFICATION Spec
CONSTANTS
    Alice = Alice
    Workers = {w1}
    Requests = {q1}
    CallerOf <- OneCaller
    MaxJobs = 2
    MaxFaults = 2
    MaxAttempts = 2
    SubmissionLimit = 2
    MaxStreamLength = 1
    StatusMayExpire = TRUE
INVARIANTS
    TypeOK
    AckedMeansSettled
    UnsettledIsOwed
    WorkIsBounded
    TerminalStatusIsTrue
