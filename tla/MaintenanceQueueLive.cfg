\* Every accepted job settles although processes die.
SPECIFICATION FairSpec
CONSTANTS
    Alice = Alice
    Workers = {w1}
    Requests = {q1}
    CallerOf <- OneCaller
    MaxJobs = 2
    MaxFaults = 2
    MaxAttempts = 2
    SubmissionLimit = 2
    MaxStreamLength = 2
    StatusMayExpire = FALSE
PROPERTIES
    EveryJobSettles
