\* Exclusion, counters and wakeups under cancellation, failed unlocks and crashes.
SPECIFICATION Spec
CONSTANTS
    a1 = a1
    a2 = a2
    a3 = a3
    b1 = b1
    b2 = b2
    api = api
    worker = worker
    NoTask = NoTask
    Tasks = {a1, a2, a3, b1}
    Processes = {api, worker}
    ProcessOf <- Homes
    Kinds <- AnyKinds
    MaxDepth = 2
    SessionsMayDrop = FALSE
INVARIANTS
    TypeOK
    Exclusion
    CountersExact
    LeasesHold
    NoLostWakeup
