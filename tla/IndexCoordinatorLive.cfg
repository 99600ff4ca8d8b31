\* Short writers cannot starve maintenance in their process, and lanes outlive lost sessions.
SPECIFICATION FairSpec
CONSTANTS
    a1 = a1
    a2 = a2
    a3 = a3
    b1 = b1
    b2 = b2
    api = api
    worker = worker
    NoTask = NoTask
    Tasks = {a1, a2, a3}
    Processes = {api}
    ProcessOf <- Homes
    Kinds <- OneMaintainer
    MaxDepth = 1
    SessionsMayDrop = TRUE
PROPERTIES
    MaintenanceGetsLane
