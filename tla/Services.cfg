SPECIFICATION ServicesSpec
CONSTRAINT InOrder
CONSTANTS
    c1 = c1
    c2 = c2
    c3 = c3
    r1 = r1
    r2 = r2
    r3 = r3
    p1 = p1
    p2 = p2
    p3 = p3
    p4 = p4
    p5 = p5
    a1 = a1
    a2 = a2
    a3 = a3
    Services = {"manifest", "links", "apply", "recovery", "oauth",
                "bundle", "workflow"}
    ContextOrder <- ThreeContexts
    NoContext = NoContext
    Callers = {r1, r2, r3}
    CallsOf <- CallsOfCallers
    MaxLinkFaults = 1
    Unwritten = Unwritten
    Plans = {p1, p2, p3, p4, p5}
    CandidateOf <- PlanCandidates
    ClaimOf <- OneClaim
    TextOf <- PlanTexts
    RelationOf <- PlanRelations
    Applies = {a1, a2, a3}
    MaxApplyFaults = 1
    NoRow = NoRow
    Operators = {r1, r2, r3}
    RunKeys = {p1, p2}
    MaxRetries = 1
    MaxTrouble = 2
    NoRun = NoRun
    Flows = {r1, r2, r3}
    FlowsOf <- FlowCalls
    MaxOauthFaults = 1
    Earlier = Earlier
    NoSecret = NoSecret
    Kept = Kept
    Source = c1
    OwnerOrder <- TwoOwners
    Bundles = {r1, r2}
    MaxEdits = 1
    MaxBundleFaults = 1
    Missing = Missing
    Bare = Bare
    Broken = Broken
    Unseen = Unseen
    Threads = {p1, p2}
    PendingActions <- ThreeActions
    Approvers = {r1, r2, r3}
    MaxWorkflowFaults = 1
    NoThread = NoThread
INVARIANTS
    ServicesTypeOK
    ChainsAreAccepted
    ReindexReconciles
    BacklinksAreClaimed
    AppliedIsDone
    OneRecoveryAtATime
    CompletedPlansAreDone
    StoredTokensFit
    CompletedBundlesHold
    WorkflowsTellTheirWork
PROPERTIES
    SettledForGood
