\* A batch that spells one destination in two ways.
SPECIFICATION IndexSpec
CONSTANTS
    r1 = r1
    r2 = r2
    r3 = r3
    p1 = p1
    p2 = p2
    User = User
    NoFile = NoFile
    Plain = Plain
    NoRow = NoRow
    NoId = NoId
    Same = Same
    Anything = Anything
    Requests = {r1, r2}
    PathOrder <- Order
    Seeded = {p1}
    KindsOf <- Explicit
    ConcurrentWrites = TRUE
    MaxFaults = 0
    MaxEdits = 0
    Parts = {"moves"}
    Chunked = {p1, p2}
    ChunkTexts = {1, 2}
    Tasks = {r1, r2}
    TasksOf <- OneReindex
    BatchSize = 1
    MaxBatches = 3
    RecoverAfterReindex = TRUE
    MaxChunkFaults = 1
    Imported = Imported
    NoVector = NoVector
    Clean = Clean
    p3 = p3
    p4 = p4
    c1 = c1
    c2 = c2
    c3 = c3
    c4 = c4
    PathOf <- TwoSpellings
    MoveLists <- OneBatch
    Papers = {c1, c2}
    Movers = {r1}
    MaxMeddling = 0
    MaxMoveFaults = 0
    NoPaper = NoPaper
    Compacts = {c1, c2, c3, c4}
    ProjectOf <- TwoProjects
    NoPromotion = NoPromotion
INVARIANTS
    NothingIsOverwritten
