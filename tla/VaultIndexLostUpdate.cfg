\* Two careful explicit writers of one note.
SPECIFICATION IndexSpec
CONSTANTS
    r1 = r1
    r2 = r2
    r3 = r3
    p1 = p1
    p2 = p2
    User = User
    NoFile = NoFile
    Plain = Plain
    NoRow = NoRow
    NoId = NoId
    Same = Same
    Anything = Anything
    Requests = {r1, r2}
    PathOrder <- Order
    Seeded = {p1}
    KindsOf <- Explicit
    ConcurrentWrites = TRUE
    MaxFaults = 0
    MaxEdits = 0
    Parts = {"notes"}
    Chunked = {p1, p2}
    ChunkTexts = {1, 2}
    Tasks = {r1}
    TasksOf <- OneReindex
    BatchSize = 1
    MaxBatches = 3
    RecoverAfterReindex = TRUE
    MaxChunkFaults = 0
    Imported = Imported
    NoVector = NoVector
    Clean = Clean
    p3 = p3
    p4 = p4
    c1 = c1
    c2 = c2
    c3 = c3
    c4 = c4
    PathOf <- OneSpelling
    MoveLists <- Batches
    Papers = {c1, c2}
    Movers = {r1, r2}
    MaxMeddling = 1
    MaxMoveFaults = 1
    NoPaper = NoPaper
    Compacts = {c1, c2, c3, c4}
    ProjectOf <- TwoProjects
    NoPromotion = NoPromotion
INVARIANTS
    NoSilentOverwrite
