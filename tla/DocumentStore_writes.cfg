\* Two documents, three bodies (two have the same content, one has two chunks), two requests.
SPECIFICATION Spec
CONSTANTS
    r1 = r1
    r2 = r2
    d1 = d1
    d2 = d2
    Requests = {r1, r2}
    Docs = {d1, d2}
    Bodies = {"short", "tagged", "long"}
    NoBody = NoBody
    NoJob = NoJob
    NoCall = NoCall
    Untouched = Untouched
    Checksum <- MCChecksum
    ChunkCount <- MCChunkCount
    SeedLists <- NoSeeds
    SeedModes = {}
    Spellings = {"canonical", "other"}
    BatchSize = 1
    Faults = TRUE
    Late = FALSE
    CollectionExists = FALSE
SYMMETRY MCSymmetry
INVARIANTS TypeOK ChunksMatchRows ChecksumsUnique QdrantFollowsPostgres SettledAgreement
PROPERTY WritesAreAtomic
