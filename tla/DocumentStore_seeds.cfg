\* Seed runs over two documents beside API writes of either, late calls, no deletes.
SPECIFICATION Spec
CONSTANTS
    r1 = r1
    r2 = r2
    d1 = d1
    d2 = d2
    Requests = {r1, r2}
    Docs = {d1, d2}
    Bodies = {"short", "long"}
    NoBody = NoBody
    NoJob = NoJob
    NoCall = NoCall
    Untouched = Untouched
    Checksum <- MCChecksum
    ChunkCount <- MCChunkCount
    SeedLists <- OneSeed
    SeedModes = {"both", "postgres_only", "qdrant_only"}
    Spellings = {}
    BatchSize = 2
    Faults = TRUE
    Late = TRUE
    CollectionExists = FALSE
SYMMETRY MCSymmetry
INVARIANTS ChunksMatchRows ChecksumsUnique SettledAgreement LabelsResolve
