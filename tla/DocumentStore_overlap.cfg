\* Two clients, no failure: one document, two bodies of one chunk each.
SPECIFICATION Spec
CONSTANTS
    r1 = r1
    r2 = r2
    d1 = d1
    d2 = d2
    Requests = {r1, r2}
    Docs = {d1}
    Bodies = {"short", "other"}
    NoBody = NoBody
    NoJob = NoJob
    NoCall = NoCall
    Untouched = Untouched
    Checksum <- MCChecksum
    ChunkCount <- MCChunkCount
    SeedLists <- NoSeeds
    SeedModes = {}
    Spellings = {}
    BatchSize = 1
    Faults = FALSE
    Late = FALSE
    CollectionExists = TRUE
INVARIANT StoresAgreeAtRest
