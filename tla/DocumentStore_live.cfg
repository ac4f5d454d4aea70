\* Liveness: row locks, checksum waits and deadlocks, seed runs included, under fair scheduling.
SPECIFICATION FairSpec
CONSTANTS
    r1 = r1
    r2 = r2
    d1 = d1
    d2 = d2
    Requests = {r1, r2}
    Docs = {d1, d2}
    Bodies = {"short", "long"}
    NoBody = NoBody
    NoJob = NoJob
    NoCall = NoCall
    Untouched = Untouched
    Checksum <- MCChecksum
    ChunkCount <- MCChunkCount
    SeedLists <- ShuffledSeeds
    SeedModes = {"both"}
    Spellings = {}
    BatchSize = 2
    Faults = FALSE
    Late = FALSE
    CollectionExists = TRUE

PROPERTY RequestsEnd
