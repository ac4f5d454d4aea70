\* One document, two bodies, one writer whose calls may be applied late, one search of any strategy at a time.
SPECIFICATION LiveSpec
CONSTANTS
    Requests = {w1}
    Docs = {"d1"}
    Bodies = {"short", "long"}
    NoBody = NoBody
    NoJob = NoJob
    NoCall = NoCall
    Untouched = Untouched
    Checksum <- MCChecksum
    ChunkCount <- MCChunkCount
    SeedLists <- NoSeeds
    SeedModes = {}
    Spellings = {"canonical"}
    BatchSize = 1
    Faults = TRUE
    Late = TRUE
    CollectionExists = FALSE
    Searchers = {s1}
    Searches <- MCSearches
    NoSearch = NoSearch
    EmbedSuspends = TRUE
    PoolSize = 1
INVARIANTS LiveTypeOK WholeBodies SettledSearch SettledAgreement
