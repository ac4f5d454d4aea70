\* Every kind of search, of query and of failure; one connection for two requests; fair scheduling.
SPECIFICATION FairSpec
CONSTANTS
    r1 = r1
    r2 = r2
    Requests = {r1, r2}
    NoSearch = NoSearch
    Searches <- MCSearches
    EmbedSuspends = TRUE
    PoolSize = 1
    Faults = TRUE
INVARIANTS TypeOK NothingLeftBehind ClientOutlivesSearch RaisesOnlyOnSharedSession
PROPERTY SearchesEnd
