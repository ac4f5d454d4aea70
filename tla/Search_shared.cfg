\* The hash provider and the hybrid strategy over PostgreSQL alone, one request.
SPECIFICATION Spec
CONSTANTS
    r1 = r1
    r2 = r2
    Requests = {r1}
    NoSearch = NoSearch
    Searches <- HybridSearches
    EmbedSuspends = FALSE
    PoolSize = 1
    Faults = FALSE
INVARIANT HybridAnswers
