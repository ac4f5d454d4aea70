--------------------------- MODULE MCLiveSearch ---------------------------
(* A small instance of LiveSearch for TLC.                                 *)
EXTENDS LiveSearch

MCChecksum == [b \in Bodies |-> IF b = "short" THEN 1 ELSE 2]
MCChunkCount == [b \in Bodies |-> IF b = "long" THEN 2 ELSE 1]

NoSeeds == {}

(* Every strategy but adaptive, which the router turns into one of them:   *)
(* one leg in either store, and two legs in one store or in both.          *)
Kinds == {"lexical", "dense_pgvector", "dense_qdrant", "hybrid_pgvector", "hybrid_qdrant"}

MCSearches ==
    { [strategy |-> st, dense_backend |-> "qdrant", identifier |-> FALSE,
       question |-> FALSE, long |-> FALSE, supported |-> TRUE] :
        st \in Kinds }

=============================================================================
