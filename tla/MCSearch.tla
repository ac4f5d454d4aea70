------------------------------ MODULE MCSearch ------------------------------
(* Small instances of Search for TLC.                                      *)
EXTENDS Search

CONSTANTS r1, r2

(* Every strategy with either backend; a short query without identifier    *)
(* (which the router sends to hybrid), a question and an identifier.       *)
Query3 == {[identifier |-> FALSE, question |-> FALSE], [identifier |-> FALSE, question |-> TRUE],
           [identifier |-> TRUE, question |-> FALSE]}

SearchOf(st, b, q, ok) ==
    [strategy |-> st, dense_backend |-> b, identifier |-> q.identifier,
     question |-> q.question, long |-> FALSE, supported |-> ok]

AllSearches == { SearchOf(st, b, q, ok) : st \in Strategies, b \in {"pgvector", "qdrant"},
                                          q \in Query3, ok \in BOOLEAN }

(* What the router reads matters to the adaptive strategy only; the other  *)
(* strategies are asked for with the backend they do not use.              *)
MCSearches == { s \in AllSearches :
    \/ s.strategy = "adaptive"
    \/ /\ ~ s.identifier /\ ~ s.question
       /\ (s.dense_backend = "pgvector") <=> (s.strategy \in {"lexical", "dense_qdrant", "hybrid_qdrant"}) }

SupportedSearches == { s \in MCSearches : s.supported }

HybridSearches == { s \in SupportedSearches : s.strategy = "hybrid_pgvector" }

=============================================================================
