--------------------------- MODULE MCBenchmarkRun ---------------------------
(* A small instance of BenchmarkRun for TLC.                               *)
EXTENDS BenchmarkRun

MCGain == <<100, 63>>

Entry(base, suffix, backend, method) ==
    [base |-> base, suffix |-> suffix, dense_backend |-> backend, fusion_method |-> method]

Config(entries, k) ==
    [strategies |-> entries, strategy |-> Entry("hybrid_qdrant", "", "qdrant", "rrf"), top_k |-> k]

(* Two hybrids that differ in their method only, no strategy at all, an    *)
(* unknown one, and a top_k that precision_at_k refuses.                   *)
MCConfigs ==
    { Config(<<Entry("hybrid_pgvector", "", "qdrant", "rrf"),
               Entry("hybrid_pgvector", "", "qdrant", "weighted")>>, 2),
      Config(<<>>, 2),
      Config(<<Entry("bm25", "", "qdrant", "rrf")>>, 2),
      Config(<<Entry("lexical", "", "qdrant", "rrf")>>, 0) }

(* Labels that name chunks, documents, or nothing.                         *)
Ask(id, type, cs, ds) == [id |-> id, query_type |-> type, chunks |-> cs, documents |-> ds]

MCTables ==
    { <<>>,
      <<Ask("q1", "semantic", {"a1", "b1"}, {"A", "B"}), Ask("q2", "negative", {}, {})>>,
      <<Ask("q1", "exact", {}, {"A"})>> }

Found(c, d) == [chunk |-> c, doc |-> d]

MCResults == { <<>>, <<Found("a1", "A"), Found("b1", "B")>>,
               <<Found("a1", "A"), Found("a2", "A")>>, <<Found("c1", "C"), Found("b1", "B")>> }

=============================================================================
