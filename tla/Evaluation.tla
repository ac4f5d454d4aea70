----------------------------- MODULE Evaluation -----------------------------
(***************************************************************************)
(* The pure part of the benchmark: strategy specs read from a config,      *)
(* retrieval metrics, percentiles and summaries (app/evaluation/runner.py, *)
(* app/evaluation/metrics.py, app/retrievers/factory.py).                  *)
(*                                                                         *)
(* Numbers are exact: a metric is a fraction [num, den], a percentile is   *)
(* in hundredths, and Gain(i) stands for 1 / log2(i + 1), of which only    *)
(* the order is used.                                                      *)
(***************************************************************************)
EXTENDS Ordering, SequencesExt

CONSTANT Gain   \* the gain of a relevant result at a rank

ASSUME GainAssumption ==
    \A i, k \in DOMAIN Gain : Gain[i] \in Nat \ {0} /\ (i < k => Gain[i] > Gain[k])

Fractions == [num : Nat, den : Nat \ {0}]
Fraction(num, den) == [num |-> num, den |-> den]
One == Fraction(1, 1)
Zero == Fraction(0, 1)
Is(condition) == IF condition THEN One ELSE Zero

Minimum(a, b) == IF a < b THEN a ELSE b

-----------------------------------------------------------------------------
(* parse_strategy_specs: an entry of retrieval.strategies, its defaults    *)
(* filled in, with the name split at a "_rrf" or "_weighted" suffix.       *)

Backends == {"pgvector", "qdrant"}
Methods == {"rrf", "weighted"}
Hybrids == {"hybrid_pgvector", "hybrid_qdrant"}
Strategies == {"lexical", "dense_pgvector", "dense_qdrant", "adaptive"} \union Hybrids

Entries == [base : STRING, suffix : Methods \union {""}, dense_backend : Backends, fusion_method : Methods]

MethodOf(e) == IF e.suffix = "" THEN e.fusion_method ELSE e.suffix

BackendOf(e) ==
    CASE e.base \in {"dense_pgvector", "hybrid_pgvector"} -> "pgvector"
      [] e.base \in {"dense_qdrant", "hybrid_qdrant"}     -> "qdrant"
      [] OTHER                                            -> e.dense_backend

(* Mutant: every strategy keeps the name the config gives it.              *)
RawName(e) == <<e.base, e.suffix>>

(* Only the hybrids are renamed, after what they are.                      *)
DisplayName(e) == <<e.base, IF e.base \in Hybrids THEN MethodOf(e) ELSE e.suffix>>

StrategySpec(e) ==
    [name |-> DisplayName(e), strategy |-> e.base,
     dense_backend |-> BackendOf(e), fusion_method |-> MethodOf(e)]

(* An empty list of strategies stands for the one named "strategy".        *)
SpecsOf(config) ==
    LET entries == IF config.strategies = <<>> THEN <<config.strategy>> ELSE config.strategies
    IN  [i \in DOMAIN entries |-> StrategySpec(entries[i])]

(* RetrievalStrategy(base_name) raises for any other name.                 *)
ParsesTo(config) == \A i \in DOMAIN SpecsOf(config) : SpecsOf(config)[i].strategy \in Strategies

(* The fields build_retriever reads for a strategy.                        *)
Retriever(spec) ==
    [strategy      |-> spec.strategy,
     dense_backend |-> IF spec.strategy = "adaptive" THEN spec.dense_backend ELSE "",
     fusion_method |-> IF spec.strategy \in Hybrids \union {"adaptive"} THEN spec.fusion_method ELSE ""]

-----------------------------------------------------------------------------
(* Metrics.                                                                *)

(* Mutant: a document found through two of its chunks counts twice.        *)
WithRepeats(s) == s

(* Where a value is found that was not found before.                       *)
FirstPlaces(s) == {i \in DOMAIN s : \A j \in DOMAIN s : s[j] = s[i] => i <= j}

unique_preserving_order(s) ==
    LET order == OrderedBy(FirstPlaces(s), {p \in FirstPlaces(s) \X FirstPlaces(s) : p[1] < p[2]})
    IN  [i \in DOMAIN order |-> s[order[i]]]

(* Labels name chunks or, if there are none, documents.                    *)
Relevant(query) == IF query.chunks # {} THEN query.chunks ELSE query.documents

Retrieved(query, results) ==
    unique_preserving_order(
        [i \in DOMAIN results |-> IF query.chunks # {} THEN results[i].chunk ELSE results[i].doc])

Top(retrieved, k) == SubSeq(retrieved, 1, Minimum(k, Len(retrieved)))

Hits(retrieved, relevant) == {i \in DOMAIN retrieved : retrieved[i] \in relevant}

GainAt(ranks) == SumFunctionOnSet(Gain, ranks)

(* A hard negative, which nothing is relevant to, is answered by nothing.  *)
retrieval_metrics(retrieved, relevant, k) ==
    LET top == Top(retrieved, k)
        found == ToSet(top) \intersect relevant
        first == {i \in Hits(retrieved, relevant) : \A j \in Hits(retrieved, relevant) : i <= j}
    IN  IF relevant = {}
        THEN [recall |-> Is(top = <<>>), precision |-> Zero, hit_rate |-> Is(top = <<>>),
              mrr |-> Is(retrieved = <<>>), ndcg |-> Is(top = <<>>)]
        ELSE [recall    |-> Fraction(Cardinality(found), Cardinality(relevant)),
              precision |-> Fraction(Cardinality(found), k),
              hit_rate  |-> Is(found # {}),
              mrr       |-> IF first = {} THEN Zero ELSE Fraction(1, CHOOSE i \in first : TRUE),
              ndcg      |-> Fraction(GainAt(Hits(top, relevant)),
                                     GainAt(1 .. Minimum(Cardinality(relevant), k)))]

-----------------------------------------------------------------------------
(* Summaries over a list of latencies and over groups of rows.             *)

Ascending(values) ==
    {p \in (DOMAIN values) \X (DOMAIN values) :
        values[p[1]] < values[p[2]] \/ (values[p[1]] = values[p[2]] /\ p[1] < p[2])}

sorted(values) ==
    LET order == OrderedBy(DOMAIN values, Ascending(values))
    IN  [i \in DOMAIN order |-> values[order[i]]]

(* Between the two values nearest to the p-th percentile, in hundredths.   *)
Interpolated(ordered, p) ==
    LET index == (Len(ordered) - 1) * p
        lower == index \div 100
        upper == Minimum(lower + 1, Len(ordered) - 1)
    IN  ordered[lower + 1] * (100 - (index % 100)) + ordered[upper + 1] * (index % 100)

(* Mutant: the values are taken in the order they were measured.           *)
AsMeasured(values, p) == Interpolated(values, p)

(* Of a list that is not empty.                                            *)
percentile(values, p) == Interpolated(sorted(values), p)

(* Summary of a group of rows: the means, of which the latency stands for  *)
(* all, as total and count.                                                *)
Summary(latencies) ==
    [count |-> Len(latencies), total |-> SumFunction(latencies),
     p50 |-> percentile(latencies, 50), p95 |-> percentile(latencies, 95),
     p99 |-> percentile(latencies, 99), max |-> 100 * Max(ToSet(latencies))]

(* Rows are indexed by cells <<number of the spec, number of the query>>,  *)
(* which the loops of run_benchmark visit in this order.                   *)
Before(c, e) == c[1] < e[1] \/ (c[1] = e[1] /\ c[2] < e[2])

Latencies(rows, cells) ==
    LET order == OrderedBy(cells, {p \in cells \X cells : Before(p[1], p[2])})
    IN  [i \in DOMAIN order |-> rows[order[i]].latency]

GroupBy(rows, cells, key) ==
    [value \in {rows[c][key] : c \in cells} |-> {c \in cells : rows[c][key] = value}]

Summarize(rows, groups) == [value \in DOMAIN groups |-> Summary(Latencies(rows, groups[value]))]

summarize_by_query_type(rows, cells) == Summarize(rows, GroupBy(rows, cells, "query_type"))

summarize_by_strategy(rows) == Summarize(rows, GroupBy(rows, DOMAIN rows, "strategy"))

summarize_by_strategy_and_query_type(rows) ==
    LET groups == GroupBy(rows, DOMAIN rows, "strategy")
    IN  [name \in DOMAIN groups |-> summarize_by_query_type(rows, groups[name])]

=============================================================================
