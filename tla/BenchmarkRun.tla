---------------------------- MODULE BenchmarkRun ----------------------------
(***************************************************************************)
(* Benchmark runs and the handlers that read their results: run_benchmark  *)
(* (app/evaluation/runner.py), the artifacts it writes                     *)
(* (app/evaluation/artifacts.py) and the three /benchmark handlers         *)
(* (app/api/routes.py).                                                    *)
(*                                                                         *)
(* A run is started by POST /benchmark/run or by scripts/benchmark.py, a   *)
(* process of its own.  It measures live stores: what a search finds is    *)
(* any of Results, and the table of queries may be seeded anew at any      *)
(* moment.  It writes its files one after the other; a reader looks a file *)
(* up and reads it in two calls of its own thread.  A run may fail at any  *)
(* call, on any file, or with its process.                                 *)
(***************************************************************************)
EXTENDS Evaluation

CONSTANTS
    Runs,            \* ids of runs; uuid4 gives every run its own
    NoRun,           \* a reader that asks for nothing
    Configs,         \* the config files that can be asked for
    NoConfig,        \* one that does not exist
    Tables,          \* what "benchmark_queries" may hold
    Results,         \* what a search may find
    LatenciesMs,     \* how long it may take
    HasMatplotlib    \* are charts written at all?

ConfigType == [strategies : Seq(Entries), strategy : Entries, top_k : Int]
QueryType == [id : STRING, query_type : STRING, chunks : SUBSET STRING, documents : SUBSET STRING]
ResultType == [chunk : STRING, doc : STRING]

ASSUME InputsAssumption ==
    /\ NoRun \notin Runs
    /\ Configs \subseteq ConfigType /\ NoConfig \notin Configs
    /\ \A c \in Configs : 1 .. c.top_k \subseteq DOMAIN Gain
    /\ Tables \subseteq Seq(QueryType) /\ <<>> \in Tables
    /\ \A t \in Tables : \A i \in DOMAIN t : IsFiniteSet(t[i].chunks) /\ IsFiniteSet(t[i].documents)
    /\ Results \subseteq Seq(ResultType)
    /\ LatenciesMs \subseteq Nat
    /\ HasMatplotlib \in BOOLEAN

VARIABLES
    table,      \* "benchmark_queries"
    pc,         \* what each run does next
    config,     \* the config it was given
    queries,    \* the queries it has read
    rows,       \* the rows it has measured, by cell
    dirs,       \* the run directories under benchmark_results_dir
    content,    \* the results.json of each run
    artifacts,  \* the other files of each run
    reader      \* one reader of results, and the runs reported before it asked

runVars == <<pc, config, queries, rows>>
fileVars == <<dirs, content, artifacts>>
vars == <<table, runVars, fileVars, reader>>

Stages == {"unused", "read_config", "read_queries", "searching", "make_directory", "open_json",
           "write_json", "write_csv", "write_summary", "write_basic_chart", "write_strategy_chart",
           "respond", "reported", "failed", "not_found"}
Over == {"unused", "reported", "failed", "not_found"}

NoRows == [c \in {} |-> {}]

(* A results.json: missing, opened but not yet written, or complete.       *)
NoFile == [state |-> "missing", rows |-> NoRows]
Partial == [state |-> "partial", rows |-> NoRows]
Complete(rs) == [state |-> "complete", rows |-> rs]

Idle == [does |-> "idle", run |-> NoRun, known |-> {}, status |-> 0, listed |-> {}]

Init ==
    /\ table = <<>>
    /\ pc = [b \in Runs |-> "unused"]
    /\ config = [b \in Runs |-> NoConfig]
    /\ queries = [b \in Runs |-> <<>>]
    /\ rows = [b \in Runs |-> NoRows]
    /\ dirs = {}
    /\ content = [b \in Runs |-> NoFile]
    /\ artifacts = [b \in Runs |-> {}]
    /\ reader = Idle

(* A seed run replaces the queries (external to a run).                    *)
Reseed ==
    /\ table' \in Tables \ {table, <<>>}
    /\ UNCHANGED <<runVars, fileVars, reader>>

Goes(b, stage) == pc' = [pc EXCEPT ![b] = stage]

(* Mutant: the config is not looked up.                                    *)
RequestUnchecked(b, c) ==
    /\ pc[b] = "unused"
    /\ Goes(b, "read_config")
    /\ config' = [config EXCEPT ![b] = c]
    /\ UNCHANGED <<table, queries, rows, fileVars, reader>>

(* benchmark_run looks the config up, run_benchmark reads it.              *)
Request(b, c) ==
    /\ pc[b] = "unused"
    /\ Goes(b, IF c = NoConfig THEN "not_found" ELSE "read_config")
    /\ config' = [config EXCEPT ![b] = c]
    /\ UNCHANGED <<table, queries, rows, fileVars, reader>>

ReadConfig(b) ==
    /\ pc[b] = "read_config"
    /\ Goes(b, IF ParsesTo(config[b]) THEN "read_queries" ELSE "failed")
    /\ UNCHANGED <<table, config, queries, rows, fileVars, reader>>

(* select(BenchmarkQuery), once, before the first strategy.                *)
ReadQueries(b) ==
    /\ pc[b] = "read_queries"
    /\ queries' = [queries EXCEPT ![b] = table]
    /\ Goes(b, "searching")
    /\ UNCHANGED <<table, config, rows, fileVars, reader>>

Cells(b) == (DOMAIN SpecsOf(config[b])) \X (DOMAIN queries[b])
Unmeasured(b) == Cells(b) \ DOMAIN rows[b]

(* Mutant: the queries are read again for every search.                    *)
LiveQuery(b, j) == IF j \in DOMAIN table THEN table[j] ELSE queries[b][j]

Query(b, j) == queries[b][j]

(* The row of one search.  It keeps the query itself, of which the code    *)
(* writes the id, type and language, and which was measured against its    *)
(* labels.                                                                 *)
Row(spec, query, top_k, results, latency) ==
    LET retrieved == Retrieved(query, results) IN
    [strategy |-> spec.name, retriever |-> Retriever(spec), query |-> query,
     query_type |-> query.query_type, latency |-> latency,
     metrics |-> retrieval_metrics(retrieved, Relevant(query), top_k)]

Measure(b) ==
    /\ pc[b] = "searching"
    /\ config[b].top_k > 0
    /\ \E c \in Unmeasured(b), results \in Results, latency \in LatenciesMs :
        /\ \A e \in Unmeasured(b) \ {c} : Before(c, e)
        /\ Len(results) <= config[b].top_k
        /\ LET row == Row(SpecsOf(config[b])[c[1]], Query(b, c[2]), config[b].top_k, results, latency)
           IN  rows' = [rows EXCEPT ![b] =
                          [e \in DOMAIN rows[b] \union {c} |-> IF e = c THEN row ELSE rows[b][e]]]
    /\ UNCHANGED <<table, pc, config, queries, fileVars, reader>>

(* precision_at_k raises: the run ends at its first row.                   *)
RejectTopK(b) ==
    /\ pc[b] = "searching"
    /\ config[b].top_k <= 0
    /\ Unmeasured(b) # {}
    /\ Goes(b, "failed")
    /\ UNCHANGED <<table, config, queries, rows, fileVars, reader>>

(* Mutant: the results are written after a failed search, too.             *)
StopEarly(b) ==
    /\ pc[b] = "searching"
    /\ Goes(b, "make_directory")
    /\ UNCHANGED <<table, config, queries, rows, fileVars, reader>>

(* The Qdrant client is closed and the payload put together.               *)
FinishSearches(b) ==
    /\ pc[b] = "searching"
    /\ Unmeasured(b) = {}
    /\ Goes(b, "make_directory")
    /\ UNCHANGED <<table, config, queries, rows, fileVars, reader>>

-----------------------------------------------------------------------------
(* Artifacts.                                                              *)

MakeDirectory(b) ==
    /\ pc[b] = "make_directory"
    /\ dirs' = dirs \union {b}
    /\ Goes(b, "open_json")
    /\ UNCHANGED <<table, config, queries, rows, content, artifacts, reader>>

(* Path.write_text truncates or creates the file, then writes it.          *)
OpenJson(b) ==
    /\ pc[b] = "open_json"
    /\ content' = [content EXCEPT ![b] = Partial]
    /\ Goes(b, "write_json")
    /\ UNCHANGED <<table, config, queries, rows, dirs, artifacts, reader>>

WriteJson(b) ==
    /\ pc[b] = "write_json"
    /\ content' = [content EXCEPT ![b] = Complete(rows[b])]
    /\ Goes(b, "write_csv")
    /\ UNCHANGED <<table, config, queries, rows, dirs, artifacts, reader>>

WriteArtifact(b, stage, written, next) ==
    /\ pc[b] = stage
    /\ artifacts' = [artifacts EXCEPT ![b] = @ \union written]
    /\ Goes(b, next)
    /\ UNCHANGED <<table, config, queries, rows, dirs, content, reader>>

(* Without rows, results.csv is empty and there is no strategy chart.      *)
WriteOthers(b) ==
    \/ WriteArtifact(b, "write_csv", {"results.csv"}, "write_summary")
    \/ WriteArtifact(b, "write_summary", {"summary.md"}, "write_basic_chart")
    \/ WriteArtifact(b, "write_basic_chart",
                     IF HasMatplotlib THEN {"latency_by_query_type.png"} ELSE {}, "write_strategy_chart")
    \/ WriteArtifact(b, "write_strategy_chart",
                     IF HasMatplotlib /\ rows[b] # NoRows THEN {"strategy_comparison.png"} ELSE {}, "respond")

(* Mutant: the answer is sent while the files are still to be written.     *)
RespondFirst(b) ==
    /\ pc[b] \in {"make_directory", "respond"}
    /\ Goes(b, "reported")
    /\ UNCHANGED <<table, config, queries, rows, fileVars, reader>>

(* The handler answers, or the script prints, with the run's id.           *)
Respond(b) ==
    /\ pc[b] = "respond"
    /\ Goes(b, "reported")
    /\ UNCHANGED <<table, config, queries, rows, fileVars, reader>>

(* A store, a file or the process fails; what was written stays.           *)
FailRun(b) ==
    /\ pc[b] \notin Over
    /\ Goes(b, "failed")
    /\ UNCHANGED <<table, config, queries, rows, fileVars, reader>>

-----------------------------------------------------------------------------
(* Readers: GET /benchmark/runs/{run_id} and GET /benchmark/runs.          *)

Reported == {b \in Runs : pc[b] = "reported"}

AskFor(b) ==
    /\ reader = Idle
    /\ reader' = [Idle EXCEPT !.does = "find", !.run = b, !.known = Reported]
    /\ UNCHANGED <<table, runVars, fileVars>>

AskForList ==
    /\ reader = Idle
    /\ reader' = [Idle EXCEPT !.does = "find_root", !.known = Reported]
    /\ UNCHANGED <<table, runVars, fileVars>>

Answered(status, listed) ==
    [does |-> "answered", run |-> reader.run, known |-> reader.known, status |-> status, listed |-> listed]

Find ==
    /\ reader.does = "find"
    /\ reader' = IF content[reader.run].state = "missing" THEN Answered(404, {}) ELSE [reader EXCEPT !.does = "read"]
    /\ UNCHANGED <<table, runVars, fileVars>>

(* json.loads raises on a file that is not complete.                       *)
Read ==
    /\ reader.does = "read"
    /\ reader' = Answered(IF content[reader.run].state = "partial" THEN 500 ELSE 200, {})
    /\ UNCHANGED <<table, runVars, fileVars>>

(* The root appears with the first run's directory.                        *)
FindRoot ==
    /\ reader.does = "find_root"
    /\ reader' = IF dirs = {} THEN Answered(200, {}) ELSE [reader EXCEPT !.does = "list"]
    /\ UNCHANGED <<table, runVars, fileVars>>

List ==
    /\ reader.does = "list"
    /\ reader' = Answered(200, dirs)
    /\ UNCHANGED <<table, runVars, fileVars>>

Leave ==
    /\ reader.does = "answered"
    /\ reader' = Idle
    /\ UNCHANGED <<table, runVars, fileVars>>

RunStep(b) ==
    \/ \E c \in Configs \union {NoConfig} : Request(b, c)
    \/ ReadConfig(b) \/ ReadQueries(b) \/ Measure(b) \/ RejectTopK(b) \/ FinishSearches(b)
    \/ MakeDirectory(b) \/ OpenJson(b) \/ WriteJson(b) \/ WriteOthers(b) \/ Respond(b)
    \/ FailRun(b)

ReaderStep == AskForList \/ (\E b \in Runs : AskFor(b)) \/ Find \/ Read \/ FindRoot \/ List \/ Leave

Next == Reseed \/ (\E b \in Runs : RunStep(b)) \/ ReaderStep

Spec == Init /\ [][Next]_vars

-----------------------------------------------------------------------------

Artifacts == {"results.csv", "summary.md", "latency_by_query_type.png", "strategy_comparison.png"}

ReaderType ==
    [does : {"idle", "find", "read", "find_root", "list", "answered"}, run : Runs \union {NoRun},
     known : SUBSET Runs, status : {0, 200, 404, 500}, listed : SUBSET Runs]

(* Every variable has its type; a run measures the cells of its config and *)
(* its queries, and what it stores are its rows.                           *)
TypeOK ==
    /\ table \in Tables
    /\ pc \in [Runs -> Stages]
    /\ config \in [Runs -> Configs \union {NoConfig}]
    /\ queries \in [Runs -> Tables]
    /\ DOMAIN rows = Runs
    /\ DOMAIN content = Runs
    /\ dirs \subseteq Runs
    /\ artifacts \in [Runs -> SUBSET Artifacts]
    /\ reader \in ReaderType
    /\ \A b \in Runs :
        /\ pc[b] \in {"unused", "not_found"} <=> config[b] = NoConfig
        /\ IF config[b] = NoConfig THEN rows[b] = NoRows ELSE DOMAIN rows[b] \subseteq Cells(b)
        /\ content[b] \in {NoFile, Partial, Complete(rows[b])}

Stored(b) == content[b].state = "complete"

(* Whatever fails and whenever: a results.json that can be read holds one  *)
(* row for every strategy and every query of its run, and a directory with *)
(* any other artifact has such a results.json.                             *)
StoredRowsAreWhole ==
    \A b \in Runs :
        /\ Stored(b) => DOMAIN content[b].rows = Cells(b)
        /\ artifacts[b] # {} => Stored(b)

(* A run whose id was handed out is found by everyone who asks later: its  *)
(* results are read, never missing or half written, and it is listed,      *)
(* whatever other runs do or leave behind (one run is checked; the theorem *)
(* Found of BenchmarkRunProofs is about any number of them).               *)
ReportedRunsFound ==
    reader.does = "answered" =>
        IF reader.run = NoRun THEN reader.known \subseteq reader.listed
        ELSE reader.run \in reader.known => reader.status = 200

(* docs/benchmark_methodology.md:7 asks for identical query sets: all the  *)
(* strategies of a run are measured on the same queries and labels, even   *)
(* if the table is seeded anew while the run goes on.                      *)
SameQueries ==
    \A b \in Runs : \A c, e \in DOMAIN rows[b] :
        c[2] = e[2] => rows[b][c].query = rows[b][e].query

AtMostOne(f) == f.num <= f.den

Agree(m, none) ==
    /\ \A name \in DOMAIN m : AtMostOne(m[name])
    /\ \A x, y \in {m.recall, m.hit_rate, m.mrr, m.ndcg} :
          (x.num = 0 <=> y.num = 0) /\ (none => (x.num = x.den <=> y.num = y.den))
    /\ ~ none => m.precision.num = m.recall.num

(* The five metrics of a row tell the same story: each lies between 0 and  *)
(* 1; where something is relevant, either all of them find something or    *)
(* none does, with as many hits for recall as for precision; where nothing *)
(* is, all but precision are 1 for an empty answer and 0 for any other.    *)
MetricsAgree ==
    \A b \in Runs : \A c \in DOMAIN rows[b] :
        Agree(rows[b][c].metrics, Relevant(rows[b][c].query) = {})

Counted(summaries) == SumFunction([k \in DOMAIN summaries |-> summaries[k].count])

(* The summaries of a stored run add up: every row is counted once by each *)
(* grouping, the finest one included, and the percentiles of a strategy    *)
(* lie in order between its fastest and its slowest search.                *)
AddUp(rs) ==
    LET byStrategy == summarize_by_strategy(rs)
        byType == summarize_by_query_type(rs, DOMAIN rs)
        byBoth == summarize_by_strategy_and_query_type(rs)
    IN  /\ Counted(byStrategy) = Cardinality(DOMAIN rs)
        /\ Counted(byType) = Cardinality(DOMAIN rs)
        /\ \A name \in DOMAIN byStrategy :
              LET s == byStrategy[name]
              IN  /\ Counted(byBoth[name]) = s.count
                  /\ \A c \in DOMAIN rs : rs[c].strategy = name => 100 * rs[c].latency <= s.max
                  /\ \E c \in DOMAIN rs : rs[c].strategy = name /\ 100 * rs[c].latency <= s.p50
                  /\ s.p50 <= s.p95 /\ s.p95 <= s.p99 /\ s.p99 <= s.max

SummariesAddUp == \A b \in Runs : Stored(b) => AddUp(content[b].rows)

(* Rows are summarized by the name of their strategy: rows of one name     *)
(* were measured with one retriever.  Only entries for the adaptive        *)
(* strategy may share a name and differ in backend or fusion method.       *)
NamesTell ==
    \A b \in Runs : \A c, e \in DOMAIN rows[b] :
        (rows[b][c].strategy = rows[b][e].strategy /\ rows[b][c].retriever.strategy # "adaptive")
            => rows[b][c].retriever = rows[b][e].retriever

-----------------------------------------------------------------------------
(* The inductive invariant of BenchmarkRunProofs.                          *)

BeforeFiles == {"unused", "not_found", "read_config", "read_queries", "searching",
                "make_directory", "open_json"}
AfterJson == {"write_csv", "write_summary", "write_basic_chart", "write_strategy_chart",
              "respond", "reported"}

(* A row that the search of cell c may have given.                         *)
Measured(b, c, row) ==
    /\ config[b].top_k > 0
    /\ \E results \in Results, latency \in LatenciesMs :
        /\ Len(results) <= config[b].top_k
        /\ row = Row(SpecsOf(config[b])[c[1]], Query(b, c[2]), config[b].top_k, results, latency)

RowsFit(b) == \A c \in DOMAIN rows[b] : Measured(b, c, rows[b][c])

(* Files are written after the last search, and results.json first.        *)
FilesFit(b) ==
    /\ pc[b] \in {"unused", "not_found", "read_config", "read_queries"} => rows[b] = NoRows
    /\ pc[b] \in {"make_directory", "open_json", "write_json"} \union AfterJson =>
          DOMAIN rows[b] = Cells(b)
    /\ pc[b] \in BeforeFiles => content[b] = NoFile /\ artifacts[b] = {}
    /\ pc[b] \in AfterJson => Stored(b)
    /\ pc[b] \in {"open_json", "write_json"} \union AfterJson => b \in dirs

(* What a reader was told, and what it is about to be told.                *)
ReaderFits ==
    /\ reader.known \subseteq Reported
    /\ reader.does \in {"find", "read"} => reader.run \in Runs
    /\ reader.does \in {"find_root", "list"} => reader.run = NoRun

Inv ==
    /\ TypeOK
    /\ \A b \in Runs : RowsFit(b) /\ FilesFit(b)
    /\ ReaderFits
    /\ StoredRowsAreWhole
    /\ ReportedRunsFound

=============================================================================
