------------------------- MODULE BenchmarkRunProofs -------------------------
(***************************************************************************)
(* For any number of runs, any configs, tables of queries, results and     *)
(* failures: what a benchmark run stores, who finds it, and what its       *)
(* metrics and its summaries say.                                          *)
(***************************************************************************)
EXTENDS BenchmarkRun, DataProofs

LEMMA NoRowsIsEmpty == DOMAIN NoRows = {}
BY DEF NoRows

LEMMA InitInv == Init => Inv
<1> SUFFICES ASSUME Init PROVE Inv
  OBVIOUS
<1>1. TypeOK
  BY InputsAssumption DEF Init, TypeOK, Stages, Artifacts, ReaderType, Idle
<1>2. \A b \in Runs : RowsFit(b) /\ FilesFit(b)
  BY NoRowsIsEmpty DEF Init, RowsFit, FilesFit, BeforeFiles, AfterJson
<1>3. ReaderFits /\ ReportedRunsFound
  BY DEF Init, ReaderFits, ReportedRunsFound, Idle
<1>4. StoredRowsAreWhole
  BY DEF Init, StoredRowsAreWhole, Stored, NoFile
<1> QED
  BY <1>1, <1>2, <1>3, <1>4 DEF Inv

(* What the invariant says of one run.                                     *)
Local(b) ==
    /\ pc[b] \in {"unused", "not_found"} <=> config[b] = NoConfig
    /\ IF config[b] = NoConfig THEN rows[b] = NoRows ELSE DOMAIN rows[b] \subseteq Cells(b)
    /\ content[b] \in {NoFile, Partial, Complete(rows[b])}
    /\ RowsFit(b)
    /\ FilesFit(b)
    /\ Stored(b) => DOMAIN content[b].rows = Cells(b)
    /\ artifacts[b] # {} => Stored(b)

Types ==
    /\ table \in Tables
    /\ pc \in [Runs -> Stages]
    /\ config \in [Runs -> Configs \union {NoConfig}]
    /\ queries \in [Runs -> Tables]
    /\ DOMAIN rows = Runs
    /\ DOMAIN content = Runs
    /\ dirs \subseteq Runs
    /\ artifacts \in [Runs -> SUBSET Artifacts]
    /\ reader \in ReaderType

LEMMA InvSplit ==
    /\ Inv <=> /\ Types /\ ReaderFits /\ ReportedRunsFound
               /\ \A b \in Runs : Local(b)
    /\ Inv' <=> /\ Types' /\ ReaderFits' /\ ReportedRunsFound'
                /\ \A b \in Runs : Local(b)'
BY DEF Inv, TypeOK, Types, Local, StoredRowsAreWhole

-----------------------------------------------------------------------------
(* A step of run b leaves the other runs and the reader alone.             *)

Same(c) ==
    /\ pc'[c] = pc[c] /\ config'[c] = config[c] /\ queries'[c] = queries[c] /\ rows'[c] = rows[c]
    /\ content'[c] = content[c] /\ artifacts'[c] = artifacts[c]
    /\ c \in dirs => c \in dirs'

LEMMA SameKeepsLocal ==
    ASSUME NEW c \in Runs, Local(c), Same(c)
    PROVE  Local(c)'
<1>1. Cells(c)' = Cells(c)
  BY DEF Cells, Same
<1>2. RowsFit(c)'
  BY DEF Local, RowsFit, Measured, Query, Same
<1>3. FilesFit(c)'
  BY <1>1 DEF Local, FilesFit, Stored, Same
<1> QED
  BY <1>1, <1>2, <1>3 DEF Local, Stored, Same

(* What a step of run b has to show.                                       *)
StepOf(b) ==
    /\ Types'
    /\ reader' = reader
    /\ \A c \in Runs \ {b} : Same(c)
    /\ Local(b)'
    /\ pc[b] # "reported"

LEMMA MoveOn ==
    ASSUME Types, NEW b \in Runs, NEW stage \in Stages, Goes(b, stage), pc[b] # "reported",
           UNCHANGED <<table, config, queries, rows, dirs, content, artifacts, reader>>,
           Local(b)'
    PROVE  StepOf(b)
BY DEF Types, StepOf, Same, Goes

LEMMA RequestStep ==
    ASSUME Inv, NEW b \in Runs, NEW c \in Configs \union {NoConfig}, Request(b, c)
    PROVE  StepOf(b)
<1>1. Types /\ Local(b)
  BY InvSplit
<1>2. rows[b] = NoRows /\ DOMAIN rows[b] = {} /\ content[b] = NoFile /\ artifacts[b] = {}
  BY <1>1, NoRowsIsEmpty DEF Request, Local, FilesFit, BeforeFiles
<1>3. /\ pc' = [pc EXCEPT ![b] = IF c = NoConfig THEN "not_found" ELSE "read_config"]
      /\ config' = [config EXCEPT ![b] = c]
      /\ pc[b] = "unused"
      /\ UNCHANGED <<table, queries, rows, dirs, content, artifacts, reader>>
  BY DEF Request, Goes, fileVars
<1>4. Types'
  BY <1>1, <1>3 DEF Types, Stages
<1>5. pc'[b] = (IF c = NoConfig THEN "not_found" ELSE "read_config") /\ config'[b] = c
  BY <1>1, <1>3 DEF Types
<1>6. RowsFit(b)'
  BY <1>2, <1>3 DEF RowsFit
<1>7. FilesFit(b)'
  BY <1>2, <1>3, <1>5 DEF FilesFit, BeforeFiles, AfterJson
<1>8. Local(b)'
  BY <1>2, <1>3, <1>5, <1>6, <1>7, InputsAssumption DEF Local, Stored, NoFile
<1>9. \A d \in Runs \ {b} : Same(d)
  BY <1>1, <1>3 DEF Types, Same
<1> QED
  BY <1>3, <1>4, <1>8, <1>9 DEF StepOf

(* A step that only moves the run on to a stage where what it has done     *)
(* already is what that stage asks for.                                    *)
LEMMA OnlyMoves ==
    ASSUME Inv, NEW b \in Runs, NEW stage \in Stages, Goes(b, stage),
           pc[b] \notin Over, stage \notin {"unused", "not_found"},
           UNCHANGED <<table, config, queries, rows, fileVars, reader>>,
           stage = "read_queries" => pc[b] = "read_config",
           stage \in {"read_config", "searching", "open_json", "write_json"} => FALSE,
           stage = "make_directory" => pc[b] = "searching" /\ DOMAIN rows[b] = Cells(b),
           stage \in AfterJson => pc[b] \in AfterJson
    PROVE  StepOf(b)
<1>1. Types /\ Local(b)
  BY InvSplit
<1>2. pc'[b] = stage
  BY <1>1 DEF Goes, Types
<1>3. Cells(b)' = Cells(b) /\ RowsFit(b)' /\ (Stored(b)' <=> Stored(b))
  BY <1>1 DEF Cells, Local, RowsFit, Measured, Query, fileVars, Stored
<1>4. FilesFit(b)'
  BY <1>1, <1>2, <1>3 DEF Local, FilesFit, fileVars, BeforeFiles, AfterJson, Over, Stages
<1>5. Local(b)'
  BY <1>1, <1>2, <1>3, <1>4 DEF Local, fileVars, Over
<1> QED
  BY <1>1, <1>5, MoveOn DEF fileVars, Over

LEMMA MovingSteps ==
    ASSUME Inv, NEW b \in Runs,
           ReadConfig(b) \/ RejectTopK(b) \/ FinishSearches(b) \/ Respond(b) \/ FailRun(b)
    PROVE  StepOf(b)
<1> USE DEF Stages, Over, AfterJson
<1>1. Types /\ Local(b)
  BY InvSplit
<1>2. CASE ReadConfig(b)
  BY <1>2, OnlyMoves DEF ReadConfig
<1>3. CASE RejectTopK(b)
  BY <1>3, OnlyMoves DEF RejectTopK
<1>4. CASE FinishSearches(b)
  <2>1. config[b] # NoConfig
    BY <1>1, <1>4 DEF Local, FinishSearches
  <2>2. DOMAIN rows[b] = Cells(b)
    BY <1>1, <1>4, <2>1 DEF Local, FinishSearches, Unmeasured
  <2> QED
    BY <1>4, <2>2, OnlyMoves DEF FinishSearches
<1>5. CASE Respond(b)
  BY <1>5, OnlyMoves DEF Respond
<1>6. CASE FailRun(b)
  BY <1>6, OnlyMoves DEF FailRun
<1> QED
  BY <1>2, <1>3, <1>4, <1>5, <1>6

LEMMA ReadQueriesStep ==
    ASSUME Inv, NEW b \in Runs, ReadQueries(b)
    PROVE  StepOf(b)
<1>1. Types /\ Local(b)
  BY InvSplit
<1>2. rows[b] = NoRows /\ DOMAIN rows[b] = {} /\ content[b] = NoFile /\ artifacts[b] = {}
  BY <1>1, NoRowsIsEmpty DEF ReadQueries, Local, FilesFit, BeforeFiles
<1>3. /\ pc' = [pc EXCEPT ![b] = "searching"]
      /\ queries' = [queries EXCEPT ![b] = table]
      /\ pc[b] = "read_queries"
      /\ UNCHANGED <<table, config, rows, dirs, content, artifacts, reader>>
  BY DEF ReadQueries, Goes, fileVars
<1>4. Types'
  BY <1>1, <1>3 DEF Types, Stages
<1>5. pc'[b] = "searching"
  BY <1>1, <1>3 DEF Types
<1>6. RowsFit(b)'
  BY <1>2, <1>3 DEF RowsFit
<1>7. FilesFit(b)'
  BY <1>2, <1>3, <1>5 DEF FilesFit, BeforeFiles, AfterJson
<1>8. Local(b)'
  BY <1>1, <1>2, <1>3, <1>5, <1>6, <1>7 DEF Local, Stored, NoFile
<1>9. \A d \in Runs \ {b} : Same(d)
  BY <1>1, <1>3 DEF Types, Same
<1> QED
  BY <1>3, <1>4, <1>8, <1>9 DEF StepOf

LEMMA MeasureStep ==
    ASSUME Inv, NEW b \in Runs, Measure(b)
    PROVE  StepOf(b)
<1>1. Types /\ Local(b)
  BY InvSplit
<1>2. content[b] = NoFile /\ artifacts[b] = {} /\ config[b] # NoConfig
      /\ DOMAIN rows[b] \subseteq Cells(b)
  BY <1>1 DEF Measure, Local, FilesFit, BeforeFiles
<1>3. PICK c \in Unmeasured(b), results \in Results, latency \in LatenciesMs :
        Len(results) <= config[b].top_k /\
        rows' = [rows EXCEPT ![b] =
                   [e \in DOMAIN rows[b] \union {c} |->
                      IF e = c
                      THEN Row(SpecsOf(config[b])[c[1]], Query(b, c[2]), config[b].top_k, results, latency)
                      ELSE rows[b][e]]]
  BY DEF Measure
<1>4. pc[b] = "searching" /\ UNCHANGED <<table, pc, config, queries, dirs, content, artifacts, reader>>
  BY DEF Measure, fileVars
<1> DEFINE row == Row(SpecsOf(config[b])[c[1]], Query(b, c[2]), config[b].top_k, results, latency)
<1>5. rows'[b] = [e \in DOMAIN rows[b] \union {c} |-> IF e = c THEN row ELSE rows[b][e]]
  BY <1>1, <1>3 DEF Types
<1>6. Types'
  BY <1>1, <1>3, <1>4 DEF Types
<1>7. Cells(b)' = Cells(b)
  BY <1>4 DEF Cells
<1>8. DOMAIN rows'[b] \subseteq Cells(b)'
  BY <1>2, <1>3, <1>5, <1>7 DEF Unmeasured
<1>9. Measured(b, c, row)
  BY <1>3 DEF Measured, Measure
<1>10. RowsFit(b)'
  <2> SUFFICES ASSUME NEW e \in DOMAIN rows'[b]
               PROVE  Measured(b, e, rows[b][e])'
    BY DEF RowsFit
  <2> HIDE DEF row
  <2>1. Measured(b, e, rows'[b][e])
    <3>1. CASE e = c
      BY <1>5, <1>9, <3>1
    <3>2. CASE e # c
      <4>1. e \in DOMAIN rows[b] /\ rows'[b][e] = rows[b][e]
        BY <1>5, <3>2
      <4> QED
        BY <1>1, <4>1 DEF Local, RowsFit
    <3> QED
      BY <3>1, <3>2
  <2> QED
    BY <1>4, <2>1 DEF Measured, Query
<1>11. FilesFit(b)'
  BY <1>2, <1>4 DEF FilesFit, BeforeFiles, AfterJson
<1>12. Local(b)'
  BY <1>2, <1>4, <1>8, <1>10, <1>11 DEF Local, Stored, NoFile
<1>13. \A d \in Runs \ {b} : Same(d)
  BY <1>1, <1>3, <1>4 DEF Types, Same
<1> QED
  BY <1>4, <1>6, <1>12, <1>13 DEF StepOf

(* What a row keeps of its cell.                                           *)
LEMMA RowFields ==
    ASSUME NEW b, RowsFit(b), NEW c \in DOMAIN rows[b]
    PROVE  /\ rows[b][c].query = Query(b, c[2])
           /\ rows[b][c].strategy = SpecsOf(config[b])[c[1]].name
           /\ rows[b][c].query_type = Query(b, c[2]).query_type
           /\ rows[b][c].retriever = Retriever(SpecsOf(config[b])[c[1]])
           /\ rows[b][c].latency \in LatenciesMs
<1>1. PICK results \in Results, latency \in LatenciesMs :
        rows[b][c] = Row(SpecsOf(config[b])[c[1]], Query(b, c[2]), config[b].top_k, results, latency)
  BY DEF RowsFit, Measured
<1> DEFINE spec == SpecsOf(config[b])[c[1]]
           query == Query(b, c[2])
           top_k == config[b].top_k
<1>2. rows[b][c] = Row(spec, query, top_k, results, latency)
  BY <1>1
<1> HIDE DEF spec, query, top_k
<1>3. /\ rows[b][c].query = query /\ rows[b][c].strategy = spec.name
      /\ rows[b][c].query_type = query.query_type
      /\ rows[b][c].retriever = Retriever(spec) /\ rows[b][c].latency = latency
  BY <1>2 DEF Row
<1> QED
  BY <1>3 DEF spec, query

-----------------------------------------------------------------------------
(* Files.                                                                  *)

LEMMA FileStep ==
    ASSUME Inv, NEW b \in Runs, MakeDirectory(b) \/ OpenJson(b) \/ WriteJson(b)
    PROVE  StepOf(b)
<1>1. Types /\ Local(b)
  BY InvSplit
<1>2. UNCHANGED <<table, config, queries, rows, artifacts, reader>>
  BY DEF MakeDirectory, OpenJson, WriteJson
<1>3. Cells(b)' = Cells(b) /\ RowsFit(b)' /\ config[b] # NoConfig /\ DOMAIN rows[b] = Cells(b)
  BY <1>1, <1>2 DEF Cells, Local, RowsFit, Measured, FilesFit, Query, AfterJson, MakeDirectory, OpenJson, WriteJson
<1>4. CASE MakeDirectory(b)
  <2>1. pc' = [pc EXCEPT ![b] = "open_json"] /\ pc[b] = "make_directory" /\ dirs' = dirs \union {b}
        /\ content' = content
    BY <1>4 DEF MakeDirectory, Goes
  <2>2. Types' /\ pc'[b] = "open_json"
    BY <1>1, <1>2, <2>1 DEF Types, Stages
  <2>3. content[b] = NoFile /\ artifacts[b] = {}
    BY <1>1, <2>1 DEF Local, FilesFit, BeforeFiles
  <2>4. FilesFit(b)'
    BY <1>2, <1>3, <2>1, <2>2, <2>3 DEF FilesFit, BeforeFiles, AfterJson
  <2>5. Local(b)'
    BY <1>2, <1>3, <2>1, <2>2, <2>3, <2>4 DEF Local, Stored, NoFile
  <2>6. \A d \in Runs \ {b} : Same(d)
    BY <1>1, <1>2, <2>1 DEF Types, Same
  <2> QED
    BY <1>2, <2>1, <2>2, <2>5, <2>6 DEF StepOf
<1>5. CASE OpenJson(b)
  <2>1. pc' = [pc EXCEPT ![b] = "write_json"] /\ pc[b] = "open_json" /\ dirs' = dirs
        /\ content' = [content EXCEPT ![b] = Partial]
    BY <1>5 DEF OpenJson, Goes
  <2>2. Types' /\ pc'[b] = "write_json" /\ content'[b] = Partial
    BY <1>1, <1>2, <2>1 DEF Types, Stages
  <2>3. artifacts[b] = {} /\ b \in dirs
    BY <1>1, <2>1 DEF Local, FilesFit, BeforeFiles
  <2>4. FilesFit(b)'
    BY <1>2, <1>3, <2>1, <2>2, <2>3 DEF FilesFit, BeforeFiles, AfterJson
  <2>5. Local(b)'
    BY <1>2, <1>3, <2>1, <2>2, <2>3, <2>4 DEF Local, Stored, Partial
  <2>6. \A d \in Runs \ {b} : Same(d)
    BY <1>1, <1>2, <2>1 DEF Types, Same
  <2> QED
    BY <1>2, <2>1, <2>2, <2>5, <2>6 DEF StepOf
<1>6. CASE WriteJson(b)
  <2>1. pc' = [pc EXCEPT ![b] = "write_csv"] /\ pc[b] = "write_json" /\ dirs' = dirs
        /\ content' = [content EXCEPT ![b] = Complete(rows[b])]
    BY <1>6 DEF WriteJson, Goes
  <2>2. Types' /\ pc'[b] = "write_csv" /\ content'[b] = Complete(rows[b])
    BY <1>1, <1>2, <2>1 DEF Types, Stages
  <2>3. b \in dirs
    BY <1>1, <2>1 DEF Local, FilesFit
  <2>4. Stored(b)' /\ content'[b].rows = rows[b] /\ rows'[b] = rows[b]
    BY <1>2, <2>2 DEF Stored, Complete
  <2>5. FilesFit(b)'
    BY <1>2, <1>3, <2>1, <2>2, <2>3, <2>4 DEF FilesFit, BeforeFiles, AfterJson
  <2>6. Local(b)'
    BY <1>2, <1>3, <2>1, <2>2, <2>4, <2>5 DEF Local
  <2>7. \A d \in Runs \ {b} : Same(d)
    BY <1>1, <1>2, <2>1 DEF Types, Same
  <2> QED
    BY <1>2, <2>1, <2>2, <2>6, <2>7 DEF StepOf
<1> QED
  BY <1>4, <1>5, <1>6

LEMMA WriteOthersStep ==
    ASSUME Inv, NEW b \in Runs, WriteOthers(b)
    PROVE  StepOf(b)
<1>1. Types /\ Local(b)
  BY InvSplit
<1>2. PICK stage \in AfterJson, next \in AfterJson, written \in SUBSET Artifacts :
        WriteArtifact(b, stage, written, next) /\ stage # "reported"
  BY DEF WriteOthers, AfterJson, Artifacts
<1>3. /\ pc' = [pc EXCEPT ![b] = next]
      /\ artifacts' = [artifacts EXCEPT ![b] = @ \union written]
      /\ pc[b] = stage
      /\ UNCHANGED <<table, config, queries, rows, dirs, content, reader>>
  BY <1>2 DEF WriteArtifact, Goes
<1>4. pc'[b] = next /\ Types'
  BY <1>1, <1>3 DEF Types, Stages, AfterJson
<1>5. Stored(b) /\ Stored(b)'
  BY <1>1, <1>2, <1>3 DEF Local, FilesFit, Stored
<1>6. Cells(b)' = Cells(b) /\ RowsFit(b)'
  BY <1>1, <1>3 DEF Cells, Local, RowsFit, Measured, Query
<1>7. FilesFit(b)'
  BY <1>1, <1>3, <1>4, <1>5, <1>6 DEF Local, FilesFit, BeforeFiles, AfterJson
<1>8. Local(b)'
  BY <1>1, <1>3, <1>4, <1>5, <1>6, <1>7 DEF Local, AfterJson
<1>9. \A d \in Runs \ {b} : Same(d)
  BY <1>1, <1>3 DEF Types, Same
<1> QED
  BY <1>2, <1>3, <1>4, <1>8, <1>9 DEF StepOf

-----------------------------------------------------------------------------
(* The invariant is inductive.                                             *)

LEMMA RunStepInv ==
    ASSUME Inv, NEW b \in Runs, RunStep(b)
    PROVE  Inv'
<1>1. StepOf(b)
  BY RequestStep, MovingSteps, ReadQueriesStep, MeasureStep, FileStep, WriteOthersStep DEF RunStep
<1>2. \A c \in Runs : Local(c)'
  BY <1>1, InvSplit, SameKeepsLocal DEF StepOf
<1>3. Reported \subseteq Reported'
  BY <1>1 DEF StepOf, Same, Reported
<1>4. ReaderFits' /\ ReportedRunsFound'
  BY <1>1, <1>3, InvSplit DEF StepOf, ReaderFits, ReportedRunsFound
<1> QED
  BY <1>1, <1>2, <1>4, InvSplit DEF StepOf

(* Who was reported has stored its results, in a directory of its own.     *)
LEMMA ReportedIsStored ==
    ASSUME Inv, NEW b \in Reported
    PROVE  b \in Runs /\ b \in dirs /\ Stored(b)
BY InvSplit DEF Reported, Local, FilesFit, AfterJson

LEMMA ReaderMoves ==
    ASSUME NEW does \in {"idle", "find", "read", "find_root", "list", "answered"},
           NEW run \in Runs \union {NoRun}, NEW known \in SUBSET Runs,
           NEW status \in {0, 200, 404, 500}, NEW listed \in SUBSET Runs,
           reader' = [does |-> does, run |-> run, known |-> known, status |-> status, listed |-> listed],
           Reported' = Reported, known \subseteq Reported,
           does \in {"find", "read"} => run \in Runs,
           does \in {"find_root", "list"} => run = NoRun,
           does = "answered" =>
             IF run = NoRun THEN known \subseteq listed ELSE run \in known => status = 200
    PROVE  reader' \in ReaderType /\ ReaderFits' /\ ReportedRunsFound'
<1>1. /\ reader'.does = does /\ reader'.run = run /\ reader'.known = known
      /\ reader'.status = status /\ reader'.listed = listed
  OBVIOUS
<1>2. reader' \in ReaderType
  BY DEF ReaderType
<1>3. ReaderFits'
  BY <1>1 DEF ReaderFits
<1>4. ReportedRunsFound'
  BY <1>1 DEF ReportedRunsFound
<1> QED
  BY <1>2, <1>3, <1>4

LEMMA ReaderStepInv ==
    ASSUME Inv, ReaderStep
    PROVE  Inv'
<1>1. Types /\ ReaderFits /\ ReportedRunsFound /\ reader \in ReaderType
  BY InvSplit DEF Types
<1>2. UNCHANGED <<table, pc, config, queries, rows, dirs, content, artifacts>>
  BY DEF ReaderStep, AskForList, AskFor, Find, Read, FindRoot, List, Leave, runVars, fileVars
<1>3. \A b \in Runs : Local(b)'
  BY <1>2, InvSplit, SameKeepsLocal DEF Same
<1>4. Reported' = Reported /\ Reported \subseteq Runs
  BY <1>2 DEF Reported
<1>5. /\ reader.run \in Runs \union {NoRun} /\ reader.known \in SUBSET Runs
      /\ reader.status \in {0, 200, 404, 500} /\ reader.listed \in SUBSET Runs
      /\ reader.known \subseteq Reported
  BY <1>1 DEF ReaderType, ReaderFits
<1>6. PICK none \in SUBSET Runs : none = {}
  OBVIOUS
<1>7. \A does :
        [reader EXCEPT !.does = does] =
          [does |-> does, run |-> reader.run, known |-> reader.known,
           status |-> reader.status, listed |-> reader.listed]
  BY <1>1 DEF ReaderType
<1>8. reader' \in ReaderType /\ ReaderFits' /\ ReportedRunsFound'
  <2>1. CASE AskForList
    <3>1. reader' = [does |-> "find_root", run |-> NoRun, known |-> Reported, status |-> 0, listed |-> none]
      BY <1>6, <2>1 DEF AskForList, Idle
    <3> QED
      BY <1>4, <3>1, ReaderMoves
  <2>2. CASE \E b \in Runs : AskFor(b)
    <3>1. PICK b \in Runs :
            reader' = [does |-> "find", run |-> b, known |-> Reported, status |-> 0, listed |-> none]
      BY <1>6, <2>2 DEF AskFor, Idle
    <3> QED
      BY <1>4, <3>1, ReaderMoves
  <2>3. CASE Find
    <3>1. reader.run \in Runs /\ reader.run # NoRun
      BY <1>1, <2>3, InputsAssumption DEF Find, ReaderFits
    <3>2. CASE content[reader.run].state = "missing"
      <4>1. reader.run \notin reader.known
        BY <1>5, <3>2, ReportedIsStored DEF Stored
      <4>2. reader' = [does |-> "answered", run |-> reader.run, known |-> reader.known,
                       status |-> 404, listed |-> none]
        BY <1>6, <2>3, <3>2 DEF Find, Answered
      <4> QED
        BY <1>4, <1>5, <3>1, <4>1, <4>2, ReaderMoves
    <3>3. CASE content[reader.run].state # "missing"
      <4>1. reader' = [does |-> "read", run |-> reader.run, known |-> reader.known,
                       status |-> reader.status, listed |-> reader.listed]
        BY <1>7, <2>3, <3>3 DEF Find
      <4> QED
        BY <1>4, <1>5, <3>1, <4>1, ReaderMoves
    <3> QED
      BY <3>2, <3>3
  <2>4. CASE Read
    <3>1. reader.run \in Runs /\ reader.run # NoRun
      BY <1>1, <2>4, InputsAssumption DEF Read, ReaderFits
    <3>2. reader.run \in reader.known => content[reader.run].state # "partial"
      BY <1>5, ReportedIsStored DEF Stored
    <3> DEFINE status == IF content[reader.run].state = "partial" THEN 500 ELSE 200
    <3>3. reader' = [does |-> "answered", run |-> reader.run, known |-> reader.known,
                     status |-> status, listed |-> none]
      BY <1>6, <2>4 DEF Read, Answered
    <3>4. status \in {200, 500} /\ (reader.run \in reader.known => status = 200)
      BY <3>2
    <3> HIDE DEF status
    <3> QED
      BY <1>4, <1>5, <3>1, <3>3, <3>4, ReaderMoves
  <2>5. CASE FindRoot
    <3>1. reader.run = NoRun
      BY <1>1, <2>5 DEF FindRoot, ReaderFits
    <3>2. CASE dirs = {}
      <4>1. reader.known \subseteq none
        BY <1>5, <3>2, ReportedIsStored
      <4>2. reader' = [does |-> "answered", run |-> reader.run, known |-> reader.known,
                       status |-> 200, listed |-> none]
        BY <1>6, <2>5, <3>2 DEF FindRoot, Answered
      <4> QED
        BY <1>4, <1>5, <3>1, <4>1, <4>2, ReaderMoves
    <3>3. CASE dirs # {}
      <4>1. reader' = [does |-> "list", run |-> reader.run, known |-> reader.known,
                       status |-> reader.status, listed |-> reader.listed]
        BY <1>7, <2>5, <3>3 DEF FindRoot
      <4> QED
        BY <1>4, <1>5, <3>1, <4>1, ReaderMoves
    <3> QED
      BY <3>2, <3>3
  <2>6. CASE List
    <3>1. reader.run = NoRun
      BY <1>1, <2>6 DEF List, ReaderFits
    <3>2. reader.known \subseteq dirs /\ dirs \in SUBSET Runs
      BY <1>1, <1>5, ReportedIsStored DEF Types
    <3>3. reader' = [does |-> "answered", run |-> reader.run, known |-> reader.known,
                     status |-> 200, listed |-> dirs]
      BY <1>6, <2>6 DEF List, Answered
    <3> QED
      BY <1>4, <1>5, <3>1, <3>2, <3>3, ReaderMoves
  <2>7. CASE Leave
    <3>1. reader' = [does |-> "idle", run |-> NoRun, known |-> {}, status |-> 0, listed |-> none]
      BY <1>6, <2>7 DEF Leave, Idle
    <3> QED
      BY <1>4, <3>1, ReaderMoves
  <2> QED
    BY <2>1, <2>2, <2>3, <2>4, <2>5, <2>6, <2>7 DEF ReaderStep
<1>9. Types'
  BY <1>1, <1>2, <1>8 DEF Types
<1> QED
  BY <1>3, <1>8, <1>9, InvSplit

LEMMA NextInv == Inv /\ [Next]_vars => Inv'
<1> SUFFICES ASSUME Inv, [Next]_vars PROVE Inv'
  OBVIOUS
<1>1. CASE Reseed
  <2>1. table' \in Tables
        /\ UNCHANGED <<pc, config, queries, rows, dirs, content, artifacts, reader>>
    BY <1>1 DEF Reseed, runVars, fileVars
  <2>2. \A b \in Runs : Local(b)'
    BY <2>1, InvSplit, SameKeepsLocal DEF Same
  <2> QED
    BY <2>1, <2>2, InvSplit DEF Types, ReaderFits, ReportedRunsFound, Reported
<1>2. CASE \E b \in Runs : RunStep(b)
  BY <1>2, RunStepInv
<1>3. CASE ReaderStep
  BY <1>3, ReaderStepInv
<1>4. CASE UNCHANGED vars
  <2>1. UNCHANGED <<table, pc, config, queries, rows, dirs, content, artifacts, reader>>
    BY <1>4 DEF vars, runVars, fileVars
  <2>2. \A b \in Runs : Local(b)'
    BY <2>1, InvSplit, SameKeepsLocal DEF Same
  <2> QED
    BY <2>1, <2>2, InvSplit DEF Types, ReaderFits, ReportedRunsFound, Reported
<1> QED
  BY <1>1, <1>2, <1>3, <1>4 DEF Next

THEOREM Invariance == Spec => []Inv
BY InitInv, NextInv, PTL DEF Spec

(* Every variable keeps its type, and rows and files what ties them        *)
(* together.                                                               *)
THEOREM Typed == Spec => []TypeOK
BY Invariance, PTL DEF Inv

(* No failure, at whatever step, leaves a results.json that can be read    *)
(* and lacks a row, or other artifacts without it.                         *)
THEOREM StoredWhole == Spec => []StoredRowsAreWhole
BY Invariance, PTL DEF Inv

(* Whoever asks for a run after its id was handed out finds it.            *)
THEOREM Found == Spec => []ReportedRunsFound
BY Invariance, PTL DEF Inv

(* All strategies of a run answer the same queries.                        *)
THEOREM OneQuerySet == Spec => []SameQueries
<1>1. Inv => SameQueries
  BY RowFields DEF Inv, SameQueries, Query
<1> QED
  BY <1>1, Invariance, PTL

(* Two entries of one display name have one retriever, unless adaptive.    *)
LEMMA NameFixesRetriever ==
    ASSUME NEW d, NEW e, DisplayName(d) = DisplayName(e), d.base # "adaptive"
    PROVE  Retriever(StrategySpec(d)) = Retriever(StrategySpec(e))
<1>1. d.base = e.base
  BY DEF DisplayName
<1>2. d.base \in Hybrids => MethodOf(d) = MethodOf(e)
  BY <1>1 DEF DisplayName
<1> QED
  BY <1>1, <1>2 DEF Retriever, StrategySpec

(* The name under which rows are summarized tells how they were retrieved. *)
THEOREM NamesTellRetrievers == Spec => []NamesTell
<1>1. ASSUME Inv PROVE NamesTell
  <2> SUFFICES ASSUME NEW b \in Runs, NEW c \in DOMAIN rows[b], NEW e \in DOMAIN rows[b],
                      rows[b][c].strategy = rows[b][e].strategy,
                      rows[b][c].retriever.strategy # "adaptive"
               PROVE  rows[b][c].retriever = rows[b][e].retriever
    BY DEF NamesTell
  <2>1. c[1] \in DOMAIN SpecsOf(config[b]) /\ e[1] \in DOMAIN SpecsOf(config[b])
    BY <1>1, InvSplit, NoRowsIsEmpty DEF Local, Cells
  <2>2. PICK entries : SpecsOf(config[b]) = [i \in DOMAIN entries |-> StrategySpec(entries[i])]
    BY DEF SpecsOf
  <2> DEFINE spec(i) == StrategySpec(entries[i])
  <2>3. /\ rows[b][c].strategy = spec(c[1]).name /\ rows[b][c].retriever = Retriever(spec(c[1]))
        /\ rows[b][e].strategy = spec(e[1]).name /\ rows[b][e].retriever = Retriever(spec(e[1]))
    BY <1>1, <2>1, <2>2, RowFields DEF Inv
  <2>4. DisplayName(entries[c[1]]) = DisplayName(entries[e[1]]) /\ entries[c[1]].base # "adaptive"
    <3>1. spec(c[1]).name = DisplayName(entries[c[1]]) /\ spec(e[1]).name = DisplayName(entries[e[1]])
      BY DEF StrategySpec
    <3>2. Retriever(spec(c[1])).strategy = entries[c[1]].base
      BY DEF StrategySpec, Retriever
    <3> HIDE DEF spec
    <3> QED
      BY <2>3, <3>1, <3>2
  <2> QED
    BY <2>3, <2>4, NameFixesRetriever
<1> QED
  BY <1>1, Invariance, PTL

-----------------------------------------------------------------------------
(* Metrics.                                                                *)

(* What unique_preserving_order returns has no repeats and is no longer    *)
(* than what it is given.                                                  *)
LEMMA UniqueOrder ==
    ASSUME NEW n \in Nat, NEW s, DOMAIN s = 1 .. n, NEW u, u = unique_preserving_order(s)
    PROVE  /\ \E S : u \in Seq(S)
           /\ Len(u) <= n
           /\ \A i, j \in DOMAIN u : u[i] = u[j] => i = j
<1> DEFINE F == FirstPlaces(s)
           R == {p \in F \X F : p[1] < p[2]}
           order == OrderedBy(F, R)
<1>1. F \in SUBSET (1 .. n) /\ \A i, j \in F : s[i] = s[j] => i = j
  BY DEF FirstPlaces
<1>2. IsFiniteSet(F) /\ Cardinality(F) \in Nat /\ Cardinality(F) <= n
  BY <1>1, FirstNumbers, FS_Subset, FS_CardinalityType
<1>3. StrictOrder(R, F)
  <2> HIDE DEF F
  <2>1. \A x, y \in F : <<x, y>> \in R <=> x < y
    OBVIOUS
  <2>2. \A x \in F : x \in Int
    BY <1>1
  <2> HIDE DEF R
  <2> QED
    BY <2>1, <2>2 DEF StrictOrder
<1>4. u = [i \in DOMAIN order |-> s[order[i]]]
  BY DEF unique_preserving_order
<1> HIDE DEF F, R
<1>5. /\ order \in [1 .. Cardinality(F) -> F]
      /\ \A i, j \in 1 .. Cardinality(F) : order[i] = order[j] => i = j
  BY <1>2, <1>3, OrderedBySorts
<1> HIDE DEF order
<1> DEFINE m == Cardinality(F)
           S == {s[i] : i \in F}
<1>6. m \in Nat /\ m <= n
  BY <1>2
<1>7. u = [i \in 1 .. m |-> s[order[i]]] /\ \A i \in 1 .. m : order[i] \in F
  BY <1>4, <1>5
<1>8. u \in [1 .. m -> S]
  BY <1>7
<1>9. \A i, j \in 1 .. m : u[i] = u[j] => i = j
  <2> TAKE i, j \in 1 .. m
  <2>1. order[i] \in F /\ order[j] \in F /\ u[i] = s[order[i]] /\ u[j] = s[order[j]]
    BY <1>7
  <2> QED
    BY <1>1, <1>5, <2>1
<1> HIDE DEF m, S
<1>10. u \in Seq(S) /\ Len(u) = m
  BY <1>6, <1>8
<1> QED
  BY <1>6, <1>8, <1>9, <1>10

(* Without repeats there are as many hits as relevant values found.        *)
LEMMA HitsAreFound ==
    ASSUME NEW S, NEW u \in Seq(S), \A i, j \in DOMAIN u : u[i] = u[j] => i = j, NEW relevant
    PROVE  /\ Hits(u, relevant) \in SUBSET (1 .. Len(u))
           /\ IsFiniteSet(Hits(u, relevant))
           /\ Cardinality(Hits(u, relevant)) \in Nat
           /\ Cardinality(ToSet(u) \intersect relevant) = Cardinality(Hits(u, relevant))
<1> DEFINE H == Hits(u, relevant)
           found == ToSet(u) \intersect relevant
           f == [i \in H |-> u[i]]
<1>1. DOMAIN u = 1 .. Len(u) /\ Len(u) \in Nat
  OBVIOUS
<1>2. H \in SUBSET (1 .. Len(u))
  BY <1>1 DEF Hits
<1>3. IsFiniteSet(H) /\ Cardinality(H) \in Nat
  BY <1>1, <1>2, FirstNumbers, FS_Subset, FS_CardinalityType
<1>4. f \in Bijection(H, found)
  <2>1. f \in [H -> found]
    BY <1>1 DEF Hits, ToSet
  <2>2. \A i, j \in H : f[i] = f[j] => i = j
    BY <1>1, <1>2
  <2>3. \A x \in found : \E i \in H : f[i] = x
    BY <1>1 DEF Hits, ToSet
  <2> HIDE DEF f, H, found
  <2> QED
    BY <2>1, <2>2, <2>3 DEF Bijection, Injection, IsInjective, Surjection
<1> HIDE DEF f, H, found
<1>5. Cardinality(found) = Cardinality(H)
  BY <1>3, <1>4, FS_Bijection DEF ExistsBijection
<1> QED
  BY <1>2, <1>3, <1>5 DEF H, found

LEMMA MetricsOfRow ==
    ASSUME NEW S, NEW u \in Seq(S), \A i, j \in DOMAIN u : u[i] = u[j] => i = j,
           NEW k \in Nat \ {0}, Len(u) <= k, 1 .. k \in SUBSET DOMAIN Gain,
           NEW relevant, IsFiniteSet(relevant)
    PROVE  Agree(retrieval_metrics(u, relevant, k), relevant = {})
<1>1. Top(u, k) = u
  <2>1. Minimum(k, Len(u)) = Len(u)
    BY DEF Minimum
  <2>2. SubSeq(u, 1, Len(u)) = u
    OBVIOUS
  <2> QED
    BY <2>1, <2>2 DEF Top
<1>2. AtMostOne(One) /\ AtMostOne(Zero) /\ One.num = 1 /\ One.den = 1 /\ Zero.num = 0 /\ Zero.den = 1
  BY DEF AtMostOne, One, Zero, Fraction
<1>3. CASE relevant = {}
  <2> DEFINE is == Is(u = <<>>)
             m == retrieval_metrics(u, relevant, k)
  <2>1. m = [recall |-> is, precision |-> Zero, hit_rate |-> is, mrr |-> is, ndcg |-> is]
    BY <1>1, <1>3 DEF retrieval_metrics
  <2>2. AtMostOne(is) 
    BY <1>2 DEF Is
  <2> HIDE DEF is, m
  <2>3. \A name \in DOMAIN m : AtMostOne(m[name])
    BY <1>2, <2>1, <2>2
  <2>4. m.recall = is /\ m.hit_rate = is /\ m.mrr = is /\ m.ndcg = is
    BY <2>1
  <2> QED
    BY <1>3, <2>3, <2>4 DEF Agree, m
<1>4. CASE relevant # {}
  <2> DEFINE H == Hits(u, relevant)
             found == ToSet(u) \intersect relevant
             first == {i \in H : \A j \in H : i <= j}
             ideal == Minimum(Cardinality(relevant), k)
             recall == Fraction(Cardinality(found), Cardinality(relevant))
             precision == Fraction(Cardinality(found), k)
             hit_rate == Is(found # {})
             mrr == IF first = {} THEN Zero ELSE Fraction(1, CHOOSE i \in first : TRUE)
             ndcg == Fraction(GainAt(H), GainAt(1 .. ideal))
             m == retrieval_metrics(u, relevant, k)
  <2>1. m = [recall |-> recall, precision |-> precision, hit_rate |-> hit_rate, mrr |-> mrr, ndcg |-> ndcg]
    BY <1>1, <1>4 DEF retrieval_metrics
  <2>2. /\ H \in SUBSET (1 .. Len(u)) /\ IsFiniteSet(H) /\ Cardinality(H) \in Nat
        /\ Cardinality(found) = Cardinality(H)
    BY HitsAreFound
  <2>3. Cardinality(H) <= k
    <3>1. Len(u) \in Nat
      OBVIOUS
    <3>2. Cardinality(H) <= Len(u)
      BY <2>2, <3>1, FirstNumbers, FS_Subset
    <3> QED
      BY <2>2, <3>1, <3>2
  <2>4. Cardinality(found) <= Cardinality(relevant) /\ Cardinality(relevant) \in Nat /\ Cardinality(relevant) # 0
    BY <1>4, FS_Subset, FS_CardinalityType, FS_EmptySet
  <2>5. H = {} <=> Cardinality(H) = 0
    BY <2>2, FS_EmptySet
  <2>6. found = {} <=> H = {}
    <3>1. IsFiniteSet(found)
      BY FS_Subset
    <3> QED
      BY <2>2, <2>5, <3>1, FS_EmptySet
  <2>7. AtMostOne(recall) /\ recall.num = Cardinality(H)
    BY <2>2, <2>4 DEF AtMostOne, Fraction
  <2>8. AtMostOne(precision) /\ precision.num = Cardinality(H)
    BY <2>2, <2>3 DEF AtMostOne, Fraction
  <2>9. AtMostOne(hit_rate) /\ (hit_rate.num = 0 <=> H = {})
    BY <1>2, <2>6 DEF Is
  <2>10. AtMostOne(mrr) /\ (mrr.num = 0 <=> H = {})
    <3>1. H \in SUBSET Nat /\ \A i \in H : i >= 1
      BY <2>2
    <3>2. H # {} => first # {}
      BY <3>1, LeastNumber
    <3>3. H = {} => first = {}
      OBVIOUS
    <3>4. CASE first = {}
      BY <1>2, <3>2, <3>4
    <3>5. CASE first # {}
      <4> DEFINE i == CHOOSE i \in first : TRUE
      <4>1. i \in first
        BY <3>5
      <4> HIDE DEF i
      <4>2. i \in Nat /\ 1 <= i /\ H # {}
        BY <3>1, <4>1
      <4>3. mrr = Fraction(1, i)
        BY <3>5 DEF i
      <4> HIDE DEF mrr
      <4> QED
        BY <4>2, <4>3 DEF AtMostOne, Fraction
    <3> QED
      BY <3>4, <3>5
  <2>11. AtMostOne(ndcg) /\ (ndcg.num = 0 <=> H = {})
    <3>1. \A i \in 1 .. k : Gain[i] \in Nat /\ Gain[i] # 0
      BY GainAssumption
    <3>2. \A i, j \in 1 .. k : i <= j => Gain[j] <= Gain[i]
      BY GainAssumption
    <3>3. H \in SUBSET (1 .. k)
      BY <2>2
    <3>4. PICK h \in Nat : h = Cardinality(H)
      BY <2>2
    <3>5. ideal \in Nat /\ h <= ideal /\ ideal <= k
      BY <2>2, <2>3, <2>4, <3>4 DEF Minimum
    <3> HIDE DEF ideal, H
    <3>6. \A n \in 0 .. k : IsFiniteSet(1 .. n) /\ \A i \in 1 .. n : Gain[i] \in Nat
      BY <3>1, FirstNumbers
    <3>7. \A i \in H : Gain[i] \in Nat
      BY <3>1, <3>3
    <3>8. GainAt(H) \in Nat /\ GainAt(1 .. ideal) \in Nat /\ GainAt(1 .. h) \in Nat
      <4>1. GainAt(H) \in Nat
        BY <2>2, <3>7, SumNat DEF GainAt
      <4>2. \A n \in 0 .. k : GainAt(1 .. n) \in Nat
        BY <3>6, SumNat DEF GainAt
      <4> QED
        BY <3>5, <4>1, <4>2
    <3>9. GainAt(H) <= GainAt(1 .. h)
      BY <3>1, <3>2, <3>3, <3>4, FirstAreLargest DEF GainAt
    <3>10. GainAt(1 .. h) <= GainAt(1 .. ideal)
      <4>1. 1 .. h \in SUBSET (1 .. ideal)
        BY <3>5
      <4> QED
        BY <3>5, <3>6, <4>1, SumMonotone DEF GainAt
    <3>11. H = {} => GainAt(H) = 0
      BY SumStep, <2>2 DEF GainAt
    <3>12. ASSUME H # {} PROVE GainAt(H) # 0
      <4>1. PICK i \in H : TRUE
        BY <3>12
      <4>2. GainAt(H) = Gain[i] + GainAt(H \ {i})
        BY <2>2, <3>7, SumRemove DEF GainAt
      <4>3. IsFiniteSet(H \ {i}) /\ \A j \in H \ {i} : Gain[j] \in Nat
        BY <2>2, <3>7, FS_RemoveElement
      <4>4. GainAt(H \ {i}) \in Nat
        BY <4>3, SumNat DEF GainAt
      <4>5. Gain[i] \in Nat /\ Gain[i] # 0
        BY <3>1, <3>3
      <4> QED
        BY <4>2, <4>4, <4>5
    <3>13. ndcg.num = GainAt(H) /\ ndcg.den = GainAt(1 .. ideal)
      BY DEF Fraction
    <3> HIDE DEF ndcg
    <3>14. GainAt(H) <= GainAt(1 .. ideal)
      BY <3>8, <3>9, <3>10
    <3> QED
      BY <3>11, <3>12, <3>13, <3>14 DEF AtMostOne
  <2> HIDE DEF H, found, first, ideal, recall, precision, hit_rate, mrr, ndcg, m
  <2>12. \A name \in DOMAIN m : AtMostOne(m[name])
    BY <2>1, <2>7, <2>8, <2>9, <2>10, <2>11
  <2>13. /\ m.recall = recall /\ m.precision = precision /\ m.hit_rate = hit_rate
         /\ m.mrr = mrr /\ m.ndcg = ndcg
    BY <2>1
  <2> QED
    BY <1>4, <2>5, <2>7, <2>8, <2>9, <2>10, <2>11, <2>12, <2>13 DEF Agree, m
<1> QED
  BY <1>3, <1>4

(* Every row was measured against its labels with the config's top_k.      *)
THEOREM MetricsTellOneStory == Spec => []MetricsAgree
<1>1. ASSUME Inv PROVE MetricsAgree
  <2> SUFFICES ASSUME NEW b \in Runs, NEW c \in DOMAIN rows[b]
               PROVE  Agree(rows[b][c].metrics, Relevant(rows[b][c].query) = {})
    BY DEF MetricsAgree
  <2> DEFINE k == config[b].top_k
             query == Query(b, c[2])
             relevant == Relevant(query)
  <2>1. Types /\ Local(b)
    BY <1>1, InvSplit
  <2>2. c \in Cells(b) /\ config[b] \in Configs
    BY <2>1, NoRowsIsEmpty DEF Local, Types
  <2>3. k \in Int /\ 1 .. k \subseteq DOMAIN Gain
    BY <2>2, InputsAssumption DEF ConfigType
  <2>4. IsFiniteSet(relevant)
    <3>1. queries[b] \in Tables /\ c[2] \in DOMAIN queries[b]
      BY <2>1, <2>2 DEF Types, Cells
    <3> QED
      BY <3>1, InputsAssumption DEF Relevant, Query
  <2>5. k > 0
    BY <2>1 DEF Local, RowsFit, Measured
  <2>6. PICK results \in Results, latency \in LatenciesMs :
          /\ Len(results) <= k
          /\ rows[b][c] = Row(SpecsOf(config[b])[c[1]], query, k, results, latency)
    BY <2>1 DEF Local, RowsFit, Measured
  <2> HIDE DEF query, k
  <2> DEFINE found == [i \in DOMAIN results |-> IF query.chunks # {} THEN results[i].chunk ELSE results[i].doc]
             u == unique_preserving_order(found)
  <2>7. rows[b][c].metrics = retrieval_metrics(u, relevant, k) /\ rows[b][c].query = query
    BY <2>6 DEF Row, Retrieved
  <2>8. Len(results) \in Nat /\ DOMAIN results = 1 .. Len(results)
    BY InputsAssumption
  <2>9. DOMAIN found = 1 .. Len(results)
    BY <2>8
  <2> HIDE DEF found
  <2>10. /\ \E S : u \in Seq(S)
         /\ Len(u) <= Len(results)
         /\ \A i, j \in DOMAIN u : u[i] = u[j] => i = j
    BY <2>8, <2>9, UniqueOrder
  <2> HIDE DEF u, relevant
  <2>11. Len(u) <= k /\ k \in Nat \ {0}
    <3>1. Len(u) \in Nat
      BY <2>10
    <3> QED
      BY <2>3, <2>5, <2>6, <2>8, <2>10, <3>1
  <2>12. Agree(retrieval_metrics(u, relevant, k), relevant = {})
    BY <2>3, <2>4, <2>10, <2>11, MetricsOfRow
  <2> QED
    BY <2>7, <2>12 DEF relevant
<1> QED
  BY <1>1, Invariance, PTL

-----------------------------------------------------------------------------
(* Percentiles.                                                            *)

(* sorted returns the values it is given, in ascending order.              *)
LEMMA SortedAscends ==
    ASSUME NEW values \in Seq(Nat), NEW o, o = sorted(values)
    PROVE  /\ o \in Seq(Nat) /\ Len(o) = Len(values)
           /\ \A i, j \in 1 .. Len(values) : i <= j => o[i] <= o[j]
           /\ \A i \in 1 .. Len(values) : \E j \in 1 .. Len(values) : values[i] = o[j]
           /\ \A i \in 1 .. Len(values) : \E j \in 1 .. Len(values) : o[i] = values[j]
<1> DEFINE n == Len(values)
           D == 1 .. n
           R == Ascending(values)
           order == OrderedBy(D, R)
<1>1. n \in Nat /\ DOMAIN values = D /\ \A i \in D : values[i] \in Nat
  OBVIOUS
<1>2. \A i, j \in D : <<i, j>> \in R <=> (values[i] < values[j] \/ (values[i] = values[j] /\ i < j))
  BY <1>1 DEF Ascending
<1>3. IsFiniteSet(D) /\ Cardinality(D) = n
  BY <1>1, FirstNumbers
<1> HIDE DEF R
<1>4. StrictOrder(R, D)
  <2>1. \A i \in D : <<i, i>> \notin R
    BY <1>1, <1>2
  <2>2. \A i, j \in D : i # j => <<i, j>> \in R \/ <<j, i>> \in R
    BY <1>1, <1>2
  <2>3. \A i, j, k \in D : <<i, j>> \in R /\ <<j, k>> \in R => <<i, k>> \in R
    BY <1>1, <1>2
  <2> QED
    BY <2>1, <2>2, <2>3 DEF StrictOrder
<1>5. /\ order \in [D -> D]
      /\ \A i, j \in D : i < j <=> <<order[i], order[j]>> \in R
      /\ \A x \in D : \E i \in D : order[i] = x
  <2>1. IsFiniteSet(D)
    BY <1>3
  <2> HIDE DEF D
  <2>2. /\ order \in [1 .. Cardinality(D) -> D]
        /\ \A i, j \in 1 .. Cardinality(D) : i < j <=> <<order[i], order[j]>> \in R
        /\ \A x \in D : \E i \in 1 .. Cardinality(D) : order[i] = x
    BY <1>4, <2>1, OrderedBySorts
  <2>3. 1 .. Cardinality(D) = D
    BY <1>3 DEF D
  <2> QED
    BY <2>2, <2>3
<1>6. o = [i \in DOMAIN order |-> values[order[i]]]
  BY <1>1 DEF sorted, R
<1> HIDE DEF order
<1>7. o = [i \in D |-> values[order[i]]]
  BY <1>5, <1>6
<1>8. \A i \in D : order[i] \in D /\ o[i] = values[order[i]] /\ o[i] \in Nat
  BY <1>1, <1>5, <1>7
<1>9. o \in Seq(Nat) /\ Len(o) = n
  BY <1>1, <1>7, <1>8
<1>10. \A i, j \in D : i <= j => o[i] <= o[j]
  <2> TAKE i, j \in D
  <2>1. ASSUME i < j PROVE o[i] <= o[j]
    <3>1. <<order[i], order[j]>> \in R
      BY <1>5, <2>1
    <3>2. order[i] \in D /\ order[j] \in D /\ o[i] = values[order[i]] /\ o[j] = values[order[j]]
      BY <1>8
    <3>3. o[i] < o[j] \/ o[i] = o[j]
      BY <1>2, <3>1, <3>2
    <3> QED
      BY <1>8, <3>3
  <2>2. i = j => o[i] <= o[j]
    BY <1>8
  <2> QED
    BY <1>1, <2>1, <2>2
<1>11. \A i \in D : \E j \in D : values[i] = o[j]
  <2> TAKE i \in D
  <2>1. PICK j \in D : order[j] = i
    BY <1>5
  <2>2. values[i] = o[j]
    BY <1>8, <2>1
  <2> QED
    BY <2>2
<1>12. \A i \in D : \E j \in D : o[i] = values[j]
  BY <1>8
<1> QED
  BY <1>9, <1>10, <1>11, <1>12

LEMMA Scaled ==
    \A n, p, q \in Nat : p <= q => n * p <= n * q
BY Z3

LEMMA Weighed ==
    /\ \A x, y, r \in Nat : x <= y /\ r <= 100 => 100 * x <= x * (100 - r) + y * r
    /\ \A x, y, r \in Nat : x <= y /\ r <= 100 => x * (100 - r) + y * r <= 100 * y
    /\ \A x, y, r, s \in Nat : x <= y /\ r <= s /\ s <= 100 =>
          x * (100 - r) + y * r <= x * (100 - s) + y * s
<1>1. \A x, y, r \in Nat : x <= y /\ r <= 100 => 100 * x <= x * (100 - r) + y * r
  BY Z3
<1>2. \A x, y, r \in Nat : x <= y /\ r <= 100 => x * (100 - r) + y * r <= 100 * y
  BY Z3
<1>3. \A x, y, r, s \in Nat : x <= y /\ r <= s /\ s <= 100 =>
          x * (100 - r) + y * r <= x * (100 - s) + y * s
  BY Z3
<1> QED
  BY <1>1, <1>2, <1>3

(* Where a percentile lies: l values below it and a share r of the way to  *)
(* the next one.                                                           *)
Lies(o, n, p, l, r) ==
    /\ (n - 1) * p = 100 * l + r
    /\ l \in 0 .. n - 1 /\ r \in 0 .. 99
    /\ Interpolated(o, p) = o[l + 1] * (100 - r) + o[Minimum(l + 1, n - 1) + 1] * r

LEMMA PercentileLies ==
    ASSUME NEW n \in Nat \ {0}, NEW o, Len(o) = n, NEW p \in 0 .. 100
    PROVE  \E l, r \in Nat : Lies(o, n, p, l, r)
<1> DEFINE index == (n - 1) * p
           l == index \div 100
           r == index % 100
<1>1. index \in Nat /\ index <= (n - 1) * 100
  <2>1. PICK m \in Nat : m = n - 1
    OBVIOUS
  <2>2. \A q \in Nat : m * q \in Nat
    BY Z3
  <2>3. m * p \in Nat /\ m * p <= m * 100
    BY <2>2, Scaled
  <2> QED
    BY <2>1, <2>3
<1>2. Interpolated(o, p) = o[l + 1] * (100 - r) + o[Minimum(l + 1, n - 1) + 1] * r
  BY DEF Interpolated
<1> HIDE DEF index
<1>3. l \in Nat /\ r \in 0 .. 99 /\ index = 100 * l + r
  BY <1>1
<1>4. l <= n - 1
  BY <1>1, <1>3
<1>5. (n - 1) * p = 100 * l + r
  BY <1>3 DEF index
<1> HIDE DEF l, r
<1> QED
  BY <1>2, <1>3, <1>4, <1>5 DEF Lies

LEMMA PercentileBounds ==
    ASSUME NEW n \in Nat \ {0}, NEW o \in [1 .. n -> Nat], Len(o) = n,
           \A i, j \in 1 .. n : i <= j => o[i] <= o[j], NEW p \in 0 .. 100
    PROVE  /\ Interpolated(o, p) \in Nat
           /\ 100 * o[1] <= Interpolated(o, p)
           /\ Interpolated(o, p) <= 100 * o[n]
<1>1. PICK l \in Nat, r \in Nat : Lies(o, n, p, l, r)
  BY PercentileLies
<1> DEFINE x == o[l + 1]
           y == o[Minimum(l + 1, n - 1) + 1]
<1>2. l \in 0 .. n - 1 /\ r \in 0 .. 99 /\ Interpolated(o, p) = x * (100 - r) + y * r
  BY <1>1 DEF Lies
<1>3. l + 1 \in 1 .. n /\ Minimum(l + 1, n - 1) + 1 \in 1 .. n
  BY <1>2 DEF Minimum
<1>4. l + 1 <= Minimum(l + 1, n - 1) + 1
  BY <1>2 DEF Minimum
<1>5. x \in Nat /\ y \in Nat /\ o[1] \in Nat /\ o[n] \in Nat /\ x <= y /\ o[1] <= x /\ y <= o[n]
  <2>1. 1 \in 1 .. n /\ n \in 1 .. n
    OBVIOUS
  <2> QED
    BY <1>3, <1>4, <2>1
<1> HIDE DEF x, y
<1>6. 100 * x <= x * (100 - r) + y * r /\ x * (100 - r) + y * r <= 100 * y
  BY <1>2, <1>5, Weighed
<1>7. x * (100 - r) + y * r \in Nat
  <2>1. \A a, b, c \in Nat : c <= 100 => a * (100 - c) + b * c \in Nat
    BY Z3
  <2> QED
    BY <1>2, <1>5, <2>1
<1> QED
  BY <1>2, <1>5, <1>6, <1>7

(* A higher percentile is not lower.                                       *)
LEMMA PercentilesAscend ==
    ASSUME NEW n \in Nat \ {0}, NEW o \in [1 .. n -> Nat], Len(o) = n,
           \A i, j \in 1 .. n : i <= j => o[i] <= o[j],
           NEW p \in 0 .. 100, NEW q \in 0 .. 100, p <= q
    PROVE  Interpolated(o, p) <= Interpolated(o, q)
<1>1. PICK l \in Nat, r \in Nat : Lies(o, n, p, l, r)
  BY PercentileLies
<1>2. PICK h \in Nat, s \in Nat : Lies(o, n, q, h, s)
  BY PercentileLies
<1> DEFINE x == o[l + 1]
           y == o[Minimum(l + 1, n - 1) + 1]
           z == o[h + 1]
           w == o[Minimum(h + 1, n - 1) + 1]
<1>3. /\ l \in 0 .. n - 1 /\ r \in 0 .. 99 /\ Interpolated(o, p) = x * (100 - r) + y * r
      /\ h \in 0 .. n - 1 /\ s \in 0 .. 99 /\ Interpolated(o, q) = z * (100 - s) + w * s
  BY <1>1, <1>2 DEF Lies
<1>4. /\ l \in 0 .. n - 1 /\ h \in 0 .. n - 1
       /\ r <= 99 /\ s <= 99
  BY <1>3
<1>5. 100 * l + r <= 100 * h + s
  <2>1. PICK m \in Nat : m = n - 1
    OBVIOUS
  <2>2. m * p <= m * q
    BY Scaled
  <2> QED
    BY <1>1, <1>2, <2>1, <2>2 DEF Lies
<1>6. /\ l + 1 \in 1 .. n /\ Minimum(l + 1, n - 1) + 1 \in 1 .. n
      /\ h + 1 \in 1 .. n /\ Minimum(h + 1, n - 1) + 1 \in 1 .. n
      /\ l + 1 <= Minimum(l + 1, n - 1) + 1 /\ h + 1 <= Minimum(h + 1, n - 1) + 1
      /\ Minimum(l + 1, n - 1) + 1 <= l + 2
  BY <1>3 DEF Minimum
<1>7. x \in Nat /\ y \in Nat /\ z \in Nat /\ w \in Nat /\ x <= y /\ z <= w
  BY <1>6
<1>8. CASE l = h
  <2>1. x = z /\ y = w
    BY <1>8
  <2>2. r <= s /\ s <= 100
    BY <1>4, <1>5, <1>8
  <2> HIDE DEF x, y, z, w
  <2>3. x * (100 - r) + y * r <= x * (100 - s) + y * s
    BY <1>7, <2>2, Weighed
  <2> QED
    BY <1>3, <2>1, <2>3
<1>9. CASE l < h
  <2>1. y <= z
    BY <1>6, <1>9
  <2> HIDE DEF x, y, z, w
  <2>2. x * (100 - r) + y * r <= 100 * y /\ 100 * z <= z * (100 - s) + w * s
    BY <1>3, <1>7, Weighed
  <2>3. /\ x * (100 - r) + y * r \in Nat /\ z * (100 - s) + w * s \in Nat
    <3>1. \A a, b, c \in Nat : c <= 100 => a * (100 - c) + b * c \in Nat
      BY Z3
    <3> QED
      BY <1>3, <1>7, <3>1
  <2>4. \A a, b, c, d \in Nat : a <= 100 * c /\ 100 * d <= b /\ c <= d => a <= b
    OBVIOUS
  <2> QED
    BY <1>3, <1>7, <2>1, <2>2, <2>3, <2>4
<1>10. l <= h
  BY <1>5, <1>4
<1> QED
  BY <1>8, <1>9, <1>10

(* The figures of one group of rows.                                       *)
LEMMA SummaryFits ==
    ASSUME NEW values \in Seq(Nat), values # <<>>, NEW s, s = Summary(values)
    PROVE  /\ s.count = Len(values)
           /\ \A i \in 1 .. Len(values) : 100 * values[i] <= s.max
           /\ \E i \in 1 .. Len(values) : 100 * values[i] <= s.p50
           /\ s.p50 <= s.p95 /\ s.p95 <= s.p99 /\ s.p99 <= s.max
<1> DEFINE n == Len(values)
           o == sorted(values)
           max == Max(ToSet(values))
<1>1. n \in Nat \ {0} /\ DOMAIN values = 1 .. n /\ \A i \in 1 .. n : values[i] \in Nat
  OBVIOUS
<1>2. /\ o \in Seq(Nat) /\ Len(o) = n
      /\ \A i, j \in 1 .. n : i <= j => o[i] <= o[j]
      /\ \A i \in 1 .. n : \E j \in 1 .. n : values[i] = o[j]
      /\ \A i \in 1 .. n : \E j \in 1 .. n : o[i] = values[j]
  BY SortedAscends
<1> HIDE DEF o, n
<1>3. o \in [1 .. n -> Nat]
  <2>1. \A t \in Seq(Nat) : t \in [1 .. Len(t) -> Nat]
    OBVIOUS
  <2>2. o \in Seq(Nat) /\ Len(o) = n
    BY <1>2
  <2> QED
    BY <2>1, <2>2
<1>4. \A p \in 0 .. 100 : /\ Interpolated(o, p) \in Nat
                          /\ 100 * o[1] <= Interpolated(o, p)
                          /\ Interpolated(o, p) <= 100 * o[n]
  BY <1>1, <1>2, <1>3, PercentileBounds
<1>5. \A p, q \in 0 .. 100 : p <= q => Interpolated(o, p) <= Interpolated(o, q)
  BY <1>1, <1>2, <1>3, PercentilesAscend
<1>6. /\ s.count = n /\ s.max = 100 * max
      /\ s.p50 = Interpolated(o, 50) /\ s.p95 = Interpolated(o, 95) /\ s.p99 = Interpolated(o, 99)
  BY DEF Summary, percentile, n, o
<1>7. max \in Nat /\ max = o[n] /\ \A i \in 1 .. n : values[i] <= max
  <2>1. ToSet(values) = {values[i] : i \in 1 .. n}
    BY <1>1 DEF ToSet
  <2>2. n \in 1 .. n
    BY <1>1
  <2>3. o[n] \in ToSet(values) /\ \A i \in 1 .. n : values[i] <= o[n]
    <3>1. PICK j \in 1 .. n : o[n] = values[j]
      BY <1>2, <2>2
    <3>2. \A i \in 1 .. n : values[i] <= o[n]
      <4> TAKE i \in 1 .. n
      <4>1. PICK k \in 1 .. n : values[i] = o[k]
        BY <1>2
      <4>2. k <= n
        BY <1>1
      <4> QED
        BY <1>2, <2>2, <4>1, <4>2
    <3> QED
      BY <2>1, <3>1, <3>2
  <2>4. \A x \in ToSet(values) : x \in Nat /\ x <= o[n]
    BY <1>1, <2>1, <2>3
  <2>5. max \in ToSet(values) /\ \A x \in ToSet(values) : x <= max
    <3>1. \A x \in ToSet(values) : o[n] >= x
      BY <2>3, <2>4
    <3> QED
      BY <2>3, <2>4, <3>1 DEF Max
  <2> HIDE DEF max
  <2>6. max \in Nat /\ o[n] \in Nat /\ max <= o[n] /\ o[n] <= max
    BY <2>3, <2>4, <2>5
  <2> QED
    BY <2>3, <2>6
<1> HIDE DEF max
<1>8. \A i \in 1 .. n : 100 * values[i] <= s.max
  BY <1>1, <1>6, <1>7
<1>9. \E i \in 1 .. n : 100 * values[i] <= s.p50
  <2>1. 1 \in 1 .. n
    BY <1>1
  <2>2. PICK i \in 1 .. n : o[1] = values[i]
    BY <1>2, <2>1
  <2>3. 100 * o[1] <= Interpolated(o, 50)
    BY <1>4
  <2> QED
    BY <1>6, <2>2, <2>3
<1>10. s.p50 <= s.p95 /\ s.p95 <= s.p99 /\ s.p99 <= s.max
  BY <1>4, <1>5, <1>6, <1>7
<1> QED
  BY <1>6, <1>8, <1>9, <1>10 DEF n

-----------------------------------------------------------------------------
(* Groups of rows.                                                         *)

(* The latencies of some rows, in the order they were measured.            *)
LEMMA LatenciesListed ==
    ASSUME NEW rs, NEW cells, IsFiniteSet(cells), cells \in SUBSET (Nat \X Nat),
           \A c \in cells : rs[c].latency \in Nat, NEW l, l = Latencies(rs, cells)
    PROVE  /\ l \in Seq(Nat) /\ Len(l) = Cardinality(cells)
           /\ \A c \in cells : \E i \in 1 .. Cardinality(cells) : l[i] = rs[c].latency
           /\ \A i \in 1 .. Cardinality(cells) : \E c \in cells : l[i] = rs[c].latency
<1> DEFINE R == {p \in cells \X cells : Before(p[1], p[2])}
           order == OrderedBy(cells, R)
           n == Cardinality(cells)
<1>1. \A c \in cells : c = <<c[1], c[2]>> /\ c[1] \in Nat /\ c[2] \in Nat
  OBVIOUS
<1>2. \A c, e \in cells : <<c, e>> \in R <=> Before(c, e)
  OBVIOUS
<1> HIDE DEF R
<1>3. StrictOrder(R, cells)
  <2>1. \A c \in cells : <<c, c>> \notin R
    BY <1>1, <1>2 DEF Before
  <2>2. \A c, e \in cells : c # e => <<c, e>> \in R \/ <<e, c>> \in R
    BY <1>1, <1>2 DEF Before
  <2>3. \A c, d, e \in cells : <<c, d>> \in R /\ <<d, e>> \in R => <<c, e>> \in R
    BY <1>1, <1>2 DEF Before
  <2> QED
    BY <2>1, <2>2, <2>3 DEF StrictOrder
<1>4. /\ order \in [1 .. n -> cells]
      /\ \A c \in cells : \E i \in 1 .. n : order[i] = c
  BY <1>3, OrderedBySorts
<1>5. l = [i \in DOMAIN order |-> rs[order[i]].latency]
  BY DEF Latencies, R
<1>6. n \in Nat
  BY FS_CardinalityType
<1> HIDE DEF order, n
<1>7. l = [i \in 1 .. n |-> rs[order[i]].latency]
  BY <1>4, <1>5
<1>8. \A i \in 1 .. n : order[i] \in cells /\ l[i] = rs[order[i]].latency /\ l[i] \in Nat
  BY <1>4, <1>7
<1>9. l \in Seq(Nat) /\ Len(l) = n
  BY <1>6, <1>7, <1>8
<1>10. ASSUME NEW c \in cells
       PROVE  \E i \in 1 .. n : l[i] = rs[c].latency
  <2>1. PICK i \in 1 .. n : order[i] = c
    BY <1>4
  <2>2. l[i] = rs[c].latency
    BY <1>8, <2>1
  <2> QED
    BY <2>2
<1>11. \A i \in 1 .. n : \E c \in cells : l[i] = rs[c].latency
  BY <1>8
<1> QED
  BY <1>9, <1>10, <1>11 DEF n

Group(rs, cells, key, value) == {c \in cells : rs[c][key] = value}

(* The summaries of the groups count every row once, and say of each group *)
(* what Summary says of its latencies.                                     *)
GroupsFit(rs, cells, key, sums) ==
    /\ DOMAIN sums = {rs[c][key] : c \in cells}
    /\ Counted(sums) = Cardinality(cells)
    /\ \A v \in DOMAIN sums :
          /\ sums[v].count = Cardinality(Group(rs, cells, key, v))
          /\ \A c \in Group(rs, cells, key, v) : 100 * rs[c].latency <= sums[v].max
          /\ \E c \in Group(rs, cells, key, v) : 100 * rs[c].latency <= sums[v].p50
          /\ sums[v].p50 <= sums[v].p95 /\ sums[v].p95 <= sums[v].p99 /\ sums[v].p99 <= sums[v].max

LEMMA GroupsAddUp ==
    ASSUME NEW rs, NEW cells, IsFiniteSet(cells), cells \in SUBSET (Nat \X Nat),
           \A c \in cells : rs[c].latency \in Nat, NEW key,
           NEW sums, sums = Summarize(rs, GroupBy(rs, cells, key))
    PROVE  GroupsFit(rs, cells, key, sums)
<1> DEFINE K == {rs[c][key] : c \in cells}
           groups == GroupBy(rs, cells, key)
           group(v) == Group(rs, cells, key, v)
           class == [v \in K |-> group(v)]
           fun == [v \in K |-> sums[v].count]
<1>1. groups = [v \in K |-> group(v)]
  BY DEF GroupBy, Group
<1>2. sums = [v \in K |-> Summary(Latencies(rs, group(v)))]
  BY <1>1 DEF Summarize
<1>3. \A v : group(v) \in SUBSET cells
  BY DEF Group
<1>4. \A v \in K : group(v) # {}
  BY DEF Group
<1>5. \A c \in cells : rs[c][key] \in K /\ c \in group(rs[c][key])
  BY DEF Group
<1>6. \A v, w : v # w => group(v) \intersect group(w) = {}
  BY DEF Group
<1>7. IsFiniteSet(K)
  <2> DEFINE f == [c \in cells |-> rs[c][key]]
  <2>1. f \in Surjection(cells, K)
    BY DEF Surjection
  <2> HIDE DEF f, K
  <2> QED
    BY <2>1, FS_Surjection
<1> HIDE DEF K, groups, group
<1>8. ASSUME NEW v \in K
      PROVE  /\ sums[v].count = Cardinality(group(v))
             /\ \A c \in group(v) : 100 * rs[c].latency <= sums[v].max
             /\ \E c \in group(v) : 100 * rs[c].latency <= sums[v].p50
             /\ sums[v].p50 <= sums[v].p95 /\ sums[v].p95 <= sums[v].p99 /\ sums[v].p99 <= sums[v].max
  <2> DEFINE g == group(v)
             l == Latencies(rs, g)
             s == sums[v]
  <2>1. g \in SUBSET cells /\ g # {} /\ s = Summary(l)
    BY <1>2, <1>3, <1>4
  <2>2. IsFiniteSet(g) /\ g \in SUBSET (Nat \X Nat) /\ \A c \in g : rs[c].latency \in Nat
    BY <2>1, FS_Subset
  <2> HIDE DEF g, s
  <2>3. /\ l \in Seq(Nat) /\ Len(l) = Cardinality(g)
        /\ \A c \in g : \E i \in 1 .. Cardinality(g) : l[i] = rs[c].latency
        /\ \A i \in 1 .. Cardinality(g) : \E c \in g : l[i] = rs[c].latency
    BY <2>2, LatenciesListed
  <2>4. Cardinality(g) # 0
    BY <2>1, <2>2, FS_EmptySet
  <2> HIDE DEF l
  <2>5. l # <<>>
    BY <2>3, <2>4
  <2>6. /\ s.count = Len(l)
        /\ \A i \in 1 .. Len(l) : 100 * l[i] <= s.max
        /\ \E i \in 1 .. Len(l) : 100 * l[i] <= s.p50
        /\ s.p50 <= s.p95 /\ s.p95 <= s.p99 /\ s.p99 <= s.max
    BY <2>1, <2>3, <2>5, SummaryFits
  <2>7. ASSUME NEW c \in g PROVE 100 * rs[c].latency <= s.max
    <3>1. PICK i \in 1 .. Cardinality(g) : l[i] = rs[c].latency
      BY <2>3
    <3>2. 100 * l[i] <= s.max
      BY <2>3, <2>6
    <3> QED
      BY <3>1, <3>2
  <2>8. \E c \in g : 100 * rs[c].latency <= s.p50
    <3>1. PICK i \in 1 .. Cardinality(g) : 100 * l[i] <= s.p50
      BY <2>3, <2>6
    <3>2. PICK c \in g : l[i] = rs[c].latency
      BY <2>3
    <3> QED
      BY <3>1, <3>2
  <2> QED
    BY <2>3, <2>6, <2>7, <2>8 DEF g, s
<1>9. SumFunctionOnSet(fun, K) = Cardinality(cells)
  <2>1. \A v \in K : class[v] = group(v) /\ fun[v] = Cardinality(class[v])
    BY <1>8
  <2> HIDE DEF class, fun
  <2>2. \A v \in K : class[v] \in SUBSET cells
    BY <1>3, <2>1
  <2>3. \A c \in cells : \E v \in K : c \in class[v]
    BY <1>5, <2>1
  <2>4. \A v, w \in K : v # w => class[v] \intersect class[w] = {}
    BY <1>6, <2>1
  <2> QED
    BY <1>7, <2>1, <2>2, <2>3, <2>4, SumOfClasses
<1>10. DOMAIN sums = K
  BY <1>2
<1>11. Counted(sums) = Cardinality(cells)
  BY <1>9, <1>10 DEF Counted, SumFunction
<1> QED
  BY <1>8, <1>10, <1>11 DEF GroupsFit, group, K

LEMMA RowsAddUp ==
    ASSUME NEW rs, IsFiniteSet(DOMAIN rs), DOMAIN rs \in SUBSET (Nat \X Nat),
           \A c \in DOMAIN rs : rs[c].latency \in Nat
    PROVE  AddUp(rs)
<1> DEFINE cells == DOMAIN rs
           byStrategy == summarize_by_strategy(rs)
           byType == summarize_by_query_type(rs, cells)
           byBoth == summarize_by_strategy_and_query_type(rs)
           named(name) == Group(rs, cells, "strategy", name)
<1>1. byStrategy = Summarize(rs, GroupBy(rs, cells, "strategy"))
  BY DEF summarize_by_strategy
<1>2. byType = Summarize(rs, GroupBy(rs, cells, "query_type"))
  BY DEF summarize_by_query_type
<1>3. byBoth = [name \in {rs[c]["strategy"] : c \in cells} |-> summarize_by_query_type(rs, named(name))]
  BY DEF summarize_by_strategy_and_query_type, GroupBy, Group
<1> HIDE DEF byStrategy, byType, byBoth
<1>4. GroupsFit(rs, cells, "strategy", byStrategy)
  BY <1>1, GroupsAddUp
<1>5. Counted(byType) = Cardinality(cells)
  <2>1. GroupsFit(rs, cells, "query_type", byType)
    BY <1>2, GroupsAddUp
  <2> QED
    BY <2>1 DEF GroupsFit
<1>6. ASSUME NEW name \in DOMAIN byStrategy
      PROVE  Counted(byBoth[name]) = Cardinality(named(name))
  <2> DEFINE g == named(name)
             sums == byBoth[name]
  <2>1. sums = Summarize(rs, GroupBy(rs, g, "query_type"))
    BY <1>3, <1>4 DEF GroupsFit, summarize_by_query_type
  <2>2. g \in SUBSET cells
    BY DEF Group
  <2> HIDE DEF g, sums
  <2>3. IsFiniteSet(g) /\ g \in SUBSET (Nat \X Nat) /\ \A c \in g : rs[c].latency \in Nat
    BY <2>2, FS_Subset
  <2>4. GroupsFit(rs, g, "query_type", sums)
    BY <2>1, <2>3, GroupsAddUp
  <2> QED
    BY <2>4 DEF g, sums, GroupsFit
<1>7. \A name, c : c \in named(name) <=> c \in cells /\ rs[c].strategy = name
  BY DEF Group
<1> HIDE DEF named
<1>8. ASSUME NEW name \in DOMAIN byStrategy
      PROVE  LET s == byStrategy[name]
             IN  /\ Counted(byBoth[name]) = s.count
                 /\ \A c \in DOMAIN rs : rs[c].strategy = name => 100 * rs[c].latency <= s.max
                 /\ \E c \in DOMAIN rs : rs[c].strategy = name /\ 100 * rs[c].latency <= s.p50
                 /\ s.p50 <= s.p95 /\ s.p95 <= s.p99 /\ s.p99 <= s.max
  <2> DEFINE s == byStrategy[name]
  <2>1. /\ s.count = Cardinality(named(name))
        /\ \A c \in named(name) : 100 * rs[c].latency <= s.max
        /\ \E c \in named(name) : 100 * rs[c].latency <= s.p50
        /\ s.p50 <= s.p95 /\ s.p95 <= s.p99 /\ s.p99 <= s.max
    BY <1>4 DEF GroupsFit, named
  <2> HIDE DEF s
  <2>2. Counted(byBoth[name]) = s.count
    BY <1>6, <2>1
  <2>3. \A c \in DOMAIN rs : rs[c].strategy = name => 100 * rs[c].latency <= s.max
    BY <1>7, <2>1
  <2>4. \E c \in DOMAIN rs : rs[c].strategy = name /\ 100 * rs[c].latency <= s.p50
    BY <1>7, <2>1
  <2> QED
    BY <2>1, <2>2, <2>3, <2>4 DEF s
<1> QED
  BY <1>4, <1>5, <1>8 DEF GroupsFit, AddUp, byStrategy, byType, byBoth

THEOREM SummariesCountEveryRow == Spec => []SummariesAddUp
<1>1. ASSUME Inv PROVE SummariesAddUp
  <2> SUFFICES ASSUME NEW b \in Runs, Stored(b) PROVE AddUp(content[b].rows)
    BY DEF SummariesAddUp
  <2>1. Types /\ Local(b)
    BY <1>1, InvSplit
  <2>2. content[b].rows = rows[b]
    BY <2>1 DEF Local, Stored, NoFile, Partial, Complete
  <2>3. IsFiniteSet(DOMAIN rows[b]) /\ DOMAIN rows[b] \in SUBSET (Nat \X Nat)
    <3>1. CASE config[b] = NoConfig
      BY <2>1, <3>1, NoRowsIsEmpty, FS_EmptySet DEF Local
    <3>2. CASE config[b] # NoConfig
      <4> DEFINE S == DOMAIN SpecsOf(config[b])
                 Q == DOMAIN queries[b]
      <4>1. config[b].strategies \in Seq(Entries) /\ queries[b] \in Seq(QueryType)
        BY <2>1, <3>2, InputsAssumption DEF Types, ConfigType
      <4>2. \E n \in Nat : S = 1 .. n
        <5>1. config[b].strategies = <<>> => S = 1 .. 1
          BY DEF SpecsOf
        <5>2. config[b].strategies # <<>> => S = 1 .. Len(config[b].strategies)
          BY <4>1 DEF SpecsOf
        <5> QED
          BY <4>1, <5>1, <5>2
      <4>3. \E n \in Nat : Q = 1 .. n
        BY <4>1
      <4> HIDE DEF S, Q
      <4>4. IsFiniteSet(S) /\ IsFiniteSet(Q) /\ S \subseteq Nat /\ Q \subseteq Nat
        BY <4>2, <4>3, FirstNumbers
      <4>5. IsFiniteSet(S \X Q)
        BY <4>4, FS_Product
      <4>6. DOMAIN rows[b] \in SUBSET (S \X Q)
        BY <2>1, <3>2 DEF Local, Cells, S, Q
      <4> QED
        BY <4>4, <4>5, <4>6, FS_Subset
    <3> QED
      BY <3>1, <3>2
  <2>4. \A c \in DOMAIN rows[b] : rows[b][c].latency \in Nat
    BY <2>1, RowFields, InputsAssumption DEF Local
  <2>5. AddUp(rows[b])
    BY <2>3, <2>4, RowsAddUp
  <2> QED
    BY <2>2, <2>5
<1> QED
  BY <1>1, Invariance, PTL

=============================================================================
