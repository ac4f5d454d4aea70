-------------------------- MODULE LiveSearchProofs --------------------------
(***************************************************************************)
(* For any number of writers and searches, any pool and any failures: what *)
(* a search finds in stores that are being written, and that writers and   *)
(* searches do nothing over live stores that is not in their own modules.  *)
(***************************************************************************)
EXTENDS LiveSearch, DocumentStoreProofs

(* The parts of a search's state that its steps update in place.           *)
Shapes ==
    /\ DOMAIN spc = Searchers /\ DOMAIN search = Searchers /\ DOMAIN outcome = Searchers
    /\ DOMAIN leg = Searchers /\ DOMAIN seen = Searchers /\ DOMAIN quiet = Searchers
    /\ \A r \in Searchers : DOMAIN leg[r] = S!Legs /\ DOMAIN seen[r] = S!Legs

(* A slot that is free has seen nothing; a leg that is done has seen its   *)
(* store; a search that succeeded has all its legs done.                   *)
LegsSeen(r) ==
    /\ spc[r] = "idle" =>
          outcome[r] = "none" /\ \A l \in S!Legs : leg[r][l] = "none" /\ ~ seen[r][l].read
    /\ \A l \in S!Legs : leg[r][l] = "done" => seen[r][l].read
    /\ outcome[r] = "ok" => \A l \in S!LegsOf(search[r]) : l \in S!Legs /\ leg[r][l] = "done"

(* What was seen in PostgreSQL is the index of some table.                 *)
SawIndex(r) ==
    \A l \in S!Legs : (seen[r][l].read /\ S!UsesPostgres(search[r], l)) =>
        \E t \in [Docs -> Stored] : seen[r][l].found = IndexOf(t)

(* What was seen of a quiet document is what its row says now.             *)
SawRow(r) ==
    /\ quiet[r] \subseteq Settled
    /\ \A l \in S!Legs, d \in quiet[r] : seen[r][l].read => Finds(seen[r][l].found, d, row[d])

LiveCore == Shapes /\ \A r \in Searchers : LegsSeen(r) /\ SawIndex(r) /\ SawRow(r)

LiveInv == SettleInv /\ LiveCore

-----------------------------------------------------------------------------
(* The stores, seen from a search.                                         *)

(* Nobody but a job on the document changes its row.                       *)
LEMMA RowKept ==
    ASSUME SettleInv, Next, NEW d \in Docs, \A q \in Requests : d \notin DocsOf(q)
    PROVE  row'[d] = row[d]
<1>1. ASSUME NEW r \in Requests, NEW answered, Commit(r, answered) PROVE row'[d] = row[d]
  <2>1. pc[r] = "commit" /\ Active(r) /\ row' = [e \in Docs |-> View(r, e)]
    BY <1>1 DEF Commit, Active
  <2>2. Staged(r) \subseteq DocsOf(r)
    BY <2>1 DEF SettleInv, OverlapInv, PgInv, StagedFollows, InTransaction, DocsOf
  <2>3. View(r, d) = row[d]
    BY <2>2 DEF Staged, View
  <2> QED
    BY <2>1, <2>3
<1>2. ASSUME NEW r \in Requests, Step(r) PROVE row'[d] = row[d]
  BY <1>1, <1>2 DEF Step, LockRow, Decide, WriteRow, RejectRow, ReplaceChunks, DeleteRow, StoreQueries,
     EnsureCollection, CreateCollection, Flush, Finish, DeletePoints, DeleteFromNoCollection, pgVars
<1> QED
  BY <1>2 DEF Next, Start, AbortDeadlocked, Fail, GiveUp, Land, pgVars

LEMMA StoresFind ==
    ASSUME SettleInv, NEW d \in Settled
    PROVE  Finds(chunks, d, row[d]) /\ Finds(points, d, row[d])
<1>1. TypeOK /\ ChunksMatchRows /\ d \in Docs /\ row[d] \in Stored
  BY DEF SettleInv, OverlapInv, PgInv, TypeOK, Settled, Stored
<1>2. Undisturbed(d)
  BY DEF Settled, Undisturbed
<1>3. AgreeRow(d)
  BY <1>1, <1>2, AgreeIsAgreeRow DEF SettleInv, SettleCore, Settled
<1>4. Finds(points, d, row[d])
  BY <1>3 DEF Finds, AgreeRow
<1>5. ChunksIn(chunks, d) = ChunksOf(d, row[d])
  BY <1>1, ChunksOfADoc
<1>6. ASSUME row[d] = NoBody PROVE Finds(chunks, d, row[d])
  BY <1>5, <1>6 DEF Finds, ChunksOf
<1>7. ASSUME row[d] # NoBody PROVE Finds(chunks, d, row[d])
  <2>1. ChunkCount[row[d]] \in Nat
    BY <1>1, <1>7, BodiesAssumption DEF Stored
  <2>2. ChunksOf(d, row[d]) = [doc : {d}, index : 0 .. ChunkCount[row[d]] - 1, body : {row[d]}]
    BY <1>7 DEF ChunksOf
  <2>3. \A c \in ChunksOf(d, row[d]) : c.index < ChunkCount[row[d]]
    BY <2>1, <2>2
  <2> QED
    BY <1>5, <1>7, <2>3 DEF Finds
<1> QED
  BY <1>4, <1>6, <1>7

LEMMA IndexIsWhole ==
    ASSUME NEW t \in [Docs -> Stored], NEW d \in Docs
    PROVE  ChunksIn(IndexOf(t), d) = ChunksOf(d, t[d])
<1>1. \A e, b : \A c \in ChunksOf(e, b) : c.doc = e
  BY DEF ChunksOf
<1> QED
  BY <1>1 DEF ChunksIn, IndexOf

-----------------------------------------------------------------------------
(* The steps of a search.                                                  *)

(* A leg that is under way reaches a state other than the end it has seen. *)
MovesLeg(r, l) ==
    /\ leg[r][l] \notin {"none", "done"}
    /\ \E state : state # "done" /\ leg' = [leg EXCEPT ![r][l] = state]

LEMMA QueryMovesLeg ==
    ASSUME NEW r \in Searchers, NEW l \in S!Legs, S!Query(r, l), leg[r][l] \notin {"none", "done"}
    PROVE  MovesLeg(r, l)
BY DEF S!Query, MovesLeg

LEMMA LegStep ==
    ASSUME NEW r \in Searchers,
           \/ S!Embedded(r)
           \/ \E l \in S!Legs : S!StartLeg(r, l) \/ S!Provisioned(r, l) \/ S!Fail(r, l)
    PROVE  (\E l \in S!Legs : MovesLeg(r, l)) /\ UNCHANGED <<spc, search, outcome>>
<1>1. CASE S!Embedded(r)
  BY <1>1, QueryMovesLeg DEF S!Embedded, S!Legs
<1>2. ASSUME NEW l \in S!Legs, S!StartLeg(r, l)
      PROVE  MovesLeg(r, l) /\ UNCHANGED <<spc, search, outcome>>
  BY <1>2, QueryMovesLeg DEF S!StartLeg, MovesLeg
<1>3. ASSUME NEW l \in S!Legs, S!Provisioned(r, l) \/ S!Fail(r, l)
      PROVE  MovesLeg(r, l) /\ UNCHANGED <<spc, search, outcome>>
  BY <1>3 DEF S!Provisioned, S!Fail, MovesLeg
<1> QED
  BY <1>1, <1>2, <1>3

(* What the steps of a search other than its reads leave as it is.         *)
LEMMA SightsKept ==
    ASSUME LiveCore, UNCHANGED <<vars, seen, quiet, search>>
    PROVE  \A r \in Searchers : SawIndex(r)' /\ SawRow(r)'
<1> USE DEF vars, pgVars, qdrantVars, requestVars, historyVars
<1>1. Settled' = Settled
  BY DEF Settled, DocsOf, Active
<1> QED
  BY <1>1 DEF LiveCore, SawIndex, SawRow

LEMMA ProceedKeeps ==
    ASSUME LiveCore, NEW r \in Searchers, Proceed(r)
    PROVE  LiveCore'
<1> USE DEF LiveCore
<1>1. UNCHANGED <<vars, seen, quiet, search>>
  BY LegStep DEF Proceed, S!Resume, S!CloseClient, S!Leave
<1>2. \A q \in Searchers : SawIndex(q)' /\ SawRow(q)'
  BY <1>1, SightsKept
<1>3. ASSUME NEW l \in S!Legs, MovesLeg(r, l), UNCHANGED <<spc, search, outcome>>
      PROVE  Shapes' /\ \A q \in Searchers : LegsSeen(q)'
  <2>1. PICK state : state # "done" /\ leg' = [leg EXCEPT ![r][l] = state]
    BY <1>3 DEF MovesLeg
  <2>2. Shapes'
    BY <1>1, <1>3, <2>1 DEF Shapes
  <2>3. \A q \in Searchers, k \in S!Legs :
            leg'[q][k] = IF q = r /\ k = l THEN state ELSE leg[q][k]
    BY <2>1 DEF Shapes
  <2>4. ASSUME NEW q \in Searchers PROVE LegsSeen(q)'
    BY <1>1, <1>3, <2>1, <2>3 DEF LegsSeen, MovesLeg
  <2> QED
    BY <2>2, <2>4
<1>4. ASSUME S!Resume(r) \/ S!CloseClient(r) \/ S!Leave(r)
      PROVE  Shapes' /\ \A q \in Searchers : LegsSeen(q)'
  <2>1. Shapes'
    BY <1>1, <1>4 DEF Shapes, S!Resume, S!CloseClient, S!Leave
  <2>2. CASE S!Resume(r)
    <3>1. \A q \in Searchers \ {r} : LegsSeen(q)'
      BY <1>1, <2>2 DEF S!Resume, Shapes, LegsSeen
    <3>2. LegsSeen(r)'
      BY <1>1, <2>2 DEF S!Resume, Shapes, LegsSeen, S!LegsOf, S!Legs
    <3> QED
      BY <2>1, <3>1, <3>2
  <2>3. CASE S!CloseClient(r) \/ S!Leave(r)
    BY <1>1, <2>1, <2>3 DEF S!CloseClient, S!Leave, Shapes, LegsSeen
  <2> QED
    BY <1>4, <2>1, <2>2, <2>3
<1> QED
  BY <1>2, <1>3, <1>4, LegStep DEF Proceed

LEMMA ReceiveKeeps ==
    ASSUME LiveCore, NEW r \in Searchers, NEW s \in Searches, Receive(r, s)
    PROVE  LiveCore'
<1> USE DEF LiveCore, vars, pgVars, qdrantVars, requestVars, historyVars
<1>1. /\ spc[r] = "idle" /\ spc' = [spc EXCEPT ![r] = "searching"]
      /\ search' = [search EXCEPT ![r] = s]
      /\ leg' = [leg EXCEPT ![r] = [l \in S!Legs |-> IF l \in S!LegsOf(s) THEN "ready" ELSE "none"]]
      /\ outcome' = outcome /\ seen' = seen /\ quiet' = [quiet EXCEPT ![r] = Settled]
      /\ Settled' = Settled /\ row' = row
  BY DEF Receive, S!Receive, Settled, DocsOf, Active
<1>2. Shapes'
  BY <1>1 DEF Shapes
<1>3. \A l \in S!Legs : ~ seen'[r][l].read /\ leg'[r][l] # "done"
  BY <1>1 DEF Shapes, LegsSeen
<1>4. LegsSeen(r)' /\ SawIndex(r)' /\ SawRow(r)'
  BY <1>1, <1>3 DEF Shapes, LegsSeen, SawIndex, SawRow
<1>5. \A q \in Searchers \ {r} : LegsSeen(q)' /\ SawIndex(q)' /\ SawRow(q)'
  BY <1>1 DEF Shapes, LegsSeen, SawIndex, SawRow
<1> QED
  BY <1>2, <1>4, <1>5

LEMMA ReadKeeps ==
    ASSUME LiveInv, NEW r \in Searchers, NEW l \in S!Legs, Read(r, l)
    PROVE  LiveCore'
<1> USE DEF LiveInv, LiveCore, vars, pgVars, qdrantVars, requestVars, historyVars, searchVars
<1>1. /\ leg[r][l] = "querying"
      /\ seen' = [seen EXCEPT ![r][l] = Sight(StoreOf(r, l))]
      /\ UNCHANGED <<spc, search, leg, outcome, quiet, row>> /\ Settled' = Settled
  BY DEF Read, Settled, DocsOf, Active
<1>2. \A q \in Searchers, k \in S!Legs :
          seen'[q][k] = IF q = r /\ k = l THEN Sight(StoreOf(r, l)) ELSE seen[q][k]
  BY <1>1 DEF Shapes
<1>3. Shapes'
  BY <1>1 DEF Shapes
<1>4. Sight(StoreOf(r, l)).read /\ Sight(StoreOf(r, l)).found = StoreOf(r, l)
  BY DEF Sight
<1>5. \A q \in Searchers : LegsSeen(q)'
  BY <1>1, <1>2, <1>4 DEF LegsSeen
<1>6. row \in [Docs -> Stored] /\ chunks = IndexOf(row)
  BY DEF SettleInv, OverlapInv, PgInv, TypeOK, ChunksMatchRows, Stored
<1>7. ASSUME NEW q \in Searchers PROVE SawIndex(q)'
  BY <1>1, <1>2, <1>4, <1>6 DEF SawIndex, StoreOf
<1>8. ASSUME NEW q \in Searchers PROVE SawRow(q)'
  <2>1. \A d \in quiet[q] : Finds(StoreOf(r, l), d, row[d]) \/ q # r
    BY StoresFind DEF SawRow, StoreOf
  <2> QED
    BY <1>1, <1>2, <1>4, <2>1 DEF SawRow
<1> QED
  BY <1>3, <1>5, <1>7, <1>8

LEMMA AnswerKeeps ==
    ASSUME LiveCore, NEW r \in Searchers, NEW l \in S!Legs, NEW state, Answer(r, l, state)
    PROVE  LiveCore'
<1> USE DEF LiveCore
<1>1. /\ leg[r][l] = "querying" /\ leg' = [leg EXCEPT ![r][l] = state]
      /\ state = "done" => seen[r][l].read
      /\ UNCHANGED <<vars, spc, search, outcome, seen, quiet>>
  BY DEF Answer, S!Answer
<1>2. \A q \in Searchers, k \in S!Legs :
          leg'[q][k] = IF q = r /\ k = l THEN state ELSE leg[q][k]
  BY <1>1 DEF Shapes
<1>3. Shapes'
  BY <1>1 DEF Shapes
<1>4. \A q \in Searchers : LegsSeen(q)'
  BY <1>1, <1>2 DEF LegsSeen
<1> QED
  BY <1>1, <1>3, <1>4, SightsKept

LEMMA ForgetKeeps ==
    ASSUME LiveCore, NEW r \in Searchers, Forget(r)
    PROVE  LiveCore'
<1> USE DEF LiveCore, vars, pgVars, qdrantVars, requestVars, historyVars
<1>1. /\ spc' = [spc EXCEPT ![r] = "idle"] /\ search' = [search EXCEPT ![r] = NoSearch]
      /\ leg' = [leg EXCEPT ![r] = [l \in S!Legs |-> "none"]]
      /\ outcome' = [outcome EXCEPT ![r] = "none"]
      /\ seen' = [seen EXCEPT ![r] = NothingSeen] /\ quiet' = [quiet EXCEPT ![r] = {}]
      /\ Settled' = Settled /\ row' = row
  BY DEF Forget, S!Forget, Settled, DocsOf, Active
<1>2. \A l \in S!Legs : ~ NothingSeen[l].read
  BY DEF NothingSeen, Unseen
<1>3. Shapes'
  BY <1>1 DEF Shapes, NothingSeen
<1>4. LegsSeen(r)' /\ SawIndex(r)' /\ SawRow(r)'
  BY <1>1, <1>2 DEF Shapes, LegsSeen, SawIndex, SawRow
<1>5. \A q \in Searchers \ {r} : LegsSeen(q)' /\ SawIndex(q)' /\ SawRow(q)'
  BY <1>1 DEF Shapes, LegsSeen, SawIndex, SawRow
<1> QED
  BY <1>3, <1>4, <1>5

(* A writer changes the row of a document only while it is not at rest.    *)
LEMMA WriteKeeps ==
    ASSUME LiveInv, Write
    PROVE  LiveCore'
<1> USE DEF LiveInv, LiveCore, searchVars
<1>1. Next /\ UNCHANGED <<spc, search, leg, outcome, seen>>
      /\ quiet' = [r \in Searchers |-> quiet[r] \intersect Settled']
  BY DEF Write
<1>2. \A d \in Settled : row'[d] = row[d]
  BY <1>1, RowKept DEF Settled
<1>3. Shapes' /\ \A q \in Searchers : LegsSeen(q)' /\ SawIndex(q)'
  BY <1>1 DEF Shapes, LegsSeen, SawIndex
<1>4. \A q \in Searchers : SawRow(q)'
  BY <1>1, <1>2 DEF SawRow
<1> QED
  BY <1>3, <1>4

-----------------------------------------------------------------------------

LEMMA LiveStart == LiveInit => LiveInv
<1> SUFFICES ASSUME LiveInit PROVE LiveInv
  OBVIOUS
<1>1. SettleInv
  BY SettleInit DEF LiveInit
<1>2. LiveCore
  BY DEF LiveInit, S!Init, LiveCore, Shapes, LegsSeen, SawIndex, SawRow, NothingSeen, Unseen
<1> QED
  BY <1>1, <1>2 DEF LiveInv

LEMMA LiveStep == LiveInv /\ [LiveNext]_liveVars => LiveInv'
<1> SUFFICES ASSUME LiveInv, [LiveNext]_liveVars PROVE LiveInv'
  OBVIOUS
<1>1. SettleInv'
  <2>1. [Next]_vars
    BY DEF LiveNext, liveVars, Write, Receive, Read, Answer, Forget, Proceed
  <2> QED
    BY <2>1, SettleStep DEF LiveInv
<1>2. CASE Write
  BY <1>1, <1>2, WriteKeeps DEF LiveInv
<1>3. ASSUME NEW r \in Searchers, NEW s \in Searches, Receive(r, s) PROVE LiveInv'
  BY <1>1, <1>3, ReceiveKeeps DEF LiveInv
<1>4. ASSUME NEW r \in Searchers, Proceed(r) \/ Forget(r) PROVE LiveInv'
  BY <1>1, <1>4, ProceedKeeps, ForgetKeeps DEF LiveInv
<1>5. ASSUME NEW r \in Searchers, NEW l \in S!Legs, Read(r, l) PROVE LiveInv'
  BY <1>1, <1>5, ReadKeeps DEF LiveInv
<1>6. ASSUME NEW r \in Searchers, NEW l \in S!Legs, NEW state, Answer(r, l, state) PROVE LiveInv'
  BY <1>1, <1>6, AnswerKeeps DEF LiveInv
<1>7. CASE UNCHANGED liveVars
  <2>1. UNCHANGED <<vars, seen, quiet, search, spc, leg, outcome>>
    BY <1>7 DEF liveVars, searchVars
  <2>2. Shapes' /\ \A q \in Searchers : LegsSeen(q)'
    BY <2>1 DEF LiveInv, LiveCore, Shapes, LegsSeen
  <2> QED
    BY <1>1, <2>1, <2>2, SightsKept DEF LiveInv, LiveCore
<1> QED
  BY <1>2, <1>3, <1>4, <1>5, <1>6, <1>7 DEF LiveNext

(* The invariant of searches over live stores.                             *)
THEOREM LiveInvariant == LiveSpec => []LiveInv
BY LiveStart, LiveStep, PTL DEF LiveSpec

(* However writes and searches interleave, PostgreSQL shows a search all   *)
(* chunks of one body of a document or none (replace_chunks and the upsert *)
(* are one transaction).                                                   *)
THEOREM WholeAtEveryMoment == LiveSpec => []WholeBodies
<1>1. LiveInv => WholeBodies
  <2> SUFFICES ASSUME LiveInv, NEW r \in Searchers, NEW l \in S!Legs, NEW d \in Docs,
                      seen[r][l].read, S!UsesPostgres(search[r], l)
               PROVE  \E b \in Bodies \union {NoBody} :
                          ChunksIn(seen[r][l].found, d) = ChunksOf(d, b)
    BY DEF WholeBodies
  <2>1. PICK t \in [Docs -> Stored] : seen[r][l].found = IndexOf(t)
    BY DEF LiveInv, LiveCore, SawIndex
  <2>2. ChunksIn(IndexOf(t), d) = ChunksOf(d, t[d]) /\ t[d] \in Bodies \union {NoBody}
    BY IndexIsWhole DEF Stored
  <2> QED
    BY <2>1, <2>2
<1> QED
  BY <1>1, LiveInvariant, PTL

(* A search that succeeds has found, in every store it queried, what was   *)
(* last written of each document nobody wrote meanwhile, whatever failed   *)
(* or came late before (upsert_points, delete_points and the stale points  *)
(* they remove).                                                           *)
THEOREM SettledFound == LiveSpec => []SettledSearch
<1>1. LiveInv => SettledSearch
  BY DEF SettledSearch, LiveInv, LiveCore, LegsSeen, SawRow
<1> QED
  BY <1>1, LiveInvariant, PTL

-----------------------------------------------------------------------------
(* The composition is of DocumentStore and Search, each whole: nothing a   *)
(* writer or a search does over live stores is new to its own module       *)
(* (ingestion and retrieval share the two stores and no code).             *)
THEOREM LivePartsKeepTheirSpecs == LiveSpec => Spec /\ S!Spec
<1>1. LiveInit => Init /\ S!Init
  BY DEF LiveInit
<1>2. [LiveNext]_liveVars => [Next]_vars /\ [S!Next]_S!vars
  <2> SUFFICES ASSUME [LiveNext]_liveVars PROVE [Next]_vars /\ [S!Next]_S!vars
    OBVIOUS
  <2>1. [Next]_vars
    BY DEF LiveNext, liveVars, Write, Receive, Read, Answer, Forget, Proceed
  <2>2. CASE Write \/ UNCHANGED liveVars
    BY <2>1, <2>2 DEF Write, liveVars, searchVars, S!vars
  <2>3. ASSUME NEW r \in Searchers,
               \/ \E s \in Searches : Receive(r, s)
               \/ Proceed(r) \/ Forget(r)
               \/ \E l \in S!Legs, state \in {"done", "failed"} : Answer(r, l, state)
        PROVE  S!Next
    BY <2>3 DEF Receive, Proceed, Forget, Answer, S!Next, S!Step
  <2>4. ASSUME NEW r \in Searchers, NEW l \in S!Legs, Read(r, l)
        PROVE  UNCHANGED S!vars
    BY <2>4 DEF Read, searchVars, S!vars
  <2> QED
    BY <2>1, <2>2, <2>3, <2>4 DEF LiveNext
<1> QED
  BY <1>1, <1>2, PTL DEF LiveSpec, Spec, S!Spec

(* SearchProofs, about the searches of LiveSearch: SP!Spec is S!Spec.      *)
SP == INSTANCE SearchProofs WITH Requests <- Searchers, pc <- spc

LEMMA SearchesTyped == S!Spec => []S!TypeOK
<1>1. SP!SearchesAssumption /\ SP!SettingsAssumption
  BY SearchersAssumption, SettingsAssumption
     DEF SP!SearchesAssumption, SP!SettingsAssumption,
         S!SearchType, SP!SearchType, S!Strategies, SP!Strategies
<1>2. SP!Spec => []SP!TypeOK
  BY <1>1, SP!Typed
<1>3. S!Init <=> SP!Init
  BY DEF S!Init, SP!Init, S!Legs, SP!Legs
<1>4. S!Next <=> SP!Next
  <2>1. \A r, s : S!Receive(r, s) <=> SP!Receive(r, s)
    BY DEF S!Receive, SP!Receive, S!Legs, SP!Legs, S!LegsOf, SP!LegsOf, S!Shape,
           SP!Shape, S!Route, SP!Route
  <2>2. \A r : S!Step(r) <=> SP!Step(r)
    BY ONLY DEF S!Legs, SP!Legs, S!LegsOf, SP!LegsOf, S!Shape, SP!Shape, S!Route,
                SP!Route, S!Backend, SP!Backend, S!UsesPostgres, SP!UsesPostgres,
                S!Waiting, SP!Waiting, S!Raised, SP!Raised, S!InUse, SP!InUse,
                S!Cardinality, SP!Cardinality, S!Ended, SP!Ended, S!Query, SP!Query,
                S!Embedded, SP!Embedded, S!Resume, SP!Resume, S!CloseClient,
                SP!CloseClient, S!Leave, SP!Leave, S!Forget, SP!Forget, S!StartLeg,
                SP!StartLeg, S!Provisioned, SP!Provisioned, S!Answer, SP!Answer,
                S!Step, SP!Step
  <2>3. \A r, l : S!Fail(r, l) <=> SP!Fail(r, l)
    BY DEF S!Fail, SP!Fail
  <2> QED
    BY ONLY <2>1, <2>2, <2>3 DEF S!Next, SP!Next, S!Legs, SP!Legs
<1>5. S!Spec => SP!Spec
  <2>1. [S!Next]_S!vars <=> [SP!Next]_SP!vars
    BY <1>4 DEF S!vars, SP!vars
  <2> QED
    BY <1>3, <2>1, PTL DEF S!Spec, SP!Spec
<1>6. S!TypeOK <=> SP!TypeOK
  BY DEF S!TypeOK, SP!TypeOK, S!Legs, SP!Legs, S!Waiting, SP!Waiting, S!Raised,
         SP!Raised
<1> QED
  BY <1>2, <1>5, <1>6, PTL

SightType == [read : BOOLEAN, found : SUBSET Chunks]

SightsTyped ==
    /\ seen \in [Searchers -> [S!Legs -> SightType]]
    /\ quiet \in [Searchers -> SUBSET Docs]

LEMMA SightsStart == LiveInit => SightsTyped
<1>1. Unseen \in SightType
  BY DEF Unseen, SightType
<1> QED
  BY <1>1 DEF LiveInit, NothingSeen, SightsTyped

LEMMA SightsStep ==
    ASSUME TypeOK, SightsTyped, [LiveNext]_liveVars
    PROVE  SightsTyped'
<1>1. Settled \subseteq Docs /\ Settled' \subseteq Docs
  BY DEF Settled
<1>2. Unseen \in SightType /\ \A cs \in SUBSET Chunks : Sight(cs) \in SightType
  BY DEF Unseen, Sight, SightType
<1>3. CASE Write
  BY <1>1, <1>3 DEF Write, SightsTyped
<1>4. ASSUME NEW r \in Searchers, NEW s \in Searches, Receive(r, s) PROVE SightsTyped'
  BY <1>1, <1>4 DEF Receive, SightsTyped
<1>5. ASSUME NEW r \in Searchers, Proceed(r) PROVE SightsTyped'
  BY <1>5 DEF Proceed, SightsTyped
<1>6. ASSUME NEW r \in Searchers, Forget(r) PROVE SightsTyped'
  BY <1>2, <1>6 DEF Forget, NothingSeen, SightsTyped
<1>7. ASSUME NEW r \in Searchers, NEW l \in S!Legs, Read(r, l) PROVE SightsTyped'
  <2>1. Sight(StoreOf(r, l)) \in SightType
    BY <1>2 DEF StoreOf, TypeOK
  <2> QED
    BY <1>7, <2>1 DEF Read, SightsTyped
<1>8. ASSUME NEW r \in Searchers, NEW l \in S!Legs, NEW state, Answer(r, l, state) PROVE SightsTyped'
  BY <1>8 DEF Answer, SightsTyped
<1>9. CASE UNCHANGED liveVars
  BY <1>9 DEF liveVars, SightsTyped
<1> QED
  BY <1>3, <1>4, <1>5, <1>6, <1>7, <1>8, <1>9 DEF LiveNext

(* Every variable of the composition has its type, and a leg is done only  *)
(* after its query has read its store (the retrievers await the answer).   *)
THEOREM LiveTyped == LiveSpec => []LiveTypeOK
<1>1. Spec => []TypeOK
  BY Typed
<1>2. LiveSpec => []SightsTyped
  <2>1. TypeOK /\ SightsTyped /\ [LiveNext]_liveVars => SightsTyped'
    BY SightsStep
  <2> QED
    BY <1>1, <2>1, LivePartsKeepTheirSpecs, SightsStart, PTL DEF LiveSpec
<1>3. LiveInv /\ TypeOK /\ S!TypeOK /\ SightsTyped => LiveTypeOK
  BY DEF LiveInv, LiveCore, LegsSeen, SightsTyped, SightType, LiveTypeOK
<1> QED
  BY <1>1, <1>2, <1>3, LiveInvariant, LivePartsKeepTheirSpecs, SearchesTyped, PTL

=============================================================================
