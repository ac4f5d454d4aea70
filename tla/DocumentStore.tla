--------------------------- MODULE DocumentStore ---------------------------
(***************************************************************************)
(* The document write path of the service and of scripts/seed.py: every    *)
(* job writes PostgreSQL in one transaction and then Qdrant with plain     *)
(* calls.  Several jobs run at once, as coroutines of the API process or   *)
(* as a seed process beside it; a job may fail at any call it awaits, and  *)
(* a store may have applied a call whose answer was lost.                  *)
(*                                                                         *)
(* PostgreSQL runs at READ COMMITTED (the engine sets no isolation level): *)
(* a statement sees the committed tables and its own transaction's writes, *)
(* a written row stays locked until the transaction ends, a unique-index   *)
(* check waits for an undecided writer of the same key, and a deadlock is  *)
(* ended by failing one of its transactions.                               *)
(***************************************************************************)
EXTENDS Ingestion, FiniteSets

CONSTANTS
    Requests,          \* slots for jobs running at the same time
    NoJob,             \* the job of a slot that is free
    Untouched,         \* a row the transaction has not written
    BatchSize,         \* batch_size of ingest_documents_qdrant
    NoCall,            \* no Qdrant call of a slot is still on its way
    Faults,            \* may calls fail and answers be lost?
    Late,              \* may Qdrant apply a call its caller has given up?
    CollectionExists   \* was the Qdrant collection there at the start?

(* A call Qdrant may still apply: points to upsert, or the document whose  *)
(* points go.                                                              *)
QdrantCalls == [puts : SUBSET Chunks, drops : SUBSET Docs]

ASSUME SentinelsAssumption ==
    /\ Untouched \notin Bodies \union {NoBody}
    /\ NoJob \notin Jobs
    /\ NoCall \notin QdrantCalls

ASSUME SettingsAssumption ==
    /\ BatchSize \in Nat \ {0}
    /\ Faults \in BOOLEAN
    /\ Late \in BOOLEAN
    /\ CollectionExists \in BOOLEAN

VARIABLES
    row,         \* committed "documents": [Docs -> Bodies \union {NoBody}]
    chunks,      \* committed "chunks"
    labels,      \* the documents the committed "benchmark_queries" name
    points,      \* the points of the Qdrant collection
    collection,  \* does the Qdrant collection exist?
    late,        \* per slot, a call given up that Qdrant may still apply
    pc,          \* what each request awaits next
    job,         \* the job it serves
    at,          \* the position in job.writes its transaction has reached
    txn,         \* its open transaction: rows staged, chunks gone and fresh
    unsent,      \* the points it has not upserted yet
    overlapped,  \* history: its documents another request ran on meanwhile
    suspect      \* history: documents whose two copies need not agree

pgVars == <<row, chunks, labels>>
qdrantVars == <<points, collection, late>>
requestVars == <<pc, job, at, txn, unsent>>
historyVars == <<overlapped, suspect>>
vars == <<pgVars, qdrantVars, requestVars, historyVars>>

InTransaction == {"lock_row", "write_row", "replace_chunks", "delete_row", "commit"}
AfterTransaction == {"queries", "ensure", "create", "fill", "delete_points"}

NoTxn == [staged |-> [d \in Docs |-> Untouched], gone |-> {}, fresh |-> {}]

Active(r) == pc[r] # "idle"
DocsOf(r) == IF Active(r) THEN DocsIn(job[r].writes) ELSE {}

(* The write the transaction of r has reached.                             *)
Doc(r) == job[r].writes[at[r]].doc
Body(r) == job[r].writes[at[r]].body

(* The transaction's own writes over the committed rows.                   *)
View(r, d) == IF txn[r].staged[d] = Untouched THEN row[d] ELSE txn[r].staged[d]

(* The row lock: taken by the upsert or the delete, kept to the end of the *)
(* transaction.                                                            *)
Holds(r, d) ==
    \/ txn[r].staged[d] # Untouched
    \/ pc[r] = "write_row" /\ d = Doc(r)

Holders(r, d) == {q \in Requests \ {r} : Holds(q, d)}

(* Mutant: only the first chunk of a document is deleted.                  *)
FirstChunkIn(cs, d) == {c \in cs : c.doc = d /\ c.index = 0}

ChunksIn(cs, d) == {c \in cs : c.doc = d}

(* Mutant: only the first document of a list is sent.                      *)
FirstPointsOf(j) == ChunksOf(j.writes[1].doc, j.writes[1].body)

PointsOf(j) == UNION { ChunksOf(j.writes[i].doc, j.writes[i].body) : i \in DOMAIN j.writes }

(* Can a job that succeeds have written both stores in full?  A seed run   *)
(* limited to one store cannot, nor a DELETE whose spelling of the id is   *)
(* not the one the payloads carry.                                         *)
Complete(j) == j.mode = "both" /\ j.spelling = "canonical"

-----------------------------------------------------------------------------

Init ==
    /\ row = [d \in Docs |-> NoBody]
    /\ chunks = {}
    /\ labels = {}
    /\ points = {}
    /\ collection = CollectionExists
    /\ late = [r \in Requests |-> NoCall]
    /\ pc = [r \in Requests |-> "idle"]
    /\ job = [r \in Requests |-> NoJob]
    /\ at = [r \in Requests |-> 1]
    /\ txn = [r \in Requests |-> NoTxn]
    /\ unsent = [r \in Requests |-> {}]
    /\ overlapped = [r \in Requests |-> {}]
    /\ suspect = {}

(* Mutant: Qdrant is written and PostgreSQL is not written first.          *)
QdrantFirst(j) == IF j.op = "delete" THEN "delete_row" ELSE "ensure"

(* Mutant: the queries are stored before the documents they name.          *)
QueriesFirst(j) ==
    CASE j.mode = "qdrant_only" -> "ensure"
      [] j.op = "seed"          -> "queries"
      [] OTHER                  -> "lock_row"

FirstStep(j) ==
    CASE j.mode = "qdrant_only" -> "ensure"
      [] j.op = "delete"        -> "delete_row"
      [] OTHER                  -> "lock_row"

Start(r, j) ==
    LET met == {d \in DocsIn(j.writes) : \E q \in Requests : d \in DocsOf(q)} IN
    /\ ~ Active(r)
    /\ pc' = [pc EXCEPT ![r] = FirstStep(j)]
    /\ job' = [job EXCEPT ![r] = j]
    /\ overlapped' = [q \in Requests |->
                        IF q = r THEN met ELSE overlapped[q] \union (met \intersect DocsOf(q))]
    /\ suspect' = suspect \union met \union (IF Complete(j) THEN {} ELSE DocsIn(j.writes))
    /\ UNCHANGED <<pgVars, qdrantVars, at, txn, unsent>>

(* The handler returned or raised: its session is closed, which rolls an   *)
(* open transaction back, and the slot is free for another job.            *)
Free(r) ==
    /\ pc' = [pc EXCEPT ![r] = "idle"]
    /\ job' = [job EXCEPT ![r] = NoJob]
    /\ at' = [at EXCEPT ![r] = 1]
    /\ txn' = [txn EXCEPT ![r] = NoTxn]
    /\ unsent' = [unsent EXCEPT ![r] = {}]
    /\ overlapped' = [overlapped EXCEPT ![r] = {}]

Succeed(r) ==
    /\ Free(r)
    /\ suspect' = IF Complete(job[r]) THEN suspect \ (DocsOf(r) \ overlapped[r]) ELSE suspect

RolledBack(r) == Free(r) /\ UNCHANGED suspect

(* The job raised after its transaction had committed.                     *)
LeftHalfway(r) == Free(r) /\ suspect' = suspect \union DocsOf(r)

-----------------------------------------------------------------------------
(* PostgreSQL: ingest_documents_postgres and the DELETE statement.         *)

(* INSERT ... ON CONFLICT (id) DO UPDATE waits for the row of its id.      *)
LockRow(r) ==
    /\ pc[r] = "lock_row"
    /\ Holders(r, Doc(r)) = {}
    /\ pc' = [pc EXCEPT ![r] = "write_row"]
    /\ UNCHANGED <<pgVars, qdrantVars, job, at, txn, unsent, historyVars>>

(* The undecided writers of another row that holds, or may come to hold,   *)
(* the checksum r writes.                                                  *)
ChecksumWriters(r) ==
    {q \in Requests \ {r} : \E e \in Docs \ {Doc(r)} :
        Holds(q, e) /\ (SameContent(row[e], Body(r)) \/ SameContent(View(q, e), Body(r)))}

(* Mutant: the checksum is not declared unique.                            *)
NeverTaken(r) == FALSE

ChecksumTaken(r) == \E e \in Docs \ {Doc(r)} : SameContent(View(r, e), Body(r))

WriteRow(r) ==
    /\ pc[r] = "write_row"
    /\ ChecksumWriters(r) = {}
    /\ ~ ChecksumTaken(r)
    /\ txn' = [txn EXCEPT ![r].staged[Doc(r)] = Body(r)]
    /\ pc' = [pc EXCEPT ![r] = "replace_chunks"]
    /\ UNCHANGED <<pgVars, qdrantVars, job, at, unsent, historyVars>>

(* IntegrityError: another document has this content.                      *)
RejectRow(r) ==
    /\ pc[r] = "write_row"
    /\ ChecksumWriters(r) = {}
    /\ ChecksumTaken(r)
    /\ RolledBack(r)
    /\ UNCHANGED <<pgVars, qdrantVars>>

(* Mutant: one document too many.                                          *)
ReplaceChunksPastEnd(r) ==
    /\ pc[r] = "replace_chunks"
    /\ txn' = [txn EXCEPT ![r].gone = @ \union ChunksIn(chunks, Doc(r)),
                          ![r].fresh = @ \union ChunksOf(Doc(r), Body(r))]
    /\ at' = [at EXCEPT ![r] = @ + 1]
    /\ pc' = [pc EXCEPT ![r] = IF at[r] <= Len(job[r].writes) THEN "lock_row" ELSE "commit"]
    /\ UNCHANGED <<pgVars, qdrantVars, job, unsent, historyVars>>

(* Mutant: chunks are replaced by their keys, as points are.               *)
ReplaceChunksByKey(r) ==
    /\ pc[r] = "replace_chunks"
    /\ LET fresh == ChunksOf(Doc(r), Body(r))
       IN  txn' = [txn EXCEPT ![r].gone = @ \union {c \in chunks : \E k \in fresh : SameKey(c, k)},
                             ![r].fresh = @ \union fresh]
    /\ IF at[r] < Len(job[r].writes)
       THEN at' = [at EXCEPT ![r] = @ + 1] /\ pc' = [pc EXCEPT ![r] = "lock_row"]
       ELSE pc' = [pc EXCEPT ![r] = "commit"] /\ UNCHANGED at
    /\ UNCHANGED <<pgVars, qdrantVars, job, unsent, historyVars>>

(* DELETE FROM chunks, then chunk, embed and insert; on to the next        *)
(* document of the list or to the commit.                                  *)
ReplaceChunks(r) ==
    /\ pc[r] = "replace_chunks"
    /\ txn' = [txn EXCEPT ![r].gone = @ \union ChunksIn(chunks, Doc(r)),
                          ![r].fresh = @ \union ChunksOf(Doc(r), Body(r))]
    /\ IF at[r] < Len(job[r].writes)
       THEN at' = [at EXCEPT ![r] = @ + 1] /\ pc' = [pc EXCEPT ![r] = "lock_row"]
       ELSE pc' = [pc EXCEPT ![r] = "commit"] /\ UNCHANGED at
    /\ UNCHANGED <<pgVars, qdrantVars, job, unsent, historyVars>>

(* Mutant: the foreign key does not cascade.                               *)
DeleteRowOnly(r) ==
    /\ pc[r] = "delete_row"
    /\ Holders(r, Doc(r)) = {}
    /\ txn' = [txn EXCEPT ![r].staged[Doc(r)] = NoBody]
    /\ pc' = [pc EXCEPT ![r] = "commit"]
    /\ UNCHANGED <<pgVars, qdrantVars, job, at, unsent, historyVars>>

(* DELETE FROM documents: nothing to do, nor to wait for, when no          *)
(* committed row has the id; the foreign key takes the chunks along.       *)
DeleteRow(r) ==
    /\ pc[r] = "delete_row"
    /\ \/ row[Doc(r)] = NoBody /\ UNCHANGED txn
       \/ /\ row[Doc(r)] # NoBody
          /\ Holders(r, Doc(r)) = {}
          /\ txn' = [txn EXCEPT ![r].staged[Doc(r)] = NoBody,
                                ![r].gone = ChunksIn(chunks, Doc(r))]
    /\ pc' = [pc EXCEPT ![r] = "commit"]
    /\ UNCHANGED <<pgVars, qdrantVars, job, at, unsent, historyVars>>

AfterCommit(j) ==
    CASE j.op = "delete" -> "delete_points"
      [] j.op = "seed"   -> "queries"
      [] OTHER           -> "ensure"

(* session.commit(); "answered" is FALSE when the connection is lost after *)
(* the server committed, which raises in the handler.                      *)
Commit(r, answered) ==
    /\ pc[r] = "commit"
    /\ row' = [d \in Docs |-> View(r, d)]
    /\ chunks' = (chunks \ txn[r].gone) \union txn[r].fresh
    /\ IF answered
       THEN /\ pc' = [pc EXCEPT ![r] = AfterCommit(job[r])]
            /\ txn' = [txn EXCEPT ![r] = NoTxn]
            /\ UNCHANGED <<job, at, unsent, historyVars>>
       ELSE LeftHalfway(r)
    /\ UNCHANGED <<labels, qdrantVars>>

(* The requests r waits for, and the deadlocks PostgreSQL looks for.       *)
WaitsFor(r) ==
    CASE pc[r] = "lock_row"   -> Holders(r, Doc(r))
      [] pc[r] = "write_row"  -> ChecksumWriters(r)
      [] pc[r] = "delete_row" -> IF row[Doc(r)] = NoBody THEN {} ELSE Holders(r, Doc(r))
      [] OTHER                -> {}

InDeadlock(r) ==
    \A C \in SUBSET Requests :
        (WaitsFor(r) \subseteq C /\ \A q \in C : WaitsFor(q) \subseteq C) => r \in C

AbortDeadlocked(r) ==
    /\ InDeadlock(r)
    /\ RolledBack(r)
    /\ UNCHANGED <<pgVars, qdrantVars>>

(* ingest_queries_postgres: the seed's labels, in a transaction of their   *)
(* own; --postgres-only ends here.                                         *)
StoreQueries(r, answered) ==
    /\ pc[r] = "queries"
    /\ labels' = DocsIn(job[r].writes)
    /\ CASE ~ answered -> LeftHalfway(r)
         [] answered /\ job[r].mode = "postgres_only" -> Succeed(r)
         [] OTHER -> /\ pc' = [pc EXCEPT ![r] = "ensure"]
                     /\ UNCHANGED <<job, at, txn, unsent, historyVars>>
    /\ UNCHANGED <<row, chunks, qdrantVars>>

-----------------------------------------------------------------------------
(* Qdrant: ensure_qdrant_collection, ingest_documents_qdrant, delete.      *)

BeginFill(r) ==
    /\ pc' = [pc EXCEPT ![r] = "fill"]
    /\ unsent' = [unsent EXCEPT ![r] = PointsOf(job[r])]

EnsureCollection(r) ==
    /\ pc[r] = "ensure"
    /\ IF collection THEN BeginFill(r)
       ELSE pc' = [pc EXCEPT ![r] = "create"] /\ UNCHANGED unsent
    /\ UNCHANGED <<pgVars, qdrantVars, job, at, txn, historyVars>>

(* Another request may have created the collection since it was looked up: *)
(* create_collection then raises.                                          *)
CreateCollection(r, answered) ==
    /\ pc[r] = "create"
    /\ collection' = TRUE
    /\ IF ~ collection /\ answered
       THEN BeginFill(r) /\ UNCHANGED <<job, at, txn, historyVars>>
       ELSE LeftHalfway(r)
    /\ UNCHANGED <<pgVars, points, late>>

(* The order in which the loops over documents and chunks append points.   *)
Precedes(j, p, q) ==
    LET pos(x) == CHOOSE i \in DOMAIN j.writes : j.writes[i].doc = x.doc
    IN  pos(p) < pos(q) \/ (p.doc = q.doc /\ p.index < q.index)

IsNextBatch(r, batch) ==
    /\ batch # {}
    /\ Cardinality(batch) <= BatchSize
    /\ Cardinality(batch) < BatchSize => batch = unsent[r]
    /\ \A p \in batch, q \in unsent[r] \ batch : Precedes(job[r], p, q)

(* Mutant: points get new ids, so an upsert replaces none.                 *)
Appended(ps, batch) == ps \union batch

Upserted(ps, batch) == {p \in ps : ~ \E k \in batch : SameKey(p, k)} \union batch

(* Mutant: the batch is not emptied after it was sent.                     *)
FlushAgain(r, answered) ==
    /\ pc[r] = "fill"
    /\ \E batch \in SUBSET unsent[r] :
        IsNextBatch(r, batch) /\ points' = Upserted(points, batch)
    /\ UNCHANGED <<pgVars, collection, late, requestVars, historyVars>>

Flush(r, answered) ==
    /\ pc[r] = "fill"
    /\ \E batch \in SUBSET unsent[r] :
        /\ IsNextBatch(r, batch)
        /\ points' = Upserted(points, batch)
        /\ IF answered
           THEN /\ unsent' = [unsent EXCEPT ![r] = @ \ batch]
                /\ UNCHANGED <<pc, job, at, txn, historyVars>>
           ELSE LeftHalfway(r)
    /\ UNCHANGED <<pgVars, collection, late>>

Finish(r) ==
    /\ pc[r] = "fill"
    /\ unsent[r] = {}
    /\ Succeed(r)
    /\ UNCHANGED <<pgVars, qdrantVars>>

(* The filter compares the path's text with payload.document_id, which is  *)
(* the canonical str(uuid).                                                *)
DeletePoints(r, answered) ==
    /\ pc[r] = "delete_points"
    /\ collection
    /\ points' = IF job[r].spelling = "canonical"
                 THEN {p \in points : p.doc # Doc(r)} ELSE points
    /\ IF answered THEN Succeed(r) ELSE LeftHalfway(r)
    /\ UNCHANGED <<pgVars, collection, late>>

(* Qdrant answers 404 for a collection it does not have.                   *)
DeleteFromNoCollection(r) ==
    /\ pc[r] = "delete_points"
    /\ ~ collection
    /\ LeftHalfway(r)
    /\ UNCHANGED <<pgVars, qdrantVars>>

-----------------------------------------------------------------------------

(* Any awaited call may raise without effect: a store or the embedding     *)
(* model is down, times out, or the process dies (every request fails).    *)
Fail(r) ==
    /\ Faults
    /\ Active(r)
    /\ IF pc[r] \in InTransaction THEN RolledBack(r) ELSE LeftHalfway(r)
    /\ UNCHANGED <<pgVars, qdrantVars>>

(* The Qdrant client times out and the job raises, while the call is still *)
(* on its way (one such call per slot).                                    *)
GiveUp(r) ==
    /\ Late
    /\ late[r] = NoCall
    /\ \/ /\ pc[r] = "fill"
          /\ \E batch \in SUBSET unsent[r] :
                /\ IsNextBatch(r, batch)
                /\ late' = [late EXCEPT ![r] = [puts |-> batch, drops |-> {}]]
       \/ /\ pc[r] = "delete_points"
          /\ job[r].spelling = "canonical"
          /\ late' = [late EXCEPT ![r] = [puts |-> {}, drops |-> {Doc(r)}]]
    /\ LeftHalfway(r)
    /\ UNCHANGED <<pgVars, points, collection>>

CalledFor(call) == call.drops \union {p.doc : p \in call.puts}

(* Qdrant applies it after all, whatever was written since: the document   *)
(* needs another write, and one that runs meanwhile is overlapped.         *)
Land(r) ==
    /\ late[r] # NoCall
    /\ collection
    /\ points' = Upserted({p \in points : p.doc \notin late[r].drops}, late[r].puts)
    /\ late' = [late EXCEPT ![r] = NoCall]
    /\ overlapped' = [q \in Requests |->
                        overlapped[q] \union (CalledFor(late[r]) \intersect DocsOf(q))]
    /\ suspect' = suspect \union CalledFor(late[r])
    /\ UNCHANGED <<pgVars, collection, requestVars>>

Answers == IF Faults THEN BOOLEAN ELSE {TRUE}

Decide(r) == WriteRow(r) \/ RejectRow(r)

Step(r) ==
    \/ LockRow(r) \/ Decide(r) \/ ReplaceChunks(r) \/ DeleteRow(r)
    \/ EnsureCollection(r) \/ Finish(r) \/ DeleteFromNoCollection(r)
    \/ \E answered \in Answers :
        \/ Commit(r, answered) \/ StoreQueries(r, answered)
        \/ CreateCollection(r, answered) \/ Flush(r, answered)
        \/ DeletePoints(r, answered)

Next == \E r \in Requests :
    \/ \E j \in Jobs : Start(r, j)
    \/ Step(r)
    \/ AbortDeadlocked(r)
    \/ Fail(r)
    \/ GiveUp(r)
    \/ Land(r)

Spec == Init /\ [][Next]_vars

(***************************************************************************)
(* The event loop resumes every coroutine whose call has been answered,    *)
(* PostgreSQL grants a contended row in the order of its lock queue (hence *)
(* strong fairness of the steps that can be overtaken), and its deadlock   *)
(* detector runs.  Nobody has to send requests and no call has to fail.    *)
(***************************************************************************)
Fairness == \A r \in Requests :
    /\ WF_vars(Step(r))
    /\ SF_vars(LockRow(r))
    /\ SF_vars(Decide(r))
    /\ SF_vars(DeleteRow(r))
    /\ WF_vars(AbortDeadlocked(r))

FairSpec == Spec /\ Fairness

-----------------------------------------------------------------------------

TxnType ==
    [staged : [Docs -> Bodies \union {NoBody, Untouched}],
     gone : SUBSET Chunks, fresh : SUBSET Chunks]

(* Every variable has its type: a request that is free has no job, an      *)
(* active one has reached a write of its list.                             *)
TypeOK ==
    /\ row \in [Docs -> Bodies \union {NoBody}]
    /\ chunks \subseteq Chunks
    /\ labels \subseteq Docs
    /\ points \subseteq Chunks
    /\ collection \in BOOLEAN
    /\ late \in [Requests -> QdrantCalls \union {NoCall}]
    /\ pc \in [Requests -> {"idle"} \union InTransaction \union AfterTransaction]
    /\ job \in [Requests -> Jobs \union {NoJob}]
    /\ \A r \in Requests : Active(r) <=> job[r] \in Jobs
    /\ at \in [Requests -> Nat]
    /\ \A r \in Requests : Active(r) => at[r] \in DOMAIN job[r].writes
    /\ txn \in [Requests -> TxnType]
    /\ unsent \in [Requests -> SUBSET Chunks]
    /\ overlapped \in [Requests -> SUBSET Docs]
    /\ suspect \subseteq Docs

(* Whatever runs, fails or is rolled back meanwhile, the committed chunks  *)
(* are those of the committed bodies: no search in PostgreSQL meets a      *)
(* document without its chunks, a chunk of a replaced body or of a deleted *)
(* document (ingest_documents_postgres commits once, after its loops).     *)
ChunksMatchRows == chunks = IndexOf(row)

(* No two committed documents have the same content, although the check is *)
(* made long before the commit and rows are written concurrently.          *)
ChecksumsUnique == UniqueChecksums(row)

(* While a request writes Qdrant, PostgreSQL still holds what it committed *)
(* there, unless another request ran on that document meanwhile: the two   *)
(* halves of upsert_document describe the same write.                      *)
QdrantFollowsPostgres ==
    \A r \in Requests :
        (pc[r] \in AfterTransaction /\ job[r].mode # "qdrant_only") =>
            \A i \in DOMAIN job[r].writes :
                LET w == job[r].writes[i]
                IN  w.doc \notin overlapped[r] => row[w.doc] = w.body

(* The two stores agree on a document at rest once a job on it has run     *)
(* alone and succeeded, whatever failures, lost answers, races and partly  *)
(* sent batches came before, and no call given up earlier has been applied *)
(* since: retrying the write repairs Qdrant.  Only points past the last    *)
(* chunk of the new body are not covered.                                  *)
AgreeOn(d) ==
    IF row[d] = NoBody THEN ChunksIn(points, d) = {}
    ELSE {p \in ChunksIn(points, d) : p.index < ChunkCount[row[d]]} = ChunksIn(chunks, d)

SettledAgreement ==
    \A d \in Docs :
        (d \notin suspect /\ \A r \in Requests : d \notin DocsOf(r)) => AgreeOn(d)

(* The benchmark queries a seed run stores name documents that are in      *)
(* PostgreSQL, as long as nothing is deleted: seeding stores its labels    *)
(* after the documents they name, and a failed seed leaves none behind.    *)
LabelsResolve == \A d \in labels : row[d] # NoBody

(* Every request is answered: no lock, no wait for a checksum and no       *)
(* deadlock keeps a handler from returning or raising.                     *)
RequestsEnd == \A r \in Requests : Active(r) ~> ~ Active(r)

(* For a reader of PostgreSQL every job is one atomic step on the map of   *)
(* documents and its chunk index, or has no effect at all.                 *)
Atomic == INSTANCE Corpus WITH corpus <- row, index <- chunks

WritesAreAtomic == Atomic!CorpusSpec

(* README.md:49: "Every retriever sees the same chunk text, metadata,      *)
(* query set, labels, and `top_k`."  Whenever no write is in progress,     *)
(* Qdrant's retrievers search what PostgreSQL's search.  The code breaks   *)
(* it in three ways: overlapping writes, a body that gets shorter, and a   *)
(* DELETE that spells the id in another way.                               *)
StoresAgreeAtRest == (\A r \in Requests : ~ Active(r)) => points = chunks

-----------------------------------------------------------------------------
(* Why the committed tables stay consistent: the inductive invariant that  *)
(* DocumentStoreProofs proves, stated here so that TLC can look at it too. *)

Staged(r) == {d \in Docs : txn[r].staged[d] # Untouched}

(* The documents whose chunks the transaction has replaced.                *)
Replaced(r) == IF pc[r] = "replace_chunks" THEN Staged(r) \ {Doc(r)} ELSE Staged(r)

(* A free slot carries nothing over, and a transaction exists only between *)
(* the first statement and the commit.                                     *)
NothingCarriedOver ==
    \A r \in Requests :
        /\ ~ Active(r) => at[r] = 1
        /\ pc[r] \notin InTransaction => txn[r] = NoTxn

PhaseFits(r) ==
    /\ pc[r] \in {"lock_row", "write_row", "replace_chunks"} => job[r].op # "delete"
    /\ pc[r] \in {"delete_row", "delete_points"} => job[r].op = "delete"
    /\ pc[r] \in InTransaction => job[r].mode # "qdrant_only"

(* What a transaction has staged is the part of its job it has reached.    *)
FirstDocs(r, n) == {job[r].writes[i].doc : i \in 1 .. n}

StagedFollows(r) ==
    pc[r] \in InTransaction =>
        /\ \A i \in DOMAIN job[r].writes :
              job[r].writes[i].doc \in Staged(r) =>
                  txn[r].staged[job[r].writes[i].doc] = job[r].writes[i].body
        /\ Staged(r) \subseteq DocsIn(job[r].writes)
        /\ pc[r] \in {"lock_row", "write_row"} => Staged(r) = FirstDocs(r, at[r] - 1)
        /\ pc[r] = "replace_chunks" => Staged(r) = FirstDocs(r, at[r])
        /\ pc[r] = "delete_row" => Staged(r) = {}
        /\ (pc[r] = "commit" /\ job[r].op # "delete") => Staged(r) = DocsIn(job[r].writes)

(* Its chunks are those of the rows it staged, in place of all the         *)
(* committed ones.                                                         *)
ChunksFollow(r) ==
    /\ txn[r].gone = {c \in chunks : c.doc \in Replaced(r)}
    /\ txn[r].fresh = UNION { ChunksOf(d, txn[r].staged[d]) : d \in Replaced(r) }

LocksExclusive ==
    \A r, q \in Requests, d \in Docs : (r # q /\ Holds(r, d)) => ~ Holds(q, d)

(* Whatever open transactions commit, and in whatever order, no two        *)
(* documents come to have the same content.                                *)
NoClashStaged ==
    \A r \in Requests : \A d \in Staged(r) : \A e \in Docs \ {d} :
        /\ ~ SameContent(View(r, e), View(r, d))
        /\ \A q \in Requests : e \in Staged(q) => ~ SameContent(View(q, e), View(r, d))

PgInv ==
    /\ TypeOK
    /\ NothingCarriedOver
    /\ \A r \in Requests : PhaseFits(r) /\ StagedFollows(r) /\ ChunksFollow(r)
    /\ LocksExclusive
    /\ NoClashStaged
    /\ ChunksMatchRows
    /\ ChecksumsUnique

(* Two active requests know of each other's documents ...                  *)
OverlapsKnown ==
    \A r, q \in Requests : r # q => DocsOf(r) \intersect DocsOf(q) \subseteq overlapped[r]

(* ... so that what an undisturbed one is about to commit is its job.      *)
CommitFollowsJob ==
    \A r \in Requests : pc[r] = "commit" =>
        \A i \in DOMAIN job[r].writes :
            job[r].writes[i].doc \notin overlapped[r] =>
                View(r, job[r].writes[i].doc) = job[r].writes[i].body

OverlapInv == PgInv /\ OverlapsKnown /\ CommitFollowsJob /\ QdrantFollowsPostgres

-----------------------------------------------------------------------------
(* Why the stores agree again: the inductive invariant of SettleInvariant. *)

(* The one point with its key.                                             *)
Sole(k) == k \in points /\ \A p \in points : SameKey(p, k) => p = k

(* What r has still to send, and that what it sent is there, unless others *)
(* have been at the document.                                              *)
SentFits(r) ==
    /\ pc[r] \in {"queries", "ensure", "create", "fill"} => job[r].op # "delete"
    /\ unsent[r] \subseteq (IF pc[r] = "fill" THEN PointsOf(job[r]) ELSE {})
    /\ pc[r] = "fill" => \A k \in PointsOf(job[r]) :
          k.doc \in overlapped[r] \/ k \in unsent[r] \/ Sole(k)

(* Documents that two jobs wrote, or one job in part, stay suspect.        *)
SuspectsKnown(r) ==
    /\ DocsOf(r) \intersect overlapped[r] \subseteq suspect
    /\ Active(r) /\ ~ Complete(job[r]) => DocsOf(r) \subseteq suspect

(* A job disturbs the agreement only once its transaction is over.         *)
Undisturbed(d) == \A r \in Requests : d \in DocsOf(r) => pc[r] \in InTransaction

SettleCore ==
    /\ \A r \in Requests : SentFits(r) /\ SuspectsKnown(r)
    /\ \A d \in Docs \ suspect : Undisturbed(d) => AgreeOn(d)

SettleInv == OverlapInv /\ SettleCore

-----------------------------------------------------------------------------
(* Why labels resolve: a run about to store its labels has its documents.  *)

LabelInv ==
    /\ PgInv
    /\ LabelsResolve
    /\ \A r \in Requests : pc[r] = "queries" => \A d \in DocsOf(r) : row[d] # NoBody

=============================================================================
