------------------------ MODULE DocumentStoreProofs ------------------------
(***************************************************************************)
(* For any number of documents, bodies, requests and seed lists, and any   *)
(* failures: the committed tables of DocumentStore are consistent, what is *)
(* written to Qdrant is what they hold, a job that runs alone leaves both  *)
(* stores in agreement, and labels name documents.                         *)
(***************************************************************************)
EXTENDS DocumentStore, SequenceTheorems, TLAPS

Stored == Bodies \union {NoBody}

(* A job is a non-empty list of writes of distinct documents; a DELETE     *)
(* writes NoBody and concerns both stores, any other job writes bodies.    *)
LEMMA JobShape ==
    ASSUME NEW j \in Jobs
    PROVE  /\ j.writes \in Seq([doc : Docs, body : Stored])
           /\ 1 \in DOMAIN j.writes
           /\ \A i, k \in DOMAIN j.writes : j.writes[i].doc = j.writes[k].doc => i = k
           /\ j.op = "delete" => j.mode = "both" /\ \A i \in DOMAIN j.writes : j.writes[i].body = NoBody
           /\ j.op # "delete" => \A i \in DOMAIN j.writes : j.writes[i].body \in Bodies
<1>1. CASE j \in Upserts
  <2>1. PICK d \in Docs, b \in Bodies :
            j = [op |-> "upsert", mode |-> "both", spelling |-> "canonical",
                 writes |-> <<[doc |-> d, body |-> b]>>]
    BY <1>1 DEF Upserts
  <2>2. /\ DOMAIN j.writes = {1} /\ j.writes[1] = [doc |-> d, body |-> b]
        /\ j.writes \in Seq([doc : Docs, body : Stored])
    BY <2>1 DEF Stored
  <2> QED
    BY <2>1, <2>2
<1>2. CASE j \in Deletes
  <2>1. PICK d \in Docs, s \in Spellings :
            j = [op |-> "delete", mode |-> "both", spelling |-> s,
                 writes |-> <<[doc |-> d, body |-> NoBody]>>]
    BY <1>2 DEF Deletes
  <2>2. /\ DOMAIN j.writes = {1} /\ j.writes[1] = [doc |-> d, body |-> NoBody]
        /\ j.writes \in Seq([doc : Docs, body : Stored])
    BY <2>1 DEF Stored
  <2> QED
    BY <2>1, <2>2
<1>3. CASE j \in Seeds
  <2>1. PICK ws \in SeedLists, m \in SeedModes :
            j = [op |-> "seed", mode |-> m, spelling |-> "canonical", writes |-> ws]
    BY <1>3 DEF Seeds
  <2>2. ws \in Seq(Writes) /\ ws # <<>>
    BY RequestsAssumption
  <2>3. Len(ws) \in Nat \ {0} /\ DOMAIN ws = 1 .. Len(ws)
    BY <2>2, EmptySeq, LenProperties
  <2>4. ws \in Seq([doc : Docs, body : Stored])
    <3>1. Writes \subseteq [doc : Docs, body : Stored]
      BY DEF Writes, Stored
    <3> QED
      BY <2>2, <3>1, SeqMonotonic
  <2>5. \A i \in DOMAIN ws : ws[i].body \in Bodies
    <3>1. ws \in [1 .. Len(ws) -> Writes]
      BY <2>2, LenProperties
    <3> QED
      BY <3>1, <2>3 DEF Writes
  <2>6. \A i, k \in DOMAIN ws : ws[i].doc = ws[k].doc => i = k
    BY RequestsAssumption
  <2>7. 1 \in DOMAIN ws
    BY <2>3
  <2>8. j.writes = ws /\ j.op = "seed"
    BY <2>1
  <2> QED
    <3>1. j.writes \in Seq([doc : Docs, body : Stored]) /\ 1 \in DOMAIN j.writes
      BY <2>4, <2>7, <2>8
    <3>2. \A i, k \in DOMAIN j.writes : j.writes[i].doc = j.writes[k].doc => i = k
      BY <2>6, <2>8
    <3>3. \A i \in DOMAIN j.writes : j.writes[i].body \in Bodies
      BY <2>5, <2>8
    <3> QED
      BY <3>1, <3>2, <3>3, <2>8
<1> QED
  BY <1>1, <1>2, <1>3 DEF Jobs

(* The write an active request has reached is a write of its job.          *)
LEMMA Reached ==
    ASSUME TypeOK, NEW r \in Requests, Active(r)
    PROVE  /\ job[r] \in Jobs
           /\ at[r] \in 1 .. Len(job[r].writes)
           /\ Doc(r) \in Docs
           /\ Body(r) \in Stored
           /\ Doc(r) \in DocsIn(job[r].writes)
           /\ DocsIn(job[r].writes) \subseteq Docs
           /\ job[r].op # "delete" => Body(r) \in Bodies
           /\ job[r].op = "delete" => Body(r) = NoBody
<1>1. job[r] \in Jobs /\ at[r] \in DOMAIN job[r].writes
  BY DEF TypeOK
<1>2. job[r].writes \in Seq([doc : Docs, body : Stored])
  BY <1>1, JobShape
<1>3. /\ DOMAIN job[r].writes = 1 .. Len(job[r].writes)
      /\ job[r].writes \in [1 .. Len(job[r].writes) -> [doc : Docs, body : Stored]]
  BY <1>2, LenProperties
<1>4. \A i \in DOMAIN job[r].writes :
        job[r].writes[i].doc \in Docs /\ job[r].writes[i].body \in Stored
  BY <1>3
<1>5. DocsIn(job[r].writes) \subseteq Docs
  BY <1>4 DEF DocsIn
<1>6. Doc(r) \in DocsIn(job[r].writes)
  BY <1>1 DEF Doc, DocsIn
<1> QED
  BY <1>1, <1>3, <1>4, <1>5, <1>6, JobShape DEF Doc, Body

(* The chunks of a body belong to its document.                            *)
LEMMA ChunksOfType ==
    ASSUME NEW d \in Docs, NEW b \in Stored
    PROVE  /\ ChunksOf(d, b) \subseteq Chunks
           /\ \A c \in ChunksOf(d, b) : c.doc = d
BY BodiesAssumption DEF ChunksOf, Chunks, Stored

LateType == late \in [Requests -> QdrantCalls \union {NoCall}]

(* Freeing a slot keeps the types.                                         *)
LEMMA FreeType ==
    ASSUME TypeOK, NEW r \in Requests, Free(r), suspect' \subseteq Docs,
           row' \in [Docs -> Stored], chunks' \subseteq Chunks, labels' \subseteq Docs,
           points' \subseteq Chunks, collection' \in BOOLEAN, LateType'
    PROVE  TypeOK'
<1>1. NoTxn \in TxnType
  BY DEF NoTxn, TxnType
<1>2. \A q \in Requests \ {r} : pc'[q] = pc[q] /\ job'[q] = job[q] /\ at'[q] = at[q]
  BY DEF Free, TypeOK
<1>3. pc'[r] = "idle" /\ job'[r] = NoJob
  BY DEF Free, TypeOK
<1>4. /\ pc' \in [Requests -> {"idle"} \union InTransaction \union AfterTransaction]
      /\ job' \in [Requests -> Jobs \union {NoJob}]
      /\ at' \in [Requests -> Nat]
      /\ unsent' \in [Requests -> SUBSET Chunks]
      /\ overlapped' \in [Requests -> SUBSET Docs]
  BY DEF Free, TypeOK
<1>5. txn' \in [Requests -> TxnType]
  BY <1>1 DEF Free, TypeOK
<1>6. \A q \in Requests : Active(q)' <=> job'[q] \in Jobs
  BY <1>2, <1>3, SentinelsAssumption DEF TypeOK, Active
<1>7. \A q \in Requests : Active(q)' => at'[q] \in DOMAIN job'[q].writes
  BY <1>2, <1>3 DEF TypeOK, Active
<1> QED
  BY <1>4, <1>5, <1>6, <1>7 DEF TypeOK, Stored, LateType

(* The points of a job are chunks.                                         *)
LEMMA PointsOfType ==
    ASSUME NEW j \in Jobs
    PROVE  PointsOf(j) \subseteq Chunks
<1>1. j.writes \in [1 .. Len(j.writes) -> [doc : Docs, body : Stored]]
  BY JobShape, LenProperties
<1> QED
  BY <1>1, ChunksOfType DEF PointsOf

(* A step of r to another phase, or further down its list.                 *)
LEMMA PhaseType ==
    ASSUME TypeOK, NEW r \in Requests, Active(r),
           NEW l \in InTransaction \union AfterTransaction,
           pc' = [pc EXCEPT ![r] = l], UNCHANGED job,
           at' \in [Requests -> Nat],
           \A q \in Requests \ {r} : at'[q] = at[q],
           at'[r] \in DOMAIN job[r].writes
    PROVE  /\ pc' \in [Requests -> {"idle"} \union InTransaction \union AfterTransaction]
           /\ job' \in [Requests -> Jobs \union {NoJob}]
           /\ \A q \in Requests : Active(q)' <=> job'[q] \in Jobs
           /\ \A q \in Requests : Active(q)' => at'[q] \in DOMAIN job'[q].writes
<1>1. l # "idle"
  BY DEF InTransaction, AfterTransaction
<1>2. \A q \in Requests : Active(q)' <=> Active(q)
  BY <1>1 DEF TypeOK, Active
<1> QED
  BY <1>2 DEF TypeOK

(* What a transaction may stage keeps its type.                            *)
LEMMA TxnTypes ==
    ASSUME TypeOK, NEW r \in Requests, Active(r)
    PROVE  /\ [txn EXCEPT ![r].staged[Doc(r)] = Body(r)] \in [Requests -> TxnType]
           /\ [txn EXCEPT ![r].gone = @ \union ChunksIn(chunks, Doc(r)),
                          ![r].fresh = @ \union ChunksOf(Doc(r), Body(r))] \in [Requests -> TxnType]
           /\ [txn EXCEPT ![r].staged[Doc(r)] = NoBody,
                          ![r].gone = ChunksIn(chunks, Doc(r))] \in [Requests -> TxnType]
           /\ [txn EXCEPT ![r] = NoTxn] \in [Requests -> TxnType]
<1>1. Doc(r) \in Docs /\ Body(r) \in Stored
  BY Reached
<1>2. ChunksIn(chunks, Doc(r)) \subseteq Chunks /\ ChunksOf(Doc(r), Body(r)) \subseteq Chunks
  BY <1>1, ChunksOfType DEF ChunksIn, TypeOK
<1>3. txn \in [Requests -> TxnType]
  BY DEF TypeOK
<1>4. NoTxn \in TxnType
  BY DEF NoTxn, TxnType
<1> QED
  BY <1>1, <1>2, <1>3, <1>4 DEF TxnType, Stored

TypeInv == TypeOK /\ NothingCarriedOver

LEMMA TypeInit == Init => TypeInv
<1> SUFFICES ASSUME Init PROVE TypeInv
  OBVIOUS
<1>1. NoTxn \in TxnType
  BY DEF NoTxn, TxnType
<1>2. TypeOK
  BY <1>1, SentinelsAssumption, SettingsAssumption DEF Init, TypeOK, Active
<1>3. NothingCarriedOver
  BY DEF Init, NothingCarriedOver
<1> QED
  BY <1>2, <1>3 DEF TypeInv

(* Freeing a slot leaves nothing in it.                                    *)
LEMMA FreeCarriesNothing ==
    ASSUME TypeOK, NothingCarriedOver, NEW r \in Requests, Free(r)
    PROVE  NothingCarriedOver'
BY DEF NothingCarriedOver, Free, TypeOK, Active, InTransaction

LEMMA TypeStep == TypeInv /\ [Next]_vars => TypeInv'
<1> SUFFICES ASSUME TypeInv, [Next]_vars PROVE TypeInv'
  OBVIOUS
<1> USE DEF TypeInv
<1>f. ASSUME NEW r \in Requests, Active(r), Free(r),
             suspect' \in {suspect, suspect \ (DocsOf(r) \ overlapped[r]), suspect \union DocsOf(r)},
             row' \in [Docs -> Stored], chunks' \subseteq Chunks, labels' \subseteq Docs,
             points' \subseteq Chunks, collection' \in BOOLEAN, LateType'
      PROVE  TypeInv'
  <2>1. DocsOf(r) \subseteq Docs
    BY <1>f, Reached DEF DocsOf
  <2>2. suspect' \subseteq Docs
    BY <1>f, <2>1 DEF TypeOK
  <2> QED
    BY <1>f, <2>2, FreeType, FreeCarriesNothing
<1>g. row \in [Docs -> Stored] /\ chunks \subseteq Chunks /\ labels \subseteq Docs
      /\ points \subseteq Chunks /\ collection \in BOOLEAN /\ LateType
  BY DEF TypeOK, Stored, LateType
<1>l. UNCHANGED late => LateType'
  BY DEF LateType, TypeOK
<1>v. ASSUME NEW r \in Requests, Active(r)
      PROVE  [d \in Docs |-> View(r, d)] \in [Docs -> Stored]
  BY <1>v DEF TypeOK, TxnType, View, Stored
<1>1. ASSUME NEW r \in Requests, NEW j \in Jobs, Start(r, j) PROVE TypeInv'
  <2>1. DocsIn(j.writes) \subseteq Docs /\ 1 \in DOMAIN j.writes
    <3>1. j.writes \in [1 .. Len(j.writes) -> [doc : Docs, body : Stored]]
      BY JobShape, LenProperties
    <3> QED
      BY <3>1, JobShape DEF DocsIn
  <2>2. /\ pc' = [pc EXCEPT ![r] = FirstStep(j)] /\ ~ Active(r)
        /\ job' = [job EXCEPT ![r] = j]
        /\ UNCHANGED <<pgVars, qdrantVars, at, txn, unsent>>
    BY <1>1 DEF Start
  <2>3. FirstStep(j) \in InTransaction \union AfterTransaction
    BY DEF FirstStep, InTransaction, AfterTransaction
  <2>4. FirstStep(j) # "idle"
    BY DEF FirstStep
  <2>5. overlapped' \in [Requests -> SUBSET Docs] /\ suspect' \subseteq Docs
    BY <1>1, <2>1 DEF Start, TypeOK
  <2>6. at[r] = 1
    BY <2>2 DEF NothingCarriedOver
  <2>7. /\ \A q \in Requests : Active(q)' <=> job'[q] \in Jobs
        /\ \A q \in Requests : Active(q)' => at'[q] \in DOMAIN job'[q].writes
    BY <2>1, <2>2, <2>4, <2>6 DEF TypeOK, Active
  <2>8. TypeOK'
    BY <2>2, <2>3, <2>5, <2>7 DEF TypeOK, pgVars, qdrantVars
  <2>9. NothingCarriedOver'
    BY <2>2, <2>4 DEF NothingCarriedOver, TypeOK, Active, InTransaction
  <2> QED
    BY <2>8, <2>9
<1>2. ASSUME NEW r \in Requests, Active(r),
             NEW l \in InTransaction \union AfterTransaction, pc' = [pc EXCEPT ![r] = l],
             UNCHANGED job, UNCHANGED historyVars,
             at' \in [Requests -> Nat], \A q \in Requests \ {r} : at'[q] = at[q],
             at'[r] \in DOMAIN job[r].writes,
             txn' \in [Requests -> TxnType], \A q \in Requests \ {r} : txn'[q] = txn[q],
             l \notin InTransaction => txn'[r] = NoTxn,
             unsent' \in [Requests -> SUBSET Chunks],
             row' \in [Docs -> Stored], chunks' \subseteq Chunks, labels' \subseteq Docs,
             points' \subseteq Chunks, collection' \in BOOLEAN, LateType'
      PROVE  TypeInv'
  <2>1. TypeOK'
    <3>1. overlapped' \in [Requests -> SUBSET Docs] /\ suspect' \subseteq Docs
      BY <1>2 DEF TypeOK, historyVars
    <3> QED
      BY <1>2, <3>1, PhaseType DEF TypeOK, Stored, LateType
  <2>2. NothingCarriedOver'
    <3>1. l # "idle"
      BY DEF InTransaction, AfterTransaction
    <3> QED
      BY <1>2, <3>1 DEF NothingCarriedOver, TypeOK, Active
  <2> QED
    BY <2>1, <2>2
<1>a. /\ at \in [Requests -> Nat] /\ txn \in [Requests -> TxnType]
      /\ unsent \in [Requests -> SUBSET Chunks]
      /\ \A r \in Requests : Active(r) => at[r] \in DOMAIN job[r].writes
  BY DEF TypeOK
<1>b. \A r \in Requests : pc[r] \in AfterTransaction => txn[r] = NoTxn
  BY DEF NothingCarriedOver, AfterTransaction, InTransaction
<1>3. ASSUME NEW r \in Requests, LockRow(r) PROVE TypeInv'
  <2>1. Active(r) /\ "write_row" \in InTransaction
    BY <1>3 DEF LockRow, Active, InTransaction
  <2> QED
    BY <1>2, <1>3, <1>a, <1>g, <1>l, <2>1 DEF LockRow, pgVars, qdrantVars
<1>4. ASSUME NEW r \in Requests, WriteRow(r) PROVE TypeInv'
  <2>1. Active(r) /\ "replace_chunks" \in InTransaction
    BY <1>4 DEF WriteRow, Active, InTransaction
  <2>2. txn' \in [Requests -> TxnType] /\ \A q \in Requests \ {r} : txn'[q] = txn[q]
    BY <1>4, <2>1, TxnTypes DEF WriteRow, TypeOK
  <2> QED
    BY <1>2, <1>4, <1>a, <1>g, <1>l, <2>1, <2>2 DEF WriteRow, pgVars, qdrantVars
<1>5. ASSUME NEW r \in Requests, RejectRow(r) PROVE TypeInv'
  BY <1>5, <1>f, <1>g, <1>l DEF RejectRow, RolledBack, Active, pgVars, qdrantVars
<1>6. ASSUME NEW r \in Requests, ReplaceChunks(r) PROVE TypeInv'
  <2>1. Active(r) /\ "lock_row" \in InTransaction /\ "commit" \in InTransaction
    BY <1>6 DEF ReplaceChunks, Active, InTransaction
  <2>2. txn' \in [Requests -> TxnType] /\ \A q \in Requests \ {r} : txn'[q] = txn[q]
    BY <1>6, <2>1, TxnTypes DEF ReplaceChunks, TypeOK
  <2>3. DOMAIN job[r].writes = 1 .. Len(job[r].writes) /\ Len(job[r].writes) \in Nat
    BY <2>1, Reached, JobShape, LenProperties
  <2>4. /\ at' \in [Requests -> Nat] /\ \A q \in Requests \ {r} : at'[q] = at[q]
        /\ at'[r] \in DOMAIN job[r].writes
    BY <1>6, <1>a, <2>1, <2>3 DEF ReplaceChunks
  <2>5. UNCHANGED <<pgVars, qdrantVars, job, unsent, historyVars>>
        /\ (pc' = [pc EXCEPT ![r] = "lock_row"] \/ pc' = [pc EXCEPT ![r] = "commit"])
    BY <1>6 DEF ReplaceChunks
  <2> QED
    BY <1>2, <1>a, <1>g, <1>l, <2>1, <2>2, <2>4, <2>5 DEF pgVars, qdrantVars
<1>7. ASSUME NEW r \in Requests, DeleteRow(r) PROVE TypeInv'
  <2>1. Active(r) /\ "commit" \in InTransaction
    BY <1>7 DEF DeleteRow, Active, InTransaction
  <2>2. txn' \in [Requests -> TxnType] /\ \A q \in Requests \ {r} : txn'[q] = txn[q]
    BY <1>7, <1>a, <2>1, TxnTypes DEF DeleteRow, TypeOK
  <2> QED
    BY <1>2, <1>7, <1>a, <1>g, <1>l, <2>1, <2>2 DEF DeleteRow, pgVars, qdrantVars
<1>8. ASSUME NEW r \in Requests, NEW answered \in BOOLEAN, Commit(r, answered) PROVE TypeInv'
  <2>1. Active(r)
    BY <1>8 DEF Commit, Active
  <2>2. row' \in [Docs -> Stored] /\ chunks' \subseteq Chunks
    <3>1. txn[r].fresh \subseteq Chunks
      BY <1>a DEF TxnType
    <3> QED
      BY <1>8, <1>v, <1>g, <1>l, <2>1, <3>1 DEF Commit
  <2>3. CASE answered
    <3>1. AfterCommit(job[r]) \in AfterTransaction /\ AfterCommit(job[r]) \notin InTransaction
      BY DEF AfterCommit, AfterTransaction, InTransaction
    <3>2. txn' \in [Requests -> TxnType] /\ (\A q \in Requests \ {r} : txn'[q] = txn[q])
          /\ txn'[r] = NoTxn
      BY <1>8, <2>1, <2>3, TxnTypes DEF Commit, TypeOK
    <3> QED
      BY <1>2, <1>8, <1>a, <1>g, <1>l, <2>1, <2>2, <2>3, <3>1, <3>2 DEF Commit, qdrantVars
  <2>4. CASE ~ answered
    BY <1>8, <1>f, <1>g, <1>l, <2>1, <2>2, <2>4 DEF Commit, LeftHalfway, qdrantVars
  <2> QED
    BY <2>3, <2>4
<1>9. ASSUME NEW r \in Requests, AbortDeadlocked(r) PROVE TypeInv'
  <2>1. Active(r)
    <3>1. WaitsFor(r) = {} => ~ InDeadlock(r)
      BY DEF InDeadlock
    <3>2. pc[r] = "idle" => WaitsFor(r) = {}
      BY DEF WaitsFor
    <3> QED
      BY <1>9, <3>1, <3>2 DEF AbortDeadlocked, Active
  <2> QED
    BY <1>9, <1>f, <1>g, <1>l, <2>1 DEF AbortDeadlocked, RolledBack, pgVars, qdrantVars
<1>10. ASSUME NEW r \in Requests, NEW answered \in BOOLEAN, StoreQueries(r, answered) PROVE TypeInv'
  <2>1. Active(r) /\ pc[r] \in AfterTransaction /\ "ensure" \in AfterTransaction \ InTransaction
    BY <1>10 DEF StoreQueries, Active, AfterTransaction, InTransaction
  <2>2. labels' \subseteq Docs
    BY <1>10, <2>1, Reached DEF StoreQueries
  <2>3. CASE pc' = [pc EXCEPT ![r] = "ensure"] /\ UNCHANGED <<job, at, txn, unsent, historyVars>>
    BY <1>2, <1>10, <1>a, <1>b, <1>g, <1>l, <2>1, <2>2, <2>3 DEF StoreQueries, qdrantVars
  <2>4. CASE Succeed(r) \/ LeftHalfway(r)
    BY <1>10, <1>f, <1>g, <1>l, <2>1, <2>2, <2>4 DEF StoreQueries, Succeed, LeftHalfway, qdrantVars
  <2> QED
    BY <1>10, <2>3, <2>4 DEF StoreQueries
<1>11. ASSUME NEW r \in Requests, Active(r), pc[r] \in AfterTransaction, BeginFill(r),
              UNCHANGED <<pgVars, points, late, job, at, txn, historyVars>>, collection' \in BOOLEAN
       PROVE  TypeInv'
  <2>1. "fill" \in AfterTransaction \ InTransaction
    BY DEF AfterTransaction, InTransaction
  <2>2. unsent' \in [Requests -> SUBSET Chunks]
    BY <1>11, <1>a, Reached, PointsOfType DEF BeginFill
  <2> QED
    BY <1>2, <1>11, <1>a, <1>b, <1>g, <1>l, <2>1, <2>2 DEF BeginFill, pgVars
<1>12. ASSUME NEW r \in Requests, EnsureCollection(r) PROVE TypeInv'
  <2>1. Active(r) /\ pc[r] \in AfterTransaction /\ "create" \in AfterTransaction \ InTransaction
    BY <1>12 DEF EnsureCollection, Active, AfterTransaction, InTransaction
  <2>2. CASE collection
    BY <1>11, <1>12, <1>g, <1>l, <2>1, <2>2 DEF EnsureCollection, qdrantVars
  <2>3. CASE ~ collection
    BY <1>2, <1>12, <1>a, <1>b, <1>g, <1>l, <2>1, <2>3 DEF EnsureCollection, pgVars, qdrantVars
  <2> QED
    BY <2>2, <2>3
<1>13. ASSUME NEW r \in Requests, NEW answered \in BOOLEAN, CreateCollection(r, answered) PROVE TypeInv'
  <2>1. Active(r) /\ pc[r] \in AfterTransaction
    BY <1>13 DEF CreateCollection, Active, AfterTransaction
  <2>2. CASE ~ collection /\ answered
    BY <1>11, <1>13, <1>g, <1>l, <2>1, <2>2 DEF CreateCollection
  <2>3. CASE ~ (~ collection /\ answered)
    BY <1>13, <1>f, <1>g, <1>l, <2>1, <2>3 DEF CreateCollection, LeftHalfway, pgVars
  <2> QED
    BY <2>2, <2>3
<1>14. ASSUME NEW r \in Requests, NEW answered \in BOOLEAN, Flush(r, answered) PROVE TypeInv'
  <2>1. Active(r) /\ pc[r] \in AfterTransaction /\ "fill" \in AfterTransaction \ InTransaction
    BY <1>14 DEF Flush, Active, AfterTransaction, InTransaction
  <2>2. PICK batch \in SUBSET unsent[r] :
          /\ points' = Upserted(points, batch)
          /\ IF answered
             THEN /\ unsent' = [unsent EXCEPT ![r] = @ \ batch]
                  /\ UNCHANGED <<pc, job, at, txn, historyVars>>
             ELSE LeftHalfway(r)
    BY <1>14 DEF Flush
  <2>3. points' \subseteq Chunks
    BY <1>a, <1>g, <1>l, <2>2 DEF Upserted
  <2>4. CASE answered
    <3>1. unsent' \in [Requests -> SUBSET Chunks]
      BY <1>a, <2>2, <2>4
    <3>2. UNCHANGED <<pgVars, collection, late, pc, job, at, txn, historyVars>>
      BY <1>14, <2>2, <2>4 DEF Flush
    <3> QED
      BY <2>3, <3>1, <3>2 DEF TypeOK, NothingCarriedOver, Active, pgVars, historyVars
  <2>5. CASE ~ answered
    BY <1>14, <1>f, <1>g, <1>l, <2>1, <2>2, <2>3, <2>5 DEF Flush, LeftHalfway, pgVars
  <2> QED
    BY <2>4, <2>5
<1>15. ASSUME NEW r \in Requests, Finish(r) PROVE TypeInv'
  BY <1>15, <1>f, <1>g, <1>l DEF Finish, Succeed, Active, pgVars, qdrantVars
<1>16. ASSUME NEW r \in Requests, NEW answered \in BOOLEAN, DeletePoints(r, answered) PROVE TypeInv'
  <2>1. points' \subseteq Chunks
    BY <1>16, <1>g, <1>l DEF DeletePoints
  <2> QED
    BY <1>16, <1>f, <1>g, <1>l, <2>1 DEF DeletePoints, Succeed, LeftHalfway, Active, pgVars
<1>17. ASSUME NEW r \in Requests, DeleteFromNoCollection(r) PROVE TypeInv'
  BY <1>17, <1>f, <1>g, <1>l DEF DeleteFromNoCollection, LeftHalfway, Active, pgVars, qdrantVars
<1>18. ASSUME NEW r \in Requests, Fail(r) PROVE TypeInv'
  BY <1>18, <1>f, <1>g, <1>l DEF Fail, RolledBack, LeftHalfway, pgVars, qdrantVars
<1>19. CASE UNCHANGED vars
  BY <1>19 DEF TypeOK, NothingCarriedOver, Active, vars, pgVars, qdrantVars, requestVars, historyVars
<1>20. Answers \subseteq BOOLEAN
  BY DEF Answers
<1>21. ASSUME NEW r \in Requests, GiveUp(r) PROVE TypeInv'
  <2>1. Active(r)
    BY <1>21 DEF GiveUp, Active
  <2>2. unsent[r] \subseteq Chunks /\ Doc(r) \in Docs
    BY <1>a, <2>1, Reached
  <2>3. LateType'
    BY <1>21, <1>g, <2>2 DEF GiveUp, LateType, QdrantCalls
  <2> QED
    BY <1>21, <1>f, <1>g, <2>1, <2>3 DEF GiveUp, LeftHalfway, pgVars
<1>22. ASSUME NEW r \in Requests, Land(r) PROVE TypeInv'
  <2>1. late[r] \in QdrantCalls
    BY <1>22 DEF Land, TypeOK
  <2>2. CalledFor(late[r]) \subseteq Docs /\ late[r].puts \subseteq Chunks
    BY <2>1 DEF CalledFor, QdrantCalls, Chunks
  <2>3. points' \subseteq Chunks /\ LateType'
    BY <1>22, <1>g, <2>2 DEF Land, Upserted, LateType
  <2>4. overlapped' \in [Requests -> SUBSET Docs] /\ suspect' \subseteq Docs
    BY <1>22, <2>2 DEF Land, TypeOK
  <2> QED
    BY <1>22, <2>3, <2>4 DEF Land, TypeOK, LateType, NothingCarriedOver, Active, pgVars, requestVars
<1> QED
  BY <1>21, <1>22, <1>1, <1>3, <1>4, <1>5, <1>6, <1>7, <1>8, <1>9, <1>10, <1>12, <1>13, <1>14, <1>15,
     <1>16, <1>17, <1>18, <1>19, <1>20 DEF Next, Step, Decide

(* Every variable keeps its type, and a free slot carries nothing over.    *)
THEOREM Typed == Spec => []TypeOK
<1>1. Spec => []TypeInv
  BY TypeInit, TypeStep, PTL DEF Spec
<1> QED
  BY <1>1, PTL DEF TypeInv

-----------------------------------------------------------------------------
(* The committed tables.                                                   *)

(* A request outside a transaction holds and stages nothing.               *)
LEMMA Outside ==
    ASSUME NEW r \in Requests, txn'[r] = NoTxn, pc'[r] \notin InTransaction
    PROVE  /\ Staged(r)' = {}
           /\ \A d \in Docs : ~ Holds(r, d)' /\ View(r, d)' = row'[d]
           /\ StagedFollows(r)' /\ ChunksFollow(r)'
<1>1. pc'[r] # "write_row" /\ pc'[r] # "replace_chunks"
  BY DEF InTransaction
<1>2. \A d \in Docs : txn'[r].staged[d] = Untouched
  BY DEF NoTxn
<1>3. Staged(r)' = {} /\ Replaced(r)' = {}
  BY <1>1, <1>2 DEF Staged, Replaced
<1>4. ChunksFollow(r)'
  BY <1>3 DEF ChunksFollow, NoTxn
<1> QED
  BY <1>1, <1>2, <1>3, <1>4 DEF Holds, View, StagedFollows

(* A request that does not move keeps its part of the invariant, as long   *)
(* as the committed chunks of the documents it has replaced stay.          *)
LEMMA Still ==
    ASSUME NEW r \in Requests,
           pc'[r] = pc[r], job'[r] = job[r], at'[r] = at[r], txn'[r] = txn[r]
    PROVE  /\ Staged(r)' = Staged(r)
           /\ Replaced(r)' = Replaced(r)
           /\ \A d \in Docs : Holds(r, d)' <=> Holds(r, d)
           /\ PhaseFits(r) => PhaseFits(r)'
           /\ StagedFollows(r) => StagedFollows(r)'
           /\ UNCHANGED chunks => (ChunksFollow(r) => ChunksFollow(r)')
           /\ UNCHANGED row => \A d \in Docs : View(r, d)' = View(r, d)
<1>1. Doc(r)' = Doc(r)
  BY DEF Doc
<1>2. Staged(r)' = Staged(r) /\ Replaced(r)' = Replaced(r)
  BY <1>1 DEF Staged, Replaced
<1>3. \A d \in Docs : Holds(r, d)' <=> Holds(r, d)
  BY <1>1 DEF Holds
<1>4. PhaseFits(r) => PhaseFits(r)'
  BY DEF PhaseFits
<1>5. StagedFollows(r) => StagedFollows(r)'
  BY <1>2 DEF StagedFollows, FirstDocs
<1>6. UNCHANGED chunks => (ChunksFollow(r) => ChunksFollow(r)')
  BY <1>2 DEF ChunksFollow
<1> QED
  BY <1>2, <1>3, <1>4, <1>5, <1>6 DEF View

(* What is left of PgInv beside TypeInv.                                   *)
PgCore ==
    /\ \A r \in Requests : PhaseFits(r) /\ StagedFollows(r) /\ ChunksFollow(r)
    /\ LocksExclusive
    /\ NoClashStaged
    /\ ChunksMatchRows
    /\ ChecksumsUnique

OthersStill(r) ==
    \A q \in Requests \ {r} :
        pc'[q] = pc[q] /\ job'[q] = job[q] /\ at'[q] = at[q] /\ txn'[q] = txn[q]

(* A request that is outside a transaction after a step that leaves the    *)
(* tables alone has changed nothing the others rely on.                    *)
LEMMA LeaveTransaction ==
    ASSUME PgInv, NEW r \in Requests, OthersStill(r), UNCHANGED <<row, chunks>>,
           txn'[r] = NoTxn, pc'[r] \notin InTransaction, PhaseFits(r)'
    PROVE  PgCore'
<1>1. \A q \in Requests : PhaseFits(q)' /\ StagedFollows(q)' /\ ChunksFollow(q)'
  BY Outside, Still DEF OthersStill, PgInv
<1>2. LocksExclusive'
  BY Outside, Still DEF OthersStill, PgInv, LocksExclusive
<1>3. NoClashStaged'
  <2> SUFFICES ASSUME NEW q \in Requests, NEW d \in Staged(q)', NEW e \in Docs \ {d}
               PROVE  /\ ~ SameContent(View(q, e), View(q, d))'
                      /\ \A p \in Requests :
                            e \in Staged(p)' => ~ SameContent(View(p, e), View(q, d))'
    BY DEF NoClashStaged
  <2>1. q # r /\ d \in Docs
    BY Outside DEF Staged
  <2>2. d \in Staged(q) /\ View(q, e)' = View(q, e) /\ View(q, d)' = View(q, d)
    BY <2>1, Still DEF OthersStill
  <2>3. \A p \in Requests : e \in Staged(p)' => e \in Staged(p) /\ View(p, e)' = View(p, e)
    BY Outside, Still DEF OthersStill
  <2> QED
    BY <2>2, <2>3 DEF PgInv, NoClashStaged, SameContent
<1>4. ChunksMatchRows' /\ ChecksumsUnique'
  BY DEF PgInv, ChunksMatchRows, ChecksumsUnique, IndexOf, UniqueChecksums
<1> QED
  BY <1>1, <1>2, <1>3, <1>4 DEF PgCore

(* The documents a transaction holds, hence has staged, are its own.       *)
LEMMA StagedHeld ==
    ASSUME NEW r \in Requests
    PROVE  \A d \in Staged(r) : Holds(r, d)
BY DEF Staged, Holds

(* A step of r inside its transaction: what is left to show is its own     *)
(* part, and that rows it came to hold or stage were free to take.         *)
LEMMA MoveInside ==
    ASSUME PgInv, NEW r \in Requests, OthersStill(r), UNCHANGED <<row, chunks>>,
           PhaseFits(r)', StagedFollows(r)', ChunksFollow(r)',
           \A d \in Docs : Holds(r, d)' => Holds(r, d) \/ Holders(r, d) = {},
           \A d \in Staged(r)' :
              \/ d \in Staged(r) /\ View(r, d)' = View(r, d)
              \/ /\ \A e \in Docs \ {d} :
                      ~ SameContent(View(r, e)', View(r, d)') /\ ~ SameContent(View(r, d)', View(r, e)')
                 /\ \A q \in Requests \ {r}, e \in Docs \ {d} : Holds(q, e) =>
                      ~ SameContent(View(q, e), View(r, d)') /\ ~ SameContent(View(r, d)', View(q, e)),
           \A d \in Docs : d \notin Staged(r)' => View(r, d)' = View(r, d)
    PROVE  PgCore'
<1>1. \A q \in Requests : PhaseFits(q)' /\ StagedFollows(q)' /\ ChunksFollow(q)'
  BY Still DEF OthersStill, PgInv
<1>2. LocksExclusive'
  BY Still DEF OthersStill, PgInv, LocksExclusive, Holders
<1>3. NoClashStaged'
  <2> SUFFICES ASSUME NEW q \in Requests, NEW d \in Staged(q)', NEW e \in Docs \ {d}
               PROVE  /\ ~ SameContent(View(q, e)', View(q, d)')
                      /\ \A p \in Requests :
                            e \in Staged(p)' => ~ SameContent(View(p, e)', View(q, d)')
    BY DEF NoClashStaged, SameContent
  <2>1. d \in Docs
    BY DEF Staged
  <2>2. \A p \in Requests \ {r} : Staged(p)' = Staged(p) /\ \A c \in Docs : View(p, c)' = View(p, c)
    BY Still DEF OthersStill
  <2>3. \A p \in Requests : \A c \in Staged(p) : Holds(p, c)
    BY StagedHeld
  <2>4. \A p \in Requests : \A c \in Staged(p) : \A b \in Docs \ {c} :
            /\ ~ SameContent(View(p, b), View(p, c))
            /\ \A o \in Requests : b \in Staged(o) => ~ SameContent(View(o, b), View(p, c))
    BY DEF PgInv, NoClashStaged
  <2>5. CASE q = r
    BY <2>1, <2>2, <2>3, <2>4, <2>5
  <2>6. CASE q # r
    BY <2>1, <2>2, <2>3, <2>4, <2>6
  <2> QED
    BY <2>5, <2>6
<1>4. ChunksMatchRows' /\ ChecksumsUnique'
  BY DEF PgInv, ChunksMatchRows, ChecksumsUnique, IndexOf, UniqueChecksums
<1> QED
  BY <1>1, <1>2, <1>3, <1>4 DEF PgCore

LEMMA PgLockRow == ASSUME PgInv, NEW r \in Requests, LockRow(r) PROVE PgCore'
<1>1. /\ pc[r] = "lock_row" /\ Holders(r, Doc(r)) = {}
      /\ pc'[r] = "write_row"
      /\ UNCHANGED <<row, chunks, job, at, txn>>
      /\ OthersStill(r)
  BY DEF LockRow, PgInv, TypeOK, OthersStill, pgVars
<1>2. Doc(r)' = Doc(r) /\ Staged(r)' = Staged(r) /\ Replaced(r)' = Replaced(r)
  BY <1>1 DEF Doc, Staged, Replaced
<1>3. \A d \in Docs : Holds(r, d)' => Holds(r, d) \/ d = Doc(r)
  BY <1>1, <1>2 DEF Holds
<1>4. PhaseFits(r)'
  BY <1>1 DEF PgInv, PhaseFits, InTransaction
<1>5. StagedFollows(r)'
  BY <1>1, <1>2 DEF PgInv, StagedFollows, FirstDocs, InTransaction
<1>6. ChunksFollow(r)'
  BY <1>1, <1>2 DEF PgInv, ChunksFollow
<1>7. \A d \in Docs : View(r, d)' = View(r, d)
  BY <1>1 DEF View
<1>8. Staged(r) \subseteq Docs
  BY DEF Staged
<1> QED
  BY <1>1, <1>2, <1>3, <1>4, <1>5, <1>6, <1>7, <1>8, MoveInside

(* While r has yet to write the row it has reached, that row is not among  *)
(* those it staged.                                                        *)
LEMMA NotStagedYet ==
    ASSUME PgInv, NEW r \in Requests, pc[r] \in {"lock_row", "write_row"}
    PROVE  Doc(r) \notin Staged(r) /\ FirstDocs(r, at[r]) = FirstDocs(r, at[r] - 1) \union {Doc(r)}
<1>1. Active(r) /\ pc[r] \in InTransaction
  BY DEF Active, InTransaction
<1>2. job[r] \in Jobs /\ at[r] \in 1 .. Len(job[r].writes)
  BY <1>1, Reached DEF PgInv
<1>3. DOMAIN job[r].writes = 1 .. Len(job[r].writes) /\ Len(job[r].writes) \in Nat
  BY <1>2, JobShape, LenProperties
<1>4. \A i, k \in DOMAIN job[r].writes : job[r].writes[i].doc = job[r].writes[k].doc => i = k
  BY <1>2, JobShape
<1>5. Staged(r) = FirstDocs(r, at[r] - 1)
  BY <1>1 DEF PgInv, StagedFollows
<1>6. 1 .. at[r] - 1 \subseteq DOMAIN job[r].writes /\ at[r] \in DOMAIN job[r].writes
      /\ at[r] \notin 1 .. at[r] - 1 /\ 1 .. at[r] = (1 .. at[r] - 1) \union {at[r]}
  BY <1>2, <1>3
<1> QED
  BY <1>4, <1>5, <1>6 DEF FirstDocs, Doc

LEMMA PgWriteRow == ASSUME PgInv, NEW r \in Requests, WriteRow(r) PROVE PgCore'
<1>1. /\ pc[r] = "write_row" /\ ChecksumWriters(r) = {} /\ ~ ChecksumTaken(r)
      /\ pc'[r] = "replace_chunks"
      /\ UNCHANGED <<row, chunks, job, at>>
      /\ OthersStill(r)
  BY DEF WriteRow, PgInv, TypeOK, OthersStill, pgVars
<1>2. /\ Active(r) /\ pc[r] \in InTransaction /\ job[r].op # "delete"
  BY <1>1 DEF Active, InTransaction, PgInv, PhaseFits
<1>3. Doc(r) \in Docs /\ Body(r) \in Bodies /\ Body(r) # Untouched /\ Doc(r)' = Doc(r)
  BY <1>1, <1>2, Reached, SentinelsAssumption DEF PgInv, Doc
<1>4. /\ txn'[r].staged = [txn[r].staged EXCEPT ![Doc(r)] = Body(r)]
      /\ txn'[r].gone = txn[r].gone /\ txn'[r].fresh = txn[r].fresh
      /\ txn[r].staged \in [Docs -> Bodies \union {NoBody, Untouched}]
  BY DEF WriteRow, PgInv, TypeOK, TxnType
<1>5. Staged(r)' = Staged(r) \union {Doc(r)} /\ Doc(r) \notin Staged(r)
  BY <1>1, <1>3, <1>4, NotStagedYet DEF Staged
<1>6. Replaced(r)' = Replaced(r) /\ Replaced(r) = Staged(r)
  BY <1>1, <1>3, <1>5 DEF Replaced
<1>7. \A d \in Docs : View(r, d)' = IF d = Doc(r) THEN Body(r) ELSE View(r, d)
  BY <1>1, <1>3, <1>4 DEF View
<1>8. PhaseFits(r)'
  BY <1>1, <1>2 DEF PgInv, PhaseFits, InTransaction
<1>9. StagedFollows(r)'
  <2>1. \A i, k \in DOMAIN job[r].writes : job[r].writes[i].doc = job[r].writes[k].doc => i = k
    BY <1>2, Reached, JobShape DEF PgInv
  <2>2. at[r] \in DOMAIN job[r].writes
    BY <1>2 DEF PgInv, TypeOK
  <2>3. StagedFollows(r) /\ Staged(r) = FirstDocs(r, at[r] - 1)
    BY <1>1, <1>2 DEF PgInv, StagedFollows
  <2>4. \A i \in DOMAIN job[r].writes : job[r].writes[i].doc \in Staged(r)' =>
            txn'[r].staged[job[r].writes[i].doc] = job[r].writes[i].body
    <3> SUFFICES ASSUME NEW i \in DOMAIN job[r].writes, job[r].writes[i].doc \in Staged(r)'
                 PROVE  txn'[r].staged[job[r].writes[i].doc] = job[r].writes[i].body
      OBVIOUS
    <3>1. CASE job[r].writes[i].doc = Doc(r)
      BY <1>3, <1>4, <2>1, <2>2, <3>1 DEF Doc, Body
    <3>2. CASE job[r].writes[i].doc # Doc(r)
      BY <1>2, <1>4, <1>5, <2>3, <3>2 DEF StagedFollows
    <3> QED
      BY <3>1, <3>2
  <2>5. Staged(r)' \subseteq DocsIn(job[r].writes)
    BY <1>2, <1>5, <2>3, Reached DEF StagedFollows, PgInv
  <2>6. Staged(r)' = FirstDocs(r, at[r])
    BY <1>1, <1>5, <2>3, NotStagedYet
  <2> QED
    BY <1>1, <2>4, <2>5, <2>6 DEF StagedFollows, FirstDocs
<1>10. ChunksFollow(r)'
  <2>1. ChunksFollow(r)
    BY DEF PgInv
  <2>2. \A d \in Staged(r) : txn'[r].staged[d] = txn[r].staged[d]
    BY <1>4, <1>5 DEF Staged
  <2> QED
    BY <1>1, <1>4, <1>6, <2>1, <2>2 DEF ChunksFollow
<1>11. \A d \in Docs : Holds(r, d)' => Holds(r, d)
  BY <1>1, <1>4, <1>3 DEF Holds
<1>12. \A e \in Docs \ {Doc(r)} : ~ SameContent(View(r, e), Body(r)) /\ ~ SameContent(Body(r), View(r, e))
  BY <1>1 DEF ChecksumTaken, SameContent
<1>13. \A q \in Requests \ {r}, e \in Docs \ {Doc(r)} : Holds(q, e) =>
           ~ SameContent(View(q, e), Body(r)) /\ ~ SameContent(Body(r), View(q, e))
  BY <1>1 DEF ChecksumWriters, SameContent
<1>14. \A d \in Staged(r) : d \in Docs /\ d # Doc(r)
  BY <1>5 DEF Staged
<1> QED
  BY <1>1, <1>3, <1>5, <1>7, <1>8, <1>9, <1>10, <1>11, <1>12, <1>13, <1>14, MoveInside

LEMMA PgReplaceChunks == ASSUME PgInv, NEW r \in Requests, ReplaceChunks(r) PROVE PgCore'
<1>1. /\ pc[r] = "replace_chunks"
      /\ UNCHANGED <<row, chunks, job>>
      /\ OthersStill(r)
  BY DEF ReplaceChunks, PgInv, TypeOK, OthersStill, pgVars
<1>2. /\ txn'[r].staged = txn[r].staged
      /\ txn'[r].gone = txn[r].gone \union ChunksIn(chunks, Doc(r))
      /\ txn'[r].fresh = txn[r].fresh \union ChunksOf(Doc(r), Body(r))
  BY DEF ReplaceChunks, PgInv, TypeOK, TxnType
<1>3. Active(r) /\ pc[r] \in InTransaction
  BY <1>1 DEF Active, InTransaction
<1>4. /\ DOMAIN job[r].writes = 1 .. Len(job[r].writes) /\ Len(job[r].writes) \in Nat
      /\ at[r] \in 1 .. Len(job[r].writes)
  BY <1>3, Reached, JobShape, LenProperties DEF PgInv
<1>5. \/ pc'[r] = "lock_row" /\ at'[r] = at[r] + 1
      \/ pc'[r] = "commit" /\ at'[r] = at[r] /\ at[r] = Len(job[r].writes)
  BY <1>4 DEF ReplaceChunks, PgInv, TypeOK
<1>6. Staged(r)' = Staged(r) /\ (\A d \in Docs : View(r, d)' = View(r, d))
  BY <1>1, <1>2 DEF Staged, View
<1>7. Staged(r) = FirstDocs(r, at[r]) /\ StagedFollows(r)
  BY <1>1, <1>3 DEF PgInv, StagedFollows
<1>8. Doc(r) \in Staged(r) /\ txn[r].staged[Doc(r)] = Body(r)
  BY <1>3, <1>4, <1>7 DEF FirstDocs, StagedFollows, Doc, Body
<1>9. Replaced(r) = Staged(r) \ {Doc(r)} /\ Replaced(r)' = Staged(r)
  BY <1>1, <1>5, <1>6 DEF Replaced
<1>10. PhaseFits(r)'
  BY <1>1, <1>3, <1>5 DEF PgInv, PhaseFits, InTransaction
<1>11. StagedFollows(r)'
  <2>1. /\ \A i \in DOMAIN job[r].writes :
              job[r].writes[i].doc \in Staged(r) =>
                  txn[r].staged[job[r].writes[i].doc] = job[r].writes[i].body
        /\ Staged(r) \subseteq DocsIn(job[r].writes)
    BY <1>3, <1>7 DEF StagedFollows
  <2>2. FirstDocs(r, Len(job[r].writes)) = DocsIn(job[r].writes)
    BY <1>4 DEF FirstDocs, DocsIn
  <2>3. (at[r] + 1) - 1 = at[r]
    BY <1>4
  <2>4. CASE pc'[r] = "lock_row"
    BY <1>1, <1>2, <1>5, <1>6, <1>7, <2>1, <2>3, <2>4 DEF StagedFollows, FirstDocs
  <2>5. CASE pc'[r] = "commit"
    BY <1>1, <1>2, <1>5, <1>6, <1>7, <2>1, <2>2, <2>5 DEF StagedFollows
  <2> QED
    BY <1>5, <2>4, <2>5
<1>12. ChunksFollow(r)'
  <2>1. ChunksFollow(r)
    BY DEF PgInv
  <2>2. txn'[r].gone = {c \in chunks : c.doc \in Staged(r)}
    BY <1>2, <1>8, <1>9, <2>1 DEF ChunksFollow, ChunksIn
  <2>3. txn'[r].fresh = UNION { ChunksOf(d, txn[r].staged[d]) : d \in Staged(r) }
    <3>1. Staged(r) = Replaced(r) \union {Doc(r)}
      BY <1>8, <1>9
    <3> QED
      BY <1>2, <1>8, <2>1, <3>1 DEF ChunksFollow
  <2> QED
    BY <1>1, <1>2, <1>9, <2>2, <2>3 DEF ChunksFollow
<1>13. \A d \in Docs : Holds(r, d)' => Holds(r, d)
  BY <1>2, <1>5 DEF Holds
<1>14. Staged(r) \subseteq Docs
  BY DEF Staged
<1> QED
  BY <1>1, <1>6, <1>10, <1>11, <1>12, <1>13, <1>14, MoveInside

LEMMA PgDeleteRow == ASSUME PgInv, NEW r \in Requests, DeleteRow(r) PROVE PgCore'
<1>1. /\ pc[r] = "delete_row" /\ pc'[r] = "commit"
      /\ UNCHANGED <<row, chunks, job, at>>
      /\ OthersStill(r)
  BY DEF DeleteRow, PgInv, TypeOK, OthersStill, pgVars
<1>2. Active(r) /\ pc[r] \in InTransaction /\ job[r].op = "delete"
  BY <1>1 DEF Active, InTransaction, PgInv, PhaseFits
<1>3. /\ Doc(r) \in Docs /\ Doc(r) \in DocsIn(job[r].writes)
      /\ \A i \in DOMAIN job[r].writes : job[r].writes[i].body = NoBody
  BY <1>2, Reached, JobShape DEF PgInv
<1>4. Staged(r) = {} /\ txn[r].staged \in [Docs -> Bodies \union {NoBody, Untouched}]
  BY <1>1, <1>2 DEF PgInv, StagedFollows, TypeOK, TxnType
<1>5. Replaced(r)' = Staged(r)' /\ Replaced(r) = {}
  BY <1>1, <1>4 DEF Replaced
<1>6. txn[r].gone = {} /\ txn[r].fresh = {}
  BY <1>5 DEF PgInv, ChunksFollow
<1>7. PhaseFits(r)'
  BY <1>1, <1>2 DEF PgInv, PhaseFits, InTransaction
<1>8. CASE UNCHANGED txn
  <2>1. Staged(r)' = {}
    BY <1>4, <1>8 DEF Staged
  <2>2. StagedFollows(r)' /\ ChunksFollow(r)'
    BY <1>1, <1>2, <1>5, <1>6, <1>8, <2>1 DEF StagedFollows, ChunksFollow
  <2>3. \A d \in Docs : View(r, d)' = View(r, d) /\ (Holds(r, d)' => Holds(r, d))
    BY <1>1, <1>8 DEF View, Holds
  <2> QED
    BY <1>1, <1>7, <2>1, <2>2, <2>3, MoveInside
<1>9. CASE ~ UNCHANGED txn
  <2>1. /\ Holders(r, Doc(r)) = {}
        /\ txn'[r].staged = [txn[r].staged EXCEPT ![Doc(r)] = NoBody]
        /\ txn'[r].gone = ChunksIn(chunks, Doc(r)) /\ txn'[r].fresh = txn[r].fresh
    BY <1>9 DEF DeleteRow, PgInv, TypeOK, TxnType
  <2>2. NoBody # Untouched
    BY SentinelsAssumption
  <2>3. Staged(r)' = {Doc(r)} /\ txn'[r].staged[Doc(r)] = NoBody
    BY <1>3, <1>4, <2>1, <2>2 DEF Staged
  <2>4. StagedFollows(r)'
    BY <1>1, <1>2, <1>3, <2>3 DEF StagedFollows
  <2>5. ChunksFollow(r)'
    BY <1>1, <1>5, <1>6, <2>1, <2>3 DEF ChunksFollow, ChunksIn, ChunksOf
  <2>6. \A d \in Docs : View(r, d)' = IF d = Doc(r) THEN NoBody ELSE View(r, d)
    BY <1>1, <1>3, <1>4, <2>1, <2>2 DEF View
  <2>7. \A d \in Docs : Holds(r, d)' => Holds(r, d) \/ Holders(r, d) = {}
    BY <1>1, <1>4, <2>1 DEF Holds
  <2>8. \A b : ~ SameContent(b, NoBody) /\ ~ SameContent(NoBody, b)
    BY BodiesAssumption DEF SameContent
  <2> QED
    BY <1>1, <1>3, <1>7, <2>3, <2>4, <2>5, <2>6, <2>7, <2>8, MoveInside
<1> QED
  BY <1>8, <1>9

(* At the commit a transaction has replaced the chunks of every row it     *)
(* staged; the tables it leaves are consistent again.                      *)
LEMMA CommitTables ==
    ASSUME PgInv, NEW r \in Requests, pc[r] = "commit",
           row' = [d \in Docs |-> View(r, d)],
           chunks' = (chunks \ txn[r].gone) \union txn[r].fresh
    PROVE  ChunksMatchRows' /\ ChecksumsUnique'
<1>1. Replaced(r) = Staged(r)
  BY DEF Replaced
<1>2. /\ txn[r].gone = {c \in chunks : c.doc \in Staged(r)}
      /\ txn[r].fresh = UNION { ChunksOf(d, txn[r].staged[d]) : d \in Staged(r) }
  BY <1>1 DEF PgInv, ChunksFollow
<1>3. \A d \in Docs : row'[d] = IF d \in Staged(r) THEN txn[r].staged[d] ELSE row[d]
  BY DEF View, Staged
<1>4. \A d, b : \A c \in ChunksOf(d, b) : c.doc = d
  BY DEF ChunksOf
<1>5. ChunksMatchRows'
  <2>1. chunks = UNION { ChunksOf(d, row[d]) : d \in Docs }
    BY DEF PgInv, ChunksMatchRows, IndexOf
  <2>2. chunks \ txn[r].gone = UNION { ChunksOf(d, row[d]) : d \in Docs \ Staged(r) }
    BY <1>2, <1>4, <2>1
  <2>3. chunks' = UNION { ChunksOf(d, row'[d]) : d \in Docs }
    <3>1. Staged(r) \subseteq Docs
      BY DEF Staged
    <3>2. \A d \in Staged(r) : row'[d] = txn[r].staged[d]
      BY <1>3, <3>1
    <3>3. \A d \in Docs \ Staged(r) : row'[d] = row[d]
      BY <1>3
    <3>4. ASSUME NEW c \in chunks' PROVE c \in UNION { ChunksOf(d, row'[d]) : d \in Docs }
      BY <1>2, <2>2, <3>1, <3>2, <3>3
    <3>5. ASSUME NEW d \in Docs, NEW c \in ChunksOf(d, row'[d]) PROVE c \in chunks'
      BY <1>2, <2>2, <3>1, <3>2, <3>3
    <3> QED
      BY <3>4, <3>5
  <2> QED
    BY <2>3 DEF ChunksMatchRows, IndexOf
<1>6. ChecksumsUnique'
  <2> SUFFICES ASSUME NEW d \in Docs, NEW e \in Docs, d # e
               PROVE  ~ SameContent(View(r, d), View(r, e))
    BY DEF ChecksumsUnique, UniqueChecksums, SameContent
  <2>1. \A a \in Staged(r) : \A b \in Docs \ {a} : ~ SameContent(View(r, b), View(r, a))
    BY DEF PgInv, NoClashStaged
  <2>2. CASE d \in Staged(r) \/ e \in Staged(r)
    BY <2>1, <2>2 DEF SameContent
  <2>3. CASE d \notin Staged(r) /\ e \notin Staged(r)
    BY <2>3 DEF PgInv, ChecksumsUnique, UniqueChecksums, View, Staged
  <2> QED
    BY <2>2, <2>3
<1> QED
  BY <1>5, <1>6

LEMMA PgCommit ==
    ASSUME PgInv, NEW r \in Requests, NEW answered \in BOOLEAN, Commit(r, answered)
    PROVE  PgCore'
<1>1. /\ pc[r] = "commit"
      /\ row' = [d \in Docs |-> View(r, d)]
      /\ chunks' = (chunks \ txn[r].gone) \union txn[r].fresh
      /\ OthersStill(r)
      /\ txn'[r] = NoTxn /\ pc'[r] \notin InTransaction
      /\ \/ pc'[r] = AfterCommit(job[r]) /\ job'[r] = job[r]
         \/ pc'[r] = "idle"
  BY DEF Commit, LeftHalfway, Free, AfterCommit, PgInv, TypeOK, OthersStill, InTransaction
<1>2. Active(r)
  BY <1>1 DEF Active
<1>3. \A q \in Requests \ {r} : \A d \in Staged(q) : d \in Docs /\ d \notin Staged(r)
  <2>1. \A q \in Requests : \A d \in Staged(q) : Holds(q, d) /\ d \in Docs
    BY StagedHeld DEF Staged
  <2> QED
    BY <2>1 DEF PgInv, LocksExclusive
<1>4. \A q \in Requests \ {r} : ChunksFollow(q)'
  <2> SUFFICES ASSUME NEW q \in Requests \ {r} PROVE ChunksFollow(q)'
    OBVIOUS
  <2>1. Replaced(q)' = Replaced(q) /\ txn'[q] = txn[q] /\ ChunksFollow(q)
    BY <1>1, Still DEF OthersStill, PgInv
  <2>2. Replaced(q) \subseteq Staged(q)
    BY DEF Replaced
  <2>3. /\ txn[r].gone = {c \in chunks : c.doc \in Staged(r)}
        /\ txn[r].fresh = UNION { ChunksOf(d, txn[r].staged[d]) : d \in Staged(r) }
    BY <1>1 DEF PgInv, ChunksFollow, Replaced
  <2>4. \A d, b : \A c \in ChunksOf(d, b) : c.doc = d
    BY DEF ChunksOf
  <2>5. \A c : c.doc \in Replaced(q) => c \notin txn[r].gone /\ c \notin txn[r].fresh
    BY <1>3, <2>2, <2>3, <2>4
  <2>6. {c \in chunks' : c.doc \in Replaced(q)} = {c \in chunks : c.doc \in Replaced(q)}
    BY <1>1, <2>5
  <2> QED
    BY <2>1, <2>6 DEF ChunksFollow
<1>5. PhaseFits(r)'
  BY <1>1 DEF PhaseFits, AfterCommit, InTransaction
<1>6. \A q \in Requests : PhaseFits(q)' /\ StagedFollows(q)' /\ ChunksFollow(q)'
  BY <1>1, <1>4, <1>5, Outside, Still DEF OthersStill, PgInv
<1>7. LocksExclusive'
  BY <1>1, Outside, Still DEF OthersStill, PgInv, LocksExclusive
<1>8. NoClashStaged'
  <2> SUFFICES ASSUME NEW q \in Requests, NEW d \in Staged(q)', NEW e \in Docs \ {d}
               PROVE  /\ ~ SameContent(View(q, e)', View(q, d)')
                      /\ \A p \in Requests :
                            e \in Staged(p)' => ~ SameContent(View(p, e)', View(q, d)')
    BY DEF NoClashStaged, SameContent
  <2>1. q # r /\ d \in Docs
    BY <1>1, Outside DEF Staged
  <2>2. d \in Staged(q)
    BY <1>1, <2>1, Still DEF OthersStill
  <2>3. \A p \in Requests \ {r} : \A c \in Docs :
            /\ c \in Staged(p)' <=> c \in Staged(p)
            /\ c \in Staged(p) => View(p, c)' = View(p, c)
            /\ c \notin Staged(p) => View(p, c)' = View(r, c) /\ View(p, c) = row[c]
    BY <1>1 DEF OthersStill, View, Staged
  <2>4. /\ ~ SameContent(View(q, e), View(q, d))
        /\ \A p \in Requests : e \in Staged(p) => ~ SameContent(View(p, e), View(q, d))
    BY <2>2 DEF PgInv, NoClashStaged
  <2>5. e \notin Staged(r) => View(r, e) = row[e]
    BY DEF Staged, View
  <2>6. \A p \in Requests : e \in Staged(p)' => p # r
    BY <1>1, Outside
  <2> QED
    BY <2>1, <2>2, <2>3, <2>4, <2>5, <2>6
<1> QED
  BY <1>1, <1>6, <1>7, <1>8, CommitTables DEF PgCore

(* A slot that is freed by a step that leaves the tables alone.            *)
LEMMA PgFree ==
    ASSUME PgInv, NEW r \in Requests, Free(r), UNCHANGED <<row, chunks>>
    PROVE  PgCore'
<1>1. OthersStill(r) /\ txn'[r] = NoTxn /\ pc'[r] = "idle"
  BY DEF Free, OthersStill, PgInv, TypeOK
<1>2. pc'[r] \notin InTransaction /\ PhaseFits(r)'
  BY <1>1 DEF PhaseFits, InTransaction
<1> QED
  BY <1>1, <1>2, LeaveTransaction

(* A step of a request that has left its transaction.                      *)
LEMMA PgAfter ==
    ASSUME PgInv, NEW r \in Requests, UNCHANGED <<row, chunks, job, at, txn>>,
           pc[r] \in AfterTransaction, NEW l \in {"ensure", "create", "fill"},
           pc' = [pc EXCEPT ![r] = l]
    PROVE  PgCore'
<1>1. OthersStill(r) /\ pc'[r] = l
  BY DEF OthersStill, PgInv, TypeOK
<1>2. txn'[r] = NoTxn
  BY DEF PgInv, NothingCarriedOver, AfterTransaction, InTransaction
<1>3. pc'[r] \notin InTransaction /\ PhaseFits(r)'
  BY <1>1 DEF PhaseFits, InTransaction
<1> QED
  BY <1>1, <1>2, <1>3, LeaveTransaction

(* A request that begins stages nothing yet.                               *)
LEMMA PgStart == ASSUME PgInv, NEW r \in Requests, NEW j \in Jobs, Start(r, j) PROVE PgCore'
<1>1. /\ ~ Active(r) /\ pc'[r] = FirstStep(j) /\ job'[r] = j
      /\ UNCHANGED <<row, chunks, at, txn>> /\ OthersStill(r)
  BY DEF Start, PgInv, TypeOK, OthersStill, pgVars
<1>2. txn[r] = NoTxn /\ txn'[r] = NoTxn /\ at'[r] = 1
  BY <1>1 DEF PgInv, NothingCarriedOver, Active, InTransaction
<1>3. \/ pc'[r] = "ensure"
      \/ pc'[r] = "delete_row" /\ j.op = "delete" /\ j.mode # "qdrant_only"
      \/ pc'[r] = "lock_row" /\ j.op # "delete" /\ j.mode # "qdrant_only"
  BY <1>1, JobShape DEF FirstStep
<1>4. PhaseFits(r)'
  BY <1>1, <1>3 DEF PhaseFits, InTransaction
<1>5. Staged(r)' = {} /\ (\A d \in Docs : ~ Holds(r, d)') /\ (\A d \in Docs : View(r, d)' = View(r, d))
  BY <1>1, <1>2, <1>3 DEF Staged, Holds, View, NoTxn
<1>6. StagedFollows(r)'
  <2>1. 1 .. (1 - 1) = {}
    OBVIOUS
  <2>2. FirstDocs(r, at[r] - 1)' = {}
    BY <1>2, <2>1 DEF FirstDocs
  <2> QED
    BY <1>2, <1>3, <1>5, <2>2 DEF StagedFollows
<1>7. ChunksFollow(r)'
  <2>1. Replaced(r)' = {}
    BY <1>5 DEF Replaced
  <2> QED
    BY <1>2, <2>1 DEF ChunksFollow, NoTxn
<1> QED
  BY <1>1, <1>4, <1>5, <1>6, <1>7, MoveInside

LEMMA PgStep == PgInv /\ [Next]_vars => PgInv'
<1> SUFFICES ASSUME PgInv, [Next]_vars PROVE PgInv'
  OBVIOUS
<1>1. TypeOK' /\ NothingCarriedOver'
  BY TypeStep DEF TypeInv, PgInv
<1>2. PgCore'
  <2>1. ASSUME NEW r \in Requests, NEW j \in Jobs, Start(r, j) PROVE PgCore'
    BY <2>1, PgStart
  <2>2. ASSUME NEW r \in Requests, Decide(r) PROVE PgCore'
    BY <2>2, PgWriteRow, PgFree DEF Decide, RejectRow, RolledBack, pgVars
  <2>3. ASSUME NEW r \in Requests, NEW answered \in BOOLEAN, StoreQueries(r, answered) PROVE PgCore'
    BY <2>3, PgAfter, PgFree DEF StoreQueries, Succeed, LeftHalfway, AfterTransaction
  <2>4. ASSUME NEW r \in Requests, EnsureCollection(r) PROVE PgCore'
    BY <2>4, PgAfter DEF EnsureCollection, BeginFill, AfterTransaction, pgVars
  <2>5. ASSUME NEW r \in Requests, NEW answered \in BOOLEAN, CreateCollection(r, answered) PROVE PgCore'
    BY <2>5, PgAfter, PgFree DEF CreateCollection, BeginFill, LeftHalfway, AfterTransaction, pgVars
  <2>6. ASSUME NEW r \in Requests, NEW answered \in BOOLEAN, Flush(r, answered) PROVE PgCore'
    <3>1. UNCHANGED <<row, chunks>>
      BY <2>6 DEF Flush, pgVars
    <3>2. UNCHANGED <<pc, job, at, txn>> \/ Free(r)
      BY <2>6 DEF Flush, LeftHalfway
    <3>3. CASE UNCHANGED <<pc, job, at, txn>>
      <4>1. OthersStill(r) /\ PhaseFits(r)'
        BY <3>3, Still DEF OthersStill, PgInv
      <4>2. txn'[r] = NoTxn /\ pc'[r] \notin InTransaction
        BY <2>6, <3>3 DEF Flush, PgInv, NothingCarriedOver, InTransaction
      <4> QED
        BY <3>1, <4>1, <4>2, LeaveTransaction
    <3> QED
      BY <3>1, <3>2, <3>3, PgFree
  <2>7. ASSUME NEW r \in Requests,
               Finish(r) \/ DeleteFromNoCollection(r) \/ AbortDeadlocked(r) \/ Fail(r) \/ GiveUp(r)
        PROVE  PgCore'
    BY <2>7, PgFree DEF Finish, DeleteFromNoCollection, AbortDeadlocked, Fail, GiveUp,
                        Succeed, LeftHalfway, RolledBack, pgVars
  <2>8. ASSUME NEW r \in Requests, NEW answered \in BOOLEAN, DeletePoints(r, answered) PROVE PgCore'
    BY <2>8, PgFree DEF DeletePoints, Succeed, LeftHalfway, pgVars
  <2>9. CASE UNCHANGED <<pgVars, requestVars>>
    <3>2. \A r \in Requests : PhaseFits(r)' /\ StagedFollows(r)' /\ ChunksFollow(r)'
      BY <2>9, Still DEF PgInv, pgVars, requestVars
    <3>3. LocksExclusive' /\ NoClashStaged'
      BY <2>9 DEF PgInv, LocksExclusive, NoClashStaged, Holds, Doc, Staged, View, pgVars, requestVars
    <3>4. ChunksMatchRows' /\ ChecksumsUnique'
      BY <2>9 DEF PgInv, ChunksMatchRows, ChecksumsUnique, pgVars
    <3> QED
      BY <3>2, <3>3, <3>4 DEF PgCore
  <2>10. Answers \subseteq BOOLEAN
    BY DEF Answers
  <2> QED
    BY <2>1, <2>2, <2>3, <2>4, <2>5, <2>6, <2>7, <2>8, <2>9, <2>10,
       PgLockRow, PgReplaceChunks, PgDeleteRow, PgCommit DEF Next, Step, Land, vars
<1> QED
  BY <1>1, <1>2 DEF PgInv, PgCore

LEMMA PgInit == Init => PgInv
<1> SUFFICES ASSUME Init PROVE PgInv
  OBVIOUS
<1>1. TypeOK /\ NothingCarriedOver
  BY TypeInit DEF TypeInv
<1>2. \A r \in Requests : Staged(r) = {} /\ Replaced(r) = {} /\ \A d \in Docs : ~ Holds(r, d)
  BY DEF Init, Staged, Replaced, Holds, NoTxn
<1>3. \A r \in Requests : PhaseFits(r) /\ StagedFollows(r) /\ ChunksFollow(r)
  BY <1>2 DEF Init, PhaseFits, StagedFollows, ChunksFollow, NoTxn, InTransaction
<1>4. LocksExclusive /\ NoClashStaged
  BY <1>2 DEF LocksExclusive, NoClashStaged
<1>5. ChunksMatchRows /\ ChecksumsUnique
  BY BodiesAssumption DEF Init, ChunksMatchRows, ChecksumsUnique, IndexOf, ChunksOf,
                          UniqueChecksums, SameContent
<1> QED
  BY <1>1, <1>3, <1>4, <1>5 DEF PgInv

THEOREM PgInvariant == Spec => []PgInv
BY PgInit, PgStep, PTL DEF Spec

(* The committed chunks are always those of the committed bodies.          *)
THEOREM ChunksAlwaysMatch == Spec => []ChunksMatchRows
BY PgInvariant, PTL DEF PgInv

(* No two committed documents ever have the same content.                  *)
THEOREM ChecksumsStayUnique == Spec => []ChecksumsUnique
BY PgInvariant, PTL DEF PgInv

-----------------------------------------------------------------------------
(* A commit is one step of the abstract corpus, or none.                   *)

(* The instance of Corpus speaks of the same data.                         *)
LEMMA SameData ==
    /\ \A t : Atomic!IndexOf(t) = IndexOf(t) /\ (Atomic!UniqueChecksums(t) <=> UniqueChecksums(t))
    /\ \A t, ws : Atomic!AfterWrites(t, ws) = AfterWrites(t, ws)
    /\ Atomic!Jobs = Jobs
<1>1. \A d, b : Atomic!ChunksOf(d, b) = ChunksOf(d, b)
  BY DEF ChunksOf, Atomic!ChunksOf
<1>2. \A t : Atomic!IndexOf(t) = IndexOf(t)
  BY <1>1 DEF IndexOf, Atomic!IndexOf
<1>3. \A t : Atomic!UniqueChecksums(t) <=> UniqueChecksums(t)
  BY DEF UniqueChecksums, Atomic!UniqueChecksums, SameContent, Atomic!SameContent
<1>4. \A t, ws : Atomic!AfterWrites(t, ws) = AfterWrites(t, ws)
  BY DEF AfterWrites, Atomic!AfterWrites, DocsIn, Atomic!DocsIn
<1>5. Atomic!Jobs = Jobs
  BY DEF Jobs, Atomic!Jobs, Upserts, Atomic!Upserts, Deletes, Atomic!Deletes, Seeds, Atomic!Seeds
<1> QED
  BY <1>2, <1>3, <1>4, <1>5

LEMMA CommitIsAtomic ==
    ASSUME PgInv, PgInv', NEW r \in Requests, NEW answered \in BOOLEAN, Commit(r, answered)
    PROVE  [Atomic!CorpusNext]_(Atomic!corpusVars)
<1>1. /\ pc[r] = "commit" /\ Active(r) /\ pc[r] \in InTransaction
      /\ row' = [d \in Docs |-> View(r, d)]
  BY DEF Commit, Active, InTransaction
<1>2. job[r] \in Jobs
  BY <1>1, Reached DEF PgInv
<1>3. chunks = IndexOf(row) /\ chunks' = IndexOf(row') /\ UniqueChecksums(row')
  BY DEF PgInv, ChunksMatchRows, ChecksumsUnique, IndexOf, UniqueChecksums
<1>4. CASE Staged(r) = {}
  <2>1. \A d \in Docs : View(r, d) = row[d]
    BY <1>4 DEF View, Staged
  <2>2. row' = row
    BY <1>1, <2>1 DEF PgInv, TypeOK
  <2> QED
    BY <1>3, <2>2 DEF Atomic!corpusVars
<1>5. CASE Staged(r) # {}
  <2>1. StagedFollows(r)
    BY DEF PgInv
  <2>2. Staged(r) = DocsIn(job[r].writes)
    <3>1. CASE job[r].op # "delete"
      BY <1>1, <2>1, <3>1 DEF StagedFollows
    <3>2. CASE job[r].op = "delete"
      <4>1. \E d : DocsIn(job[r].writes) = {d}
        <5>1. job[r] \in Deletes
          BY <1>2, <3>2 DEF Jobs, Upserts, Seeds
        <5>2. PICK d \in Docs, s \in Spellings :
                job[r] = [op |-> "delete", mode |-> "both", spelling |-> s,
                          writes |-> <<[doc |-> d, body |-> NoBody]>>]
          BY <5>1 DEF Deletes
        <5>3. DOMAIN job[r].writes = {1} /\ job[r].writes[1].doc = d
          BY <5>2
        <5> QED
          BY <5>3 DEF DocsIn
      <4> QED
        BY <1>1, <1>5, <2>1, <4>1 DEF StagedFollows
    <3> QED
      BY <3>1, <3>2
  <2>3. AfterWrites(row, job[r].writes) = row'
    <3> SUFFICES ASSUME NEW d \in Docs
                 PROVE  (IF d \in DocsIn(job[r].writes)
                         THEN job[r].writes[CHOOSE i \in DOMAIN job[r].writes :
                                                job[r].writes[i].doc = d].body
                         ELSE row[d]) = View(r, d)
      BY <1>1 DEF AfterWrites
    <3>1. CASE d \in Staged(r)
      <4> DEFINE k == CHOOSE i \in DOMAIN job[r].writes : job[r].writes[i].doc = d
      <4>1. k \in DOMAIN job[r].writes /\ job[r].writes[k].doc = d
        BY <2>2, <3>1 DEF DocsIn
      <4>2. txn[r].staged[d] = job[r].writes[k].body
        BY <1>1, <2>1, <3>1, <4>1 DEF StagedFollows
      <4> QED
        BY <2>2, <3>1, <4>2 DEF View, Staged
    <3>2. CASE d \notin Staged(r)
      BY <2>2, <3>2 DEF View, Staged
    <3> QED
      BY <3>1, <3>2
  <2>4. Atomic!Apply(job[r])
    BY <1>3, <2>3, SameData DEF Atomic!Apply
  <2> QED
    BY <1>2, <2>4, SameData DEF Atomic!CorpusNext
<1> QED
  BY <1>4, <1>5

(* The PostgreSQL half of the write path implements the atomic corpus.     *)
THEOREM WritesAtomic == Spec => WritesAreAtomic
<1>1. Init => Atomic!CorpusInit
  BY DEF Init, Atomic!CorpusInit
<1>2. PgInv /\ PgInv' /\ [Next]_vars => [Atomic!CorpusNext]_(Atomic!corpusVars)
  <2> SUFFICES ASSUME PgInv, PgInv', [Next]_vars
               PROVE  [Atomic!CorpusNext]_(Atomic!corpusVars)
    OBVIOUS
  <2>1. CASE \E r \in Requests, answered \in BOOLEAN : Commit(r, answered)
    BY <2>1, CommitIsAtomic
  <2>2. CASE ~ \E r \in Requests, answered \in BOOLEAN : Commit(r, answered)
    <3>1. Answers \subseteq BOOLEAN
      BY DEF Answers
    <3>2. UNCHANGED <<row, chunks>>
      BY <2>2, <3>1 DEF Next, Step, Start, LockRow, Decide, WriteRow, RejectRow, ReplaceChunks, DeleteRow,
            EnsureCollection, Finish, DeleteFromNoCollection, StoreQueries, CreateCollection, Flush,
            DeletePoints, AbortDeadlocked, Fail, GiveUp, Land, vars, pgVars
    <3> QED
      BY <3>2 DEF Atomic!corpusVars
  <2> QED
    BY <2>1, <2>2
<1> QED
  BY <1>1, <1>2, PgInvariant, PTL DEF Spec, WritesAreAtomic, Atomic!CorpusSpec

-----------------------------------------------------------------------------
(* Qdrant is written with what PostgreSQL holds.                           *)

(* What r sees of a row after the step.                                    *)
NextView(r, d) == IF txn'[r].staged[d] = Untouched THEN row'[d] ELSE txn'[r].staged[d]

OverlapCore == OverlapsKnown /\ CommitFollowsJob /\ QdrantFollowsPostgres

(* The documents of a job that is running.                                 *)
LEMMA OwnDocs ==
    ASSUME NEW r \in Requests, Active(r)
    PROVE  \A i \in DOMAIN job[r].writes : job[r].writes[i].doc \in DocsOf(r)
BY DEF DocsOf, DocsIn

(* Steps that neither begin a job nor commit.                              *)
LEMMA OverlapQuiet ==
    ASSUME OverlapInv, NEW r \in Requests, UNCHANGED row, Active(r),
           \A q \in Requests \ {r} :
               pc'[q] = pc[q] /\ job'[q] = job[q] /\ txn'[q] = txn[q] /\ overlapped'[q] = overlapped[q],
           \/ pc'[r] = "idle"
           \/ /\ pc'[r] # "idle" /\ job'[r] = job[r] /\ overlapped'[r] = overlapped[r]
              /\ pc'[r] = "commit" => \A i \in DOMAIN job[r].writes :
                     job[r].writes[i].doc \notin overlapped[r] =>
                        NextView(r, job[r].writes[i].doc) = job[r].writes[i].body
              /\ pc'[r] \in AfterTransaction =>
                     pc[r] \in AfterTransaction \/ job[r].mode = "qdrant_only"
    PROVE  OverlapCore'
<1>1. \A q \in Requests \ {r} : DocsOf(q)' = DocsOf(q)
  BY DEF DocsOf, Active
<1>2. DocsOf(r)' = {} \/ (DocsOf(r)' = DocsOf(r) /\ overlapped'[r] = overlapped[r])
  BY DEF DocsOf, Active
<1>3. OverlapsKnown'
  BY <1>1, <1>2 DEF OverlapInv, OverlapsKnown
<1>4. CommitFollowsJob'
  BY DEF OverlapInv, CommitFollowsJob, View, NextView
<1>5. QdrantFollowsPostgres'
  BY DEF OverlapInv, QdrantFollowsPostgres, AfterTransaction
<1> QED
  BY <1>3, <1>4, <1>5 DEF OverlapCore

LEMMA OverlapFree ==
    ASSUME OverlapInv, NEW r \in Requests, Active(r), Free(r), UNCHANGED row
    PROVE  OverlapCore'
BY OverlapQuiet DEF Free, OverlapInv, PgInv, TypeOK

LEMMA OverlapStart ==
    ASSUME OverlapInv, NEW r \in Requests, NEW j \in Jobs, Start(r, j)
    PROVE  OverlapCore'
<1> DEFINE met == {d \in DocsIn(j.writes) : \E q \in Requests : d \in DocsOf(q)}
<1>1. /\ ~ Active(r) /\ pc'[r] = FirstStep(j) /\ job'[r] = j /\ UNCHANGED <<row, txn>>
      /\ \A q \in Requests \ {r} : pc'[q] = pc[q] /\ job'[q] = job[q]
      /\ overlapped' = [q \in Requests |->
                          IF q = r THEN met ELSE overlapped[q] \union (met \intersect DocsOf(q))]
  BY DEF Start, OverlapInv, PgInv, TypeOK, pgVars
<1>2. pc'[r] \notin {"idle", "commit", "queries", "create", "fill", "delete_points"}
      /\ (pc'[r] = "ensure" => j.mode = "qdrant_only")
  BY <1>1 DEF FirstStep
<1>3. DocsOf(r)' = DocsIn(j.writes) /\ \A q \in Requests \ {r} : DocsOf(q)' = DocsOf(q)
  BY <1>1, <1>2 DEF DocsOf, Active
<1>4. OverlapsKnown'
  <2> SUFFICES ASSUME NEW p \in Requests, NEW q \in Requests, p # q,
                      NEW d \in DocsOf(p)' \intersect DocsOf(q)'
               PROVE  d \in overlapped'[p]
    BY DEF OverlapsKnown
  <2>1. CASE p = r
    BY <1>1, <1>3, <2>1
  <2>2. CASE q = r
    BY <1>1, <1>3, <2>2
  <2>3. CASE p # r /\ q # r
    BY <1>1, <1>3, <2>3 DEF OverlapInv, OverlapsKnown
  <2> QED
    BY <2>1, <2>2, <2>3
<1>5. CommitFollowsJob'
  BY <1>1, <1>2 DEF OverlapInv, CommitFollowsJob, View
<1>6. QdrantFollowsPostgres'
  BY <1>1, <1>2 DEF OverlapInv, QdrantFollowsPostgres, AfterTransaction
<1> QED
  BY <1>4, <1>5, <1>6 DEF OverlapCore

(* A commit leaves alone the documents of requests it does not overlap.    *)
LEMMA OverlapCommit ==
    ASSUME OverlapInv, NEW r \in Requests, NEW answered \in BOOLEAN, Commit(r, answered)
    PROVE  OverlapCore'
<1>1. /\ pc[r] = "commit" /\ Active(r) /\ pc[r] \in InTransaction
      /\ row' = [d \in Docs |-> View(r, d)]
      /\ \A q \in Requests \ {r} : /\ pc'[q] = pc[q] /\ job'[q] = job[q] /\ txn'[q] = txn[q]
                                   /\ overlapped'[q] = overlapped[q]
      /\ \/ pc'[r] = AfterCommit(job[r]) /\ job'[r] = job[r] /\ overlapped'[r] = overlapped[r]
         \/ pc'[r] = "idle"
  BY DEF Commit, LeftHalfway, Free, historyVars, Active, InTransaction, OverlapInv, PgInv, TypeOK
<1>2. AfterCommit(job[r]) \notin {"commit", "idle"}
  BY DEF AfterCommit
<1>3. \A q \in Requests : Active(q) => \A i \in DOMAIN job[q].writes : job[q].writes[i].doc \in Docs
  BY Reached DEF OverlapInv, PgInv, DocsIn
<1>4. Staged(r) \subseteq DocsOf(r)
  BY <1>1 DEF OverlapInv, PgInv, StagedFollows, DocsOf
<1>5. \A q \in Requests \ {r} : \A d \in DocsOf(q) : d \in Docs /\ d \notin overlapped[q] =>
          row'[d] = row[d] /\ NextView(q, d) = View(q, d)
  <2> SUFFICES ASSUME NEW q \in Requests \ {r}, NEW d \in DocsOf(q), d \in Docs, d \notin overlapped[q]
               PROVE  row'[d] = row[d] /\ NextView(q, d) = View(q, d)
    OBVIOUS
  <2>1. d \notin Staged(r)
    BY <1>4 DEF OverlapInv, OverlapsKnown
  <2>2. row'[d] = row[d]
    BY <1>1, <2>1 DEF View, Staged
  <2> QED
    BY <1>1, <2>2 DEF View, NextView
<1>6. OverlapsKnown'
  <2>1. \A q \in Requests \ {r} : DocsOf(q)' = DocsOf(q)
    BY <1>1 DEF DocsOf, Active
  <2>2. DocsOf(r)' = {} \/ (DocsOf(r)' = DocsOf(r) /\ overlapped'[r] = overlapped[r])
    BY <1>1 DEF DocsOf, Active
  <2> QED
    BY <1>1, <2>1, <2>2 DEF OverlapInv, OverlapsKnown
<1>7. CommitFollowsJob'
  <2> SUFFICES ASSUME NEW q \in Requests, pc'[q] = "commit", NEW i \in DOMAIN job'[q].writes,
                      job'[q].writes[i].doc \notin overlapped'[q]
               PROVE  NextView(q, job'[q].writes[i].doc) = job'[q].writes[i].body
    BY DEF CommitFollowsJob, View, NextView
  <2>1. q # r
    BY <1>1, <1>2
  <2>2. Active(q) /\ pc[q] = "commit" /\ job'[q] = job[q] /\ overlapped'[q] = overlapped[q]
    BY <1>1, <2>1 DEF Active
  <2> QED
    BY <1>3, <1>5, <2>1, <2>2, OwnDocs DEF OverlapInv, CommitFollowsJob
<1>8. QdrantFollowsPostgres'
  <2> SUFFICES ASSUME NEW q \in Requests, pc'[q] \in AfterTransaction, job'[q].mode # "qdrant_only",
                      NEW i \in DOMAIN job'[q].writes, job'[q].writes[i].doc \notin overlapped'[q]
               PROVE  row'[job'[q].writes[i].doc] = job'[q].writes[i].body
    BY DEF QdrantFollowsPostgres
  <2>0. pc'[q] # "idle"
    BY DEF AfterTransaction
  <2>1. CASE q = r
    BY <1>1, <1>3, <2>0, <2>1 DEF OverlapInv, CommitFollowsJob
  <2>2. CASE q # r
    <3>1. Active(q) /\ pc[q] \in AfterTransaction /\ job'[q] = job[q] /\ overlapped'[q] = overlapped[q]
      BY <1>1, <2>0, <2>2 DEF Active
    <3> QED
      BY <1>3, <1>5, <2>2, <3>1, OwnDocs DEF OverlapInv, QdrantFollowsPostgres
  <2> QED
    BY <2>1, <2>2
<1> QED
  BY <1>6, <1>7, <1>8 DEF OverlapCore

(* What r has staged when its last row is written, or when it finds no row *)
(* to delete, is its job.                                                  *)
LEMMA OverlapReachCommit ==
    ASSUME OverlapInv, NEW r \in Requests, ReplaceChunks(r) \/ DeleteRow(r)
    PROVE  OverlapCore'
<1>1. /\ Active(r) /\ pc[r] \in InTransaction /\ UNCHANGED <<row, job, overlapped>>
      /\ pc'[r] \in {"lock_row", "commit"}
      /\ \A q \in Requests \ {r} : pc'[q] = pc[q] /\ job'[q] = job[q] /\ txn'[q] = txn[q]
                                   /\ overlapped'[q] = overlapped[q]
  BY DEF ReplaceChunks, DeleteRow, Active, InTransaction, OverlapInv, PgInv, TypeOK, pgVars, historyVars
<1>2. /\ \A i \in DOMAIN job[r].writes : job[r].writes[i].doc \in Docs /\ job[r].writes[i].doc \in DocsIn(job[r].writes)
      /\ job[r] \in Jobs /\ DOMAIN job[r].writes = 1 .. Len(job[r].writes)
  BY <1>1, Reached, JobShape, LenProperties DEF OverlapInv, PgInv, DocsIn
<1>3. CASE ReplaceChunks(r)
  <2>1. pc'[r] = "commit" => at[r] = Len(job[r].writes)
    BY <1>1, <1>2, <1>3, Reached DEF ReplaceChunks, OverlapInv, PgInv, TypeOK
  <2>2. StagedFollows(r) /\ Staged(r) = FirstDocs(r, at[r])
    BY <1>1, <1>3 DEF ReplaceChunks, OverlapInv, PgInv, StagedFollows
  <2>3. txn'[r].staged = txn[r].staged
    BY <1>3 DEF ReplaceChunks, OverlapInv, PgInv, TypeOK, TxnType
  <2>4. ASSUME pc'[r] = "commit", NEW i \in DOMAIN job[r].writes
        PROVE  NextView(r, job[r].writes[i].doc) = job[r].writes[i].body
    <3>1. job[r].writes[i].doc \in Staged(r)
      BY <1>2, <2>1, <2>2, <2>4 DEF FirstDocs
    <3>2. txn[r].staged[job[r].writes[i].doc] = job[r].writes[i].body
      BY <1>1, <2>2, <3>1 DEF StagedFollows
    <3> QED
      BY <2>3, <3>1, <3>2 DEF NextView, Staged
  <2> QED
    BY <1>1, <2>4, OverlapQuiet DEF AfterTransaction
<1>4. CASE DeleteRow(r)
  <2>1. job[r].op = "delete" /\ Staged(r) = {}
    BY <1>1, <1>4 DEF DeleteRow, OverlapInv, PgInv, PhaseFits, StagedFollows
  <2>2. /\ \A i \in DOMAIN job[r].writes : job[r].writes[i].body = NoBody
        /\ \A i \in DOMAIN job[r].writes : job[r].writes[i].doc = Doc(r)
    <3>1. job[r] \in Deletes
      BY <1>2, <2>1 DEF Jobs, Upserts, Seeds
    <3>2. PICK d \in Docs, s \in Spellings :
            job[r] = [op |-> "delete", mode |-> "both", spelling |-> s,
                      writes |-> <<[doc |-> d, body |-> NoBody]>>]
      BY <3>1 DEF Deletes
    <3>3. DOMAIN job[r].writes = {1} /\ job[r].writes[1].doc = d /\ job[r].writes[1].body = NoBody
      BY <3>2
    <3>4. at[r] = 1
      BY <1>1, <3>3 DEF OverlapInv, PgInv, TypeOK
    <3> QED
      BY <3>3, <3>4 DEF Doc
  <2>3. NextView(r, Doc(r)) = NoBody /\ Doc(r) \in Docs
    <3>1. Doc(r) \in Docs
      BY <1>1, Reached DEF OverlapInv, PgInv
    <3>2. CASE UNCHANGED txn
      <4>1. row[Doc(r)] = NoBody
        <5>1. txn'[r].staged[Doc(r)] = NoBody => NoBody \notin {txn[r].staged[Doc(r)]}
          BY <2>1, <3>1, SentinelsAssumption DEF Staged
        <5>2. row[Doc(r)] # NoBody => txn'[r].staged[Doc(r)] = NoBody
          BY <1>4, <3>1 DEF DeleteRow, OverlapInv, PgInv, TypeOK, TxnType
        <5> QED
          BY <3>2, <5>1, <5>2
      <4>2. txn[r].staged[Doc(r)] = Untouched
        BY <2>1, <3>1 DEF Staged
      <4> QED
        BY <1>1, <3>1, <3>2, <4>1, <4>2 DEF NextView
    <3>3. CASE ~ UNCHANGED txn
      <4>1. txn'[r].staged[Doc(r)] = NoBody
        BY <1>4, <3>1, <3>3 DEF DeleteRow, OverlapInv, PgInv, TypeOK, TxnType
      <4> QED
        BY <3>1, <4>1, SentinelsAssumption DEF NextView
    <3> QED
      BY <3>1, <3>2, <3>3
  <2>4. \A i \in DOMAIN job[r].writes : NextView(r, job[r].writes[i].doc) = job[r].writes[i].body
    BY <2>2, <2>3
  <2> QED
    BY <1>1, <2>4, OverlapQuiet DEF AfterTransaction
<1> QED
  BY <1>3, <1>4

(* Steps of r that only move it on or free it.                             *)
LEMMA OverlapMove ==
    ASSUME OverlapInv, NEW r \in Requests, Active(r), UNCHANGED <<row, job, txn, overlapped>>,
           NEW l, pc' = [pc EXCEPT ![r] = l], l \notin {"idle", "commit"},
           l \in AfterTransaction => pc[r] \in AfterTransaction
    PROVE  OverlapCore'
BY OverlapQuiet DEF OverlapInv, PgInv, TypeOK

LEMMA OverlapStep == OverlapInv /\ [Next]_vars => OverlapInv'
<1> SUFFICES ASSUME OverlapInv, [Next]_vars PROVE OverlapInv'
  OBVIOUS
<1>1. PgInv'
  BY PgStep DEF OverlapInv
<1>2. OverlapCore'
  <2>1. ASSUME NEW r \in Requests, LockRow(r) PROVE OverlapCore'
    BY <2>1, OverlapMove DEF LockRow, Active, AfterTransaction, pgVars, historyVars
  <2>2. ASSUME NEW r \in Requests, WriteRow(r) PROVE OverlapCore'
    <3>1. /\ Active(r) /\ UNCHANGED <<row, job, overlapped>> /\ pc'[r] = "replace_chunks"
          /\ \A q \in Requests \ {r} : pc'[q] = pc[q] /\ txn'[q] = txn[q]
      BY <2>2 DEF WriteRow, Active, OverlapInv, PgInv, TypeOK, pgVars, historyVars
    <3> QED
      BY <3>1, OverlapQuiet DEF AfterTransaction
  <2>3. ASSUME NEW r \in Requests, Active(r), Free(r), UNCHANGED row PROVE OverlapCore'
    BY <2>3, OverlapFree
  <2>4. ASSUME NEW r \in Requests, RejectRow(r) \/ AbortDeadlocked(r) \/ Fail(r) \/ GiveUp(r) PROVE OverlapCore'
    <3>1. AbortDeadlocked(r) => Active(r)
      <4>1. WaitsFor(r) = {} => ~ InDeadlock(r)
        BY DEF InDeadlock
      <4>2. pc[r] = "idle" => WaitsFor(r) = {}
        BY DEF WaitsFor
      <4> QED
        BY <4>1, <4>2 DEF AbortDeadlocked, Active
    <3> QED
      BY <2>3, <2>4, <3>1 DEF RejectRow, AbortDeadlocked, Fail, GiveUp, RolledBack, LeftHalfway, Active, pgVars
  <2>5. ASSUME NEW r \in Requests, NEW answered \in BOOLEAN, StoreQueries(r, answered) PROVE OverlapCore'
    <3>1. Active(r) /\ pc[r] \in AfterTransaction /\ UNCHANGED row
      BY <2>5 DEF StoreQueries, Active, AfterTransaction
    <3>2. Free(r) \/ (pc' = [pc EXCEPT ![r] = "ensure"] /\ UNCHANGED <<job, txn, overlapped>>)
      BY <2>5 DEF StoreQueries, Succeed, LeftHalfway, historyVars
    <3> QED
      BY <2>3, <3>1, <3>2, OverlapMove
  <2>6. ASSUME NEW r \in Requests, EnsureCollection(r) PROVE OverlapCore'
    <3>1. /\ Active(r) /\ pc[r] \in AfterTransaction /\ UNCHANGED <<row, job, txn, overlapped>>
          /\ (pc' = [pc EXCEPT ![r] = "fill"] \/ pc' = [pc EXCEPT ![r] = "create"])
      BY <2>6 DEF EnsureCollection, BeginFill, Active, AfterTransaction, pgVars, historyVars
    <3> QED
      BY <3>1, OverlapMove
  <2>7. ASSUME NEW r \in Requests, NEW answered \in BOOLEAN, CreateCollection(r, answered) PROVE OverlapCore'
    <3>1. Active(r) /\ pc[r] \in AfterTransaction /\ UNCHANGED row
      BY <2>7 DEF CreateCollection, Active, AfterTransaction, pgVars
    <3>2. Free(r) \/ (pc' = [pc EXCEPT ![r] = "fill"] /\ UNCHANGED <<job, txn, overlapped>>)
      BY <2>7 DEF CreateCollection, BeginFill, LeftHalfway, historyVars
    <3> QED
      BY <2>3, <3>1, <3>2, OverlapMove
  <2>8. ASSUME NEW r \in Requests, NEW answered \in BOOLEAN, Flush(r, answered) PROVE OverlapCore'
    <3>1. Active(r) /\ UNCHANGED row
      BY <2>8 DEF Flush, Active, pgVars
    <3>2. Free(r) \/ UNCHANGED <<pc, job, txn, overlapped>>
      BY <2>8 DEF Flush, LeftHalfway, historyVars
    <3>3. CASE UNCHANGED <<pc, job, txn, overlapped>>
      BY <2>8, <3>1, <3>3, OverlapQuiet DEF Flush, AfterTransaction, Active
    <3> QED
      BY <2>3, <3>1, <3>2, <3>3
  <2>9. ASSUME NEW r \in Requests, NEW answered \in BOOLEAN,
               Finish(r) \/ DeleteFromNoCollection(r) \/ DeletePoints(r, answered)
        PROVE  OverlapCore'
    BY <2>3, <2>9 DEF Finish, DeleteFromNoCollection, DeletePoints, Succeed, LeftHalfway, Active, pgVars
  <2>10. CASE UNCHANGED vars
    BY <2>10 DEF OverlapInv, OverlapCore, OverlapsKnown, CommitFollowsJob, QdrantFollowsPostgres,
                 DocsOf, Active, View, vars, pgVars, requestVars, historyVars
  <2>11. Answers \subseteq BOOLEAN
    BY DEF Answers
  <2>12. ASSUME NEW r \in Requests, Land(r) PROVE OverlapCore'
    <3>1. UNCHANGED <<row, pc, job, txn>> /\ \A q \in Requests : overlapped[q] \subseteq overlapped'[q]
      BY <2>12 DEF Land, OverlapInv, PgInv, TypeOK, pgVars, requestVars
    <3>2. \A q \in Requests : DocsOf(q)' = DocsOf(q)
      BY <3>1 DEF DocsOf, Active
    <3>3. OverlapsKnown'
      BY <3>1, <3>2 DEF OverlapInv, OverlapsKnown
    <3>4. CommitFollowsJob' /\ QdrantFollowsPostgres'
      BY <3>1 DEF OverlapInv, CommitFollowsJob, QdrantFollowsPostgres, View
    <3> QED
      BY <3>3, <3>4 DEF OverlapCore
  <2> QED
    BY <2>1, <2>2, <2>4, <2>5, <2>6, <2>7, <2>8, <2>9, <2>10, <2>11, <2>12,
       OverlapStart, OverlapCommit, OverlapReachCommit DEF Next, Step, Decide
<1> QED
  BY <1>1, <1>2 DEF OverlapInv, OverlapCore

LEMMA OverlapInit == Init => OverlapInv
<1> SUFFICES ASSUME Init PROVE OverlapInv
  OBVIOUS
<1>1. \A r \in Requests : pc[r] = "idle" /\ DocsOf(r) = {}
  BY DEF Init, DocsOf, Active
<1> QED
  BY <1>1, PgInit DEF OverlapInv, OverlapsKnown, CommitFollowsJob, QdrantFollowsPostgres, AfterTransaction

(* What a request writes to Qdrant is what PostgreSQL holds, unless another *)
(* request ran on the document meanwhile.                                  *)
THEOREM QdrantAlwaysFollows == Spec => []QdrantFollowsPostgres
<1>1. Spec => []OverlapInv
  BY OverlapInit, OverlapStep, PTL DEF Spec
<1> QED
  BY <1>1, PTL DEF OverlapInv

-----------------------------------------------------------------------------
(***************************************************************************)
(* Whatever calls fail, lose their answers or are applied late, and        *)
(* whatever runs at once: a job that has run alone on a document and has   *)
(* succeeded leaves the two stores in agreement on it.  And, at the end,   *)
(* labels: they name documents that exist.                                 *)
(***************************************************************************)

LEMMA ChunksOfADoc ==
    ASSUME ChunksMatchRows, NEW d \in Docs
    PROVE  ChunksIn(chunks, d) = ChunksOf(d, row[d])
<1>1. chunks = UNION { ChunksOf(e, row[e]) : e \in Docs }
  BY DEF ChunksMatchRows, IndexOf
<1>2. \A e, b : \A c \in ChunksOf(e, b) : c.doc = e
  BY DEF ChunksOf
<1> QED
  BY <1>1, <1>2 DEF ChunksIn

(* Agreement is a matter of the row and the points of the document.        *)
AgreeRow(d) ==
    IF row[d] = NoBody THEN ChunksIn(points, d) = {}
    ELSE {p \in ChunksIn(points, d) : p.index < ChunkCount[row[d]]} = ChunksOf(d, row[d])

LEMMA AgreeIsAgreeRow ==
    ASSUME ChunksMatchRows, NEW d \in Docs
    PROVE  AgreeOn(d) <=> AgreeRow(d)
BY ChunksOfADoc DEF AgreeOn, AgreeRow

SamePoints(d) == ChunksIn(points', d) = ChunksIn(points, d)

LEMMA AgreementKept ==
    ASSUME ChunksMatchRows, ChunksMatchRows', NEW d \in Docs, row'[d] = row[d], SamePoints(d), AgreeOn(d)
    PROVE  AgreeOn(d)'
<1>1. AgreeRow(d)
  BY AgreeIsAgreeRow
<1>2. AgreeRow(d)'
  BY <1>1 DEF AgreeRow, SamePoints
<1>3. ChunksIn(chunks, d)' = ChunksOf(d, row[d])'
  <2>1. chunks' = UNION { ChunksOf(e, row'[e]) : e \in Docs }
    BY DEF ChunksMatchRows, IndexOf
  <2>2. \A e, b : \A c \in ChunksOf(e, b) : c.doc = e
    BY DEF ChunksOf
  <2> QED
    BY <2>1, <2>2 DEF ChunksIn
<1> QED
  BY <1>2, <1>3 DEF AgreeOn, AgreeRow

LEMMA SoleKept ==
    ASSUME NEW k, SamePoints(k.doc), Sole(k)
    PROVE  Sole(k)'
BY DEF Sole, SamePoints, ChunksIn, SameKey

(* The documents of a request, its points and their documents.             *)
LEMMA PointsDocs ==
    ASSUME NEW j
    PROVE  \A k \in PointsOf(j) : k.doc \in DocsIn(j.writes)
BY DEF PointsOf, DocsIn, ChunksOf

LEMMA JobPoints ==
    ASSUME NEW j \in Jobs, NEW i \in DOMAIN j.writes, NEW k \in PointsOf(j), k.doc = j.writes[i].doc
    PROVE  k \in ChunksOf(j.writes[i].doc, j.writes[i].body)
<1>1. PICK n \in DOMAIN j.writes : k \in ChunksOf(j.writes[n].doc, j.writes[n].body)
  BY DEF PointsOf
<1>2. k.doc = j.writes[n].doc
  BY <1>1 DEF ChunksOf
<1>3. n = i
  BY <1>2, JobShape
<1> QED
  BY <1>1, <1>3

LEMMA OnePointPerKey ==
    ASSUME NEW j \in Jobs, NEW k \in PointsOf(j), NEW p \in PointsOf(j), SameKey(p, k)
    PROVE  p = k
<1>1. PICK i \in DOMAIN j.writes : k \in ChunksOf(j.writes[i].doc, j.writes[i].body)
  BY DEF PointsOf
<1>2. k.doc = j.writes[i].doc
  BY <1>1 DEF ChunksOf
<1>3. p.doc = k.doc /\ p.index = k.index
  BY DEF SameKey
<1>4. p \in ChunksOf(j.writes[i].doc, j.writes[i].body)
  BY <1>2, <1>3, JobPoints
<1> QED
  BY <1>1, <1>3, <1>4 DEF ChunksOf

-----------------------------------------------------------------------------
(* The other requests.                                                     *)

OthersWait(r) ==
    \A q \in Requests \ {r} :
        pc'[q] = pc[q] /\ job'[q] = job[q] /\ unsent'[q] = unsent[q] /\ overlapped'[q] = overlapped[q]

(* Outside the documents of r nothing is written.                          *)
OnlyOwn(r) == \A d \in Docs \ DocsOf(r) : row'[d] = row[d] /\ SamePoints(d)

LEMMA DocsOfStill ==
    ASSUME NEW q \in Requests, pc'[q] = pc[q], job'[q] = job[q]
    PROVE  DocsOf(q)' = DocsOf(q) /\ (Active(q)' <=> Active(q))
BY DEF DocsOf, Active

LEMMA DocsOfType ==
    ASSUME TypeOK, NEW q \in Requests
    PROVE  DocsOf(q) \subseteq Docs
<1>1. CASE Active(q)
  <2>1. job[q] \in Jobs
    BY <1>1 DEF TypeOK
  <2>2. job[q].writes \in [1 .. Len(job[q].writes) -> [doc : Docs, body : Stored]]
    BY <2>1, JobShape, LenProperties
  <2> QED
    BY <1>1, <2>2 DEF DocsOf, DocsIn
<1> QED
  BY <1>1 DEF DocsOf

LEMMA OthersFit ==
    ASSUME SettleInv, NEW r \in Requests, NEW q \in Requests \ {r}, OthersWait(r), OnlyOwn(r),
           suspect \ (DocsOf(r) \ overlapped[r]) \subseteq suspect'
    PROVE  SentFits(q)' /\ SuspectsKnown(q)'
<1>1. /\ pc'[q] = pc[q] /\ job'[q] = job[q] /\ unsent'[q] = unsent[q]
      /\ overlapped'[q] = overlapped[q]
  BY DEF OthersWait
<1>2. SentFits(q) /\ SuspectsKnown(q) /\ TypeOK /\ OverlapsKnown
  BY DEF SettleInv, SettleCore, OverlapInv, PgInv
<1>3. DocsOf(q)' = DocsOf(q) /\ (Active(q)' <=> Active(q))
  BY <1>1, DocsOfStill
<1>4. /\ DocsOf(q) \intersect DocsOf(r) \subseteq overlapped[q] \intersect overlapped[r]
  BY <1>2 DEF OverlapsKnown
<1>5. SuspectsKnown(q)'
  BY <1>1, <1>2, <1>3, <1>4 DEF SuspectsKnown
<1>6. PointsOf(job[q])' = PointsOf(job[q])
  BY <1>1
<1>7. ASSUME pc[q] = "fill", NEW k \in PointsOf(job[q]), k.doc \notin overlapped[q], Sole(k)
      PROVE  Sole(k)'
  <2>1. k.doc \in DocsOf(q) /\ k.doc \in Docs
    BY <1>2, <1>7, PointsDocs, DocsOfType DEF DocsOf, Active
  <2>2. k.doc \notin DocsOf(r)
    BY <1>4, <1>7, <2>1
  <2> QED
    BY <1>7, <2>1, <2>2, SoleKept DEF OnlyOwn
<1>8. SentFits(q)'
  BY <1>1, <1>2, <1>6, <1>7 DEF SentFits
<1> QED
  BY <1>5, <1>8

(* A document that r does not write agrees as before.                      *)
LEMMA OthersAgree ==
    ASSUME SettleInv, ChunksMatchRows', NEW r \in Requests, OthersWait(r), OnlyOwn(r),
           suspect \ (DocsOf(r) \ overlapped[r]) \subseteq suspect',
           NEW d \in Docs \ suspect', d \notin DocsOf(r), Undisturbed(d)'
    PROVE  AgreeOn(d)'
<1>1. d \notin suspect
  OBVIOUS
<1>2. Undisturbed(d)
  BY DocsOfStill DEF Undisturbed, OthersWait
<1>3. AgreeOn(d) /\ ChunksMatchRows
  BY <1>1, <1>2 DEF SettleInv, SettleCore, OverlapInv, PgInv
<1> QED
  BY <1>3, AgreementKept DEF OnlyOwn

-----------------------------------------------------------------------------
(* A job ends: its documents are suspect, or they agree.                   *)
LEMMA Ended ==
    ASSUME SettleInv, ChunksMatchRows', NEW r \in Requests, Free(r), OnlyOwn(r),
           suspect \ (DocsOf(r) \ overlapped[r]) \subseteq suspect',
           \A d \in DocsOf(r) \ suspect' : AgreeOn(d)'
    PROVE  SettleCore'
<1>1. TypeOK
  BY DEF SettleInv, OverlapInv, PgInv
<1>2. OthersWait(r) /\ pc'[r] = "idle" /\ unsent'[r] = {}
  BY <1>1 DEF Free, OthersWait, TypeOK
<1>3. DocsOf(r)' = {} /\ ~ Active(r)'
  BY <1>2 DEF DocsOf, Active
<1>4. SentFits(r)' /\ SuspectsKnown(r)'
  BY <1>2, <1>3 DEF SentFits, SuspectsKnown
<1>5. \A q \in Requests : SentFits(q)' /\ SuspectsKnown(q)'
  BY <1>2, <1>4, OthersFit
<1>6. \A d \in Docs \ suspect' : Undisturbed(d)' => AgreeOn(d)'
  BY <1>2, OthersAgree
<1> QED
  BY <1>5, <1>6 DEF SettleCore

LEMMA EndedHalfway ==
    ASSUME SettleInv, ChunksMatchRows', NEW r \in Requests, LeftHalfway(r), OnlyOwn(r)
    PROVE  SettleCore'
BY Ended DEF LeftHalfway

LEMMA EndedRolledBack ==
    ASSUME SettleInv, ChunksMatchRows', NEW r \in Requests, RolledBack(r),
           pc[r] \in InTransaction, UNCHANGED <<row, points>>
    PROVE  SettleCore'
<1>1. TypeOK /\ OverlapsKnown /\ ChunksMatchRows /\ SuspectsKnown(r)
  BY DEF SettleInv, SettleCore, OverlapInv, PgInv
<1>2. OnlyOwn(r)
  BY DEF OnlyOwn, SamePoints
<1>3. ASSUME NEW d \in DocsOf(r) \ suspect' PROVE AgreeOn(d)'
  <2>1. d \in Docs \ suspect
    BY <1>1, <1>3, DocsOfType DEF RolledBack
  <2>2. Undisturbed(d)
    <3> SUFFICES ASSUME NEW q \in Requests, d \in DocsOf(q) PROVE pc[q] \in InTransaction
      BY DEF Undisturbed
    <3>1. q # r => d \in overlapped[r]
      BY <1>1, <1>3 DEF OverlapsKnown
    <3> QED
      BY <1>1, <1>3, <2>1, <3>1 DEF SuspectsKnown
  <2>3. AgreeOn(d)
    BY <2>1, <2>2 DEF SettleInv, SettleCore
  <2> QED
    BY <1>1, <2>1, <2>3, AgreementKept DEF SamePoints
<1> QED
  BY <1>2, <1>3, Ended DEF RolledBack

(* A complete job that succeeds: what it wrote alone agrees.               *)
LEMMA EndedWell ==
    ASSUME SettleInv, ChunksMatchRows', NEW r \in Requests, Active(r), Succeed(r), OnlyOwn(r),
           Complete(job[r]) => \A d \in DocsOf(r) \ overlapped[r] : AgreeOn(d)'
    PROVE  SettleCore'
<1>1. SuspectsKnown(r)
  BY DEF SettleInv, SettleCore
<1>2. suspect \ (DocsOf(r) \ overlapped[r]) \subseteq suspect'
  BY DEF Succeed
<1>3. \A d \in DocsOf(r) \ suspect' : AgreeOn(d)'
  BY <1>1 DEF Succeed, SuspectsKnown
<1> QED
  BY <1>2, <1>3, Ended DEF Succeed

(* A job goes on.                                                          *)
LEMMA GoesOn ==
    ASSUME SettleInv, ChunksMatchRows', NEW r \in Requests, Active(r), Active(r)',
           OthersWait(r), OnlyOwn(r), UNCHANGED suspect,
           job'[r] = job[r], overlapped'[r] = overlapped[r], SentFits(r)',
           pc'[r] \in InTransaction =>
               pc[r] \in InTransaction /\ UNCHANGED <<row, points>>
    PROVE  SettleCore'
<1>1. TypeOK /\ ChunksMatchRows /\ SuspectsKnown(r)
  BY DEF SettleInv, SettleCore, OverlapInv, PgInv
<1>2. DocsOf(r)' = DocsOf(r)
  BY DEF DocsOf
<1>3. SuspectsKnown(r)'
  BY <1>1, <1>2 DEF SuspectsKnown
<1>4. \A q \in Requests : SentFits(q)' /\ SuspectsKnown(q)'
  BY <1>3, OthersFit
<1>5. ASSUME NEW d \in Docs \ suspect', Undisturbed(d)' PROVE AgreeOn(d)'
  <2>1. CASE d \notin DocsOf(r)
    BY <1>5, <2>1, OthersAgree
  <2>2. CASE d \in DocsOf(r)
    <3>1. pc'[r] \in InTransaction
      BY <1>2, <1>5, <2>2 DEF Undisturbed
    <3>2. Undisturbed(d)
      BY <1>5, <3>1, DocsOfStill DEF Undisturbed, OthersWait
    <3>3. AgreeOn(d)
      BY <1>5, <3>2 DEF SettleInv, SettleCore
    <3> QED
      BY <1>1, <3>1, <3>3, AgreementKept DEF SamePoints
  <2> QED
    BY <2>1, <2>2
<1> QED
  BY <1>4, <1>5 DEF SettleCore

-----------------------------------------------------------------------------
(* Steps that begin, and late calls.                                       *)

LEMMA SettleStart ==
    ASSUME SettleInv, ChunksMatchRows', NEW r \in Requests, NEW j \in Jobs, Start(r, j)
    PROVE  SettleCore'
<1> DEFINE met == {d \in DocsIn(j.writes) : \E q \in Requests : d \in DocsOf(q)}
<1>1. TypeOK /\ ChunksMatchRows /\ \A q \in Requests : SentFits(q) /\ SuspectsKnown(q)
  BY DEF SettleInv, SettleCore, OverlapInv, PgInv
<1>2. /\ ~ Active(r) /\ pc'[r] = FirstStep(j) /\ job'[r] = j
      /\ \A q \in Requests \ {r} : pc'[q] = pc[q] /\ job'[q] = job[q]
      /\ UNCHANGED <<row, chunks, points, unsent>>
      /\ overlapped' = [q \in Requests |->
                          IF q = r THEN met ELSE overlapped[q] \union (met \intersect DocsOf(q))]
      /\ suspect' = suspect \union met \union (IF Complete(j) THEN {} ELSE DocsIn(j.writes))
  BY <1>1 DEF Start, TypeOK, pgVars, qdrantVars
<1>3. DocsOf(r)' = DocsIn(j.writes) /\ unsent[r] = {} /\ pc'[r] # "fill"
  BY <1>1, <1>2 DEF DocsOf, Active, FirstStep, SentFits
<1>4. pc'[r] \in {"queries", "ensure", "create", "fill"} => j.op # "delete"
  BY <1>2, JobShape DEF FirstStep
<1>5. SentFits(r)' /\ SuspectsKnown(r)'
  BY <1>2, <1>3, <1>4 DEF SentFits, SuspectsKnown
<1>6. ASSUME NEW q \in Requests \ {r} PROVE SentFits(q)' /\ SuspectsKnown(q)'
  <2>1. DocsOf(q)' = DocsOf(q) /\ (Active(q)' <=> Active(q))
    BY <1>2, DocsOfStill
  <2>2. \A k : Sole(k) => Sole(k)'
    BY <1>2 DEF Sole
  <2>3. SentFits(q)'
    BY <1>1, <1>2, <2>2 DEF SentFits
  <2> QED
    BY <1>1, <1>2, <2>1, <2>3 DEF SuspectsKnown
<1>7. ASSUME NEW d \in Docs \ suspect', Undisturbed(d)' PROVE AgreeOn(d)'
  <2>1. d \notin suspect
    BY <1>2
  <2>2. Undisturbed(d)
    BY <1>2, <1>7, DocsOfStill DEF Undisturbed, DocsOf
  <2>3. AgreeOn(d)
    BY <2>1, <2>2 DEF SettleInv, SettleCore
  <2> QED
    BY <1>1, <1>2, <2>3, AgreementKept DEF SamePoints
<1> QED
  BY <1>5, <1>6, <1>7 DEF SettleCore

LEMMA UpsertElsewhere ==
    ASSUME NEW ps \in SUBSET points, NEW batch, points' = Upserted(ps, batch),
           NEW d, \A p \in batch : p.doc # d, \A p \in points \ ps : p.doc # d
    PROVE  SamePoints(d)
BY DEF Upserted, SamePoints, ChunksIn, SameKey

LEMMA SettleLand ==
    ASSUME SettleInv, ChunksMatchRows', NEW r \in Requests, Land(r)
    PROVE  SettleCore'
<1>1. TypeOK /\ ChunksMatchRows /\ \A q \in Requests : SentFits(q) /\ SuspectsKnown(q)
  BY DEF SettleInv, SettleCore, OverlapInv, PgInv
<1> DEFINE called == CalledFor(late[r])
           kept == {p \in points : p.doc \notin late[r].drops}
<1>2. /\ UNCHANGED <<row, chunks, pc, job, unsent>>
      /\ points' = Upserted(kept, late[r].puts)
      /\ overlapped' = [q \in Requests |-> overlapped[q] \union (called \intersect DocsOf(q))]
      /\ suspect' = suspect \union called
  BY DEF Land, pgVars, requestVars
<1>3. \A d \in Docs \ called : SamePoints(d)
  <2> SUFFICES ASSUME NEW d \in Docs \ called PROVE SamePoints(d)
    OBVIOUS
  <2>1. (\A p \in late[r].puts : p.doc # d) /\ d \notin late[r].drops
    BY DEF CalledFor
  <2> QED
    BY <1>2, <2>1, UpsertElsewhere
<1>4. \A q \in Requests : DocsOf(q)' = DocsOf(q) /\ (Active(q)' <=> Active(q)) /\ DocsOf(q) \subseteq Docs
  BY <1>1, <1>2, DocsOfStill, DocsOfType
<1> HIDE DEF called, kept
<1>5. ASSUME NEW q \in Requests PROVE SentFits(q)' /\ SuspectsKnown(q)'
  <2>1. overlapped'[q] = overlapped[q] \union (called \intersect DocsOf(q))
    BY <1>2
  <2>2. SuspectsKnown(q)'
    BY <1>1, <1>2, <1>4, <2>1 DEF SuspectsKnown
  <2>3. ASSUME pc[q] = "fill", NEW k \in PointsOf(job[q]), k.doc \notin overlapped'[q], Sole(k)
        PROVE  Sole(k)'
    <3>1. k.doc \in DocsOf(q) /\ k.doc \in Docs
      BY <1>4, <2>3, PointsDocs DEF DocsOf, Active
    <3> QED
      BY <1>3, <2>1, <2>3, <3>1, SoleKept
  <2>4. SentFits(q)'
    BY <1>1, <1>2, <2>1, <2>3 DEF SentFits
  <2> QED
    BY <2>2, <2>4
<1>6. ASSUME NEW d \in Docs \ suspect', Undisturbed(d)' PROVE AgreeOn(d)'
  <2>1. d \notin suspect /\ d \notin called
    BY <1>2
  <2>2. Undisturbed(d)
    BY <1>2, <1>4, <1>6 DEF Undisturbed
  <2>3. AgreeOn(d)
    BY <2>1, <2>2 DEF SettleInv, SettleCore
  <2> QED
    BY <1>1, <1>2, <1>3, <2>1, <2>3, AgreementKept
<1> QED
  BY <1>5, <1>6 DEF SettleCore

-----------------------------------------------------------------------------
(* Steps inside and at the end of the transaction.                         *)

LEMMA SettleInside ==
    ASSUME SettleInv, ChunksMatchRows', NEW r \in Requests,
           LockRow(r) \/ WriteRow(r) \/ ReplaceChunks(r) \/ DeleteRow(r)
    PROVE  SettleCore'
<1>1. TypeOK /\ SentFits(r)
  BY DEF SettleInv, SettleCore, OverlapInv, PgInv
<1>2. /\ pc[r] \in InTransaction /\ pc'[r] \in InTransaction
      /\ UNCHANGED <<row, points, job, unsent, overlapped, suspect>>
      /\ \A q \in Requests \ {r} : pc'[q] = pc[q]
  BY <1>1 DEF LockRow, WriteRow, ReplaceChunks, DeleteRow, InTransaction, TypeOK, pgVars, qdrantVars, historyVars
<1>3. OthersWait(r) /\ OnlyOwn(r) /\ Active(r) /\ Active(r)'
  BY <1>2 DEF OthersWait, OnlyOwn, SamePoints, Active, InTransaction
<1>4. SentFits(r)'
  BY <1>1, <1>2 DEF SentFits, InTransaction
<1> QED
  BY <1>2, <1>3, <1>4, GoesOn

LEMMA SettleCommit ==
    ASSUME SettleInv, ChunksMatchRows', NEW r \in Requests, NEW answered \in BOOLEAN, Commit(r, answered)
    PROVE  SettleCore'
<1>1. TypeOK /\ SentFits(r) /\ StagedFollows(r) /\ PgInv
  BY DEF SettleInv, SettleCore, OverlapInv, PgInv
<1>2. /\ pc[r] = "commit" /\ Active(r) /\ pc[r] \in InTransaction
      /\ row' = [d \in Docs |-> View(r, d)] /\ points' = points
  BY DEF Commit, Active, InTransaction, qdrantVars
<1>3. OnlyOwn(r)
  <2>1. Staged(r) \subseteq DocsOf(r)
    BY <1>1, <1>2 DEF StagedFollows, DocsOf
  <2>2. \A d \in Docs \ DocsOf(r) : View(r, d) = row[d]
    BY <2>1 DEF Staged, View
  <2> QED
    BY <1>2, <2>2 DEF OnlyOwn, SamePoints
<1>4. CASE answered
  <2>1. /\ pc' = [pc EXCEPT ![r] = AfterCommit(job[r])]
        /\ UNCHANGED <<job, unsent, overlapped, suspect>>
    BY <1>4 DEF Commit, historyVars
  <2>2. pc'[r] = AfterCommit(job[r]) /\ \A q \in Requests \ {r} : pc'[q] = pc[q]
    BY <1>1, <2>1 DEF TypeOK
  <2>3. pc'[r] \in {"delete_points", "queries", "ensure"}
    BY <2>2 DEF AfterCommit
  <2>4. pc'[r] \notin InTransaction /\ Active(r)'
    BY <2>3 DEF InTransaction, Active
  <2>5. SentFits(r)'
    BY <1>1, <1>2, <2>1, <2>2 DEF SentFits, AfterCommit
  <2>6. OthersWait(r)
    BY <2>1, <2>2 DEF OthersWait
  <2> QED
    BY <1>2, <1>3, <2>1, <2>4, <2>5, <2>6, GoesOn
<1>5. CASE ~ answered
  BY <1>3, <1>5, EndedHalfway DEF Commit
<1> QED
  BY <1>4, <1>5

-----------------------------------------------------------------------------
(* Steps that write Qdrant.                                                *)

(* A job after its transaction goes on without writing a store.            *)
LEMMA SettleMove ==
    ASSUME SettleInv, ChunksMatchRows', NEW r \in Requests, UNCHANGED <<row, points, job, overlapped, suspect>>,
           pc[r] \in {"queries", "ensure", "create"}, NEW l \in {"ensure", "create", "fill"},
           pc' = [pc EXCEPT ![r] = l],
           \A q \in Requests \ {r} : unsent'[q] = unsent[q],
           unsent'[r] = (IF l = "fill" THEN PointsOf(job[r]) ELSE {})
    PROVE  SettleCore'
<1>1. TypeOK /\ SentFits(r)
  BY DEF SettleInv, SettleCore, OverlapInv, PgInv
<1>2. pc'[r] = l /\ \A q \in Requests \ {r} : pc'[q] = pc[q]
  BY <1>1 DEF TypeOK
<1>3. OthersWait(r) /\ OnlyOwn(r) /\ Active(r) /\ Active(r)' /\ pc'[r] \notin InTransaction
  BY <1>2 DEF OthersWait, OnlyOwn, SamePoints, Active, InTransaction
<1>4. SentFits(r)'
  BY <1>1, <1>2 DEF SentFits
<1> QED
  BY <1>3, <1>4, GoesOn

LEMMA SettleBefore ==
    ASSUME SettleInv, ChunksMatchRows', NEW r \in Requests, NEW answered \in BOOLEAN,
           StoreQueries(r, answered) \/ EnsureCollection(r) \/ CreateCollection(r, answered)
    PROVE  SettleCore'
<1>1. TypeOK /\ SentFits(r)
  BY DEF SettleInv, SettleCore, OverlapInv, PgInv
<1>2. /\ pc[r] \in {"queries", "ensure", "create"} /\ Active(r) /\ UNCHANGED <<row, points>>
      /\ unsent[r] = {}
  BY <1>1 DEF StoreQueries, EnsureCollection, CreateCollection, Active, SentFits, pgVars, qdrantVars
<1>3. OnlyOwn(r)
  BY <1>2 DEF OnlyOwn, SamePoints
<1>4. \/ LeftHalfway(r)
      \/ job[r].mode = "postgres_only" /\ Succeed(r)
      \/ /\ UNCHANGED <<job, overlapped, suspect, unsent>>
         /\ pc' = [pc EXCEPT ![r] = "ensure"] \/ pc' = [pc EXCEPT ![r] = "create"]
      \/ BeginFill(r) /\ UNCHANGED <<job, overlapped, suspect>>
  BY DEF StoreQueries, EnsureCollection, CreateCollection, historyVars
<1>5. CASE LeftHalfway(r)
  BY <1>3, <1>5, EndedHalfway
<1>6. CASE job[r].mode = "postgres_only" /\ Succeed(r)
  BY <1>2, <1>3, <1>6, EndedWell DEF Complete
<1>7. CASE /\ UNCHANGED <<job, overlapped, suspect, unsent>>
           /\ pc' = [pc EXCEPT ![r] = "ensure"] \/ pc' = [pc EXCEPT ![r] = "create"]
  <2>1. CASE pc' = [pc EXCEPT ![r] = "ensure"]
    BY <1>2, <1>7, <2>1, SettleMove
  <2>2. CASE pc' = [pc EXCEPT ![r] = "create"]
    BY <1>2, <1>7, <2>2, SettleMove
  <2> QED
    BY <1>7, <2>1, <2>2
<1>8. CASE BeginFill(r) /\ UNCHANGED <<job, overlapped, suspect>>
  <2>1. /\ pc' = [pc EXCEPT ![r] = "fill"]
        /\ unsent'[r] = PointsOf(job[r])
        /\ \A q \in Requests \ {r} : unsent'[q] = unsent[q]
    BY <1>1, <1>8 DEF BeginFill, TypeOK
  <2> QED
    BY <1>2, <1>8, <2>1, SettleMove
<1> QED
  BY <1>4, <1>5, <1>6, <1>7, <1>8

LEMMA SettleFlush ==
    ASSUME SettleInv, ChunksMatchRows', NEW r \in Requests, NEW answered \in BOOLEAN, Flush(r, answered)
    PROVE  SettleCore'
<1>1. TypeOK /\ SentFits(r)
  BY DEF SettleInv, SettleCore, OverlapInv, PgInv
<1>2. pc[r] = "fill" /\ Active(r) /\ row' = row /\ job[r] \in Jobs
  BY <1>1 DEF Flush, Active, TypeOK, pgVars
<1>3. PICK batch \in SUBSET unsent[r] :
        /\ points' = Upserted(points, batch)
        /\ IF answered
           THEN /\ unsent' = [unsent EXCEPT ![r] = @ \ batch]
                /\ UNCHANGED <<pc, job, overlapped, suspect>>
           ELSE LeftHalfway(r)
  BY DEF Flush, historyVars
<1>4. batch \subseteq PointsOf(job[r])
  BY <1>1, <1>2 DEF SentFits
<1>5. OnlyOwn(r)
  <2> SUFFICES ASSUME NEW d \in Docs \ DocsOf(r) PROVE SamePoints(d)
    BY <1>2 DEF OnlyOwn
  <2>1. \A p \in batch : p.doc # d
    BY <1>2, <1>4, PointsDocs DEF DocsOf
  <2> QED
    BY <1>3, <2>1, UpsertElsewhere
<1>6. CASE ~ answered
  BY <1>3, <1>5, <1>6, EndedHalfway
<1>7. CASE answered
  <2>1. /\ unsent'[r] = unsent[r] \ batch
        /\ \A q \in Requests \ {r} : unsent'[q] = unsent[q]
        /\ UNCHANGED <<pc, job, overlapped, suspect>>
    BY <1>1, <1>3, <1>7 DEF TypeOK
  <2>2. OthersWait(r) /\ Active(r)' /\ pc'[r] \notin InTransaction
    BY <1>2, <2>1 DEF OthersWait, Active, InTransaction
  <2>3. ASSUME NEW k \in PointsOf(job[r]), k \notin unsent[r] \ batch, k \in unsent[r] \/ Sole(k)
        PROVE  Sole(k)'
    <3>1. \A p \in batch : SameKey(p, k) => p = k
      BY <1>2, <1>4, OnePointPerKey
    <3>2. points' = {p \in points : ~ \E b \in batch : SameKey(p, b)} \union batch
      BY <1>3 DEF Upserted
    <3>3. CASE k \in batch
      BY <3>1, <3>2, <3>3 DEF Sole
    <3>4. CASE k \notin batch
      <4>1. Sole(k)
        BY <2>3, <3>4
      <4>2. ~ \E b \in batch : SameKey(k, b)
        BY <3>1, <3>4 DEF SameKey
      <4> QED
        BY <3>1, <3>2, <4>1, <4>2 DEF Sole
    <3> QED
      BY <3>3, <3>4
  <2>4. SentFits(r)'
    BY <1>1, <1>2, <2>1, <2>3 DEF SentFits
  <2> QED
    BY <1>2, <1>5, <2>1, <2>2, <2>4, GoesOn
<1> QED
  BY <1>6, <1>7

(* The points of an undisturbed document, all sent, are those of its body. *)
LEMMA AllSent ==
    ASSUME TypeOK, NEW j \in Jobs, j.op # "delete", NEW i \in DOMAIN j.writes,
           row[j.writes[i].doc] = j.writes[i].body, ChunksMatchRows, j.writes[i].doc \in Docs,
           \A k \in PointsOf(j) : k.doc = j.writes[i].doc => Sole(k)
    PROVE  AgreeOn(j.writes[i].doc)
<1> DEFINE d == j.writes[i].doc
           b == j.writes[i].body
           below == {p \in ChunksIn(points, d) : p.index < ChunkCount[b]}
<1>1. b \in Bodies /\ b # NoBody /\ ChunkCount[b] \in Nat
  BY JobShape, BodiesAssumption
<1>2. ChunksOf(d, b) \subseteq PointsOf(j)
  BY DEF PointsOf
<1>3. ChunksOf(d, b) = [doc : {d}, index : 0 .. ChunkCount[b] - 1, body : {b}]
  BY <1>1 DEF ChunksOf
<1>4. \A k \in ChunksOf(d, b) : Sole(k)
  BY <1>2, <1>3
<1>5. ASSUME NEW k \in ChunksOf(d, b) PROVE k \in below
  BY <1>1, <1>3, <1>4 DEF Sole, ChunksIn
<1>6. ASSUME NEW p \in below PROVE p \in ChunksOf(d, b)
  <2>1. p \in points /\ p.doc = d /\ p.index \in Nat /\ p.index < ChunkCount[b]
    BY DEF ChunksIn, TypeOK, Chunks
  <2> DEFINE k == [doc |-> d, index |-> p.index, body |-> b]
  <2>2. k \in ChunksOf(d, b)
    BY <1>1, <1>3, <2>1
  <2>3. SameKey(p, k)
    BY <2>1 DEF SameKey
  <2> QED
    BY <1>4, <2>1, <2>2, <2>3 DEF Sole
<1>7. below = ChunksOf(d, b)
  BY <1>5, <1>6
<1>8. AgreeRow(d)
  BY <1>1, <1>7 DEF AgreeRow
<1> QED
  BY <1>8, AgreeIsAgreeRow

LEMMA SettleFinish ==
    ASSUME SettleInv, ChunksMatchRows', NEW r \in Requests, Finish(r)
    PROVE  SettleCore'
<1>1. TypeOK /\ ChunksMatchRows /\ SentFits(r) /\ QdrantFollowsPostgres
  BY DEF SettleInv, SettleCore, OverlapInv, PgInv
<1>2. /\ pc[r] = "fill" /\ unsent[r] = {} /\ Active(r) /\ Succeed(r) /\ UNCHANGED <<row, points>>
      /\ job[r] \in Jobs /\ job[r].op # "delete"
  BY <1>1 DEF Finish, Active, TypeOK, SentFits, pgVars, qdrantVars
<1>3. OnlyOwn(r)
  BY <1>2 DEF OnlyOwn, SamePoints
<1>4. ASSUME Complete(job[r]), NEW d \in DocsOf(r) \ overlapped[r] PROVE AgreeOn(d)'
  <2>1. PICK i \in DOMAIN job[r].writes : d = job[r].writes[i].doc
    BY <1>2 DEF DocsOf, DocsIn
  <2>2. d \in Docs
    BY <1>1, DocsOfType
  <2>3. row[d] = job[r].writes[i].body
    BY <1>1, <1>2, <1>4, <2>1 DEF QdrantFollowsPostgres, Complete, AfterTransaction
  <2>4. \A k \in PointsOf(job[r]) : k.doc = d => Sole(k)
    BY <1>1, <1>2, <1>4 DEF SentFits
  <2>5. AgreeOn(d)
    BY <1>1, <1>2, <2>1, <2>2, <2>3, <2>4, AllSent
  <2> QED
    BY <1>1, <1>2, <2>2, <2>5, AgreementKept DEF SamePoints
<1> QED
  BY <1>2, <1>3, <1>4, EndedWell

LEMMA DeleteOne ==
    ASSUME NEW j \in Jobs, j.op = "delete"
    PROVE  DOMAIN j.writes = {1}
<1>1. j \notin Upserts /\ j \notin Seeds
  BY DEF Upserts, Seeds
<1>2. PICK d \in Docs, s \in Spellings :
        j = [op |-> "delete", mode |-> "both", spelling |-> s,
             writes |-> <<[doc |-> d, body |-> NoBody]>>]
  BY <1>1 DEF Jobs, Deletes
<1> QED
  BY <1>2

LEMMA SettleDelete ==
    ASSUME SettleInv, ChunksMatchRows', NEW r \in Requests, NEW answered \in BOOLEAN,
           DeletePoints(r, answered) \/ DeleteFromNoCollection(r)
    PROVE  SettleCore'
<1>1. TypeOK /\ ChunksMatchRows /\ QdrantFollowsPostgres /\ PhaseFits(r)
  BY DEF SettleInv, SettleCore, OverlapInv, PgInv
<1>2. /\ pc[r] = "delete_points" /\ Active(r) /\ row' = row
      /\ points' = points \/ points' = {p \in points : p.doc # Doc(r)}
  BY DEF DeletePoints, DeleteFromNoCollection, Active, pgVars, qdrantVars
<1>3. job[r] \in Jobs /\ job[r].op = "delete" /\ Doc(r) \in DocsOf(r) /\ at[r] \in DOMAIN job[r].writes
  BY <1>1, <1>2, Reached DEF PhaseFits, DocsOf, TypeOK
<1>4. OnlyOwn(r)
  BY <1>2, <1>3 DEF OnlyOwn, SamePoints, ChunksIn
<1>5. CASE LeftHalfway(r)
  BY <1>4, <1>5, EndedHalfway
<1>6. CASE DeletePoints(r, answered) /\ Succeed(r)
  <2>1. ASSUME Complete(job[r]), NEW d \in DocsOf(r) \ overlapped[r] PROVE AgreeOn(d)'
    <3>1. points' = {p \in points : p.doc # Doc(r)}
      BY <1>6, <2>1 DEF DeletePoints, Complete
    <3>2. PICK i \in DOMAIN job[r].writes : d = job[r].writes[i].doc
      BY <1>2 DEF DocsOf, DocsIn
    <3>3. d = Doc(r)
      BY <1>3, <3>2, DeleteOne DEF Doc
    <3>4. row[d] = NoBody
      <4>1. job[r].writes[i].body = NoBody
        BY <1>3, <3>2, JobShape
      <4>2. pc[r] \in AfterTransaction /\ job[r].mode # "qdrant_only"
        BY <1>2, <2>1 DEF AfterTransaction, Complete
      <4> QED
        BY <1>1, <2>1, <3>2, <4>1, <4>2 DEF QdrantFollowsPostgres
    <3> QED
      BY <1>2, <3>1, <3>3, <3>4 DEF AgreeOn, ChunksIn
  <2> QED
    BY <1>2, <1>4, <1>6, <2>1, EndedWell
<1> QED
  BY <1>5, <1>6 DEF DeletePoints, DeleteFromNoCollection

LEMMA SettleAbort ==
    ASSUME SettleInv, ChunksMatchRows', NEW r \in Requests,
           RejectRow(r) \/ AbortDeadlocked(r) \/ Fail(r) \/ GiveUp(r)
    PROVE  SettleCore'
<1>1. UNCHANGED <<row, points>>
  BY DEF RejectRow, AbortDeadlocked, Fail, GiveUp, pgVars, qdrantVars
<1>2. OnlyOwn(r)
  BY <1>1 DEF OnlyOwn, SamePoints
<1>3. AbortDeadlocked(r) => pc[r] \in InTransaction
  <2>1. WaitsFor(r) = {} => ~ InDeadlock(r)
    BY DEF InDeadlock
  <2>2. pc[r] \notin InTransaction => WaitsFor(r) = {}
    BY DEF WaitsFor, InTransaction
  <2> QED
    BY <2>1, <2>2 DEF AbortDeadlocked
<1>4. LeftHalfway(r) \/ (RolledBack(r) /\ pc[r] \in InTransaction)
  BY <1>3 DEF RejectRow, AbortDeadlocked, Fail, GiveUp, InTransaction
<1> QED
  BY <1>1, <1>2, <1>4, EndedHalfway, EndedRolledBack

-----------------------------------------------------------------------------

LEMMA SettleStep == SettleInv /\ [Next]_vars => SettleInv'
<1> SUFFICES ASSUME SettleInv, [Next]_vars PROVE SettleInv'
  OBVIOUS
<1>1. OverlapInv' /\ ChunksMatchRows'
  BY OverlapStep DEF SettleInv, OverlapInv, PgInv
<1>2. CASE UNCHANGED vars
  <2>1. UNCHANGED <<row, chunks, points, pc, job, unsent, overlapped, suspect>>
    BY <1>2 DEF vars, pgVars, qdrantVars, requestVars, historyVars
  <2>2. SettleCore'
    BY <2>1 DEF SettleInv, SettleCore, SentFits, SuspectsKnown, Undisturbed, AgreeOn, Sole,
                DocsOf, Active, ChunksIn
  <2> QED
    BY <1>1, <2>2 DEF SettleInv
<1>3. CASE Next
  <2>1. Answers \subseteq BOOLEAN
    BY DEF Answers
  <2>2. SettleCore'
    BY <1>1, <1>3, <2>1, SettleStart, SettleLand, SettleInside, SettleCommit, SettleBefore, SettleFlush,
       SettleFinish, SettleDelete, SettleAbort DEF Next, Step, Decide
  <2> QED
    BY <1>1, <2>2 DEF SettleInv
<1> QED
  BY <1>2, <1>3

LEMMA SettleInit == Init => SettleInv
<1> SUFFICES ASSUME Init PROVE SettleInv
  OBVIOUS
<1>1. \A r \in Requests : SentFits(r) /\ SuspectsKnown(r)
  BY DEF Init, SentFits, SuspectsKnown, DocsOf, Active
<1>2. \A d \in Docs : AgreeOn(d)
  BY DEF Init, AgreeOn, ChunksIn
<1> QED
  BY <1>1, <1>2, OverlapInit DEF SettleInv, SettleCore

THEOREM SettleInvariant == Spec => []SettleInv
BY SettleInit, SettleStep, PTL DEF Spec

(* A job that ran alone on a document and succeeded has settled it: the    *)
(* stores agree on it, however many failures came before.                  *)
THEOREM SettledAgree == Spec => []SettledAgreement
<1>1. SettleInv => SettledAgreement
  BY DEF SettleInv, SettleCore, SettledAgreement, Undisturbed
<1> QED
  BY <1>1, SettleInvariant, PTL

-----------------------------------------------------------------------------
(* Labels: with no deletes, rows stay, and labels follow rows.             *)

LEMMA NoDeletes ==
    ASSUME Spellings = {}, NEW j \in Jobs, NEW i \in DOMAIN j.writes
    PROVE  j.writes[i].body \in Bodies
<1>1. CASE j \in Upserts
  BY <1>1 DEF Upserts
<1>2. CASE j \in Seeds
  <2>1. j.writes \in Seq(Writes)
    BY <1>2, RequestsAssumption DEF Seeds
  <2>2. j.writes \in [1 .. Len(j.writes) -> Writes]
    BY <2>1, LenProperties
  <2> QED
    BY <2>2 DEF Writes
<1> QED
  BY <1>1, <1>2 DEF Jobs, Deletes

(* Only an answered commit leads to the labels.                            *)
LEMMA QueriesAfterCommit ==
    ASSUME PgInv, [Next]_vars, NEW r \in Requests, pc'[r] = "queries"
    PROVE  \/ pc[r] = "queries" /\ job'[r] = job[r]
           \/ pc[r] # "queries" /\ \E answered \in Answers : Commit(r, answered)
<1> DEFINE Goal == \/ pc[r] = "queries" /\ job'[r] = job[r]
                   \/ pc[r] # "queries" /\ \E answered \in Answers : Commit(r, answered)
<1> USE DEF PgInv, TypeOK
<1>1. ASSUME NEW q \in Requests, NEW j \in Jobs, Start(q, j) PROVE Goal
  BY <1>1 DEF Start, FirstStep, Active
<1>2. ASSUME NEW q \in Requests, Free(q) PROVE Goal
  BY <1>2 DEF Free
<1>3. ASSUME NEW q \in Requests, NEW answered \in Answers, Commit(q, answered) PROVE Goal
  BY <1>2, <1>3 DEF Commit, LeftHalfway
<1>4. ASSUME NEW q \in Requests, LockRow(q) \/ WriteRow(q) \/ ReplaceChunks(q) \/ DeleteRow(q) PROVE Goal
  BY <1>4 DEF LockRow, WriteRow, ReplaceChunks, DeleteRow
<1>5. ASSUME NEW q \in Requests, NEW answered, StoreQueries(q, answered) PROVE Goal
  BY <1>2, <1>5 DEF StoreQueries, LeftHalfway, Succeed
<1>6. ASSUME NEW q \in Requests, NEW answered, EnsureCollection(q) \/ CreateCollection(q, answered) PROVE Goal
  BY <1>2, <1>6 DEF EnsureCollection, CreateCollection, BeginFill, LeftHalfway
<1>7. ASSUME NEW q \in Requests, NEW answered, Flush(q, answered) \/ Finish(q) PROVE Goal
  BY <1>2, <1>7 DEF Flush, Finish, LeftHalfway, Succeed
<1>8. ASSUME NEW q \in Requests, NEW answered, DeletePoints(q, answered) \/ DeleteFromNoCollection(q) PROVE Goal
  BY <1>2, <1>8 DEF DeletePoints, DeleteFromNoCollection, LeftHalfway, Succeed
<1>9. ASSUME NEW q \in Requests, RejectRow(q) \/ AbortDeadlocked(q) \/ Fail(q) \/ GiveUp(q) PROVE Goal
  BY <1>2, <1>9 DEF RejectRow, AbortDeadlocked, Fail, GiveUp, RolledBack, LeftHalfway
<1>10. ASSUME NEW q \in Requests, Land(q) PROVE Goal
  BY <1>10 DEF Land, requestVars
<1>11. CASE UNCHANGED vars
  BY <1>11 DEF vars, requestVars
<1> QED
  BY <1>1, <1>3, <1>4, <1>5, <1>6, <1>7, <1>8, <1>9, <1>10, <1>11 DEF Next, Step, Decide

LEMMA RowsStay ==
    ASSUME PgInv, [Next]_vars, Spellings = {}, NEW d \in Docs, row[d] # NoBody
    PROVE  row'[d] # NoBody
<1>1. ASSUME NEW r \in Requests, NEW answered, Commit(r, answered) PROVE row'[d] # NoBody
  <2>1. row'[d] = View(r, d) /\ pc[r] \in InTransaction /\ job[r] \in Jobs
    BY <1>1 DEF Commit, InTransaction, PgInv, TypeOK, Active
  <2>2. CASE d \notin Staged(r)
    BY <2>1, <2>2 DEF Staged, View
  <2>3. CASE d \in Staged(r)
    <3>1. PICK i \in DOMAIN job[r].writes : job[r].writes[i].doc = d
      BY <2>1, <2>3 DEF PgInv, StagedFollows, DocsIn
    <3>2. txn[r].staged[d] = job[r].writes[i].body
      BY <2>1, <2>3, <3>1 DEF PgInv, StagedFollows
    <3>3. job[r].writes[i].body \in Bodies
      BY <2>1, <3>1, NoDeletes
    <3> QED
      BY <2>1, <2>3, <3>2, <3>3, BodiesAssumption DEF View, Staged
  <2> QED
    BY <2>2, <2>3
<1>2. CASE UNCHANGED row
  BY <1>2
<1>3. UNCHANGED row \/ \E r \in Requests, answered \in Answers : Commit(r, answered)
  BY DEF Next, Step, Start, LockRow, Decide, WriteRow, RejectRow, ReplaceChunks, DeleteRow, StoreQueries,
         EnsureCollection, CreateCollection, Flush, Finish, DeletePoints, DeleteFromNoCollection,
         AbortDeadlocked, Fail, GiveUp, Land, pgVars, vars
<1> QED
  BY <1>1, <1>2, <1>3

LEMMA LabelStep ==
    ASSUME LabelInv, [Next]_vars, Spellings = {}
    PROVE  LabelInv'
<1>1. PgInv /\ PgInv'
  BY PgStep DEF LabelInv
<1>2. \A d \in Docs : row[d] # NoBody => row'[d] # NoBody
  BY <1>1, RowsStay
<1>3. labels \subseteq Docs /\ \A r \in Requests : DocsOf(r) \subseteq Docs
  BY <1>1, DocsOfType DEF PgInv, TypeOK
<1>4. LabelsResolve'
  <2>1. ASSUME NEW r \in Requests, NEW answered, StoreQueries(r, answered) PROVE LabelsResolve'
    <3>1. labels' = DocsOf(r) /\ pc[r] = "queries"
      BY <2>1 DEF StoreQueries, DocsOf, Active
    <3> QED
      BY <3>1, <1>2, <1>3 DEF LabelInv, LabelsResolve
  <2>2. CASE UNCHANGED labels
    BY <2>2, <1>2, <1>3 DEF LabelInv, LabelsResolve
  <2>3. UNCHANGED labels \/ \E r \in Requests, answered \in Answers : StoreQueries(r, answered)
    BY DEF Next, Step, Start, LockRow, Decide, WriteRow, RejectRow, ReplaceChunks, DeleteRow, Commit,
           EnsureCollection, CreateCollection, Flush, Finish, DeletePoints, DeleteFromNoCollection,
           AbortDeadlocked, Fail, GiveUp, Land, pgVars, vars
  <2> QED
    BY <2>1, <2>2, <2>3
<1>5. ASSUME NEW r \in Requests, pc'[r] = "queries", NEW d \in DocsOf(r)' PROVE row'[d] # NoBody
  <2>1. CASE pc[r] = "queries" /\ job'[r] = job[r]
    BY <1>2, <1>3, <1>5, <2>1 DEF LabelInv, DocsOf, Active
  <2>2. ASSUME NEW answered, Commit(r, answered), pc[r] # "queries" PROVE row'[d] # NoBody
    <3>1. /\ row' = [e \in Docs |-> View(r, e)] /\ pc[r] = "commit" /\ job[r] \in Jobs
          /\ job'[r] = job[r] /\ job[r].op # "delete"
      BY <1>1, <1>5, <2>2 DEF Commit, LeftHalfway, Free, AfterCommit, PgInv, TypeOK, Active, InTransaction
    <3>2. d \in DocsIn(job[r].writes)
      BY <1>5, <3>1 DEF DocsOf
    <3>3. Staged(r) = DocsIn(job[r].writes)
      BY <1>1, <3>1 DEF PgInv, StagedFollows, InTransaction
    <3>4. PICK i \in DOMAIN job[r].writes : job[r].writes[i].doc = d
      BY <3>2 DEF DocsIn
    <3>5. txn[r].staged[d] = job[r].writes[i].body
      BY <1>1, <3>1, <3>2, <3>3, <3>4 DEF PgInv, StagedFollows, InTransaction
    <3>6. job[r].writes[i].body \in Bodies
      BY <3>1, <3>4, NoDeletes
    <3> QED
      BY <3>1, <3>2, <3>3, <3>5, <3>6, BodiesAssumption DEF View, Staged
  <2>3. \/ pc[r] = "queries" /\ job'[r] = job[r]
        \/ pc[r] # "queries" /\ \E answered \in Answers : Commit(r, answered)
    BY <1>1, <1>5, QueriesAfterCommit
  <2> QED
    BY <2>1, <2>2, <2>3
<1> QED
  BY <1>1, <1>4, <1>5 DEF LabelInv

(* Without deletes every stored label names a stored document: labels are  *)
(* stored after the commit of the documents they name (_run in seed.py),   *)
(* and an upsert never takes a row away.                                   *)
THEOREM LabelsNameDocuments ==
    ASSUME Spellings = {}
    PROVE  Spec => []LabelsResolve
<1>1. Init => LabelInv
  BY PgInit DEF Init, LabelInv, LabelsResolve
<1>2. LabelInv /\ [Next]_vars => LabelInv'
  BY LabelStep
<1>3. LabelInv => LabelsResolve
  BY DEF LabelInv
<1> QED
  BY <1>1, <1>2, <1>3, PTL DEF Spec

=============================================================================
