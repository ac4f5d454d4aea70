----------------------------- MODULE LiveSearch -----------------------------
(***************************************************************************)
(* Searches over stores that are being written: Search composed with       *)
(* DocumentStore.  A leg of a search queries the chunks that PostgreSQL    *)
(* has committed, or the points Qdrant has applied, at some moment between *)
(* sending its query and getting the answer; a hybrid search queries both  *)
(* stores, or one of them twice, at two moments.                           *)
(*                                                                         *)
(* What a query ranks and cuts is left out: "seen" is all it can choose    *)
(* from.  Writers and searches share no state but the stores; connections  *)
(* of writers are not counted against PoolSize.                            *)
(***************************************************************************)
EXTENDS DocumentStore

CONSTANTS
    Searchers,      \* slots for searches served at the same time
    Searches,       \* the search requests clients send
    NoSearch,       \* the search of a slot that is free
    EmbedSuspends,  \* does the embedding provider await?
    PoolSize        \* connections of the pool

VARIABLES
    spc, search, leg, session, client, outcome,   \* those of Search
    seen,   \* what each leg of each search could choose from
    quiet   \* history: documents at rest since the search was received

S == INSTANCE Search WITH Requests <- Searchers, pc <- spc

ASSUME SearchersAssumption ==
    /\ Searches \subseteq S!SearchType /\ NoSearch \notin Searches
    /\ EmbedSuspends \in BOOLEAN
    /\ PoolSize \in Nat \ {0}

searchVars == <<spc, search, leg, session, client, outcome>>
liveVars == <<vars, searchVars, seen, quiet>>

Unseen == [read |-> FALSE, found |-> {}]
Sight(cs) == [read |-> TRUE, found |-> cs]
NothingSeen == [l \in S!Legs |-> Unseen]

(* The documents whose last write has succeeded and that nobody writes.    *)
Settled == {d \in Docs : d \notin suspect /\ \A q \in Requests : d \notin DocsOf(q)}

LiveInit ==
    /\ Init
    /\ S!Init
    /\ seen = [r \in Searchers |-> NothingSeen]
    /\ quiet = [r \in Searchers |-> {}]

Write ==
    /\ Next
    /\ quiet' = [r \in Searchers |-> quiet[r] \intersect Settled']
    /\ UNCHANGED <<searchVars, seen>>

Receive(r, s) ==
    /\ S!Receive(r, s)
    /\ quiet' = [quiet EXCEPT ![r] = Settled]
    /\ UNCHANGED <<vars, seen>>

StoreOf(r, l) == IF S!UsesPostgres(search[r], l) THEN chunks ELSE points

(* One SELECT, which sees the rows committed when it starts, or one search *)
(* of the collection, which Qdrant refuses when there is none.             *)
Read(r, l) ==
    /\ leg[r][l] = "querying"
    /\ ~ seen[r][l].read
    /\ S!UsesPostgres(search[r], l) \/ collection
    /\ seen' = [seen EXCEPT ![r][l] = Sight(StoreOf(r, l))]
    /\ UNCHANGED <<vars, searchVars, quiet>>

(* Mutant: a leg answers without having been to its store.                 *)
AnswerUnread(r, l, state) ==
    /\ S!Answer(r, l, state)
    /\ UNCHANGED <<vars, seen, quiet>>

Answer(r, l, state) ==
    /\ state = "done" => seen[r][l].read
    /\ S!Answer(r, l, state)
    /\ UNCHANGED <<vars, seen, quiet>>

Forget(r) ==
    /\ S!Forget(r)
    /\ seen' = [seen EXCEPT ![r] = NothingSeen]
    /\ quiet' = [quiet EXCEPT ![r] = {}]
    /\ UNCHANGED vars

Proceed(r) ==
    /\ \/ S!Embedded(r) \/ S!Resume(r) \/ S!CloseClient(r) \/ S!Leave(r)
       \/ \E l \in S!Legs : S!StartLeg(r, l) \/ S!Provisioned(r, l) \/ S!Fail(r, l)
    /\ UNCHANGED <<vars, seen, quiet>>

LiveNext ==
    \/ Write
    \/ \E r \in Searchers :
        \/ \E s \in Searches : Receive(r, s)
        \/ Proceed(r) \/ Forget(r)
        \/ \E l \in S!Legs :
            \/ Read(r, l)
            \/ \E state \in {"done", "failed"} : Answer(r, l, state)

LiveSpec == LiveInit /\ [][LiveNext]_liveVars

-----------------------------------------------------------------------------

(* Every variable has its type; a leg of a search that succeeded has been  *)
(* to its store.                                                           *)
LiveTypeOK ==
    /\ TypeOK
    /\ S!TypeOK
    /\ seen \in [Searchers -> [S!Legs -> [read : BOOLEAN, found : SUBSET Chunks]]]
    /\ quiet \in [Searchers -> SUBSET Docs]
    /\ \A r \in Searchers, l \in S!Legs : leg[r][l] = "done" => seen[r][l].read

(* A document is written whole or not at all: whatever a query of          *)
(* PostgreSQL may choose from, at whatever moment of whatever writes, it   *)
(* has all the chunks of one body of each document, or none of them.       *)
WholeBodies ==
    \A r \in Searchers, l \in S!Legs :
        (seen[r][l].read /\ S!UsesPostgres(search[r], l)) =>
            \A d \in Docs : \E b \in Bodies \union {NoBody} :
                ChunksIn(seen[r][l].found, d) = ChunksOf(d, b)

(* A search answers with what was written last: once a job on a document   *)
(* has returned, however many attempts, partial writes and late calls came *)
(* before, every leg of a later search that succeeds finds, in either      *)
(* store, the chunks of its body and, after a DELETE, none - as long as    *)
(* nobody writes the document meanwhile.  Hence the two legs of a hybrid   *)
(* search agree on it.  (Points past the last chunk stay, as in AgreeOn.)  *)
Finds(cs, d, b) ==
    IF b = NoBody THEN ChunksIn(cs, d) = {}
    ELSE {c \in ChunksIn(cs, d) : c.index < ChunkCount[b]} = ChunksOf(d, b)

SettledSearch ==
    \A r \in Searchers : outcome[r] = "ok" =>
        \A l \in S!LegsOf(search[r]), d \in quiet[r] : Finds(seen[r][l].found, d, row[d])

=============================================================================
