------------------------------- MODULE Search -------------------------------
(***************************************************************************)
(* POST /search (app/api/routes.py, app/retrievers/): the handler builds a *)
(* retriever for the requested strategy, awaits it, closes its Qdrant      *)
(* client, and FastAPI closes its database session before it answers.      *)
(* A hybrid retriever runs its two legs as tasks under asyncio.gather: the *)
(* first exception reaches the handler at once and the other task goes on. *)
(*                                                                         *)
(* Both PostgreSQL retrievers of a request use the one session of the      *)
(* request, which takes a connection from the pool at its first statement. *)
(* What SQLAlchemy does with a session in two tasks is modelled from its   *)
(* documented behaviour: a second statement while the first one is still   *)
(* getting its connection raises InvalidRequestError, later statements     *)
(* share the connection, and the session cannot be closed meanwhile.       *)
(***************************************************************************)
EXTENDS Integers, FiniteSets

CONSTANTS
    Requests,       \* slots for requests served at the same time
    Searches,       \* the search requests clients send
    NoSearch,       \* the search of a slot that is free
    EmbedSuspends,  \* FALSE for the hash provider, which never awaits
    PoolSize,       \* pool_size + max_overflow
    Faults          \* may calls fail, time out?

Strategies == {"lexical", "dense_pgvector", "dense_qdrant",
               "hybrid_pgvector", "hybrid_qdrant", "adaptive"}

(* Of a query only what the router reads: is there an exact identifier, is *)
(* it a question, has it six tokens or more?  "supported" is FALSE when a  *)
(* filter names a field that is not in ALLOWED_FILTERS.                    *)
SearchType ==
    [strategy : Strategies, dense_backend : {"pgvector", "qdrant"},
     identifier : BOOLEAN, question : BOOLEAN, long : BOOLEAN, supported : BOOLEAN]

ASSUME SearchesAssumption == Searches \subseteq SearchType /\ NoSearch \notin Searches

ASSUME SettingsAssumption ==
    /\ EmbedSuspends \in BOOLEAN
    /\ PoolSize \in Nat \ {0}
    /\ Faults \in BOOLEAN

VARIABLES
    pc,       \* the handler: "idle", "searching", "closing", "leaving", "answered"
    search,   \* the request it serves
    leg,      \* the state of its lexical and its dense search
    session,  \* its session: "unbound", "provisioning" or "bound"
    client,   \* is its Qdrant client open?
    outcome   \* "none", "ok" or "raised"

vars == <<pc, search, leg, session, client, outcome>>

Legs == {"lexical", "dense"}

-----------------------------------------------------------------------------
(* RuleBasedQueryRouter.route and build_retriever.                         *)

Route(s) ==
    CASE s.identifier /\ ~ s.question                 -> "lexical"
      [] ~ s.identifier /\ (s.question \/ s.long)     -> "dense"
      [] OTHER                                        -> "hybrid"

Shape(s) ==
    CASE s.strategy = "lexical"                              -> "lexical"
      [] s.strategy \in {"dense_pgvector", "dense_qdrant"}   -> "dense"
      [] s.strategy \in {"hybrid_pgvector", "hybrid_qdrant"} -> "hybrid"
      [] OTHER                                               -> Route(s)

LegsOf(s) ==
    CASE Shape(s) = "lexical" -> {"lexical"}
      [] Shape(s) = "dense"   -> {"dense"}
      [] OTHER                -> Legs

(* Mutant: the dense_backend of the request decides for every strategy.    *)
BackendRequested(s) == s.dense_backend

Backend(s) ==
    CASE s.strategy \in {"dense_pgvector", "hybrid_pgvector"} -> "pgvector"
      [] s.strategy \in {"dense_qdrant", "hybrid_qdrant"}     -> "qdrant"
      [] OTHER                                                -> s.dense_backend

UsesPostgres(s, l) == l = "lexical" \/ Backend(s) = "pgvector"

-----------------------------------------------------------------------------

Waiting == {"ready", "embedding", "provisioning", "querying"}

(* A leg raised: the code made it ("failed"), or a call of it failed that  *)
(* might as well have succeeded ("lost").                                  *)
Raised == {"failed", "lost"}

Ended(r) == \A l \in Legs : leg[r][l] \notin Waiting

Init ==
    /\ pc = [r \in Requests |-> "idle"]
    /\ search = [r \in Requests |-> NoSearch]
    /\ leg = [r \in Requests |-> [l \in Legs |-> "none"]]
    /\ session = [r \in Requests |-> "unbound"]
    /\ client = [r \in Requests |-> FALSE]
    /\ outcome = [r \in Requests |-> "none"]

Receive(r, s) ==
    /\ pc[r] = "idle"
    /\ pc' = [pc EXCEPT ![r] = "searching"]
    /\ search' = [search EXCEPT ![r] = s]
    /\ leg' = [leg EXCEPT ![r] = [l \in Legs |-> IF l \in LegsOf(s) THEN "ready" ELSE "none"]]
    /\ client' = [client EXCEPT ![r] = TRUE]
    /\ UNCHANGED <<session, outcome>>

(* The leg l reaches its store: session.execute or client.search.          *)
Query(r, l) ==
    LET goesTo(state) == leg' = [leg EXCEPT ![r][l] = state] IN
    CASE ~ search[r].supported ->
            goesTo("failed") /\ UNCHANGED session
      [] search[r].supported /\ ~ UsesPostgres(search[r], l) ->
            goesTo(IF client[r] THEN "querying" ELSE "failed") /\ UNCHANGED session
      [] search[r].supported /\ UsesPostgres(search[r], l) ->
            CASE session[r] = "unbound" ->
                    goesTo("provisioning") /\ session' = [session EXCEPT ![r] = "provisioning"]
              [] session[r] = "provisioning" ->
                    goesTo("failed") /\ UNCHANGED session
              [] OTHER ->
                    goesTo("querying") /\ UNCHANGED session

(* A task runs to its first suspension; tasks start in the order gather    *)
(* was given them, before the handler runs again.                          *)
StartLeg(r, l) ==
    /\ leg[r][l] = "ready"
    /\ l = "dense" => leg[r]["lexical"] # "ready"
    /\ IF l = "dense" /\ EmbedSuspends
       THEN leg' = [leg EXCEPT ![r][l] = "embedding"] /\ UNCHANGED session
       ELSE Query(r, l)
    /\ UNCHANGED <<pc, search, client, outcome>>

Embedded(r) ==
    /\ leg[r]["dense"] = "embedding"
    /\ Query(r, "dense")
    /\ UNCHANGED <<pc, search, client, outcome>>

InUse == {r \in Requests : session[r] = "bound"}

Provisioned(r, l) ==
    /\ leg[r][l] = "provisioning"
    /\ Cardinality(InUse) < PoolSize
    /\ leg' = [leg EXCEPT ![r][l] = "querying"]
    /\ session' = [session EXCEPT ![r] = "bound"]
    /\ UNCHANGED <<pc, search, client, outcome>>

(* The store answers.  The query of a task that was left behind may find   *)
(* its connection or client closed.                                        *)
Answer(r, l, state) ==
    /\ leg[r][l] = "querying"
    /\ state = "failed" => IF UsesPostgres(search[r], l)
                           THEN session[r] = "unbound" ELSE ~ client[r]
    /\ leg' = [leg EXCEPT ![r][l] = state]
    /\ UNCHANGED <<pc, search, session, client, outcome>>

(* Mutant: a session whose connection could not be had stays as it is.     *)
FailProvisioning(r, l) ==
    /\ Faults
    /\ leg[r][l] \in {"embedding", "provisioning", "querying"}
    /\ leg' = [leg EXCEPT ![r][l] = "lost"]
    /\ UNCHANGED <<pc, search, session, client, outcome>>

(* The embedding service, the pool (after its timeout) or a store fails.   *)
Fail(r, l) ==
    /\ Faults
    /\ leg[r][l] \in {"embedding", "provisioning", "querying"}
    /\ leg' = [leg EXCEPT ![r][l] = "lost"]
    /\ session' = IF leg[r][l] = "provisioning"
                  THEN [session EXCEPT ![r] = "unbound"] ELSE session
    /\ UNCHANGED <<pc, search, client, outcome>>

(* Mutant: gather does not wait for the slower task.                       *)
ResumeFirst(r) ==
    /\ pc[r] = "searching"
    /\ "ready" \notin {leg[r][l] : l \in Legs}
    /\ \E l \in Legs : leg[r][l] \in {"done"} \union Raised /\
          outcome' = [outcome EXCEPT ![r] = IF leg[r][l] \in Raised THEN "raised" ELSE "ok"]
    /\ pc' = [pc EXCEPT ![r] = "closing"]
    /\ UNCHANGED <<search, leg, session, client>>

(* Mutant: the exception of a task does not reach the handler.             *)
ResumeDone(r) ==
    /\ pc[r] = "searching"
    /\ \A l \in LegsOf(search[r]) : leg[r][l] = "done"
    /\ outcome' = [outcome EXCEPT ![r] = "ok"]
    /\ pc' = [pc EXCEPT ![r] = "closing"]
    /\ UNCHANGED <<search, leg, session, client>>

(* The handler continues when the search has returned or raised.           *)
Resume(r) ==
    /\ pc[r] = "searching"
    /\ "ready" \notin {leg[r][l] : l \in Legs}
    /\ \/ /\ \E l \in Legs : leg[r][l] \in Raised
          /\ outcome' = [outcome EXCEPT ![r] = "raised"]
       \/ /\ \A l \in LegsOf(search[r]) : leg[r][l] = "done"
          /\ outcome' = [outcome EXCEPT ![r] = "ok"]
    /\ pc' = [pc EXCEPT ![r] = "closing"]
    /\ UNCHANGED <<search, leg, session, client>>

(* finally: await qdrant_client.close().                                   *)
CloseClient(r) ==
    /\ pc[r] = "closing"
    /\ client' = [client EXCEPT ![r] = FALSE]
    /\ pc' = [pc EXCEPT ![r] = "leaving"]
    /\ UNCHANGED <<search, leg, session, outcome>>

(* Mutant: the session is not closed.                                      *)
LeaveOpen(r) ==
    /\ pc[r] = "leaving"
    /\ pc' = [pc EXCEPT ![r] = "answered"]
    /\ UNCHANGED <<search, leg, session, client, outcome>>

(* get_session closes the session, which gives its connection back; one    *)
(* that is still provisioning refuses to close (IllegalStateChangeError).  *)
Leave(r) ==
    /\ pc[r] = "leaving"
    /\ session' = IF session[r] = "bound" THEN [session EXCEPT ![r] = "unbound"] ELSE session
    /\ pc' = [pc EXCEPT ![r] = "answered"]
    /\ UNCHANGED <<search, leg, client, outcome>>

(* The last task of the request has ended: what its session still holds is *)
(* reclaimed with it.                                                      *)
Forget(r) ==
    /\ pc[r] = "answered"
    /\ Ended(r)
    /\ pc' = [pc EXCEPT ![r] = "idle"]
    /\ search' = [search EXCEPT ![r] = NoSearch]
    /\ leg' = [leg EXCEPT ![r] = [l \in Legs |-> "none"]]
    /\ session' = [session EXCEPT ![r] = "unbound"]
    /\ outcome' = [outcome EXCEPT ![r] = "none"]
    /\ UNCHANGED client

Step(r) ==
    \/ Embedded(r) \/ Resume(r) \/ CloseClient(r) \/ Leave(r) \/ Forget(r)
    \/ \E l \in Legs :
        \/ StartLeg(r, l) \/ Provisioned(r, l)
        \/ \E state \in {"done", "failed"} : Answer(r, l, state)

Next == \E r \in Requests :
    \/ \E s \in Searches : Receive(r, s)
    \/ Step(r)
    \/ \E l \in Legs : Fail(r, l)

Spec == Init /\ [][Next]_vars

(***************************************************************************)
(* The event loop resumes every task whose call was answered, the stores   *)
(* answer, and the pool serves those who wait in order.                    *)
(***************************************************************************)
Fairness == \A r \in Requests :
    /\ WF_vars(Step(r))
    /\ \A l \in Legs : SF_vars(Provisioned(r, l))

FairSpec == Spec /\ Fairness

-----------------------------------------------------------------------------

(* Every variable has its type, and a session is provisioning for exactly  *)
(* one task.                                                               *)
TypeOK ==
    /\ pc \in [Requests -> {"idle", "searching", "closing", "leaving", "answered"}]
    /\ search \in [Requests -> Searches \union {NoSearch}]
    /\ \A r \in Requests : pc[r] # "idle" <=> search[r] \in Searches
    /\ leg \in [Requests -> [Legs -> Waiting \union Raised \union {"none", "done"}]]
    /\ session \in [Requests -> {"unbound", "provisioning", "bound"}]
    /\ client \in [Requests -> BOOLEAN]
    /\ outcome \in [Requests -> {"none", "ok", "raised"}]
    /\ \A r \in Requests :
        /\ session[r] = "provisioning" <=> \E l \in Legs : leg[r][l] = "provisioning"
        /\ \E l \in Legs : leg[r][l] # "provisioning"

(* What outlives a request: a task that still runs, or a connection that   *)
(* no handler will give back, is left behind only by a search of two legs  *)
(* that raised.  A search that succeeds, and one with a single leg however *)
(* it ends, is over when it is answered.                                   *)
NothingLeftBehind ==
    \A r \in Requests :
        (pc[r] = "answered" /\ (~ Ended(r) \/ session[r] # "unbound")) =>
            outcome[r] = "raised" /\ LegsOf(search[r]) = Legs

(* When no call fails and the filters are supported, a search is answered  *)
(* unless it runs two legs over PostgreSQL: hybrid_pgvector, or adaptive   *)
(* with that backend for a query the router takes for ambiguous.           *)
RaisesOnlyOnSharedSession ==
    \A r \in Requests :
        (outcome[r] = "raised" /\ search[r].supported /\ \A l \in Legs : leg[r][l] # "lost") =>
            \/ search[r].strategy = "hybrid_pgvector"
            \/ /\ search[r].strategy = "adaptive"
               /\ search[r].dense_backend = "pgvector"
               /\ Route(search[r]) = "hybrid"

(* The Qdrant client of a request is open as long as its handler still     *)
(* needs the answer of the leg that uses it.                               *)
ClientOutlivesSearch ==
    \A r \in Requests :
        (leg[r]["dense"] = "querying" /\ ~ UsesPostgres(search[r], "dense") /\ ~ client[r])
            => outcome[r] = "raised" /\ leg[r]["lexical"] \in Raised

(* Every search is answered, with more requests than connections too.      *)
SearchesEnd == \A r \in Requests : pc[r] = "searching" ~> pc[r] = "answered"

-----------------------------------------------------------------------------
(* The inductive invariant behind NothingLeftBehind, ClientOutlivesSearch  *)
(* and RaisesOnlyOnSharedSession.                                          *)

(* The legs of a request are those of its strategy.                        *)
LegsFit(r) ==
    IF pc[r] = "idle"
    THEN session[r] = "unbound" /\ \A l \in Legs : leg[r][l] = "none"
    ELSE \A l \in Legs : leg[r][l] = "none" <=> l \notin LegsOf(search[r])

(* The outcome tells how the legs have ended, or that one of them failed.  *)
OutcomeFits(r) ==
    IF pc[r] \in {"idle", "searching"} THEN outcome[r] = "none"
    ELSE \/ outcome[r] = "ok" /\ \A l \in Legs : leg[r][l] \in {"none", "done"}
         \/ outcome[r] = "raised" /\ \E l \in Legs : leg[r][l] \in Raised

(* Two legs query PostgreSQL through the one session of their request.     *)
SharesSession(s) == LegsOf(s) = Legs /\ UsesPostgres(s, "dense")

(* A query of PostgreSQL has its connection until the handler has left, so *)
(* that the code fails a leg only for one of three reasons.                *)
FailuresFit(r) ==
    /\ leg[r]["dense"] = "provisioning" => UsesPostgres(search[r], "dense")
    /\ \A l \in Legs : (leg[r][l] = "querying" /\ UsesPostgres(search[r], l)) =>
            session[r] = "bound" \/ pc[r] = "answered"
    /\ (\E l \in Legs : leg[r][l] = "failed") =>
            \/ ~ search[r].supported
            \/ SharesSession(search[r])
            \/ \E l \in Legs : leg[r][l] = "lost"

Inv ==
    /\ TypeOK
    /\ \A r \in Requests :
        /\ LegsFit(r)
        /\ OutcomeFits(r)
        /\ FailuresFit(r)
        /\ pc[r] \in {"searching", "closing"} => client[r]
    /\ NothingLeftBehind
    /\ ClientOutlivesSearch

-----------------------------------------------------------------------------

(* README.md:52: "Hybrid retrieval runs lexical and dense retrieval, then  *)
(* fuses candidates with RRF or normalized weighted score fusion."         *)
HybridAnswers ==
    \A r \in Requests :
        (outcome[r] = "raised" /\ search[r].supported)
            => search[r].strategy \notin {"hybrid_pgvector", "hybrid_qdrant"}

=============================================================================
