---------------------------- MODULE SearchProofs ----------------------------
(* What a search leaves behind, for any number of concurrent searches, any *)
(* pool, and whether or not calls fail.                                    *)
EXTENDS Search, TLAPS

LEMMA InitInv == Init => Inv
BY SearchesAssumption
   DEF Init, Inv, TypeOK, LegsFit, OutcomeFits, FailuresFit, NothingLeftBehind, ClientOutlivesSearch, Legs, Raised

(* A leg that reaches its store is provisioning, querying or failed; the   *)
(* session changes only when the leg starts to provision it.               *)
LEMMA QueryTypes ==
    ASSUME NEW r \in Requests, NEW l \in Legs, Query(r, l)
    PROVE  \E state \in {"provisioning", "querying", "failed"} :
              /\ leg' = [leg EXCEPT ![r][l] = state]
              /\ state = "provisioning" => /\ session[r] = "unbound"
                                           /\ session' = [session EXCEPT ![r] = "provisioning"]
              /\ state # "provisioning" => session' = session
              /\ state = "provisioning" => UsesPostgres(search[r], l)
              /\ (state = "querying" /\ ~ UsesPostgres(search[r], l)) => client[r]
              /\ (state = "querying" /\ UsesPostgres(search[r], l)) =>
                    session[r] \notin {"unbound", "provisioning"}
              /\ state = "failed" =>
                    \/ ~ search[r].supported
                    \/ ~ UsesPostgres(search[r], l) /\ ~ client[r]
                    \/ UsesPostgres(search[r], l) /\ session[r] = "provisioning"
BY DEF Query

(* What holds of one request is not touched by the steps of another.       *)
Local(r) ==
    /\ search[r] \in Searches \union {NoSearch}
    /\ pc[r] # "idle" <=> search[r] \in Searches
    /\ session[r] = "provisioning" <=> \E l \in Legs : leg[r][l] = "provisioning"
    /\ \E l \in Legs : leg[r][l] # "provisioning"
    /\ LegsFit(r)
    /\ OutcomeFits(r)
    /\ FailuresFit(r)
    /\ pc[r] \in {"searching", "closing"} => client[r]
    /\ (pc[r] = "answered" /\ (~ Ended(r) \/ session[r] # "unbound")) =>
          outcome[r] = "raised" /\ LegsOf(search[r]) = Legs
    /\ (leg[r]["dense"] = "querying" /\ ~ UsesPostgres(search[r], "dense") /\ ~ client[r]) =>
          outcome[r] = "raised" /\ leg[r]["lexical"] \in Raised

Types ==
    /\ pc \in [Requests -> {"idle", "searching", "closing", "leaving", "answered"}]
    /\ search \in [Requests -> Searches \union {NoSearch}]
    /\ leg \in [Requests -> [Legs -> Waiting \union Raised \union {"none", "done"}]]
    /\ session \in [Requests -> {"unbound", "provisioning", "bound"}]
    /\ client \in [Requests -> BOOLEAN]
    /\ outcome \in [Requests -> {"none", "ok", "raised"}]

LEMMA InvIsLocal == Inv <=> Types /\ \A r \in Requests : Local(r)
BY DEF Inv, TypeOK, Types, Local, NothingLeftBehind, ClientOutlivesSearch

LEMMA InvIsLocalNext == Inv' <=> Types' /\ \A r \in Requests : Local(r)'
BY DEF Inv, TypeOK, Types, Local, NothingLeftBehind, ClientOutlivesSearch,
       LegsFit, OutcomeFits, FailuresFit, Ended, InUse

(* Everything Local says of a request is a function of its own slot.       *)
LEMMA OthersUntouched ==
    ASSUME NEW q \in Requests, Local(q),
           pc'[q] = pc[q], search'[q] = search[q], leg'[q] = leg[q],
           session'[q] = session[q], client'[q] = client[q], outcome'[q] = outcome[q]
    PROVE  Local(q)'
BY DEF Local, LegsFit, OutcomeFits, FailuresFit, Ended

LEMMA QueryLocal ==
    ASSUME Types, NEW r \in Requests, NEW l \in Legs, Query(r, l)
    PROVE  /\ leg' \in [Requests -> [Legs -> Waiting \union Raised \union {"none", "done"}]]
           /\ session' \in [Requests -> {"unbound", "provisioning", "bound"}]
           /\ \A q \in Requests \ {r} : leg'[q] = leg[q] /\ session'[q] = session[q]
<1>1. PICK state \in {"provisioning", "querying", "failed"} :
        /\ leg' = [leg EXCEPT ![r][l] = state]
        /\ session' = session \/ session' = [session EXCEPT ![r] = "provisioning"]
  BY QueryTypes
<1>2. state \in Waiting \union Raised
  BY DEF Waiting, Raised
<1> QED
  BY <1>1, <1>2 DEF Types

(* The steps of a request change its own slot only.                        *)
LEMMA StepIsLocal ==
    ASSUME Types, NEW r \in Requests,
           \/ \E s \in Searches : Receive(r, s)
           \/ Step(r)
           \/ \E l \in Legs : Fail(r, l)
    PROVE  /\ Types'
           /\ \A q \in Requests \ {r} :
                /\ pc'[q] = pc[q] /\ search'[q] = search[q] /\ leg'[q] = leg[q]
                /\ session'[q] = session[q] /\ client'[q] = client[q]
                /\ outcome'[q] = outcome[q]
<1> USE DEF Types, Legs, Waiting, Raised
<1>1. CASE \E s \in Searches : Receive(r, s)
  BY <1>1 DEF Receive
<1>2. CASE \E l \in Legs : StartLeg(r, l)
  <2>1. PICK l \in Legs : StartLeg(r, l)
    BY <1>2
  <2>2. CASE l = "dense" /\ EmbedSuspends
    BY <2>1, <2>2 DEF StartLeg
  <2>3. CASE Query(r, l)
    BY <2>1, <2>3, QueryLocal DEF StartLeg
  <2> QED
    BY <2>1, <2>2, <2>3 DEF StartLeg
<1>3. CASE Embedded(r)
  BY <1>3, QueryLocal DEF Embedded
<1>4. CASE \E l \in Legs : Provisioned(r, l)
  BY <1>4 DEF Provisioned
<1>5. CASE \E l \in Legs : \E state \in {"done", "failed"} : Answer(r, l, state)
  BY <1>5 DEF Answer
<1>6. CASE \E l \in Legs : Fail(r, l)
  BY <1>6 DEF Fail
<1>7. CASE Resume(r)
  BY <1>7 DEF Resume
<1>8. CASE CloseClient(r)
  BY <1>8 DEF CloseClient
<1>9. CASE Leave(r)
  BY <1>9 DEF Leave
<1>10. CASE Forget(r)
  BY <1>10 DEF Forget
<1> QED
  BY <1>1, <1>2, <1>3, <1>4, <1>5, <1>6, <1>7, <1>8, <1>9, <1>10 DEF Step

(* A request that is over or has one leg only: when a leg failed, or both  *)
(* are done, nothing runs any more.                                        *)
LEMMA EndedOrHybrid ==
    ASSUME Types, NEW r \in Requests, Local(r), pc[r] \in {"closing", "leaving", "answered"}
    PROVE  Ended(r) \/ (outcome[r] = "raised" /\ LegsOf(search[r]) = Legs)
BY DEF Types, Local, LegsFit, OutcomeFits, Ended, Waiting, Legs, LegsOf, Raised

LEMMA ReceiveLocal ==
    ASSUME Types, NEW r \in Requests, Local(r), NEW s \in Searches, Receive(r, s)
    PROVE  Local(r)'
<1> USE DEF Types, Legs, Raised
<1>1. /\ pc'[r] = "searching" /\ search'[r] = s /\ client'[r] = TRUE
      /\ outcome'[r] = "none" /\ session'[r] = "unbound"
  <2>1. pc[r] = "idle" /\ session[r] = "unbound" /\ outcome[r] = "none"
    BY DEF Receive, Local, LegsFit, OutcomeFits
  <2> QED
    BY <2>1 DEF Receive
<1>2. \A l \in Legs : leg'[r][l] = IF l \in LegsOf(s) THEN "ready" ELSE "none"
  BY DEF Receive
<1> QED
  BY <1>1, <1>2, SearchesAssumption DEF Local, LegsFit, OutcomeFits, FailuresFit

LEMMA HandlerLocal ==
    ASSUME Types, NEW r \in Requests, Local(r),
           Resume(r) \/ CloseClient(r) \/ Leave(r) \/ Forget(r)
    PROVE  Local(r)'
<1> USE DEF Types, Legs, Raised
<1>1. CASE Resume(r)
  BY <1>1 DEF Resume, Local, LegsFit, OutcomeFits, FailuresFit, Ended, Waiting
<1>2. CASE CloseClient(r)
  BY <1>2, EndedOrHybrid DEF CloseClient, Local, LegsFit, OutcomeFits, FailuresFit, Ended, Waiting
<1>3. CASE Leave(r)
  BY <1>3, EndedOrHybrid DEF Leave, Local, LegsFit, OutcomeFits, FailuresFit, Ended, Waiting
<1>4. CASE Forget(r)
  BY <1>4, SearchesAssumption DEF Forget, Local, LegsFit, OutcomeFits, FailuresFit, Ended, Waiting
<1> QED
  BY <1>1, <1>2, <1>3, <1>4

(* A leg that reaches its store, at its start or with its embedding.       *)
LEMMA QueryKeepsLocal ==
    ASSUME Types, NEW r \in Requests, Local(r), NEW l \in Legs, Query(r, l),
           leg[r][l] \in {"ready", "embedding"}, leg[r][l] = "embedding" => l = "dense",
           UNCHANGED <<pc, search, client, outcome>>
    PROVE  Local(r)'
<1> USE DEF Types, Legs
<1>1. PICK state \in {"provisioning", "querying", "failed"} :
        /\ leg' = [leg EXCEPT ![r][l] = state]
        /\ state = "provisioning" => /\ session[r] = "unbound"
                                     /\ session' = [session EXCEPT ![r] = "provisioning"]
        /\ state # "provisioning" => session' = session
        /\ state = "provisioning" => UsesPostgres(search[r], l)
        /\ (state = "querying" /\ ~ UsesPostgres(search[r], l)) => client[r]
        /\ (state = "querying" /\ UsesPostgres(search[r], l)) =>
              session[r] \notin {"unbound", "provisioning"}
        /\ state = "failed" =>
              \/ ~ search[r].supported
              \/ ~ UsesPostgres(search[r], l) /\ ~ client[r]
              \/ UsesPostgres(search[r], l) /\ session[r] = "provisioning"
  BY QueryTypes
<1>2. pc[r] # "idle"
  BY DEF Local, LegsFit
<1>3. leg'[r] = [leg[r] EXCEPT ![l] = state] /\ \A k \in Legs \ {l} : leg'[r][k] = leg[r][k]
  BY <1>1
<1>4. leg'[r][l] = state /\ (session'[r] = IF state = "provisioning" THEN "provisioning" ELSE session[r])
  BY <1>1
<1>5. LegsFit(r)'
  BY <1>2, <1>3, <1>4 DEF Local, LegsFit
<1>6. OutcomeFits(r)'
  BY <1>2, <1>3, <1>4 DEF Local, OutcomeFits, Raised
<1>7. session'[r] = "provisioning" <=> \E k \in Legs : leg'[r][k] = "provisioning"
  BY <1>1, <1>3, <1>4 DEF Local
<1>8. \E k \in Legs : leg'[r][k] # "provisioning"
  BY <1>1, <1>3, <1>4 DEF Local
<1>9. FailuresFit(r)'
  <2>1. leg'[r]["dense"] = "provisioning" => UsesPostgres(search[r], "dense")
    BY <1>1, <1>3, <1>4 DEF Local, FailuresFit
  <2>2. ASSUME NEW k \in Legs, leg'[r][k] = "querying", UsesPostgres(search[r], k)
        PROVE  session'[r] = "bound" \/ pc[r] = "answered"
    BY <1>1, <1>3, <1>4, <2>2 DEF Local, FailuresFit
  <2>3. ASSUME state = "failed"
        PROVE  \/ ~ search[r].supported
               \/ SharesSession(search[r])
               \/ \E k \in Legs \ {l} : leg[r][k] = "lost"
    <3>1. CASE ~ UsesPostgres(search[r], l) /\ ~ client[r]
      <4>1. \E k \in Legs : leg[r][k] \in Raised
        BY <1>2, <3>1 DEF Local, OutcomeFits
      <4>2. \E k \in Legs : leg[r][k] \in Raised /\ k # l
        BY <4>1 DEF Raised
      <4> QED
        BY <4>2 DEF Local, FailuresFit, Raised
    <3>2. CASE UsesPostgres(search[r], l) /\ session[r] = "provisioning"
      <4>1. \E k \in Legs \ {l} : leg[r][k] = "provisioning"
        BY <3>2 DEF Local
      <4>2. UsesPostgres(search[r], "dense")
        BY <3>2, <4>1 DEF Local, FailuresFit
      <4>3. LegsOf(search[r]) = Legs
        <5>1. \A k \in Legs : k \in LegsOf(search[r])
          BY <1>2, <4>1 DEF Local, LegsFit
        <5> QED
          BY <5>1 DEF LegsOf
      <4> QED
        BY <4>2, <4>3 DEF SharesSession
    <3> QED
      BY <1>1, <2>3, <3>1, <3>2
  <2>4. (\E k \in Legs : leg'[r][k] = "failed") =>
            \/ ~ search[r].supported
            \/ SharesSession(search[r])
            \/ \E k \in Legs : leg'[r][k] = "lost"
    BY <1>3, <1>4, <2>3 DEF Local, FailuresFit
  <2> QED
    BY <2>1, <2>2, <2>4 DEF FailuresFit
<1>10. (pc'[r] = "answered" /\ (~ Ended(r)' \/ session'[r] # "unbound")) =>
          outcome'[r] = "raised" /\ LegsOf(search'[r]) = Legs
  <2>1. ~ Ended(r)
    BY DEF Ended, Waiting
  <2> QED
    BY <2>1 DEF Local
<1>11. (leg'[r]["dense"] = "querying" /\ ~ UsesPostgres(search'[r], "dense") /\ ~ client'[r]) =>
          outcome'[r] = "raised" /\ leg'[r]["lexical"] \in Raised
  BY <1>1, <1>3, <1>4 DEF Local, Raised
<1> QED
  BY <1>5, <1>6, <1>7, <1>8, <1>9, <1>10, <1>11 DEF Local

LEMMA LegLocal ==
    ASSUME Types, NEW r \in Requests, Local(r), NEW l \in Legs,
           \/ StartLeg(r, l) \/ Embedded(r) \/ Provisioned(r, l)
           \/ \E state \in {"done", "failed"} : Answer(r, l, state)
           \/ Fail(r, l)
    PROVE  Local(r)'
<1> USE DEF Types, Legs, Raised
<1>1. CASE StartLeg(r, l)
  <2>1. CASE l = "dense" /\ EmbedSuspends
    BY <1>1, <2>1, EndedOrHybrid DEF StartLeg, Local, LegsFit, OutcomeFits, FailuresFit, Ended, Waiting
  <2>2. CASE Query(r, l)
    BY <1>1, <2>2, QueryKeepsLocal DEF StartLeg
  <2> QED
    BY <1>1, <2>1, <2>2 DEF StartLeg
<1>2. CASE Embedded(r)
  BY <1>2, QueryKeepsLocal DEF Embedded
<1>3. CASE Provisioned(r, l)
  BY <1>3, EndedOrHybrid DEF Provisioned, Local, LegsFit, OutcomeFits, FailuresFit, Ended, Waiting
<1>4. CASE \E state \in {"done", "failed"} : Answer(r, l, state)
  BY <1>4, EndedOrHybrid DEF Answer, Local, LegsFit, OutcomeFits, FailuresFit, Ended, Waiting
<1>5. CASE Fail(r, l)
  BY <1>5, EndedOrHybrid DEF Fail, Local, LegsFit, OutcomeFits, FailuresFit, Ended, Waiting
<1> QED
  BY <1>1, <1>2, <1>3, <1>4, <1>5

(* The inductive invariant of a search.                                    *)
THEOREM SearchInvariant == Spec => []Inv
<1>1. ASSUME Inv, [Next]_vars
      PROVE  Inv'
  <2>0. Types /\ \A q \in Requests : Local(q)
    BY <1>1, InvIsLocal
  <2>1. CASE Next
    <3>1. PICK r \in Requests :
            \/ \E s \in Searches : Receive(r, s)
            \/ Step(r)
            \/ \E l \in Legs : Fail(r, l)
      BY <2>1 DEF Next
    <3>2. Types' /\ \A q \in Requests \ {r} : Local(q)'
      BY <2>0, <3>1, StepIsLocal, OthersUntouched
    <3>3. Local(r)'
      BY <2>0, <3>1, ReceiveLocal, HandlerLocal, LegLocal DEF Step, Legs
    <3> QED
      BY <3>2, <3>3, InvIsLocalNext
  <2>2. CASE UNCHANGED vars
    BY <2>0, <2>2, OthersUntouched, InvIsLocalNext DEF vars, Types
  <2> QED
    BY <1>1, <2>1, <2>2
<1> QED
  BY <1>1, InitInv, PTL DEF Spec

(* Every variable has its type; a session provisions for one task.         *)
THEOREM Typed == Spec => []TypeOK
<1>1. Inv => TypeOK
  BY DEF Inv
<1> QED
  BY <1>1, SearchInvariant, PTL

(* Tasks and connections outlive their request only after an exception in  *)
(* one leg of two.                                                         *)
THEOREM CleanUnlessHybridRaised == Spec => []NothingLeftBehind
<1>1. Inv => NothingLeftBehind
  BY DEF Inv
<1> QED
  BY <1>1, SearchInvariant, PTL

(* No handler closes its Qdrant client under a search it still waits for.  *)
THEOREM ClientOpenLongEnough == Spec => []ClientOutlivesSearch
<1>1. Inv => ClientOutlivesSearch
  BY DEF Inv
<1> QED
  BY <1>1, SearchInvariant, PTL

(* Without a failed call and with supported filters, only a search whose   *)
(* two legs share a session raises.                                        *)
THEOREM OnlySharedSessionsRaise == Spec => []RaisesOnlyOnSharedSession
<1>1. Inv => RaisesOnlyOnSharedSession
  <2> SUFFICES ASSUME Inv, NEW r \in Requests, outcome[r] = "raised", search[r].supported,
                      \A l \in Legs : leg[r][l] # "lost"
               PROVE  \/ search[r].strategy = "hybrid_pgvector"
                      \/ /\ search[r].strategy = "adaptive"
                         /\ search[r].dense_backend = "pgvector"
                         /\ Route(search[r]) = "hybrid"
    BY DEF RaisesOnlyOnSharedSession
  <2>1. search[r] \in SearchType
    BY SearchesAssumption DEF Inv, TypeOK, OutcomeFits
  <2>2. SharesSession(search[r])
    BY DEF Inv, OutcomeFits, FailuresFit, Raised
  <2>3. Shape(search[r]) = "hybrid" /\ Backend(search[r]) = "pgvector"
    <3>1. Shape(search[r]) \in {"lexical", "dense", "hybrid"}
      BY DEF Shape, Route
    <3> QED
      BY <2>2, <3>1 DEF SharesSession, LegsOf, UsesPostgres, Legs
  <2>4. search[r].strategy \in Strategies /\ search[r].dense_backend \in {"pgvector", "qdrant"}
    BY <2>1 DEF SearchType
  <2> QED
    BY <2>3, <2>4 DEF Shape, Backend, Strategies
<1> QED
  BY <1>1, SearchInvariant, PTL

=============================================================================
