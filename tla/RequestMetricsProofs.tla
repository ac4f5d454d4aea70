------------------------ MODULE RequestMetricsProofs ------------------------
(* The gauge is exact and no ended request is lost, for any number of      *)
(* concurrent requests, urls and templates.                                *)
EXTENDS RequestMetrics, FiniteSetTheorems, TLAPS

LEMMA PathsAreUrls == Urls \subseteq Paths
BY DEF Paths

LEMMA InFlightFinite ==
    ASSUME NEW p
    PROVE  IsFiniteSet(InFlight(p)) /\ Cardinality(InFlight(p)) \in Nat
<1>1. IsFiniteSet(InFlight(p))
  BY UrlsAssumption, FS_Subset DEF InFlight
<1> QED
  BY <1>1, FS_CardinalityType

LEMMA InitInv == Init => Inv
<1> SUFFICES ASSUME Init PROVE Inv
  OBVIOUS
<1>1. TypeOK
  BY UrlsAssumption DEF Init, TypeOK, Zero
<1>2. Labelled
  BY DEF Init, Labelled
<1>3. GaugeIsInFlight
  <2>1. \A p \in Paths : InFlight(p) = {}
    BY DEF Init, InFlight
  <2> QED
    BY <2>1, FS_EmptySet DEF Init, Zero, GaugeIsInFlight
<1>4. EndedAreCounted
  BY DEF Init, Zero, EndedAreCounted, Responses, Statuses
<1> QED
  BY <1>1, <1>2, <1>3, <1>4 DEF Inv

(* A request that arrives is counted by the gauge of its label only.       *)
LEMMA EnterInv ==
    ASSUME Inv, NEW r \in Requests, NEW u \in Urls, Enter(r, u)
    PROVE  Inv'
<1>1. /\ path' = [path EXCEPT ![r] = u] /\ active' = [active EXCEPT ![u] = @ + 1]
      /\ u \in Paths /\ pc[r] = "idle" /\ pc' = [pc EXCEPT ![r] = "entered"]
  BY PathsAreUrls DEF Enter, RouteTemplate
<1>2. TypeOK'
  BY <1>1, UrlsAssumption DEF Enter, Inv, TypeOK, retrievalVars
<1>3. Labelled'
  BY <1>1 DEF Enter, Inv, TypeOK, Labelled
<1>4. GaugeIsInFlight'
  <2> SUFFICES ASSUME NEW p \in Paths
               PROVE  active'[p] = Cardinality(InFlight(p)')
    BY DEF GaugeIsInFlight
  <2>1. CASE p = u
    <3>1. InFlight(p)' = InFlight(p) \union {r} /\ r \notin InFlight(p)
      BY <1>1, <2>1 DEF InFlight, Inv, TypeOK
    <3>2. Cardinality(InFlight(p)') = Cardinality(InFlight(p)) + 1
      BY <3>1, InFlightFinite, FS_AddElement
    <3> QED
      BY <1>1, <2>1, <3>2 DEF Inv, TypeOK, GaugeIsInFlight
  <2>2. CASE p # u
    <3>1. InFlight(p)' = InFlight(p)
      BY <1>1, <2>2 DEF InFlight, Inv, TypeOK
    <3> QED
      BY <1>1, <2>2, <3>1 DEF Inv, TypeOK, GaugeIsInFlight
  <2> QED
    BY <2>1, <2>2
<1>5. EndedAreCounted'
  BY DEF Enter, Inv, EndedAreCounted, Responses
<1> QED
  BY <1>2, <1>3, <1>4, <1>5 DEF Inv

(* While a request is in flight, the gauges do not change.                 *)
LEMMA InFlightInv ==
    ASSUME Inv, NEW r \in Requests, NEW found \in {0, 1}, Dispatch(r) \/ ObserveRetrieval(r, found)
    PROVE  Inv'
<1>1. /\ UNCHANGED <<url, path, arrived, active, latency, count, errors>>
      /\ pc[r] # "idle"
      /\ \E state \in {"handling", "observed"} :
            /\ pc' = [pc EXCEPT ![r] = state]
            /\ state = "observed" => url[r] = SearchUrl
  BY DEF Dispatch, ObserveRetrieval
<1>2. TypeOK'
  <2>1. CASE Dispatch(r)
    <3>1. route' \in [Requests -> Templates \union {NoRoute}]
      BY <2>1, UrlsAssumption DEF Dispatch, Inv, TypeOK, Labelled
    <3> QED
      BY <2>1, <3>1 DEF Dispatch, Inv, TypeOK, retrievalVars
  <2>2. CASE ObserveRetrieval(r, found)
    BY <2>2 DEF ObserveRetrieval, Inv, TypeOK
  <2> QED
    BY <2>1, <2>2
<1>3. Labelled'
  BY <1>1 DEF Inv, TypeOK, Labelled
<1>4. GaugeIsInFlight'
  <2>1. \A p \in Paths : InFlight(p)' = InFlight(p)
    BY <1>1 DEF InFlight, Inv, TypeOK
  <2> QED
    BY <1>1, <2>1 DEF Inv, GaugeIsInFlight
<1>5. EndedAreCounted'
  BY <1>1 DEF Inv, EndedAreCounted, Responses
<1> QED
  BY <1>2, <1>3, <1>4, <1>5 DEF Inv

(* A request that ends leaves the gauge it is counted by, and no other.    *)
LEMMA LeaveGauge ==
    ASSUME Inv, NEW r \in Requests, pc[r] # "idle", Leave(r)
    PROVE  /\ active' \in [Paths -> Nat]
           /\ GaugeIsInFlight'
<1>0. PICK u \in Paths : u = path[r]
  BY PathsAreUrls DEF Inv, Labelled
<1>1. /\ active' = [active EXCEPT ![u] = @ - 1]
      /\ pc' = [pc EXCEPT ![r] = "idle"] /\ path' = [path EXCEPT ![r] = NoUrl]
  BY <1>0 DEF Leave, Forget
<1>2. r \in InFlight(u) /\ InFlight(u)' = InFlight(u) \ {r}
  BY <1>0, <1>1 DEF InFlight, Inv, TypeOK
<1>3. Cardinality(InFlight(u)') = Cardinality(InFlight(u)) - 1
  BY <1>2, InFlightFinite, FS_RemoveElement
<1>4. Cardinality(InFlight(u)') \in Nat
  <2>1. IsFiniteSet(InFlight(u)')
    BY <1>2, InFlightFinite, FS_Subset
  <2> QED
    BY <2>1, FS_CardinalityType
<1>5. \A p \in Paths : p # u => InFlight(p)' = InFlight(p)
  BY <1>0, <1>1 DEF InFlight, Inv, TypeOK
<1>6. active[u] = Cardinality(InFlight(u))
  BY <1>1 DEF Inv, GaugeIsInFlight
<1>7. active'[u] = Cardinality(InFlight(u)')
  BY <1>1, <1>3, <1>6 DEF Inv, TypeOK
<1>8. active' \in [Paths -> Nat]
  BY <1>1, <1>4, <1>7 DEF Inv, TypeOK
<1>9. GaugeIsInFlight'
  <2> SUFFICES ASSUME NEW p \in Paths
               PROVE  active'[p] = Cardinality(InFlight(p)')
    BY DEF GaugeIsInFlight
  <2>1. CASE p = u
    BY <2>1, <1>7
  <2>2. CASE p # u
    BY <2>2, <1>1, <1>5 DEF Inv, TypeOK, GaugeIsInFlight
  <2> QED
    BY <2>1, <2>2
<1> QED
  BY <1>8, <1>9

LEMMA LeaveInv ==
    ASSUME Inv, NEW r \in Requests, NEW status \in Statuses, Respond(r, status) \/ Raise(r)
    PROVE  Inv'
<1>1. pc[r] # "idle" /\ Leave(r)
  BY DEF Respond, Raise, MayAnswer
<1>2. PICK u \in Paths : u = path[r]
  BY <1>1, PathsAreUrls DEF Inv, Labelled
<1>3. latency' = [latency EXCEPT ![u] = @ + 1]
  BY <1>1, <1>2 DEF Leave
<1>4. /\ active' \in [Paths -> Nat]
      /\ GaugeIsInFlight'
  BY <1>1, LeaveGauge
<1>5. count' \in [Paths -> [Statuses -> Nat]] /\ errors' \in [Paths -> Nat]
  <2>1. CASE Raise(r)
    BY <2>1, <1>2 DEF Raise, Inv, TypeOK
  <2>2. CASE Respond(r, status)
    <3>1. errors' \in [Paths -> Nat]
      BY <2>2, <1>2 DEF Respond, Inv, TypeOK
    <3>2. /\ count[u] \in [Statuses -> Nat]
          /\ count' = [count EXCEPT ![u] = [count[u] EXCEPT ![status] = count[u][status] + 1]]
      BY <2>2, <1>2 DEF Respond, Inv, TypeOK
    <3>3. [count[u] EXCEPT ![status] = count[u][status] + 1] \in [Statuses -> Nat]
      BY <3>2
    <3> QED
      BY <3>1, <3>2, <3>3, <1>2 DEF Inv, TypeOK
  <2> QED
    BY <2>1, <2>2
<1>6. TypeOK'
  BY <1>1, <1>2, <1>3, <1>4, <1>5 DEF Leave, Forget, Inv, TypeOK, retrievalVars
<1>7. Labelled'
  BY <1>1 DEF Leave, Forget, Inv, TypeOK, Labelled
<1>8. EndedAreCounted'
  <2> SUFFICES ASSUME NEW p \in Paths
               PROVE  latency'[p] = Responses(p)' + (errors'[p] - count'[p]["5xx"])
    BY DEF EndedAreCounted
  <2>1. latency[p] = Responses(p) + (errors[p] - count[p]["5xx"])
    BY DEF Inv, EndedAreCounted
  <2>2. /\ latency[p] \in Nat /\ errors[p] \in Nat /\ count[p]["2xx"] \in Nat
        /\ count[p]["4xx"] \in Nat /\ count[p]["5xx"] \in Nat
    BY DEF Inv, TypeOK, Statuses
  <2>3. CASE p # u
    <3>1. latency'[p] = latency[p] /\ errors'[p] = errors[p] /\ count'[p] = count[p]
      BY <2>3, <1>2, <1>3 DEF Respond, Raise, Inv, TypeOK
    <3> QED
      BY <3>1, <2>1 DEF Responses
  <2>4. CASE p = u /\ Raise(r)
    <3>1. latency'[p] = latency[p] + 1 /\ errors'[p] = errors[p] + 1 /\ count' = count
      BY <2>4, <1>2, <1>3 DEF Raise, Inv, TypeOK
    <3> QED
      BY <3>1, <2>1, <2>2 DEF Responses
  <2>5. CASE p = u /\ Respond(r, status)
    <3>1. latency'[p] = latency[p] + 1
      BY <2>5, <1>2, <1>3 DEF Inv, TypeOK
    <3>2. errors'[p] = IF status = "5xx" THEN errors[p] + 1 ELSE errors[p]
      BY <2>5, <1>2 DEF Respond, Inv, TypeOK
    <3>3. \A s \in Statuses :
            count'[p][s] = IF s = status THEN count[p][s] + 1 ELSE count[p][s]
      BY <2>5, <1>2 DEF Respond, Inv, TypeOK
    <3> QED
      BY <3>1, <3>2, <3>3, <2>1, <2>2 DEF Responses, Statuses
  <2> QED
    BY <2>3, <2>4, <2>5
<1> QED
  BY <1>4, <1>6, <1>7, <1>8 DEF Inv

LEMMA StutterInv ==
    ASSUME Inv, UNCHANGED vars
    PROVE  Inv'
BY DEF vars, requestVars, retrievalVars, Inv, TypeOK, Labelled, GaugeIsInFlight, InFlight,
       EndedAreCounted, Responses

(* The middleware's books balance, whatever the requests.                  *)
THEOREM BooksBalance == Spec => []Inv
<1>1. ASSUME Inv, [Next]_vars
      PROVE  Inv'
  <2>1. CASE Next
    <3> PICK r \in Requests :
           \/ \E u \in Urls : Enter(r, u)
           \/ Dispatch(r)
           \/ \E found \in {0, 1} : ObserveRetrieval(r, found)
           \/ \E status \in Statuses : Respond(r, status)
           \/ Raise(r)
      BY <2>1 DEF Next
    <3>1. CASE \E u \in Urls : Enter(r, u)
      BY <1>1, <3>1, EnterInv
    <3>2. CASE Dispatch(r) \/ \E found \in {0, 1} : ObserveRetrieval(r, found)
      BY <1>1, <3>2, InFlightInv
    <3>3. CASE Raise(r) \/ \E status \in Statuses : Respond(r, status)
      BY <1>1, <3>3, LeaveInv DEF Statuses
    <3> QED
      BY <3>1, <3>2, <3>3
  <2>2. CASE UNCHANGED vars
    BY <1>1, <2>2, StutterInv
  <2> QED
    BY <1>1, <2>1, <2>2
<1> QED
  BY <1>1, InitInv, PTL DEF Spec

(* Every variable has its type, and no gauge goes below zero.              *)
THEOREM Typed == Spec => []TypeOK
<1>1. Inv => TypeOK
  BY DEF Inv
<1> QED
  BY <1>1, BooksBalance, PTL

(* ACTIVE_REQUESTS is the number of requests in flight, for every label.   *)
THEOREM GaugeExact == Spec => []GaugeIsInFlight
<1>1. Inv => GaugeIsInFlight
  BY DEF Inv
<1> QED
  BY <1>1, BooksBalance, PTL

(* Every request that ended is in REQUEST_COUNT or, if it raised, only in  *)
(* REQUEST_ERRORS: the latency count is the sum of both.                   *)
THEOREM EndedCounted == Spec => []EndedAreCounted
<1>1. Inv => EndedAreCounted
  BY DEF Inv
<1> QED
  BY <1>1, BooksBalance, PTL

-----------------------------------------------------------------------------
(* The retrieval counters.                                                 *)

ObservedSet == {r \in Requests : pc[r] = "observed"}

LEMMA ObservedFinite == IsFiniteSet(ObservedSet) /\ Observed \in Nat
<1>1. IsFiniteSet(ObservedSet)
  BY UrlsAssumption, FS_Subset DEF ObservedSet
<1> QED
  BY <1>1, FS_CardinalityType DEF Observed, ObservedSet

LEMMA CountersType ==
    ASSUME Inv
    PROVE  searches \in Nat /\ errors[SearchUrl] \in Nat /\ count[SearchUrl]["2xx"] \in Nat
BY UrlsAssumption, PathsAreUrls DEF Inv, TypeOK, Statuses

(* A search that is observed is counted at once.                           *)
LEMMA ObserveCounts ==
    ASSUME SearchInv, NEW r \in Requests, NEW found, ObserveRetrieval(r, found)
    PROVE  SearchesObserved'
<1>1. /\ pc[r] = "handling" /\ pc' = [pc EXCEPT ![r] = "observed"] /\ searches' = searches + 1
      /\ UNCHANGED <<count, errors>>
  BY DEF ObserveRetrieval
<1>2. ObservedSet' = ObservedSet \union {r} /\ r \notin ObservedSet
  BY <1>1 DEF ObservedSet, SearchInv, Inv, TypeOK
<1>3. Observed' = Observed + 1
  BY <1>2, ObservedFinite, FS_AddElement DEF Observed, ObservedSet
<1> QED
  BY <1>1, <1>3, ObservedFinite, CountersType DEF SearchInv, SearchesObserved

(* Before that, and for other urls, a step leaves the observed ones alone. *)
LEMMA NotObserved ==
    ASSUME SearchInv, NEW r \in Requests, NEW state, state # "observed",
           pc[r] # "observed", pc' = [pc EXCEPT ![r] = state], searches' = searches,
           count'[SearchUrl]["2xx"] = count[SearchUrl]["2xx"],
           errors'[SearchUrl] \in {errors[SearchUrl], errors[SearchUrl] + 1}
    PROVE  SearchesObserved'
<1>1. ObservedSet' = ObservedSet
  BY DEF ObservedSet, SearchInv, Inv, TypeOK
<1>2. Observed' = Observed
  BY <1>1 DEF Observed, ObservedSet
<1> QED
  BY <1>2, ObservedFinite, CountersType DEF SearchInv, SearchesObserved

(* A request that ends is answered or raises: it leaves the observed ones  *)
(* for the answered ones or for those that raised.                         *)
LEMMA EndCounts ==
    ASSUME SearchInv, NEW r \in Requests, NEW status \in Statuses, Respond(r, status) \/ Raise(r)
    PROVE  SearchesObserved'
<1>1. pc' = [pc EXCEPT ![r] = "idle"] /\ searches' = searches /\ pc[r] \in {"handling", "observed"}
  BY DEF Respond, Raise, MayAnswer, Leave, Forget, retrievalVars
<1>2. path[r] = url[r] /\ url[r] \in Paths /\ SearchUrl \in Paths
  BY <1>1, UrlsAssumption, PathsAreUrls DEF SearchInv, Inv, Labelled
<1>3. count \in [Paths -> [Statuses -> Nat]] /\ errors \in [Paths -> Nat]
  BY DEF SearchInv, Inv, TypeOK
<1>4. CASE pc[r] = "observed"
  <2>1. ObservedSet' = ObservedSet \ {r} /\ r \in ObservedSet
    BY <1>1, <1>4 DEF ObservedSet, SearchInv, Inv, TypeOK
  <2>2. Observed' = Observed - 1
    BY <2>1, ObservedFinite, FS_RemoveElement DEF Observed, ObservedSet
  <2>3. path[r] = SearchUrl
    BY <1>2, <1>4 DEF SearchInv, Inv, Labelled
  <2>4. CASE Raise(r)
    <3>1. count' = count /\ errors'[SearchUrl] = errors[SearchUrl] + 1
      BY <1>2, <1>3, <2>3, <2>4 DEF Raise
    <3> QED
      BY <1>1, <2>2, <3>1, ObservedFinite, CountersType DEF SearchInv, SearchesObserved
  <2>5. CASE Respond(r, status)
    <3>1. status = "2xx"
      BY <1>4, <2>5 DEF Respond, MayAnswer
    <3>2. count'[SearchUrl]["2xx"] = count[SearchUrl]["2xx"] + 1 /\ errors' = errors
      BY <1>2, <1>3, <2>3, <2>5, <3>1 DEF Respond, Statuses
    <3> QED
      BY <1>1, <2>2, <3>2, ObservedFinite, CountersType DEF SearchInv, SearchesObserved
  <2> QED
    BY <2>4, <2>5
<1>5. CASE pc[r] = "handling"
  <2>1. CASE Raise(r)
    <3>1. count' = count /\ errors' = [errors EXCEPT ![url[r]] = @ + 1]
      BY <1>2, <2>1 DEF Raise
    <3>2. errors'[SearchUrl] \in {errors[SearchUrl], errors[SearchUrl] + 1}
      BY <1>2, <1>3, <3>1
    <3> QED
      BY <1>1, <1>5, <3>1, <3>2, NotObserved
  <2>2. CASE Respond(r, status)
    <3>1. status # "5xx" /\ (status = "2xx" => url[r] # SearchUrl)
      BY <1>5, <2>2 DEF Respond, MayAnswer
    <3>2. errors' = errors /\ count' = [count EXCEPT ![url[r]][status] = @ + 1]
      BY <1>2, <2>2, <3>1 DEF Respond
    <3>3. count'[SearchUrl]["2xx"] = count[SearchUrl]["2xx"]
      BY <1>2, <1>3, <3>1, <3>2 DEF Statuses
    <3> QED
      BY <1>1, <1>5, <3>2, <3>3, NotObserved
  <2> QED
    BY <2>1, <2>2
<1> QED
  BY <1>1, <1>4, <1>5

(* RETRIEVAL_STRATEGY_COUNT counts every search that was answered, once,   *)
(* and beyond them only searches that raised after observe_retrieval.      *)
THEOREM SearchesCounted == Spec => []SearchesObserved
<1>1. Init => SearchInv
  <2> SUFFICES ASSUME Init PROVE SearchInv
    OBVIOUS
  <2>1. ObservedSet = {}
    BY DEF Init, ObservedSet
  <2>2. Observed = 0
    BY <2>1, FS_EmptySet DEF Observed, ObservedSet
  <2>3. SearchesObserved
    BY <2>2, UrlsAssumption, PathsAreUrls DEF Init, Zero, SearchesObserved, Statuses
  <2> QED
    BY <2>3, InitInv DEF SearchInv
<1>2. SearchInv /\ Inv' /\ [Next]_vars => SearchInv'
  <2> SUFFICES ASSUME SearchInv, Inv', [Next]_vars PROVE SearchesObserved'
    BY DEF SearchInv
  <2>1. ASSUME NEW r \in Requests, NEW u \in Urls, Enter(r, u) PROVE SearchesObserved'
    BY <2>1, NotObserved DEF Enter, retrievalVars
  <2>2. ASSUME NEW r \in Requests, Dispatch(r) PROVE SearchesObserved'
    BY <2>2, NotObserved DEF Dispatch, retrievalVars
  <2>3. CASE UNCHANGED vars
    BY <2>3 DEF vars, requestVars, retrievalVars, SearchInv, SearchesObserved, Observed
  <2> QED
    BY <2>1, <2>2, <2>3, ObserveCounts, EndCounts DEF Next, Statuses
<1>3. SearchInv => SearchesObserved
  BY DEF SearchInv
<1> QED
  BY <1>1, <1>2, <1>3, BooksBalance, PTL DEF Spec

=============================================================================
