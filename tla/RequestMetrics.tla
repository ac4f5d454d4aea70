--------------------------- MODULE RequestMetrics ---------------------------
(***************************************************************************)
(* What /metrics says of the requests the API serves                       *)
(* (app/observability/metrics.py): prometheus_http_middleware around every *)
(* handler, and observe_retrieval at the end of the search handler.        *)
(* Requests run concurrently; a handler answers or raises.  A "url" stands *)
(* for a method and a concrete path.                                       *)
(***************************************************************************)
EXTENDS Integers, FiniteSets

CONSTANTS
    Requests,     \* slots for requests served at the same time
    Urls,         \* what clients ask for
    Templates,    \* the paths routes are declared with
    NoUrl,        \* the url and the label of a slot that is free
    NoRoute,      \* scope["route"] before the router ran, or without a match
    RouteOf,      \* the template the router finds for a url
    SearchUrl,    \* the url of the search handler
    MaxRequests   \* bound: how many requests arrive

ASSUME UrlsAssumption ==
    /\ NoRoute \notin Templates \union Urls
    /\ NoUrl \notin Templates \union Urls
    /\ RouteOf \in [Urls -> Templates \union {NoRoute}]
    /\ SearchUrl \in Urls /\ RouteOf[SearchUrl] # NoRoute
    /\ IsFiniteSet(Requests)
    /\ MaxRequests \in Nat

Paths == Templates \union Urls
Statuses == {"2xx", "4xx", "5xx"}

VARIABLES
    pc,        \* "idle", "entered", "handling" or "observed"
    url,       \* the url of the request
    route,     \* scope["route"]
    path,      \* the label the middleware chose
    arrived,   \* history: how many requests arrived
    active,    \* ACTIVE_REQUESTS
    latency,   \* the number of observations of REQUEST_LATENCY
    count,     \* REQUEST_COUNT, by status class
    errors,    \* REQUEST_ERRORS
    searches,  \* RETRIEVAL_STRATEGY_COUNT, over all strategies
    empty      \* RETRIEVAL_EMPTY_RESULT_COUNT, over all strategies

requestVars == <<pc, url, route, path>>
retrievalVars == <<searches, empty>>
vars == <<requestVars, arrived, active, latency, count, errors, retrievalVars>>

Zero == [p \in Paths |-> 0]

Init ==
    /\ pc = [r \in Requests |-> "idle"]
    /\ url = [r \in Requests |-> NoUrl]
    /\ route = [r \in Requests |-> NoRoute]
    /\ path = [r \in Requests |-> NoUrl]
    /\ arrived = 0
    /\ active = Zero
    /\ latency = Zero
    /\ count = [p \in Paths |-> [s \in Statuses |-> 0]]
    /\ errors = Zero
    /\ searches = 0
    /\ empty = 0

(* route_template: the router has not run when the middleware asks.        *)
RouteTemplate(scope_route, u) == IF scope_route = NoRoute THEN u ELSE scope_route

Enter(r, u) ==
    /\ pc[r] = "idle"
    /\ arrived < MaxRequests
    /\ arrived' = arrived + 1
    /\ LET p == RouteTemplate(NoRoute, u)
       IN  /\ path' = [path EXCEPT ![r] = p]
           /\ active' = [active EXCEPT ![p] = @ + 1]
    /\ url' = [url EXCEPT ![r] = u]
    /\ pc' = [pc EXCEPT ![r] = "entered"]
    /\ UNCHANGED <<route, latency, count, errors, retrievalVars>>

(* call_next: the router stores the route in the scope and calls its       *)
(* handler, if there is one.                                               *)
Dispatch(r) ==
    /\ pc[r] = "entered"
    /\ route' = [route EXCEPT ![r] = RouteOf[url[r]]]
    /\ pc' = [pc EXCEPT ![r] = "handling"]
    /\ UNCHANGED <<url, path, arrived, active, latency, count, errors, retrievalVars>>

(* Mutant: an empty result is not counted as an invocation.                *)
ObserveFound(r, found) ==
    /\ pc[r] = "handling"
    /\ url[r] = SearchUrl
    /\ searches' = searches + found
    /\ empty' = IF found = 0 THEN empty + 1 ELSE empty
    /\ pc' = [pc EXCEPT ![r] = "observed"]
    /\ UNCHANGED <<url, route, path, arrived, active, latency, count, errors>>

(* The search handler has its results: "found" of them.                    *)
ObserveRetrieval(r, found) ==
    /\ pc[r] = "handling"
    /\ url[r] = SearchUrl
    /\ searches' = searches + 1
    /\ empty' = IF found = 0 THEN empty + 1 ELSE empty
    /\ pc' = [pc EXCEPT ![r] = "observed"]
    /\ UNCHANGED <<url, route, path, arrived, active, latency, count, errors>>

(* The statuses a handler that has got that far may answer with: a search  *)
(* is answered 2xx only after it was observed, an unknown url never.       *)
MayAnswer(r, status) ==
    \/ pc[r] = "observed" /\ status = "2xx"
    \/ pc[r] = "handling" /\ status = "4xx"
    \/ pc[r] = "handling" /\ status = "2xx" /\ url[r] # SearchUrl /\ route[r] # NoRoute

Forget(r) ==
    /\ pc' = [pc EXCEPT ![r] = "idle"]
    /\ url' = [url EXCEPT ![r] = NoUrl]
    /\ route' = [route EXCEPT ![r] = NoRoute]
    /\ path' = [path EXCEPT ![r] = NoUrl]
    /\ UNCHANGED <<arrived, retrievalVars>>

(* Mutant: the labels are computed anew, when the router has run.          *)
LeaveByTemplate(r) ==
    LET p == RouteTemplate(route[r], url[r])
    IN  /\ active' = [active EXCEPT ![p] = @ - 1]
        /\ latency' = [latency EXCEPT ![p] = @ + 1]
        /\ Forget(r)

(* finally: the request is over.                                           *)
Leave(r) ==
    /\ active' = [active EXCEPT ![path[r]] = @ - 1]
    /\ latency' = [latency EXCEPT ![path[r]] = @ + 1]
    /\ Forget(r)

Respond(r, status) ==
    /\ MayAnswer(r, status)
    /\ Leave(r)
    /\ count' = [count EXCEPT ![path[r]][status] = @ + 1]
    /\ errors' = IF status = "5xx" THEN [errors EXCEPT ![path[r]] = @ + 1] ELSE errors

(* Mutant: the error is counted as a response of the server too.           *)
RaiseAndCount(r) ==
    /\ pc[r] \in {"handling", "observed"}
    /\ route[r] # NoRoute
    /\ Leave(r)
    /\ errors' = [errors EXCEPT ![path[r]] = @ + 1]
    /\ count' = [count EXCEPT ![path[r]]["4xx"] = @ + 1]

(* except Exception: the handler, or the response made from what it        *)
(* returned, raised.                                                       *)
Raise(r) ==
    /\ pc[r] \in {"handling", "observed"}
    /\ route[r] # NoRoute
    /\ Leave(r)
    /\ errors' = [errors EXCEPT ![path[r]] = @ + 1]
    /\ UNCHANGED count

Next == \E r \in Requests :
    \/ \E u \in Urls : Enter(r, u)
    \/ Dispatch(r)
    \/ \E found \in {0, 1} : ObserveRetrieval(r, found)
    \/ \E status \in Statuses : Respond(r, status)
    \/ Raise(r)

Spec == Init /\ [][Next]_vars

-----------------------------------------------------------------------------

(* Every variable has its type; no gauge or counter is ever negative.      *)
TypeOK ==
    /\ pc \in [Requests -> {"idle", "entered", "handling", "observed"}]
    /\ url \in [Requests -> Urls \union {NoUrl}]
    /\ route \in [Requests -> Templates \union {NoRoute}]
    /\ path \in [Requests -> Paths \union {NoUrl}]
    /\ arrived \in 0 .. MaxRequests
    /\ active \in [Paths -> Nat]
    /\ latency \in [Paths -> Nat]
    /\ count \in [Paths -> [Statuses -> Nat]]
    /\ errors \in [Paths -> Nat]
    /\ searches \in Nat
    /\ empty \in 0 .. searches

InFlight(p) == {r \in Requests : pc[r] # "idle" /\ path[r] = p}

(* The gauge of active requests is exact for every label, however requests *)
(* overlap and end: what a request adds it takes away from the same label. *)
GaugeIsInFlight == \A p \in Paths : active[p] = Cardinality(InFlight(p))

Responses(p) == count[p]["2xx"] + count[p]["4xx"] + count[p]["5xx"]

(* Every request that ended is a response that was counted or an error     *)
(* that was not: the error rate is errors / latency count, while errors /  *)
(* request count has the failures in its numerator only.                   *)
EndedAreCounted ==
    \A p \in Paths : latency[p] = Responses(p) + (errors[p] - count[p]["5xx"])

(* Every search that is answered was observed, once: the invocation count  *)
(* covers the searches that got an answer and those about to, and beyond   *)
(* them at most the searches that raised.                                  *)
Observed == Cardinality({r \in Requests : pc[r] = "observed"})

SearchesObserved ==
    LET answered == count[SearchUrl]["2xx"] + Observed
    IN  searches \in answered .. answered + errors[SearchUrl]

(* What makes these invariants inductive: a request in flight has a label, *)
(* and one whose search was observed has asked for one.                    *)
Labelled ==
    \A r \in Requests : pc[r] # "idle" =>
        /\ url[r] \in Urls /\ path[r] = url[r]
        /\ pc[r] = "observed" => url[r] = SearchUrl

Inv == TypeOK /\ Labelled /\ GaugeIsInFlight /\ EndedAreCounted

SearchInv == Inv /\ SearchesObserved

(* README.md:150: "Labels intentionally avoid query text, document IDs,    *)
(* chunk IDs, and other high-cardinality values."  A url that a template   *)
(* with parameters matches is never a label.                               *)
LabelsAreTemplates ==
    \A u \in Urls : RouteOf[u] \notin {u, NoRoute} => active[u] = 0 /\ latency[u] = 0

=============================================================================
