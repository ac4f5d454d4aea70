\* Three requests at a time, five in all.
SPECIFICATION Spec
CONSTANTS
    r1 = r1
    r2 = r2
    r3 = r3
    Requests = {r1, r2, r3}
    Urls <- MCUrls
    Templates <- MCTemplates
    NoUrl = NoUrl
    NoRoute = NoRoute
    RouteOf <- MCRouteOf
    SearchUrl = "search"
    MaxRequests = 5
SYMMETRY MCSymmetry
\* MaxRequests bounds how many requests arrive.
CHECK_DEADLOCK FALSE
INVARIANTS TypeOK GaugeIsInFlight EndedAreCounted SearchesObserved
