\* One request for a document.
SPECIFICATION Spec
CONSTANTS
    r1 = r1
    r2 = r2
    r3 = r3
    Requests = {r1}
    Urls <- MCUrls
    Templates <- MCTemplates
    NoUrl = NoUrl
    NoRoute = NoRoute
    RouteOf <- MCRouteOf
    SearchUrl = "search"
    MaxRequests = 1
SYMMETRY MCSymmetry
\* MaxRequests bounds how many requests arrive.
CHECK_DEADLOCK FALSE
INVARIANTS LabelsAreTemplates
