-------------------------- MODULE MCRequestMetrics --------------------------
(* Small instances of RequestMetrics for TLC.                              *)
EXTENDS RequestMetrics, TLC

CONSTANTS r1, r2, r3

MCSymmetry == Permutations(Requests)

(* POST /search, DELETE of a document, a path nobody declared.             *)
MCUrls == {"search", "documents/1", "other"}
MCTemplates == {"search", "documents/{id}"}
MCRouteOf == [u \in MCUrls |->
    CASE u = "search" -> "search" [] u = "documents/1" -> "documents/{id}" [] OTHER -> NoRoute]

=============================================================================
