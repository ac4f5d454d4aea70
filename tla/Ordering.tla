------------------------------ MODULE Ordering ------------------------------
(***************************************************************************)
(* Sorting, as Python's sorted() does it, for the modules that rank,       *)
(* summarize or list something.                                            *)
(***************************************************************************)
EXTENDS Integers, FiniteSets

(* <<x, y>> \in R: x comes before y.  Ties are broken by whoever gives R.  *)
StrictOrder(R, S) ==
    /\ \A x \in S : <<x, x>> \notin R
    /\ \A x, y \in S : x # y => <<x, y>> \in R \/ <<y, x>> \in R
    /\ \A x, y, z \in S : <<x, y>> \in R /\ <<y, z>> \in R => <<x, z>> \in R

Earlier(x, S, R) == {y \in S : <<y, x>> \in R}

(* The elements of S in the order of R: the n-th has n - 1 before it.      *)
OrderedBy(S, R) ==
    LET place == [x \in S |-> Cardinality(Earlier(x, S, R)) + 1]
    IN  [n \in 1 .. Cardinality(S) |-> CHOOSE x \in S : place[x] = n]

=============================================================================
