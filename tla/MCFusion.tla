------------------------------ MODULE MCFusion ------------------------------
(* All pairs of short result lists, and of longer ones with falling scores.*)
EXTENDS Fusion, TLC

CONSTANTS Spare, MaxLength, MaxScore

Common == Chunks \ {Spare}

(* The code compares chunk ids for equality only.                          *)
MCSymmetry == Permutations(Common)

Arrangements(n, cs) == {f \in [1 .. n -> cs] : IsInjective(f)}

(* The lists of n distinct chunks whose scores do not increase.            *)
ListsOf(n) ==
    { [i \in 1 .. n |-> [chunk |-> cs[i], score |-> ss[i]]] :
        cs \in Arrangements(n, Common),
        ss \in {f \in [1 .. n -> 1 .. MaxScore] : \A i, j \in 1 .. n : i < j => f[i] >= f[j]} }

(* One longer than the short ones, over one chunk more: so the chunk both  *)
(* have last meets one that is first in one of them and not in the other.  *)
LongLists ==
    { [i \in 1 .. MaxLength + 1 |-> [chunk |-> cs[i], score |-> MaxLength + 2 - i]] :
        cs \in Arrangements(MaxLength + 1, Chunks) }

MCRankings == UNION { ListsOf(n) : n \in 0 .. MaxLength } \union LongLists

=============================================================================
