------------------------------- MODULE Fusion -------------------------------
(***************************************************************************)
(* Rank fusion (app/retrievers/hybrid.py): two result lists, one of the    *)
(* lexical and one of a dense retriever, become one answer of at most      *)
(* top_k results, by reciprocal rank fusion or by a weighted sum of        *)
(* min-max normalized scores.                                              *)
(*                                                                         *)
(* Scores are exact: fractions instead of floats.                          *)
(***************************************************************************)
EXTENDS Integers, SequencesExt, Ordering

CONSTANTS
    Chunks,                \* the ids of chunks
    RankConstant,          \* k of reciprocal_rank_fusion
    LexicalWeight,         \* the weights of weighted_score_fusion, as
    DenseWeight,           \*   parts of their sum
    CandidateMultiplier,   \* candidate_multiplier of HybridRetriever
    Methods,               \* a subset of {"rrf", "weighted"}
    Rankings,              \* what a retriever may find, without a limit
    TopKs                  \* the values of top_k

(* A retriever returns each chunk once, best score first.                  *)
ASSUME RankingsAssumption ==
    /\ Rankings \subseteq Seq([chunk : Chunks, score : Int])
    /\ \A list \in Rankings : \A i, j \in DOMAIN list : i < j =>
          list[i].chunk # list[j].chunk /\ list[i].score >= list[j].score

ASSUME ParametersAssumption ==
    /\ RankConstant \in Nat
    /\ LexicalWeight \in Nat \ {0} /\ DenseWeight \in Nat \ {0}
    /\ CandidateMultiplier \in Nat
    /\ TopKs \subseteq Nat \ {0}
    /\ Methods \subseteq {"rrf", "weighted"}

VARIABLES
    pc,       \* "searching", "fusing" or "answered"
    method,   \* fusion_method of the request
    top_k,
    finds,    \* what the two retrievers would find without a limit
    lexical,  \* the results of the lexical retriever
    dense,    \* the results of the dense retriever
    answer    \* the chunks of the answer, best first

vars == <<pc, method, top_k, finds, lexical, dense, answer>>

Fraction(num, den) == [num |-> num, den |-> den]
Less(x, y) == x.num * y.den < y.num * x.den
Plus(x, y) == Fraction(x.num * y.den + y.num * x.den, x.den * y.den)

Found(list) == {list[i].chunk : i \in DOMAIN list}
Rank(list, c) == CHOOSE i \in DOMAIN list : list[i].chunk = c
ScoreIn(list, c) == list[Rank(list, c)].score

(* Insertion order of by_chunk: the first list, then what the second adds. *)
Position(c) ==
    IF c \in Found(lexical) THEN Rank(lexical, c) ELSE Len(lexical) + Rank(dense, c)

Nothing == Fraction(0, 1)

(* 1 / (k + rank), if the list has the chunk.                              *)
Reciprocal(list, c) ==
    IF c \in Found(list) THEN Fraction(1, RankConstant + Rank(list, c)) ELSE Nothing

(* Mutant: the second list's share replaces the first's.                   *)
LastShare(c) ==
    IF c \in Found(dense) THEN Reciprocal(dense, c) ELSE Reciprocal(lexical, c)

RrfScore(c) == Plus(Reciprocal(lexical, c), Reciprocal(dense, c))

-----------------------------------------------------------------------------
(* min_max_normalize: Lifted over Spread.                                  *)

(* A list that has one score only counts as spread 1.                      *)
Spread(list) ==
    IF list = <<>> \/ Head(list).score = Last(list).score THEN 1
    ELSE Head(list).score - Last(list).score

(* Mutant: a chunk the list misses gets the best score of all.             *)
LiftedByDefault(list, c) ==
    CASE c \notin Found(list) -> Spread(list)
      [] c \in Found(list) /\ Head(list).score = Last(list).score -> 1
      [] OTHER -> ScoreIn(list, c) - Last(list).score

Lifted(list, c) ==
    CASE c \notin Found(list) -> 0
      [] c \in Found(list) /\ Head(list).score = Last(list).score -> 1
      [] OTHER -> ScoreIn(list, c) - Last(list).score

WeightedScore(c) ==
    Plus(Fraction(LexicalWeight * Lifted(lexical, c), Spread(lexical)),
         Fraction(DenseWeight * Lifted(dense, c), Spread(dense)))

Score(c) == IF method = "weighted" THEN WeightedScore(c) ELSE RrfScore(c)

(* sorted(..., reverse=True) is stable.                                    *)
Better(a, b) ==
    \/ Less(Score(b), Score(a))
    \/ ~ Less(Score(a), Score(b)) /\ Position(a) < Position(b)

Candidates == Found(lexical) \union Found(dense)
Ranking == {p \in Candidates \X Candidates : Better(p[1], p[2])}
Fused == OrderedBy(Candidates, Ranking)

-----------------------------------------------------------------------------

Init ==
    /\ pc = "searching"
    /\ method \in Methods
    /\ top_k \in TopKs
    /\ finds \in [lexical : Rankings, dense : Rankings]
    /\ lexical = <<>>
    /\ dense = <<>>
    /\ answer = <<>>

(* Mutant: each retriever is asked for half of the answer.                 *)
HalfOfTopK == (top_k + 1) \div 2

CandidateK ==
    IF CandidateMultiplier > 1 THEN top_k * CandidateMultiplier ELSE top_k

(* Mutant: one result too many.                                            *)
CutLate(list, n) == IF Len(list) <= n + 1 THEN list ELSE SubSeq(list, 1, n + 1)

Cut(list, n) == IF Len(list) <= n THEN list ELSE SubSeq(list, 1, n)

(* Both retrievers are asked for candidate_k results.                      *)
Retrieve ==
    /\ pc = "searching"
    /\ lexical' = Cut(finds.lexical, CandidateK)
    /\ dense' = Cut(finds.dense, CandidateK)
    /\ pc' = "fusing"
    /\ UNCHANGED <<method, top_k, finds, answer>>

Fuse ==
    /\ pc = "fusing"
    /\ answer' = Cut(Fused, top_k)
    /\ pc' = "answered"
    /\ UNCHANGED <<method, top_k, finds, lexical, dense>>

Next == Retrieve \/ Fuse

Spec == Init /\ [][Next]_vars

-----------------------------------------------------------------------------

(* Every variable has its type: the lists are beginnings of what can be    *)
(* found, no longer than asked for.                                        *)
TypeOK ==
    /\ pc \in {"searching", "fusing", "answered"}
    /\ method \in Methods
    /\ top_k \in TopKs
    /\ DOMAIN finds = {"lexical", "dense"}
    /\ IsPrefix(lexical, finds.lexical) /\ IsPrefix(dense, finds.dense)
    /\ Len(lexical) <= CandidateK /\ Len(dense) <= CandidateK
    /\ answer \in Seq(Candidates)

Answered(c) == c \in {answer[i] : i \in DOMAIN answer}
At(c) == CHOOSE i \in DOMAIN answer : answer[i] = c

(* a comes before b in the answer, or takes the place b does not get.      *)
AnsweredBefore(a, b) == Answered(b) => Answered(a) /\ At(a) < At(b)

(* Is a before b in every list that has b?                                 *)
AheadIn(list, a, b) ==
    b \in Found(list) => a \in Found(list) /\ Rank(list, a) < Rank(list, b)

(* A chunk that beats another in every list which has the other beats it   *)
(* in the answer, whatever the method, the scores, ties and the limits:    *)
(* so the answer of one retriever alone is never reordered when the other  *)
(* finds nothing, and unanimous retrievers are obeyed.                     *)
AgreedOrder ==
    pc = "answered" =>
        \A a, b \in Candidates :
            (a # b /\ AheadIn(lexical, a, b) /\ AheadIn(dense, a, b)) => AnsweredBefore(a, b)

(* The answer is as long as it can be: if the two retrievers between them  *)
(* can find top_k chunks, top_k distinct ones are answered, although each  *)
(* search is limited, one may find nothing, and they may find the same.    *)
AnswerFull ==
    pc = "answered" =>
        LET n == Cardinality(Found(finds.lexical) \union Found(finds.dense))
        IN  Cardinality({answer[i] : i \in DOMAIN answer}) = (IF n < top_k THEN n ELSE top_k)

(* Reciprocal rank fusion: as long as candidate_k is at most k + 1, every  *)
(* chunk both retrievers found comes before every chunk only one found     *)
(* ("rewards items appearing in multiple lists", test_fusion.py).  With    *)
(* k = 60 and a multiplier of 5 that covers every top_k up to 12.          *)
Both == Found(lexical) \intersect Found(dense)

AgreementWins ==
    (pc = "answered" /\ method = "rrf" /\ CandidateK <= RankConstant + 1) =>
        \A a \in Both, b \in Candidates \ Both : AnsweredBefore(a, b)

-----------------------------------------------------------------------------
(* What the lists and the answer are at each moment of a call: everything  *)
(* the properties above follow from.                                       *)

Inv ==
    /\ pc \in {"searching", "fusing", "answered"}
    /\ method \in Methods
    /\ top_k \in TopKs
    /\ finds \in [lexical : Rankings, dense : Rankings]
    /\ IF pc = "searching" THEN lexical = <<>> /\ dense = <<>>
       ELSE lexical = Cut(finds.lexical, CandidateK) /\ dense = Cut(finds.dense, CandidateK)
    /\ answer = IF pc = "answered" THEN Cut(Fused, top_k) ELSE <<>>

=============================================================================
