---------------------------- MODULE FusionProofs ----------------------------
(***************************************************************************)
(* What fusion promises, for all rankings, scores, weights and limits.     *)
(***************************************************************************)
EXTENDS Fusion, DataProofs

(* What a retriever returns: each chunk once, best score first.            *)
Listed(list) ==
    /\ list \in Seq([chunk : Chunks, score : Int])
    /\ \A i, j \in 1 .. Len(list) : i < j =>
          list[i].chunk # list[j].chunk /\ list[i].score >= list[j].score

Fractions == [num : Nat, den : Nat \ {0}]

-----------------------------------------------------------------------------
(* Fractions.                                                              *)

LEMMA Transitive ==
    ASSUME NEW a \in Int, NEW b \in Int, NEW c \in Int,
           NEW p \in Nat \ {0}, NEW q \in Nat \ {0}, NEW r \in Nat \ {0},
           a * q <= b * p, b * r <= c * q
    PROVE  /\ a * r <= c * p
           /\ (a * q < b * p \/ b * r < c * q) => a * r < c * p
<1>1. (a * q) * r <= (b * p) * r /\ (b * r) * p <= (c * q) * p
  BY Z3
<1>2. (a * q < b * p => (a * q) * r < (b * p) * r) /\ (b * r < c * q => (b * r) * p < (c * q) * p)
  BY Z3
<1>3. (a * q) * r = q * (a * r) /\ (b * p) * r = (b * r) * p /\ (c * q) * p = q * (c * p)
  BY Z3
<1>4. q * (a * r) <= q * (c * p) /\ ((a * q < b * p \/ b * r < c * q) => q * (a * r) < q * (c * p))
  BY <1>1, <1>2, <1>3
<1>5. ASSUME NEW x \in Int, NEW y \in Int
      PROVE  (q * x <= q * y => x <= y) /\ (q * x < q * y => x < y)
  BY Z3
<1>6. a * r \in Int /\ c * p \in Int
  OBVIOUS
<1> QED
  BY <1>4, <1>5, <1>6

(* Fractions are compared as numbers are.                                  *)
LEMMA LessIsAnOrder ==
    ASSUME NEW x \in Fractions, NEW y \in Fractions, NEW z \in Fractions,
           ~ Less(y, x), ~ Less(z, y)
    PROVE  /\ ~ Less(z, x)
           /\ Less(x, y) \/ Less(y, z) => Less(x, z)
<1>1. /\ x.num \in Int /\ y.num \in Int /\ z.num \in Int
      /\ x.den \in Nat \ {0} /\ y.den \in Nat \ {0} /\ z.den \in Nat \ {0}
  BY DEF Fractions
<1>2. x.num * y.den <= y.num * x.den /\ y.num * z.den <= z.num * y.den
  BY <1>1 DEF Less
<1>3. /\ x.num * z.den <= z.num * x.den
      /\ (x.num * y.den < y.num * x.den \/ y.num * z.den < z.num * y.den)
            => x.num * z.den < z.num * x.den
  BY <1>1, <1>2, Transitive
<1> QED
  BY <1>1, <1>3 DEF Less

LEMMA PlusType ==
    ASSUME NEW x \in Fractions, NEW y \in Fractions
    PROVE  Plus(x, y) \in Fractions
<1>1. x.num \in Nat /\ y.num \in Nat /\ x.den \in Nat \ {0} /\ y.den \in Nat \ {0}
  BY DEF Fractions
<1>2. ASSUME NEW m \in Nat, NEW n \in Nat PROVE m * n \in Nat /\ (m > 0 /\ n > 0 => m * n > 0)
  BY Z3
<1>3. x.num * y.den \in Nat /\ y.num * x.den \in Nat /\ x.den * y.den \in Nat \ {0}
  BY <1>1, <1>2
<1> QED
  BY <1>3 DEF Plus, Fraction, Fractions

(* Sums of greater fractions are greater.                                  *)
LEMMA PlusMonotone ==
    ASSUME NEW x \in Fractions, NEW y \in Fractions, NEW u \in Fractions, NEW v \in Fractions,
           ~ Less(x, u), ~ Less(y, v)
    PROVE  ~ Less(Plus(x, y), Plus(u, v))
<1>1. /\ x.num \in Nat /\ y.num \in Nat /\ x.den \in Nat \ {0} /\ y.den \in Nat \ {0}
      /\ u.num \in Nat /\ v.num \in Nat /\ u.den \in Nat \ {0} /\ v.den \in Nat \ {0}
  BY DEF Fractions
<1>2. ASSUME NEW a \in Nat, NEW b \in Nat, NEW c \in Nat, NEW d \in Nat,
             NEW p \in Nat \ {0}, NEW q \in Nat \ {0}, NEW r \in Nat \ {0}, NEW s \in Nat \ {0},
             a * r >= c * p, b * s >= d * q
      PROVE  (a * q + b * p) * (r * s) >= (c * s + d * r) * (p * q)
  <2>1. (a * r) * (q * s) >= (c * p) * (q * s) /\ (b * s) * (p * r) >= (d * q) * (p * r)
    <3>1. ASSUME NEW m \in Int, NEW n \in Int, NEW k \in Nat, m >= n PROVE m * k >= n * k
      BY <3>1, Z3
    <3>2. a * r \in Int /\ c * p \in Int /\ b * s \in Int /\ d * q \in Int /\ q * s \in Nat /\ p * r \in Nat
      BY Z3
    <3> QED
      BY <1>2, <3>1, <3>2
  <2>2. (a * q + b * p) * (r * s) = (a * r) * (q * s) + (b * s) * (p * r)
    BY Z3
  <2>3. (c * s + d * r) * (p * q) = (c * p) * (q * s) + (d * q) * (p * r)
    BY Z3
  <2> QED
    BY <2>1, <2>2, <2>3, Z3
<1>3. x.num * u.den >= u.num * x.den /\ y.num * v.den >= v.num * y.den
  BY <1>1 DEF Less
<1>4. (x.num * y.den + y.num * x.den) * (u.den * v.den) >= (u.num * v.den + v.num * u.den) * (x.den * y.den)
  BY <1>1, <1>2, <1>3
<1>5. /\ (x.num * y.den + y.num * x.den) * (u.den * v.den) \in Int
      /\ (u.num * v.den + v.num * u.den) * (x.den * y.den) \in Int
  BY <1>1
<1> QED
  BY <1>4, <1>5 DEF Less, Plus, Fraction

-----------------------------------------------------------------------------
(* Lists.                                                                  *)

(* A limit keeps the beginning of a list.                                  *)
LEMMA CutKeeps ==
    ASSUME NEW T, NEW list \in Seq(T), NEW n \in Nat
    PROVE  /\ Cut(list, n) \in Seq(T)
           /\ Len(Cut(list, n)) = (IF Len(list) <= n THEN Len(list) ELSE n)
           /\ \A i \in 1 .. Len(Cut(list, n)) : Cut(list, n)[i] = list[i]
           /\ IsPrefix(Cut(list, n), list)
<1>1. CASE Len(list) <= n
  <2>1. Cut(list, n) = list
    BY <1>1 DEF Cut
  <2> QED
    BY <1>1, <2>1 DEF IsPrefix
<1>2. CASE ~ (Len(list) <= n)
  <2>1. Cut(list, n) = SubSeq(list, 1, n)
    BY <1>2 DEF Cut
  <2>2. Len(list) \in Nat /\ n < Len(list)
    BY <1>2
  <2>3. /\ SubSeq(list, 1, n) \in Seq(T) /\ Len(SubSeq(list, 1, n)) = n
        /\ \A i \in 1 .. n : SubSeq(list, 1, n)[i] = list[i]
    BY <2>2
  <2>4. SubSeq(SubSeq(list, 1, n), 1, n) = SubSeq(list, 1, n)
    BY <2>2, <2>3
  <2> QED
    BY <1>2, <2>1, <2>2, <2>3, <2>4 DEF IsPrefix
<1> QED
  BY <1>1, <1>2

LEMMA CutListed ==
    ASSUME NEW list, Listed(list), NEW n \in Nat
    PROVE  Listed(Cut(list, n)) /\ Found(Cut(list, n)) \subseteq Found(list)
<1> DEFINE T == [chunk : Chunks, score : Int]
           cut == Cut(list, n)
<1>1. list \in Seq(T)
  BY DEF Listed
<1>2. /\ cut \in Seq(T)
      /\ Len(cut) = (IF Len(list) <= n THEN Len(list) ELSE n)
      /\ \A i \in 1 .. Len(cut) : cut[i] = list[i]
  BY <1>1, CutKeeps
<1>3. Len(list) \in Nat /\ DOMAIN list = 1 .. Len(list) /\ DOMAIN cut = 1 .. Len(cut)
  BY <1>1, <1>2
<1> HIDE DEF cut
<1>4. Listed(cut)
  BY <1>1, <1>2, <1>3 DEF Listed
<1>5. Found(cut) \subseteq Found(list)
  BY <1>2, <1>3 DEF Found
<1> QED
  BY <1>4, <1>5 DEF cut

(* Rank numbers what is found from 1 to the length of the list.            *)
LEMMA Ranks ==
    ASSUME NEW list, Listed(list)
    PROVE  /\ \A c \in Found(list) : Rank(list, c) \in 1 .. Len(list) /\ list[Rank(list, c)].chunk = c
           /\ \A i \in 1 .. Len(list) : list[i].chunk \in Found(list) /\ Rank(list, list[i].chunk) = i
           /\ \A c, e \in Found(list) : Rank(list, c) = Rank(list, e) => c = e
<1>1. Len(list) \in Nat /\ DOMAIN list = 1 .. Len(list)
  BY DEF Listed
<1>2. \A i, j \in 1 .. Len(list) : list[i].chunk = list[j].chunk => i = j
  BY <1>1 DEF Listed
<1>3. ASSUME NEW c \in Found(list)
      PROVE  Rank(list, c) \in 1 .. Len(list) /\ list[Rank(list, c)].chunk = c
  <2>1. \E i \in 1 .. Len(list) : list[i].chunk = c
    BY <1>1 DEF Found
  <2> QED
    BY <1>1, <2>1 DEF Rank
<1>4. ASSUME NEW i \in 1 .. Len(list)
      PROVE  list[i].chunk \in Found(list) /\ Rank(list, list[i].chunk) = i
  <2>1. list[i].chunk \in Found(list)
    BY <1>1 DEF Found
  <2> QED
    BY <2>1, <1>2, <1>3
<1> QED
  BY <1>3, <1>4

LEMMA FoundSize ==
    ASSUME NEW list, Listed(list)
    PROVE  IsFiniteSet(Found(list)) /\ Cardinality(Found(list)) = Len(list)
<1> DEFINE f == [c \in Found(list) |-> Rank(list, c)]
<1>1. Len(list) \in Nat
  BY DEF Listed
<1>2. f \in [Found(list) -> 1 .. Len(list)]
  BY Ranks
<1>3. f \in Injection(Found(list), 1 .. Len(list))
  BY <1>2, Ranks DEF Injection, IsInjective
<1>4. f \in Surjection(Found(list), 1 .. Len(list))
  BY <1>2, Ranks DEF Surjection
<1>5. IsFiniteSet(1 .. Len(list)) /\ Cardinality(1 .. Len(list)) = Len(list)
  BY <1>1, FS_Interval
<1> HIDE DEF f
<1> QED
  BY <1>3, <1>4, <1>5, FS_Injection

-----------------------------------------------------------------------------
(* Scores.                                                                 *)

LEMMA ReciprocalFalls ==
    ASSUME NEW list, Listed(list)
    PROVE  /\ \A c : Reciprocal(list, c) \in Fractions
           /\ \A a, b : AheadIn(list, a, b) => ~ Less(Reciprocal(list, a), Reciprocal(list, b))
<1>0. RankConstant \in Nat /\ Len(list) \in Nat
  BY ParametersAssumption DEF Listed
<1>1. ASSUME NEW c
      PROVE  /\ Reciprocal(list, c) \in Fractions
             /\ c \in Found(list) => /\ Reciprocal(list, c).num = 1
                                     /\ Reciprocal(list, c).den = RankConstant + Rank(list, c)
             /\ c \notin Found(list) => Reciprocal(list, c).num = 0 /\ Reciprocal(list, c).den = 1
  <2>1. CASE c \in Found(list)
    <3>1. Rank(list, c) \in 1 .. Len(list)
      BY <2>1, Ranks
    <3> QED
      BY <1>0, <2>1, <3>1 DEF Reciprocal, Fraction, Fractions
  <2>2. CASE c \notin Found(list)
    BY <2>2 DEF Reciprocal, Nothing, Fraction, Fractions
  <2> QED
    BY <2>1, <2>2
<1>2. ASSUME NEW a, NEW b, AheadIn(list, a, b)
      PROVE  ~ Less(Reciprocal(list, a), Reciprocal(list, b))
  <2>1. CASE b \in Found(list)
    <3>1. a \in Found(list) /\ Rank(list, a) < Rank(list, b)
      BY <1>2, <2>1 DEF AheadIn
    <3>2. Rank(list, a) \in 1 .. Len(list) /\ Rank(list, b) \in 1 .. Len(list)
      BY <2>1, <3>1, Ranks
    <3>3. 1 * (RankConstant + Rank(list, a)) <= 1 * (RankConstant + Rank(list, b))
      BY <1>0, <3>1, <3>2
    <3>4. ~ (1 * (RankConstant + Rank(list, b)) < 1 * (RankConstant + Rank(list, a)))
      BY <1>0, <3>2, <3>3
    <3> QED
      BY <1>1, <2>1, <3>1, <3>4 DEF Less
  <2>2. CASE b \notin Found(list)
    <3>1. Reciprocal(list, a).num \in Nat /\ Reciprocal(list, a).den \in Nat
      BY <1>1 DEF Fractions
    <3> QED
      BY <1>1, <2>2, <3>1 DEF Less
  <2> QED
    BY <2>1, <2>2
<1> QED
  BY <1>1, <1>2

LEMMA LiftedFalls ==
    ASSUME NEW list, Listed(list)
    PROVE  /\ Spread(list) \in Nat \ {0}
           /\ \A c : Lifted(list, c) \in Nat
           /\ \A a, b : AheadIn(list, a, b) => Lifted(list, a) >= Lifted(list, b)
<1> DEFINE n == Len(list)
<1>0. /\ n \in Nat /\ DOMAIN list = 1 .. n
      /\ \A i \in 1 .. n : list[i].score \in Int
      /\ \A i, j \in 1 .. n : i <= j => list[i].score >= list[j].score
  <2> DEFINE T == [chunk : Chunks, score : Int]
  <2>0. list \in Seq(T)
    BY DEF Listed
  <2> HIDE DEF T
  <2>1. n \in Nat /\ DOMAIN list = 1 .. n /\ \A i \in 1 .. n : list[i] \in T
    BY <2>0
  <2>2. \A i \in 1 .. n : list[i].score \in Int
    BY <2>1 DEF T
  <2>3. \A i, j \in 1 .. n : i < j => list[i].score >= list[j].score
    BY <2>1 DEF Listed
  <2>4. \A i, j \in 1 .. n : i <= j => i < j \/ i = j
    BY <2>1
  <2> QED
    BY <2>1, <2>2, <2>3, <2>4
<1>1. list = <<>> <=> n = 0
  BY DEF Listed
<1>2. ASSUME list # <<>>
      PROVE  /\ Head(list) = list[1] /\ Last(list) = list[n] /\ 1 \in 1 .. n /\ n \in 1 .. n
             /\ Head(list).score \in Int /\ Last(list).score \in Int
             /\ Head(list).score >= Last(list).score
  <2>1. Head(list) = list[1] /\ Last(list) = list[n] /\ 1 \in 1 .. n /\ n \in 1 .. n
    BY <1>0, <1>1, <1>2 DEF Last, Listed
  <2> QED
    BY <1>0, <2>1
<1>3. Spread(list) \in Nat \ {0}
  BY <1>2 DEF Spread
<1>4. ASSUME NEW c \in Found(list)
      PROVE  /\ list # <<>>
             /\ Rank(list, c) \in 1 .. n
             /\ ScoreIn(list, c) \in Int
             /\ ScoreIn(list, c) >= Last(list).score
  <2>1. Rank(list, c) \in 1 .. n
    BY Ranks
  <2>2. list # <<>>
    BY <1>0, <1>1, <2>1
  <2> QED
    BY <1>0, <1>2, <2>1, <2>2 DEF ScoreIn
<1>5. ASSUME NEW c
      PROVE  Lifted(list, c) \in Nat
  BY <1>2, <1>4 DEF Lifted
<1>6. ASSUME NEW a, NEW b, AheadIn(list, a, b)
      PROVE  Lifted(list, a) >= Lifted(list, b)
  <2>1. CASE b \notin Found(list)
    <3>1. Lifted(list, b) = 0
      BY <2>1 DEF Lifted
    <3> QED
      BY <3>1, <1>5
  <2>2. CASE b \in Found(list)
    <3>1. a \in Found(list) /\ Rank(list, a) < Rank(list, b)
      BY <1>6, <2>2 DEF AheadIn
    <3>2. ScoreIn(list, a) >= ScoreIn(list, b)
      BY <1>0, <1>4, <2>2, <3>1 DEF ScoreIn
    <3>3. CASE Head(list).score = Last(list).score
      BY <2>2, <3>1, <3>3 DEF Lifted
    <3>4. CASE Head(list).score # Last(list).score
      <4>1. /\ Lifted(list, a) = ScoreIn(list, a) - Last(list).score
            /\ Lifted(list, b) = ScoreIn(list, b) - Last(list).score
        BY <2>2, <3>1, <3>4 DEF Lifted
      <4> QED
        BY <1>2, <1>4, <2>2, <3>1, <3>2, <4>1
    <3> QED
      BY <3>3, <3>4
  <2> QED
    BY <2>1, <2>2
<1> QED
  BY <1>3, <1>5, <1>6

(* The share of a list in the weighted score.                              *)
Weighted(w, list, c) == Fraction(w * Lifted(list, c), Spread(list))

LEMMA WeightedFalls ==
    ASSUME NEW list, Listed(list), NEW w \in Nat
    PROVE  /\ \A c : Weighted(w, list, c) \in Fractions
           /\ \A a, b : AheadIn(list, a, b) => ~ Less(Weighted(w, list, a), Weighted(w, list, b))
<1>1. Spread(list) \in Nat \ {0} /\ \A c : Lifted(list, c) \in Nat
  BY LiftedFalls
<1>2. \A m, n, k \in Nat : m * n \in Nat /\ (m <= n => k * m <= k * n /\ m * k <= n * k)
  BY Z3
<1>3. \A c : w * Lifted(list, c) \in Nat
  BY <1>1, <1>2
<1>4. ASSUME NEW a, NEW b, AheadIn(list, a, b)
      PROVE  ~ Less(Weighted(w, list, a), Weighted(w, list, b))
  <2>1. Lifted(list, b) <= Lifted(list, a)
    BY <1>1, <1>4, LiftedFalls
  <2>2. (w * Lifted(list, b)) * Spread(list) <= (w * Lifted(list, a)) * Spread(list)
    BY <1>1, <1>2, <1>3, <2>1
  <2>3. (w * Lifted(list, b)) * Spread(list) \in Int /\ (w * Lifted(list, a)) * Spread(list) \in Int
    BY <1>1, <1>2, <1>3
  <2> QED
    BY <2>2, <2>3 DEF Less, Weighted, Fraction
<1> QED
  BY <1>1, <1>3, <1>4 DEF Weighted, Fraction, Fractions

LEMMA ScoreFalls ==
    ASSUME Listed(lexical), Listed(dense)
    PROVE  /\ \A c : Score(c) \in Fractions
           /\ \A a, b : AheadIn(lexical, a, b) /\ AheadIn(dense, a, b) => ~ Less(Score(a), Score(b))
<1>1. CASE method = "weighted"
  <2>1. LexicalWeight \in Nat /\ DenseWeight \in Nat
    BY ParametersAssumption
  <2>2. \A c : Score(c) = Plus(Weighted(LexicalWeight, lexical, c), Weighted(DenseWeight, dense, c))
    BY <1>1 DEF Score, WeightedScore, Weighted
  <2> QED
    BY <2>1, <2>2, WeightedFalls, PlusType, PlusMonotone
<1>2. CASE method # "weighted"
  <2>1. \A c : Score(c) = Plus(Reciprocal(lexical, c), Reciprocal(dense, c))
    BY <1>2 DEF Score, RrfScore
  <2> QED
    BY <2>1, ReciprocalFalls, PlusType, PlusMonotone
<1> QED
  BY <1>1, <1>2

-----------------------------------------------------------------------------
(* The order of the answer.                                                *)

LEMMA Positions ==
    ASSUME Listed(lexical), Listed(dense)
    PROVE  /\ \A c \in Candidates : Position(c) \in Nat
           /\ \A a, b \in Candidates : Position(a) = Position(b) => a = b
           /\ \A a, b \in Candidates :
                 AheadIn(lexical, a, b) /\ AheadIn(dense, a, b) => Position(a) < Position(b)
<1>1. Len(lexical) \in Nat /\ Len(dense) \in Nat
  BY DEF Listed
<1>2. \A c \in Found(lexical) : Rank(lexical, c) \in 1 .. Len(lexical)
  BY Ranks
<1>3. \A c \in Found(dense) : Rank(dense, c) \in 1 .. Len(dense)
  BY Ranks
<1>4. ASSUME NEW c \in Candidates
      PROVE  /\ c \in Found(lexical) => Position(c) = Rank(lexical, c) /\ Position(c) \in 1 .. Len(lexical)
             /\ c \notin Found(lexical) =>
                   /\ c \in Found(dense)
                   /\ Position(c) = Len(lexical) + Rank(dense, c)
                   /\ Position(c) \in Nat /\ Position(c) > Len(lexical)
  BY <1>1, <1>2, <1>3 DEF Position, Candidates
<1>5. ASSUME NEW a \in Candidates, NEW b \in Candidates, Position(a) = Position(b)
      PROVE  a = b
  <2>1. CASE a \in Found(lexical) /\ b \in Found(lexical)
    BY <1>4, <1>5, <2>1, Ranks
  <2>2. CASE a \notin Found(lexical) /\ b \notin Found(lexical)
    <3>1. Rank(dense, a) = Rank(dense, b)
      BY <1>1, <1>3, <1>4, <1>5, <2>2
    <3> QED
      BY <1>4, <2>2, <3>1, Ranks
  <2>3. CASE (a \in Found(lexical)) # (b \in Found(lexical))
    BY <1>1, <1>4, <1>5, <2>3
  <2> QED
    BY <2>1, <2>2, <2>3
<1>6. ASSUME NEW a \in Candidates, NEW b \in Candidates, AheadIn(lexical, a, b), AheadIn(dense, a, b)
      PROVE  Position(a) < Position(b)
  <2>1. CASE b \in Found(lexical)
    BY <1>4, <1>6, <2>1 DEF AheadIn
  <2>2. CASE b \notin Found(lexical)
    <3>1. b \in Found(dense) /\ a \in Found(dense) /\ Rank(dense, a) < Rank(dense, b)
      BY <1>4, <1>6, <2>2 DEF AheadIn
    <3> QED
      BY <1>1, <1>3, <1>4, <2>2, <3>1
  <2> QED
    BY <2>1, <2>2
<1> QED
  BY <1>4, <1>5, <1>6, <1>1

(* Scores with ties broken by position are a strict total order.           *)
LEMMA RankingOrders ==
    ASSUME Listed(lexical), Listed(dense)
    PROVE  /\ StrictOrder(Ranking, Candidates)
           /\ IsFiniteSet(Candidates)
           /\ \A a, b \in Candidates : <<a, b>> \in Ranking <=> Better(a, b)
<1>1. \A c \in Candidates : Score(c) \in Fractions /\ Position(c) \in Nat
  BY ScoreFalls, Positions
<1>2. \A a, b \in Candidates : Position(a) = Position(b) => a = b
  BY Positions
<1>3. \A x, y \in Fractions : ~ (Less(x, y) /\ Less(y, x))
  <2> SUFFICES ASSUME NEW x \in Fractions, NEW y \in Fractions
               PROVE  ~ (Less(x, y) /\ Less(y, x))
    OBVIOUS
  <2>1. x.num * y.den \in Int /\ y.num * x.den \in Int
    BY DEF Fractions
  <2> QED
    BY <2>1 DEF Less
<1>4. \A a, b \in Candidates : <<a, b>> \in Ranking <=> Better(a, b)
  BY DEF Ranking
<1>5. ASSUME NEW a \in Candidates
      PROVE  ~ Better(a, a)
  BY <1>1, <1>3 DEF Better
<1>6. ASSUME NEW a \in Candidates, NEW b \in Candidates, a # b
      PROVE  Better(a, b) \/ Better(b, a)
  <2>1. Position(a) < Position(b) \/ Position(b) < Position(a)
    BY <1>1, <1>2, <1>6
  <2> QED
    BY <2>1 DEF Better
<1>7. ASSUME NEW a \in Candidates, NEW b \in Candidates, NEW c \in Candidates,
             Better(a, b), Better(b, c)
      PROVE  Better(a, c)
  <2>1. ~ Less(Score(a), Score(b)) /\ ~ Less(Score(b), Score(c))
    BY <1>1, <1>3, <1>7 DEF Better
  <2>2. /\ ~ Less(Score(a), Score(c))
        /\ Less(Score(c), Score(b)) \/ Less(Score(b), Score(a)) => Less(Score(c), Score(a))
    BY <1>1, <2>1, LessIsAnOrder
  <2>3. CASE Less(Score(c), Score(b)) \/ Less(Score(b), Score(a))
    BY <2>2, <2>3 DEF Better
  <2>4. CASE ~ (Less(Score(c), Score(b)) \/ Less(Score(b), Score(a)))
    <3>1. Position(a) < Position(b) /\ Position(b) < Position(c)
      BY <1>7, <2>4 DEF Better
    <3>2. Position(a) < Position(c)
      BY <1>1, <3>1
    <3> QED
      BY <2>2, <3>2 DEF Better
  <2> QED
    BY <2>3, <2>4
<1>8. StrictOrder(Ranking, Candidates)
  BY <1>4, <1>5, <1>6, <1>7 DEF StrictOrder
<1>9. IsFiniteSet(Candidates)
  BY FoundSize, FS_Union DEF Candidates
<1> QED
  BY <1>4, <1>8, <1>9

(* The answer is the beginning of the candidates in their order.           *)
LEMMA AnswerOrdered ==
    ASSUME Listed(lexical), Listed(dense), NEW k \in Nat, answer = Cut(Fused, k)
    PROVE  /\ answer \in Seq(Candidates)
           /\ \A i, j \in DOMAIN answer : answer[i] = answer[j] => i = j
           /\ Len(answer) = (IF Cardinality(Candidates) <= k THEN Cardinality(Candidates) ELSE k)
           /\ \A a, b \in Candidates : Better(a, b) => AnsweredBefore(a, b)
<1> DEFINE n == Cardinality(Candidates)
           s == Fused
<1>1. /\ s \in Seq(Candidates) /\ Len(s) = n
      /\ \A i, j \in 1 .. n : i < j <=> <<s[i], s[j]>> \in Ranking
      /\ \A i, j \in 1 .. n : s[i] = s[j] => i = j
      /\ \A x \in Candidates : \E i \in 1 .. n : s[i] = x
  BY RankingOrders, OrderedBySorts DEF Fused
<1>2. /\ answer \in Seq(Candidates)
      /\ Len(answer) = (IF n <= k THEN n ELSE k)
      /\ \A i \in 1 .. Len(answer) : answer[i] = s[i]
  BY <1>1, CutKeeps
<1>3. n \in Nat /\ DOMAIN answer = 1 .. Len(answer) /\ 1 .. Len(answer) \subseteq 1 .. n
  BY <1>1, <1>2
<1>4. \A i, j \in DOMAIN answer : answer[i] = answer[j] => i = j
  BY <1>1, <1>2, <1>3
<1>5. ASSUME NEW a \in Candidates, NEW b \in Candidates, Better(a, b), Answered(b)
      PROVE  Answered(a) /\ At(a) < At(b)
  <2>1. PICK i \in 1 .. n : s[i] = a
    BY <1>1
  <2>2. PICK j \in DOMAIN answer : answer[j] = b
    BY <1>5 DEF Answered
  <2>3. j \in 1 .. n /\ s[j] = b
    BY <1>2, <1>3, <2>2
  <2>4. i < j
    BY <1>1, <1>5, <2>1, <2>3, RankingOrders
  <2>5. i \in DOMAIN answer /\ answer[i] = a
    BY <1>2, <1>3, <2>1, <2>2, <2>4
  <2>6. At(a) = i /\ At(b) = j
    BY <1>4, <2>2, <2>5 DEF At
  <2> QED
    BY <2>4, <2>5, <2>6 DEF Answered
<1> QED
  BY <1>2, <1>4, <1>5 DEF AnsweredBefore

-----------------------------------------------------------------------------
(* The invariant.                                                          *)

LEMMA FusionInvariant == Spec => []Inv
<1>1. Init => Inv
  BY DEF Init, Inv
<1>2. Inv /\ [Next]_vars => Inv'
  <2> SUFFICES ASSUME Inv, [Next]_vars PROVE Inv'
    OBVIOUS
  <2>1. CASE Retrieve
    <3>1. CandidateK' = CandidateK
      BY <2>1 DEF Retrieve, CandidateK
    <3> QED
      BY <2>1, <3>1 DEF Retrieve, Inv
  <2>2. CASE Fuse
    <3>1. CandidateK' = CandidateK
      BY <2>2 DEF Fuse, CandidateK
    <3>2. Fused' = Fused
      BY <2>2 DEF Fuse, Fused, Ranking, Candidates, Better, Score, WeightedScore, RrfScore, Position
    <3> QED
      BY <2>2, <3>1, <3>2 DEF Fuse, Inv
  <2>3. CASE UNCHANGED vars
    <3>1. CandidateK' = CandidateK
      BY <2>3 DEF vars, CandidateK
    <3>2. Fused' = Fused
      BY <2>3 DEF vars, Fused, Ranking, Candidates, Better, Score, WeightedScore, RrfScore, Position
    <3> QED
      BY <2>3, <3>1, <3>2 DEF vars, Inv
  <2> QED
    BY <2>1, <2>2, <2>3 DEF Next
<1> QED
  BY <1>1, <1>2, PTL DEF Spec

(* candidate_k is at least top_k.                                          *)
LEMMA Limits ==
    ASSUME top_k \in TopKs
    PROVE  top_k \in Nat \ {0} /\ CandidateK \in Nat /\ CandidateK >= top_k
<1>1. top_k \in Nat \ {0} /\ CandidateMultiplier \in Nat
  BY ParametersAssumption
<1>2. \A m, k \in Nat : k * m \in Nat /\ (m > 1 => k * m >= k)
  BY Z3
<1> QED
  BY <1>1, <1>2 DEF CandidateK

LEMMA RankingListed ==
    ASSUME NEW list \in Rankings
    PROVE  Listed(list)
<1>1. list \in Seq([chunk : Chunks, score : Int])
  BY RankingsAssumption
<1>2. DOMAIN list = 1 .. Len(list)
  BY <1>1
<1> QED
  BY <1>1, <1>2, RankingsAssumption DEF Listed

LEMMA ListsListed ==
    ASSUME Inv
    PROVE  /\ Listed(lexical) /\ Len(lexical) <= CandidateK /\ IsPrefix(lexical, finds.lexical)
           /\ Listed(dense) /\ Len(dense) <= CandidateK /\ IsPrefix(dense, finds.dense)
           /\ Listed(finds.lexical) /\ Listed(finds.dense)
<1>1. CandidateK \in Nat
  BY Limits DEF Inv
<1>2. Listed(finds.lexical) /\ Listed(finds.dense)
  BY RankingListed DEF Inv
<1>3. ASSUME NEW list, NEW find, Listed(find), list = <<>> \/ list = Cut(find, CandidateK)
      PROVE  Listed(list) /\ Len(list) <= CandidateK /\ IsPrefix(list, find)
  <2>1. CASE list = <<>>
    <3>1. Listed(<<>>)
      BY DEF Listed
    <3>2. IsPrefix(<<>>, find)
      BY <1>3 DEF IsPrefix, Listed
    <3> QED
      BY <1>1, <2>1, <3>1, <3>2
  <2>2. CASE list = Cut(find, CandidateK)
    <3>1. find \in Seq([chunk : Chunks, score : Int])
      BY <1>3 DEF Listed
    <3>2. Len(list) = (IF Len(find) <= CandidateK THEN Len(find) ELSE CandidateK) /\ IsPrefix(list, find)
      BY <1>1, <2>2, <3>1, CutKeeps
    <3> QED
      BY <1>1, <1>3, <2>2, <3>1, <3>2, CutListed
  <2> QED
    BY <1>3, <2>1, <2>2
<1> QED
  BY <1>2, <1>3 DEF Inv

(* Every variable has its type: a call searches with the limits it         *)
(* computed and answers with what it found (HybridRetriever.search).       *)
THEOREM Typed == Spec => []TypeOK
<1>1. Inv => TypeOK
  <2> SUFFICES ASSUME Inv PROVE TypeOK
    OBVIOUS
  <2>1. answer \in Seq(Candidates)
    <3>1. CASE pc = "answered"
      BY <3>1, AnswerOrdered, ListsListed, Limits DEF Inv
    <3>2. CASE pc # "answered"
      BY <3>2 DEF Inv
    <3> QED
      BY <3>1, <3>2
  <2> QED
    BY <2>1, ListsListed DEF Inv, TypeOK
<1> QED
  BY <1>1, FusionInvariant, PTL

(* A chunk that beats another in every list which has the other beats it   *)
(* in the answer of HybridRetriever.search, for any lists, weights and k.  *)
THEOREM AgreedOrderKept == Spec => []AgreedOrder
<1>1. Inv => AgreedOrder
  <2> SUFFICES ASSUME Inv, pc = "answered", NEW a \in Candidates, NEW b \in Candidates,
                      AheadIn(lexical, a, b), AheadIn(dense, a, b)
               PROVE  AnsweredBefore(a, b)
    BY DEF AgreedOrder
  <2>1. Listed(lexical) /\ Listed(dense)
    BY ListsListed
  <2>2. Better(a, b)
    BY <2>1, ScoreFalls, Positions DEF Better
  <2> QED
    BY <2>1, <2>2, AnswerOrdered, Limits DEF Inv
<1> QED
  BY <1>1, FusionInvariant, PTL

(* If the two retrievers between them can find top_k chunks, top_k         *)
(* distinct ones are answered, and otherwise all they can find.            *)
THEOREM AnswerIsFull == Spec => []AnswerFull
<1> DEFINE findable == Found(finds.lexical) \union Found(finds.dense)
           n == Cardinality(findable)
           answered == {answer[i] : i \in DOMAIN answer}
<1>1. Inv => AnswerFull
  <2> SUFFICES ASSUME Inv, pc = "answered"
               PROVE  Cardinality(answered) = (IF n < top_k THEN n ELSE top_k)
    BY DEF AnswerFull
  <2>1. /\ Listed(lexical) /\ Listed(dense) /\ Listed(finds.lexical) /\ Listed(finds.dense)
        /\ lexical = Cut(finds.lexical, CandidateK) /\ dense = Cut(finds.dense, CandidateK)
    BY ListsListed DEF Inv
  <2>2. top_k \in Nat /\ CandidateK \in Nat /\ CandidateK >= top_k
    BY Limits DEF Inv
  <2>3. /\ answer \in Seq(Candidates)
        /\ \A i, j \in DOMAIN answer : answer[i] = answer[j] => i = j
        /\ Len(answer) = (IF Cardinality(Candidates) <= top_k THEN Cardinality(Candidates) ELSE top_k)
    BY <2>1, <2>2, AnswerOrdered DEF Inv
  <2>4. Cardinality(answered) = Len(answer)
    <3>1. Len(answer) \in Nat /\ DOMAIN answer = 1 .. Len(answer)
      BY <2>3
    <3>2. answer \in Bijection(1 .. Len(answer), answered)
      BY <2>3, <3>1 DEF Bijection, Injection, Surjection, IsInjective
    <3>3. ExistsBijection(1 .. Len(answer), answered)
      BY <3>2 DEF ExistsBijection
    <3> QED
      BY <3>1, <3>3, FS_CountingElements
  <2>5. IsFiniteSet(findable) /\ IsFiniteSet(Candidates) /\ n \in Nat /\ Cardinality(Candidates) \in Nat
    BY <2>1, FoundSize, FS_Union, FS_CardinalityType DEF Candidates
  <2>6. Candidates \subseteq findable /\ Cardinality(Candidates) <= n
    <3>1. Candidates \subseteq findable
      BY <2>1, <2>2, CutListed DEF Candidates
    <3> QED
      BY <2>5, <3>1, FS_Subset
  <2>7. ASSUME NEW list, NEW find, Listed(find), Listed(list), list = Cut(find, CandidateK),
               Found(list) \subseteq Candidates
        PROVE  list = find \/ Cardinality(Candidates) >= top_k
    <3>1. CASE Len(find) <= CandidateK
      BY <2>7, <3>1 DEF Cut
    <3>2. CASE ~ (Len(find) <= CandidateK)
      <4>1. Len(list) = CandidateK
        BY <2>2, <2>7, <3>2, CutKeeps DEF Listed
      <4>2. Cardinality(Found(list)) = CandidateK
        BY <2>7, <4>1, FoundSize
      <4>3. CandidateK <= Cardinality(Candidates)
        BY <2>5, <2>7, <4>2, FS_Subset
      <4> QED
        BY <2>2, <2>5, <4>3
    <3> QED
      BY <3>1, <3>2
  <2>8. Candidates = findable \/ Cardinality(Candidates) >= top_k
    BY <2>1, <2>7 DEF Candidates
  <2>9. CASE Candidates = findable
    BY <2>2, <2>3, <2>4, <2>5, <2>9
  <2>10. CASE Cardinality(Candidates) >= top_k
    BY <2>2, <2>3, <2>4, <2>5, <2>6, <2>10
  <2> QED
    BY <2>8, <2>9, <2>10
<1> QED
  BY <1>1, FusionInvariant, PTL

(* Two ranks up to k + 1 are worth more than one first rank.               *)
LEMMA TwoBeatOne ==
    ASSUME NEW k \in Nat, NEW x \in k + 1 .. 2 * k + 1, NEW y \in k + 1 .. 2 * k + 1,
           NEW z \in Nat, z >= k + 1
    PROVE  x * y < (x + y) * z
<1>1. ASSUME NEW a \in k + 1 .. 2 * k + 1, NEW b \in k + 1 .. 2 * k + 1, a <= b
      PROVE  a * b < (a + b) * z
  <2>1. b < 2 * z
    OBVIOUS
  <2>2. \A i, j \in Nat, m \in Nat \ {0} : (i < j => m * i < m * j) /\ (i <= j => i * m <= j * m)
    BY Z3
  <2>3. a \in Nat \ {0} /\ b \in Nat \ {0} /\ z \in Nat \ {0} /\ 2 * z \in Nat
    OBVIOUS
  <2>4. a * b < a * (2 * z)
    BY <2>1, <2>2, <2>3
  <2>5. a * (2 * z) = a * z + a * z
    BY <2>3, Z3
  <2>6. a * z <= b * z
    BY <1>1, <2>2, <2>3
  <2>7. (a + b) * z = a * z + b * z
    BY <2>3, Z3
  <2>8. a * b \in Int /\ a * z \in Int /\ b * z \in Int
    BY <2>3
  <2> QED
    BY <2>4, <2>5, <2>6, <2>7, <2>8
<1>2. CASE x <= y
  BY <1>1, <1>2
<1>3. CASE y <= x
  <2>1. y * x < (y + x) * z
    BY <1>1, <1>3
  <2>2. y * x = x * y /\ y + x = x + y
    BY Z3
  <2> QED
    BY <2>1, <2>2
<1> QED
  BY <1>2, <1>3

(* What both retrievers found comes before what one found, as long as      *)
(* candidate_k is at most k + 1 (reciprocal_rank_fusion).                  *)
THEOREM AgreementAlwaysWins == Spec => []AgreementWins
<1>1. Inv => AgreementWins
  <2> SUFFICES ASSUME Inv, pc = "answered", method = "rrf", CandidateK <= RankConstant + 1,
                      NEW a \in Both, NEW b \in Candidates \ Both
               PROVE  AnsweredBefore(a, b)
    BY DEF AgreementWins, Candidates
  <2> DEFINE k == RankConstant
  <2>1. /\ Listed(lexical) /\ Listed(dense)
        /\ Len(lexical) <= CandidateK /\ Len(dense) <= CandidateK
    BY ListsListed
  <2>2. k \in Nat /\ CandidateK \in Nat /\ Len(lexical) \in Nat /\ Len(dense) \in Nat
    BY <2>1, ParametersAssumption, Limits DEF Inv, Listed
  <2>3. /\ a \in Found(lexical) /\ Rank(lexical, a) \in 1 .. k + 1
        /\ a \in Found(dense) /\ Rank(dense, a) \in 1 .. k + 1
    BY <2>1, <2>2, Ranks DEF Both
  <2> DEFINE x == k + Rank(lexical, a)
             y == k + Rank(dense, a)
  <2>4. x \in k + 1 .. 2 * k + 1 /\ y \in k + 1 .. 2 * k + 1
    BY <2>2, <2>3
  <2>5. Score(a) = Plus(Fraction(1, x), Fraction(1, y))
    BY <2>3 DEF Score, RrfScore, Reciprocal
  <2>6. \E z \in Nat : /\ z >= k + 1
                       /\ \/ Score(b) = Plus(Fraction(1, z), Fraction(0, 1))
                          \/ Score(b) = Plus(Fraction(0, 1), Fraction(1, z))
    <3>1. CASE b \in Found(lexical) /\ b \notin Found(dense)
      <4>1. Score(b) = Plus(Fraction(1, k + Rank(lexical, b)), Fraction(0, 1))
        BY <3>1 DEF Score, RrfScore, Reciprocal, Nothing
      <4>2. k + Rank(lexical, b) \in Nat /\ k + Rank(lexical, b) >= k + 1
        BY <2>1, <2>2, <3>1, Ranks
      <4> QED
        BY <4>1, <4>2
    <3>2. CASE b \notin Found(lexical) /\ b \in Found(dense)
      <4>1. Score(b) = Plus(Fraction(0, 1), Fraction(1, k + Rank(dense, b)))
        BY <3>2 DEF Score, RrfScore, Reciprocal, Nothing
      <4>2. k + Rank(dense, b) \in Nat /\ k + Rank(dense, b) >= k + 1
        BY <2>1, <2>2, <3>2, Ranks
      <4> QED
        BY <4>1, <4>2
    <3> QED
      BY <3>1, <3>2 DEF Candidates, Both
  <2>7. PICK z \in Nat : /\ z >= k + 1
                         /\ \/ Score(b) = Plus(Fraction(1, z), Fraction(0, 1))
                            \/ Score(b) = Plus(Fraction(0, 1), Fraction(1, z))
    BY <2>6
  <2>8. x * y < (x + y) * z
    BY <2>2, <2>4, <2>7, TwoBeatOne
  <2>9. Score(a).num = x + y /\ Score(a).den = x * y
    BY <2>2, <2>4, <2>5 DEF Plus, Fraction
  <2>10. Score(b).num = 1 /\ Score(b).den = z
    BY <2>2, <2>7 DEF Plus, Fraction
  <2>11. Less(Score(b), Score(a))
    <3>1. x * y \in Int /\ (x + y) * z \in Int /\ 1 * (x * y) = x * y
      BY <2>2, <2>4
    <3> QED
      BY <2>8, <2>9, <2>10, <3>1 DEF Less
  <2>12. Better(a, b)
    BY <2>11 DEF Better
  <2>13. a \in Candidates
    BY DEF Both, Candidates
  <2> QED
    BY <2>1, <2>12, <2>13, AnswerOrdered, Limits DEF Inv
<1> QED
  BY <1>1, FusionInvariant, PTL

=============================================================================
