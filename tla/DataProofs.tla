----------------------------- MODULE DataProofs -----------------------------
(***************************************************************************)
(* Facts about sorted sequences and about sums that the proofs of other    *)
(* modules cite.                                                           *)
(***************************************************************************)
EXTENDS Ordering, Sequences, Functions, FiniteSetTheorems, WellFoundedInduction, TLAPS

(* How many elements come before one tells them apart: of two elements the *)
(* later one has more before it, and there are as many places as elements. *)
LEMMA Places ==
    ASSUME NEW S, IsFiniteSet(S), NEW R, StrictOrder(R, S),
           NEW place, place = [x \in S |-> Cardinality(Earlier(x, S, R)) + 1]
    PROVE  /\ place \in [S -> 1 .. Cardinality(S)]
           /\ \A x, y \in S : <<x, y>> \in R => place[x] < place[y]
           /\ \A k \in 1 .. Cardinality(S) : \E x \in S : place[x] = k
<1> DEFINE n == Cardinality(S)
<1>0. n \in Nat
  BY FS_CardinalityType
<1>1. ASSUME NEW x \in S
      PROVE  IsFiniteSet(Earlier(x, S, R)) /\ Cardinality(Earlier(x, S, R)) \in 0 .. n - 1
  <2>1. Earlier(x, S, R) \in SUBSET (S \ {x})
    BY DEF StrictOrder, Earlier
  <2>2. IsFiniteSet(S \ {x}) /\ Cardinality(S \ {x}) = n - 1
    BY FS_RemoveElement
  <2>3. IsFiniteSet(Earlier(x, S, R)) /\ Cardinality(Earlier(x, S, R)) <= n - 1
    BY <2>1, <2>2, FS_Subset
  <2> QED
    BY <2>3, <1>0, FS_CardinalityType
<1>2. place \in [S -> 1 .. n]
  BY <1>0, <1>1
<1>3. ASSUME NEW x \in S, NEW y \in S, <<x, y>> \in R
      PROVE  place[x] < place[y]
  <2>1. Earlier(x, S, R) \union {x} \in SUBSET Earlier(y, S, R)
    BY <1>3 DEF StrictOrder, Earlier
  <2>2. x \notin Earlier(x, S, R)
    BY DEF StrictOrder, Earlier
  <2>3. Cardinality(Earlier(x, S, R) \union {x}) = Cardinality(Earlier(x, S, R)) + 1
    BY <1>1, <2>2, FS_AddElement
  <2>4. Cardinality(Earlier(x, S, R) \union {x}) <= Cardinality(Earlier(y, S, R))
    BY <1>1, <2>1, FS_Subset
  <2>5. place[x] = Cardinality(Earlier(x, S, R)) + 1 /\ place[y] = Cardinality(Earlier(y, S, R)) + 1
    OBVIOUS
  <2> QED
    BY <1>1, <2>3, <2>4, <2>5
<1>4. \A x, y \in S : place[x] = place[y] => x = y
  <2> SUFFICES ASSUME NEW x \in S, NEW y \in S, place[x] = place[y], x # y
               PROVE  FALSE
    OBVIOUS
  <2>1. <<x, y>> \in R \/ <<y, x>> \in R
    BY DEF StrictOrder
  <2>2. place[x] \in Int /\ place[y] \in Int
    BY <1>2, <1>0
  <2> QED
    BY <2>1, <2>2, <1>3
<1>5. place \in Surjection(S, 1 .. n)
  <2>1. place \in Injection(S, 1 .. n)
    BY <1>2, <1>4 DEF Injection, IsInjective
  <2>2. IsFiniteSet(1 .. n) /\ Cardinality(1 .. n) = n
    BY <1>0, FS_Interval
  <2> QED
    BY <2>1, <2>2, FS_Injection
<1> QED
  BY <1>2, <1>3, <1>5 DEF Surjection

(* OrderedBy sorts: it lists every element, once, and in the order of R.   *)
LEMMA OrderedBySorts ==
    ASSUME NEW S, IsFiniteSet(S), NEW R, StrictOrder(R, S),
           NEW s, s = OrderedBy(S, R)
    PROVE  /\ s \in [1 .. Cardinality(S) -> S]
           /\ s \in Seq(S) /\ Len(s) = Cardinality(S)
           /\ \A i, j \in 1 .. Cardinality(S) : i < j <=> <<s[i], s[j]>> \in R
           /\ \A i, j \in 1 .. Cardinality(S) : s[i] = s[j] => i = j
           /\ \A x \in S : \E i \in 1 .. Cardinality(S) : s[i] = x
<1> DEFINE n == Cardinality(S)
           place == [x \in S |-> Cardinality(Earlier(x, S, R)) + 1]
<1>0. n \in Nat
  BY FS_CardinalityType
<1>1. /\ place \in [S -> 1 .. n]
      /\ \A x, y \in S : <<x, y>> \in R => place[x] < place[y]
      /\ \A k \in 1 .. n : \E x \in S : place[x] = k
  <2> HIDE DEF place
  <2>1. place = [x \in S |-> Cardinality(Earlier(x, S, R)) + 1]
    BY DEF place
  <2> QED
    BY <2>1, Places
<1>2. s = [k \in 1 .. n |-> CHOOSE x \in S : place[x] = k]
  BY DEF OrderedBy
<1> HIDE DEF place
<1>3. \A k \in 1 .. n : s[k] \in S /\ place[s[k]] = k
  BY <1>1, <1>2
<1>4. s \in [1 .. n -> S]
  BY <1>2, <1>3
<1>5. \A x, y \in S : x = y \/ <<x, y>> \in R \/ <<y, x>> \in R
  BY DEF StrictOrder
<1>6. \A x \in S : <<x, x>> \notin R
  BY DEF StrictOrder
<1>7. ASSUME NEW i \in 1 .. n, NEW j \in 1 .. n
      PROVE  i < j <=> <<s[i], s[j]>> \in R
  <2>1. s[i] \in S /\ s[j] \in S /\ place[s[i]] = i /\ place[s[j]] = j
    BY <1>3
  <2>2. i \in Int /\ j \in Int
    BY <1>0
  <2>3. <<s[i], s[j]>> \in R => i < j
    BY <2>1, <1>1
  <2>4. <<s[j], s[i]>> \in R => j < i
    BY <2>1, <1>1
  <2>5. i < j => s[i] # s[j]
    BY <2>1, <2>2
  <2> QED
    BY <2>1, <2>2, <2>3, <2>4, <2>5, <1>5
<1>8. ASSUME NEW x \in S
      PROVE  \E i \in 1 .. n : s[i] = x
  <2>1. place[x] \in 1 .. n
    BY <1>1
  <2>2. s[place[x]] \in S /\ place[s[place[x]]] = place[x]
    BY <2>1, <1>3
  <2>3. s[place[x]] = x
    <3> SUFFICES ASSUME s[place[x]] # x PROVE FALSE
      OBVIOUS
    <3>1. <<s[place[x]], x>> \in R \/ <<x, s[place[x]]>> \in R
      BY <2>2, <1>5
    <3>2. place[x] \in Int
      BY <2>1, <1>0
    <3> QED
      BY <2>2, <3>1, <3>2, <1>1
  <2> QED
    BY <2>1, <2>3
<1> QED
  BY <1>0, <1>3, <1>4, <1>7, <1>8

-----------------------------------------------------------------------------
(* Least numbers stand in for induction.                                   *)

LEMMA LeastNumber ==
    ASSUME NEW T \in SUBSET Nat, T # {}
    PROVE  \E n \in T : \A m \in T : n <= m
<1>1. \E n \in T : \A m \in T : ~ (<<m, n>> \in OpToRel(<, Nat))
  BY NatLessThanWellFounded, WFMin
<1>2. \A m, n \in Nat : m < n => <<m, n>> \in OpToRel(<, Nat)
  BY Zenon DEF OpToRel
<1>3. \A m, n \in Nat : ~ (m < n) => n <= m
  OBVIOUS
<1>4. \A n \in T : n \in Nat
  OBVIOUS
<1> QED
  BY <1>1, <1>2, <1>3, <1>4, Zenon

-----------------------------------------------------------------------------
(* Sums.                                                                   *)

Some(s) == CHOOSE x \in s : TRUE

Step(fun, g, s) == IF s = {} THEN 0 ELSE fun[Some(s)] + g[s \ {Some(s)}]

(* g sums fun over every subset of S.                                      *)
Sums(fun, S, g) == g = [s \in SUBSET S |-> Step(fun, g, s)]

LEMMA SumIsChosen ==
    ASSUME NEW fun, NEW S
    PROVE  SumFunctionOnSet(fun, S) = (CHOOSE g : Sums(fun, S, g))[S]
BY DEF SumFunctionOnSet, FoldFunctionOnSet, MapThenFoldSet, Sums, Step, Some

LEMMA SumsExist ==
    ASSUME NEW fun, NEW S, IsFiniteSet(S)
    PROVE  \E g : Sums(fun, S, g)
<1> DEFINE Small(n) == {s \in SUBSET S : Cardinality(s) <= n}
           SumsUpTo(n, g) == g = [s \in Small(n) |-> Step(fun, g, s)]
           Bad == {n \in Nat : ~ \E g : SumsUpTo(n, g)}
<1>1. \A s \in SUBSET S : IsFiniteSet(s) /\ Cardinality(s) \in Nat /\ Cardinality(s) <= Cardinality(S)
  BY FS_Subset, FS_CardinalityType
<1>2. 0 \notin Bad
  <2> DEFINE g == [s \in Small(0) |-> 0]
  <2>1. \A s \in Small(0) : s = {}
    BY <1>1, FS_EmptySet
  <2>2. \A s \in Small(0) : Step(fun, g, s) = 0
    BY <2>1 DEF Step
  <2>3. SumsUpTo(0, g)
    BY <2>2
  <2> QED
    BY <2>3
<1>3. ASSUME NEW n \in Nat, n + 1 \in Bad
      PROVE  n \in Bad
  <2> SUFFICES ASSUME NEW g, SumsUpTo(n, g)
               PROVE  \E h : SumsUpTo(n + 1, h)
    BY <1>3
  <2> DEFINE h == [s \in Small(n + 1) |-> Step(fun, g, s)]
  <2>1. ASSUME NEW s \in Small(n + 1)
        PROVE  Step(fun, h, s) = Step(fun, g, s)
    <3>1. CASE s = {}
      BY <3>1 DEF Step
    <3>2. CASE s # {}
      <4>1. Some(s) \in s
        BY <3>2 DEF Some
      <4> DEFINE t == s \ {Some(s)}
      <4>2. Cardinality(t) = Cardinality(s) - 1 /\ t \in SUBSET S
        BY <1>1, <4>1, FS_RemoveElement
      <4>3. t \in Small(n) /\ t \in Small(n + 1)
        BY <1>1, <4>2
      <4> HIDE DEF t
      <4>4. h[t] = Step(fun, g, t) /\ g[t] = Step(fun, g, t)
        BY <4>3
      <4>5. h[t] = g[t]
        BY <4>4
      <4> HIDE DEF h
      <4> QED
        BY <3>2, <4>5 DEF Step, t
    <3> QED
      BY <3>1, <3>2
  <2>2. SumsUpTo(n + 1, h)
    BY <2>1
  <2> QED
    BY <2>2
<1>4. Bad = {}
  <2> SUFFICES ASSUME Bad # {} PROVE FALSE
    OBVIOUS
  <2>1. PICK n \in Bad : \A m \in Bad : n <= m
    BY LeastNumber
  <2>2. n \in Nat /\ n # 0
    BY <1>2
  <2>3. n - 1 \in Nat /\ (n - 1) + 1 = n
    BY <2>2
  <2> HIDE DEF Bad
  <2>4. n - 1 \in Bad
    BY <1>3, <2>3
  <2> QED
    BY <2>1, <2>2, <2>4
<1>5. Cardinality(S) \in Nat
  BY FS_CardinalityType
<1>6. Small(Cardinality(S)) = SUBSET S
  BY <1>1
<1>7. PICK g : SumsUpTo(Cardinality(S), g)
  BY <1>4, <1>5
<1> QED
  BY <1>6, <1>7 DEF Sums

(* Sums over the same set are the same, whatever they are part of.         *)
LEMMA SumsAgree ==
    ASSUME NEW fun, NEW S, IsFiniteSet(S), NEW T \in SUBSET S,
           NEW g, Sums(fun, S, g), NEW h, Sums(fun, T, h)
    PROVE  g[T] = h[T]
<1> DEFINE Bad == {s \in SUBSET T : g[s] # h[s]}
           Sizes == {Cardinality(s) : s \in Bad}
<1>1. \A s \in SUBSET T : IsFiniteSet(s) /\ Cardinality(s) \in Nat
  BY FS_Subset, FS_CardinalityType
<1>2. \A s \in SUBSET T : g[s] = Step(fun, g, s) /\ h[s] = Step(fun, h, s)
  BY DEF Sums
<1> SUFFICES ASSUME Bad # {} PROVE FALSE
  OBVIOUS
<1>3. Sizes \in SUBSET Nat /\ Sizes # {}
  BY <1>1
<1>4. PICK n \in Sizes : \A m \in Sizes : n <= m
  BY <1>3, LeastNumber
<1>5. PICK s \in Bad : Cardinality(s) = n
  BY <1>4
<1>6. s \in SUBSET T /\ s # {}
  BY <1>2, <1>5 DEF Step
<1> DEFINE t == s \ {Some(s)}
<1>7. Some(s) \in s
  BY <1>6 DEF Some
<1>8. t \in SUBSET T /\ Cardinality(t) = n - 1 /\ n \in Nat
  BY <1>1, <1>5, <1>6, <1>7, FS_RemoveElement
<1>9. t \notin Bad
  <2> SUFFICES ASSUME t \in Bad PROVE FALSE
    OBVIOUS
  <2>1. Cardinality(t) \in Sizes
    OBVIOUS
  <2> QED
    BY <1>4, <1>8, <2>1
<1>10. g[t] = h[t]
  BY <1>8, <1>9
<1> HIDE DEF t
<1>11. g[s] = h[s]
  BY <1>2, <1>6, <1>10 DEF Step, t
<1> QED
  BY <1>5, <1>11

(* One table holds the sums over all subsets.                              *)
LEMMA SumTable ==
    ASSUME NEW fun, NEW S, IsFiniteSet(S)
    PROVE  \E g : Sums(fun, S, g) /\ \A T \in SUBSET S : SumFunctionOnSet(fun, T) = g[T]
<1>1. PICK g : Sums(fun, S, g)
  BY SumsExist
<1>2. ASSUME NEW T \in SUBSET S
      PROVE  SumFunctionOnSet(fun, T) = g[T]
  <2> DEFINE h == CHOOSE h : Sums(fun, T, h)
  <2>1. IsFiniteSet(T)
    BY FS_Subset
  <2>2. Sums(fun, T, h)
    BY <2>1, SumsExist
  <2>3. SumFunctionOnSet(fun, T) = h[T]
    BY SumIsChosen
  <2> HIDE DEF h
  <2> QED
    BY <1>1, <2>2, <2>3, SumsAgree
<1> QED
  BY <1>1, <1>2

LEMMA SumStep ==
    ASSUME NEW fun, NEW S, IsFiniteSet(S)
    PROVE  /\ SumFunctionOnSet(fun, {}) = 0
           /\ S # {} => /\ Some(S) \in S
                        /\ SumFunctionOnSet(fun, S) = fun[Some(S)] + SumFunctionOnSet(fun, S \ {Some(S)})
<1>1. PICK g : Sums(fun, S, g) /\ \A T \in SUBSET S : SumFunctionOnSet(fun, T) = g[T]
  BY SumTable
<1>2. \A T \in SUBSET S : g[T] = Step(fun, g, T)
  BY <1>1 DEF Sums
<1>3. g[{}] = 0 /\ {} \in SUBSET S
  BY <1>2 DEF Step
<1>4. ASSUME S # {}
      PROVE  Some(S) \in S /\ g[S] = fun[Some(S)] + g[S \ {Some(S)}]
  BY <1>2, <1>4 DEF Step, Some
<1>5. S \in SUBSET S /\ S \ {Some(S)} \in SUBSET S
  OBVIOUS
<1> QED
  BY <1>1, <1>3, <1>4, <1>5

(* Induction on the subsets of a finite set: a smallest one is free of     *)
(* what makes it a member once it loses any element.                       *)
LEMMA SmallestSet ==
    ASSUME NEW S, IsFiniteSet(S), NEW B \in SUBSET SUBSET S, B # {}
    PROVE  \E T \in B : \A x \in T : T \ {x} \notin B
<1> DEFINE Sizes == {Cardinality(T) : T \in B}
<1>1. \A T \in B : IsFiniteSet(T) /\ Cardinality(T) \in Nat
  BY FS_Subset, FS_CardinalityType
<1>2. Sizes \in SUBSET Nat /\ Sizes # {}
  BY <1>1
<1>3. PICK n \in Sizes : \A m \in Sizes : n <= m
  BY <1>2, LeastNumber
<1>4. PICK T \in B : Cardinality(T) = n
  BY <1>3
<1> HIDE DEF Sizes
<1>5. n \in Nat /\ \A m \in Sizes : n <= m
  BY <1>2, <1>3
<1>6. ASSUME NEW x \in T, T \ {x} \in B
      PROVE  FALSE
  <2>1. Cardinality(T \ {x}) = n - 1
    BY <1>1, <1>4, FS_RemoveElement
  <2>2. Cardinality(T \ {x}) \in Sizes
    BY <1>6 DEF Sizes
  <2> QED
    BY <1>5, <2>1, <2>2
<1> QED
  BY <1>4, <1>6

LEMMA SumNat ==
    ASSUME NEW S, IsFiniteSet(S), NEW fun, \A x \in S : fun[x] \in Nat
    PROVE  SumFunctionOnSet(fun, S) \in Nat
<1> DEFINE Bad == {T \in SUBSET S : SumFunctionOnSet(fun, T) \notin Nat}
<1> SUFFICES ASSUME Bad # {} PROVE FALSE
  OBVIOUS
<1>1. PICK T \in Bad : \A x \in T : T \ {x} \notin Bad
  BY SmallestSet
<1>2. T \in SUBSET S /\ IsFiniteSet(T)
  BY FS_Subset
<1>3. T # {}
  <2>1. SumFunctionOnSet(fun, {}) = 0
    BY <1>2, SumStep
  <2> QED
    BY <2>1
<1>4. Some(T) \in T /\ SumFunctionOnSet(fun, T) = fun[Some(T)] + SumFunctionOnSet(fun, T \ {Some(T)})
  BY <1>2, <1>3, SumStep
<1>5. SumFunctionOnSet(fun, T \ {Some(T)}) \in Nat
  BY <1>1, <1>2, <1>4
<1>6. fun[Some(T)] \in Nat
  BY <1>2, <1>4
<1>7. SumFunctionOnSet(fun, T) \in Nat
  BY <1>4, <1>5, <1>6
<1> QED
  BY <1>7

(* Any element can be taken out of a sum.                                  *)
LEMMA SumRemove ==
    ASSUME NEW S, IsFiniteSet(S), NEW fun, \A x \in S : fun[x] \in Nat, NEW a \in S
    PROVE  SumFunctionOnSet(fun, S) = fun[a] + SumFunctionOnSet(fun, S \ {a})
<1> DEFINE Apart(T, x) == SumFunctionOnSet(fun, T) = fun[x] + SumFunctionOnSet(fun, T \ {x})
           Bad == {T \in SUBSET S : \E x \in T : ~ Apart(T, x)}
<1> SUFFICES ASSUME Bad # {} PROVE FALSE
  OBVIOUS
<1>1. PICK T \in Bad : \A x \in T : T \ {x} \notin Bad
  BY SmallestSet
<1>2. PICK x \in T : ~ Apart(T, x)
  OBVIOUS
<1>3. T \in SUBSET S /\ IsFiniteSet(T) /\ T # {}
  BY <1>2, FS_Subset
<1> DEFINE y == Some(T)
           rest == (T \ {x}) \ {y}
<1>4. y \in T /\ Apart(T, y)
  BY <1>3, SumStep
<1> HIDE DEF y
<1>5. x # y
  BY <1>2, <1>4
<1>6. \A z \in T : \A w \in T \ {z} : Apart(T \ {z}, w)
  BY <1>1, <1>3
<1>7. Apart(T \ {y}, x) /\ Apart(T \ {x}, y)
  BY <1>4, <1>5, <1>6
<1>8. (T \ {y}) \ {x} = rest
  OBVIOUS
<1>9. fun[x] \in Nat /\ fun[y] \in Nat
  BY <1>3, <1>4
<1>10. SumFunctionOnSet(fun, rest) \in Nat
  <2>1. rest \in SUBSET S /\ IsFiniteSet(rest)
    BY <1>3, FS_Subset
  <2> HIDE DEF rest
  <2> QED
    BY <2>1, SumNat
<1>11. SumFunctionOnSet(fun, T) = fun[x] + SumFunctionOnSet(fun, T \ {x})
  <2>1. SumFunctionOnSet(fun, T) = fun[y] + (fun[x] + SumFunctionOnSet(fun, rest))
    BY <1>4, <1>7, <1>8
  <2>2. SumFunctionOnSet(fun, T \ {x}) = fun[y] + SumFunctionOnSet(fun, rest)
    BY <1>7
  <2> HIDE DEF rest
  <2> QED
    BY <2>1, <2>2, <1>9, <1>10
<1> QED
  BY <1>2, <1>11

(* Classes: the sizes of the classes of a finite set add up to its own.    *)
LEMMA SumOfClasses ==
    ASSUME NEW C, IsFiniteSet(C), NEW K, IsFiniteSet(K), NEW class,
           \A v \in K : class[v] \in SUBSET C,
           \A c \in C : \E v \in K : c \in class[v],
           \A v, w \in K : v # w => class[v] \intersect class[w] = {},
           NEW fun, \A v \in K : fun[v] = Cardinality(class[v])
    PROVE  SumFunctionOnSet(fun, K) = Cardinality(C)
<1> DEFINE All(T) == UNION {class[v] : v \in T}
           Bad == {T \in SUBSET K : SumFunctionOnSet(fun, T) # Cardinality(All(T))}
<1>1. \A v \in K : IsFiniteSet(class[v]) /\ Cardinality(class[v]) \in Nat
  BY FS_Subset, FS_CardinalityType
<1>2. Bad = {}
  <2> SUFFICES ASSUME Bad # {} PROVE FALSE
    OBVIOUS
  <2>1. PICK T \in Bad : \A x \in T : T \ {x} \notin Bad
    BY SmallestSet
  <2>2. T \in SUBSET K /\ IsFiniteSet(T)
    BY FS_Subset
  <2>3. T # {}
    <3>1. All({}) = {}
      OBVIOUS
    <3> QED
      BY <2>2, <3>1, SumStep, FS_EmptySet
  <2> DEFINE v == Some(T)
             rest == T \ {v}
  <2>4. v \in T /\ SumFunctionOnSet(fun, T) = fun[v] + SumFunctionOnSet(fun, rest)
    BY <2>2, <2>3, SumStep
  <2> HIDE DEF v
  <2>5. SumFunctionOnSet(fun, rest) = Cardinality(All(rest))
    BY <2>1, <2>2, <2>4
  <2>6. All(T) = class[v] \union All(rest)
    BY <2>4
  <2>7. class[v] \intersect All(rest) = {}
    BY <2>2, <2>4
  <2>8. IsFiniteSet(All(rest)) /\ Cardinality(All(rest)) \in Nat
    <3>1. All(rest) \in SUBSET C
      BY <2>2
    <3> QED
      BY <3>1, FS_Subset, FS_CardinalityType
  <2> HIDE DEF All
  <2>9. Cardinality(All(T)) = Cardinality(class[v]) + Cardinality(All(rest))
    <3>1. IsFiniteSet(class[v]) /\ Cardinality(class[v]) \in Nat
      BY <1>1, <2>2, <2>4
    <3>2. Cardinality(class[v] \union All(rest)) =
            Cardinality(class[v]) + Cardinality(All(rest)) - Cardinality(class[v] \intersect All(rest))
      BY <2>8, <3>1, FS_Union
    <3>3. Cardinality(class[v] \intersect All(rest)) = 0
      BY <2>7, FS_EmptySet
    <3> HIDE DEF rest
    <3> QED
      BY <2>6, <2>8, <3>1, <3>2, <3>3
  <2>10. fun[v] = Cardinality(class[v])
    BY <2>2, <2>4
  <2>11. SumFunctionOnSet(fun, T) = Cardinality(All(T))
    BY <2>4, <2>5, <2>9, <2>10
  <2> QED
    BY <2>11
<1>3. All(K) = C
  OBVIOUS
<1> QED
  BY <1>2, <1>3

LEMMA FirstNumbers ==
    ASSUME NEW n \in Nat
    PROVE  IsFiniteSet(1 .. n) /\ Cardinality(1 .. n) = n
BY FS_Interval

(* More elements, a larger sum.                                            *)
LEMMA SumMonotone ==
    ASSUME NEW S, IsFiniteSet(S), NEW fun, \A x \in S : fun[x] \in Nat, NEW A \in SUBSET S
    PROVE  SumFunctionOnSet(fun, A) <= SumFunctionOnSet(fun, S)
<1> DEFINE Smaller(T) == SumFunctionOnSet(fun, A) <= SumFunctionOnSet(fun, T)
           Bad == {T \in SUBSET S : A \subseteq T /\ ~ Smaller(T)}
<1>1. \A T \in SUBSET S : IsFiniteSet(T) /\ SumFunctionOnSet(fun, T) \in Nat
  <2> TAKE T \in SUBSET S
  <2>1. IsFiniteSet(T) /\ \A x \in T : fun[x] \in Nat
    BY FS_Subset
  <2> QED
    BY <2>1, SumNat
<1>2. Bad = {}
  <2> SUFFICES ASSUME Bad # {} PROVE FALSE
    OBVIOUS
  <2>0. Bad \in SUBSET SUBSET S
    OBVIOUS
  <2>1. PICK T \in Bad : \A x \in T : T \ {x} \notin Bad
    <3> HIDE DEF Bad
    <3> QED
      BY <2>0, SmallestSet
  <2>2. T \in SUBSET S /\ A \subseteq T /\ ~ Smaller(T)
    OBVIOUS
  <2>3. T # A
    BY <1>1, <2>2
  <2>4. PICK x \in T : x \notin A
    BY <2>2, <2>3
  <2>5. Smaller(T \ {x})
    BY <2>1, <2>2, <2>4
  <2>6. SumFunctionOnSet(fun, T) = fun[x] + SumFunctionOnSet(fun, T \ {x})
    BY <1>1, <2>2, SumRemove
  <2>7. SumFunctionOnSet(fun, T \ {x}) \in Nat /\ SumFunctionOnSet(fun, A) \in Nat /\ fun[x] \in Nat
    BY <1>1, <2>2
  <2>8. Smaller(T)
    BY <2>5, <2>6, <2>7
  <2> QED
    BY <2>2, <2>8
<1> QED
  BY <1>2

(* Of a decreasing function, no h values sum to more than the first h.     *)
LEMMA FirstAreLargest ==
    ASSUME NEW k \in Nat, NEW fun, \A i \in 1 .. k : fun[i] \in Nat,
           \A i, j \in 1 .. k : i <= j => fun[j] <= fun[i],
           NEW H \in SUBSET (1 .. k)
    PROVE  SumFunctionOnSet(fun, H) <= SumFunctionOnSet(fun, 1 .. Cardinality(H))
<1> DEFINE Sum(T) == SumFunctionOnSet(fun, T)
           Bad == {T \in SUBSET (1 .. k) : ~ (Sum(T) <= Sum(1 .. Cardinality(T)))}
<1>1. IsFiniteSet(1 .. k) /\ Cardinality(1 .. k) = k
  BY FS_Interval
<1>2. ASSUME NEW T \in SUBSET (1 .. k)
      PROVE  IsFiniteSet(T) /\ Cardinality(T) \in 0 .. k /\ Sum(T) \in Nat
  <2>1. IsFiniteSet(T) /\ Cardinality(T) <= k /\ Cardinality(T) \in Nat
    BY <1>1, FS_Subset, FS_CardinalityType
  <2>2. \A x \in T : fun[x] \in Nat
    OBVIOUS
  <2>3. Sum(T) \in Nat
    BY <2>1, <2>2, SumNat
  <2>4. Cardinality(T) \in 0 .. k
    BY <2>1
  <2> QED
    BY <2>1, <2>3, <2>4
<1> SUFFICES ASSUME Bad # {} PROVE FALSE
  OBVIOUS
<1>3. PICK T \in Bad : \A x \in T : T \ {x} \notin Bad
  BY <1>1, SmallestSet
<1>4. T \in SUBSET (1 .. k) /\ ~ (Sum(T) <= Sum(1 .. Cardinality(T)))
  OBVIOUS
<1>5. PICK n \in 0 .. k : n = Cardinality(T) /\ IsFiniteSet(T) /\ Sum(T) \in Nat
  BY <1>2, <1>4
<1>6. n # 0
  <2> SUFFICES ASSUME n = 0 PROVE FALSE
    OBVIOUS
  <2>1. T = {}
    BY <1>5, FS_EmptySet
  <2>2. 1 .. n = T
    BY <2>1
  <2>3. Sum(T) <= Sum(T)
    BY <1>5
  <2> QED
    BY <1>4, <1>5, <2>2, <2>3
<1>7. PICK x \in T : n <= x
  <2> SUFFICES ASSUME \A x \in T : ~ (n <= x) PROVE FALSE
    OBVIOUS
  <2>1. T \in SUBSET (1 .. n - 1)
    BY <1>4, <1>5
  <2>2. IsFiniteSet(1 .. n - 1) /\ Cardinality(1 .. n - 1) = n - 1
    <3>1. n - 1 \in Nat
      BY <1>6
    <3> QED
      BY <3>1, FirstNumbers
  <2>3. Cardinality(T) <= Cardinality(1 .. n - 1)
    BY <2>1, <2>2, FS_Subset
  <2> QED
    BY <1>5, <2>2, <2>3
<1>8. Sum(T) = fun[x] + Sum(T \ {x})
  <2>1. \A y \in T : fun[y] \in Nat
    BY <1>4
  <2> QED
    BY <1>5, <2>1, SumRemove
<1>9. Cardinality(T \ {x}) = n - 1
  BY <1>5, FS_RemoveElement
<1>10. Sum(T \ {x}) <= Sum(1 .. n - 1)
  BY <1>3, <1>4, <1>9
<1>11. Sum(1 .. n) = fun[n] + Sum(1 .. n - 1)
  <2>1. n \in 1 .. n /\ (1 .. n) \ {n} = 1 .. n - 1
    BY <1>5, <1>6
  <2>2. IsFiniteSet(1 .. n) /\ \A y \in 1 .. n : fun[y] \in Nat
    BY <1>5, FS_Interval
  <2> QED
    BY <2>1, <2>2, SumRemove
<1>12. fun[x] <= fun[n] /\ fun[x] \in Nat /\ fun[n] \in Nat
  BY <1>4, <1>5, <1>6, <1>7
<1>13. Sum(T \ {x}) \in Nat /\ Sum(1 .. n - 1) \in Nat
  <2>1. T \ {x} \in SUBSET (1 .. k) /\ 1 .. n - 1 \in SUBSET (1 .. k)
    BY <1>4, <1>5
  <2> QED
    BY <1>2, <2>1
<1>14. Sum(T) <= Sum(1 .. n)
  <2> HIDE DEF Sum
  <2> QED
    BY <1>8, <1>10, <1>11, <1>12, <1>13
<1> QED
  BY <1>4, <1>5, <1>14

=============================================================================
