--------------------------- MODULE ChunkingProofs ---------------------------
(* chunk_text loses no token, overlaps exactly and ends, for all inputs.   *)
EXTENDS Chunking, SequenceTheorems, TLAPS

(* An accepted call has a positive chunk size, an overlap below it, and so *)
(* a positive step.                                                        *)
LEMMA Accepted ==
    ASSUME NEW in \in Inputs, ~ Rejected(in)
    PROVE  /\ in.tokens \in Nat /\ in.size \in Nat \ {0} /\ in.overlap \in Nat
           /\ in.overlap < in.size
           /\ StepOf(in) \in Nat \ {0}
           /\ StepOf(in) + in.overlap = in.size
BY InputsAssumption DEF Rejected, StepOf

(* The window the loop appends, and what is covered once it is appended.   *)
LEMMA Window ==
    ASSUME Inv, pc = "loop", chunks' = Append(chunks, WindowFrom(input, start))
    PROVE  /\ WindowFrom(input, start) \in ChunkType
           /\ chunks' \in Seq(ChunkType)
           /\ Len(chunks') = Len(chunks) + 1
           /\ \A i \in DOMAIN chunks : i \in DOMAIN chunks' /\ chunks'[i] = chunks[i]
           /\ \A i \in DOMAIN chunks' : i \in DOMAIN chunks \/ i = Len(chunks')
           /\ Len(chunks') \in DOMAIN chunks'
           /\ chunks'[Len(chunks')] = WindowFrom(input, start)
<1>1. WindowFrom(input, start) \in ChunkType
  BY Accepted, InputsAssumption DEF Inv, TypeOK, WindowFrom, ChunkType
<1>2. chunks \in Seq(ChunkType)
  BY DEF Inv, TypeOK
<1> QED
  BY <1>1, <1>2

(* Every token up to the end of the appended window is covered.            *)
LEMMA Coverage ==
    ASSUME Inv, pc = "loop", chunks' = Append(chunks, WindowFrom(input, start))
    PROVE  \A t \in 0 .. start + WindowFrom(input, start).count - 1 : Covered(t)'
<1> DEFINE w == WindowFrom(input, start)
<1> SUFFICES ASSUME NEW t \in 0 .. start + w.count - 1
             PROVE  \E i \in DOMAIN chunks' :
                        chunks'[i].first <= t /\ t < chunks'[i].first + chunks'[i].count
  BY DEF Covered
<1>1. w \in ChunkType /\ w.first = start /\ start \in Nat
  BY Window DEF Inv, TypeOK, WindowFrom
<1>2. CASE start <= t
  <2>1. w.first <= t /\ t < w.first + w.count
    BY <1>1, <1>2 DEF ChunkType
  <2> QED
    BY <2>1, Window
<1>3. CASE t < start
  <2>1. chunks # <<>> /\ t \in 0 .. start + input.overlap - 1
    BY <1>1, <1>3, Accepted DEF Inv, TypeOK, LoopInv
  <2>2. Covered(t)
    BY <2>1 DEF Inv, LoopInv
  <2>3. PICK i \in DOMAIN chunks : chunks[i].first <= t /\ t < chunks[i].first + chunks[i].count
    BY <2>2 DEF Covered
  <2> QED
    BY <2>3, Window
<1> QED
  BY <1>1, <1>2, <1>3 DEF ChunkType

LEMMA InitInv == Init => Inv
BY DEF Init, Inv, TypeOK, LoopInv, EveryTokenCovered, OverlapsExactly, IndicesContiguous

LEMMA CallInv ==
    ASSUME Inv, NEW in \in Inputs, Call(in)
    PROVE  Inv'
<1>1. TypeOK'
  BY InputsAssumption DEF Call, TypeOK, Rejected
<1>2. EveryTokenCovered'
  BY <1>1, InputsAssumption DEF Call, EveryTokenCovered, TypeOK
<1>3. LoopInv' /\ OverlapsExactly' /\ IndicesContiguous'
  BY DEF Call, LoopInv, OverlapsExactly, IndicesContiguous
<1> QED
  BY <1>1, <1>2, <1>3 DEF Inv

LEMMA IterateInv ==
    ASSUME Inv, Iterate
    PROVE  Inv'
<1> DEFINE w == WindowFrom(input, start)
<1>0. pc = "loop" /\ input' = input /\ chunks' = Append(chunks, w)
  BY DEF Iterate
<1>1. input \in Inputs /\ ~ Rejected(input) /\ start \in Nat /\ start < input.tokens
  BY <1>0 DEF Inv, TypeOK
<1>2. w = [index |-> index, first |-> start,
           count |-> IF start + input.size <= input.tokens THEN input.size
                     ELSE input.tokens - start]
  BY DEF WindowFrom
<1>3. /\ index \in Nat /\ index = Len(chunks)
      /\ \A i \in DOMAIN chunks : chunks[i].count = input.size
      /\ chunks = <<>> => start = 0
      /\ chunks # <<>> => /\ start = chunks[Len(chunks)].first + StepOf(input)
                          /\ start + input.overlap < input.tokens
  BY <1>0 DEF Inv, TypeOK, LoopInv
<1>4. TypeOK'
  BY <1>0, <1>1, Window, Accepted DEF Iterate, Inv, TypeOK, LastWindow, Rejected
<1>5. IndicesContiguous'
  BY <1>0, <1>2, <1>3, Window DEF Inv, IndicesContiguous
<1>6. OverlapsExactly'
  <2> SUFFICES ASSUME NEW i \in DOMAIN chunks'
               PROVE  /\ chunks'[i].count <= input.size
                      /\ i > 1 => /\ chunks'[i].first + input.overlap
                                        = chunks'[i - 1].first + chunks'[i - 1].count
                                  /\ chunks'[i].count > input.overlap
    BY <1>0 DEF OverlapsExactly
  <2>1. CASE i \in DOMAIN chunks
    <3>1. i > 1 => i - 1 \in DOMAIN chunks
      BY <2>1 DEF Inv, TypeOK
    <3> QED
      BY <2>1, <3>1, <1>0, Window DEF Inv, OverlapsExactly
  <2>2. CASE i = Len(chunks')
    <3>1. chunks'[i] = w /\ i = Len(chunks) + 1 /\ Len(chunks) \in Nat
      BY <2>2, <1>0, Window DEF Inv, TypeOK
    <3>2. w.count <= input.size
      BY <1>1, <1>2, Accepted
    <3>3. ASSUME i > 1
          PROVE  /\ w.first + input.overlap = chunks'[i - 1].first + chunks'[i - 1].count
                 /\ w.count > input.overlap
      <4>1. Len(chunks) \in DOMAIN chunks /\ chunks # <<>> /\ i - 1 = Len(chunks)
        BY <3>1, <3>3 DEF Inv, TypeOK
      <4>2. chunks'[i - 1] = chunks[Len(chunks)] /\ chunks[Len(chunks)].count = input.size
        BY <4>1, <1>0, <1>3, Window
      <4>3. chunks[Len(chunks)] \in ChunkType
        BY <4>1 DEF Inv, TypeOK
      <4>4. chunks[Len(chunks)].first \in Nat
        BY <4>3 DEF ChunkType
      <4> QED
        BY <4>1, <4>2, <4>4, <1>1, <1>2, <1>3, Accepted
    <3> QED
      BY <3>1, <3>2, <3>3
  <2> QED
    BY <2>1, <2>2, <1>0, Window
<1>7. EveryTokenCovered'
  <2>1. CASE LastWindow(input, start)
    <3>1. start + w.count = input.tokens
      BY <2>1, <1>1, <1>2, Accepted DEF LastWindow
    <3>2. \A t \in 0 .. start + w.count - 1 : Covered(t)'
      BY <1>0, Coverage
    <3>3. \A t \in 0 .. input'.tokens - 1 : Covered(t)'
      <4> TAKE t \in 0 .. input'.tokens - 1
      <4>1. /\ input'.tokens = start + w.count /\ input'.tokens \in Nat
            /\ start \in Nat /\ w.count \in Nat
        BY <3>1, <1>0, <1>1, <1>2, Accepted
      <4> HIDE DEF w
      <4>2. t \in 0 .. start + w.count - 1
        BY <4>1
      <4> QED
        BY <3>2, <4>2
    <3> QED
      BY <3>3 DEF EveryTokenCovered
  <2>2. CASE ~ LastWindow(input, start)
    BY <2>2, <1>0 DEF Iterate, EveryTokenCovered
  <2> QED
    BY <2>1, <2>2
<1>8. LoopInv'
  <2>1. CASE LastWindow(input, start)
    BY <2>1 DEF Iterate, LoopInv
  <2>2. CASE ~ LastWindow(input, start)
    <3>1. /\ start' = start + StepOf(input) /\ index' = index + 1
          /\ w.count = input.size /\ w.first = start
          /\ start + input.size < input.tokens
      BY <2>2, <1>1, <1>2, Accepted DEF Iterate, LastWindow
    <3>2. index' = Len(chunks') /\ chunks' # <<>>
      BY <3>1, <1>0, <1>3, Window DEF Inv, TypeOK
    <3>3. \A i \in DOMAIN chunks' : chunks'[i].count = input.size
      BY <3>1, <1>0, <1>3, Window
    <3>4. start' = chunks'[Len(chunks')].first + StepOf(input)
      BY <3>1, <1>0, Window
    <3>5. start' + input.overlap = start + w.count
      BY <3>1, <1>1, Accepted
    <3>6. start' + input.overlap < input.tokens
      BY <3>1, <3>5
    <3>7. \A t \in 0 .. start + w.count - 1 : Covered(t)'
      BY <1>0, Coverage
    <3>8. \A t \in 0 .. start' + input'.overlap - 1 : Covered(t)'
      <4> TAKE t \in 0 .. start' + input'.overlap - 1
      <4>1. t \in 0 .. start + w.count - 1
        BY <3>1, <3>5, <1>0, <1>1, Accepted
      <4> QED
        BY <3>7, <4>1
    <3> QED
      BY <3>2, <3>3, <3>4, <3>6, <3>8, <1>0 DEF LoopInv
  <2> QED
    BY <2>1, <2>2
<1> QED
  BY <1>4, <1>5, <1>6, <1>7, <1>8 DEF Inv

LEMMA StutterInv ==
    ASSUME Inv, UNCHANGED vars
    PROVE  Inv'
BY DEF vars, Inv, TypeOK, LoopInv, Covered, EveryTokenCovered, OverlapsExactly, IndicesContiguous

(* The loop invariant, for texts of any length and all chunk sizes.        *)
THEOREM LoopInvariant == Spec => []Inv
<1>1. Inv /\ [Next]_vars => Inv'
  BY CallInv, IterateInv, StutterInv DEF Next
<1> QED
  BY <1>1, InitInv, PTL DEF Spec

(* Every variable of chunk_text has its type, for all inputs.              *)
THEOREM Typed == Spec => []TypeOK
<1>1. Inv => TypeOK
  BY DEF Inv
<1> QED
  BY <1>1, LoopInvariant, PTL

(* chunk_text returns every token of the text in some chunk.               *)
THEOREM NoTokenLost == Spec => []EveryTokenCovered
<1>1. Inv => EveryTokenCovered
  BY DEF Inv
<1> QED
  BY <1>1, LoopInvariant, PTL

(* Neighbouring chunks share exactly overlap_tokens tokens, and none is    *)
(* contained in the one before.                                            *)
THEOREM ExactOverlap == Spec => []OverlapsExactly
<1>1. Inv => OverlapsExactly
  BY DEF Inv
<1> QED
  BY <1>1, LoopInvariant, PTL

(* Each turn of the loop of chunk_text brings it closer to the end of the  *)
(* text, which bounds the number of turns.                                 *)
THEOREM LoopMovesOn == Spec => Progress
<1>1. ASSUME Inv, [Next]_vars
      PROVE  [MovesOn]_vars
  <2>1. CASE Iterate
    BY <1>1, <2>1, Accepted DEF Iterate, MovesOn, Inv, TypeOK, LastWindow, StepOf
  <2>2. CASE \E in \in Inputs : Call(in)
    BY <2>2 DEF Call, MovesOn
  <2> QED
    BY <1>1, <2>1, <2>2 DEF Next
<1> QED
  BY <1>1, LoopInvariant, PTL DEF Spec, Progress

-----------------------------------------------------------------------------
(* The closed form.                                                        *)

LEMMA Quotient ==
    ASSUME NEW a \in Int, NEW b \in Nat \ {0}, NEW q \in Int, q * b <= a, a < (q + 1) * b
    PROVE  a \div b = q
BY Z3

(* A text that ends in the window n steps from its beginning, and not in   *)
(* the one before, has n + 1 windows.                                      *)
LEMMA WindowCount ==
    ASSUME NEW in \in Inputs, ~ Rejected(in), in.tokens > 0, NEW n \in Nat,
           n * StepOf(in) + in.size >= in.tokens,
           n > 0 => (n - 1) * StepOf(in) + in.size < in.tokens
    PROVE  CountFor(in) = n + 1
<1> DEFINE step == StepOf(in)
           rest == in.tokens - in.size
<1>1. in.tokens \in Nat /\ in.size \in Nat \ {0} /\ step \in Nat \ {0} /\ rest \in Int
  BY Accepted
<1> HIDE DEF step
<1>2. n * step \in Nat /\ (n > 0 => (n - 1) * step \in Nat) /\ (n - 1) * step = n * step - step
  BY <1>1, Z3
<1>3. CASE in.tokens <= in.size
  <2>1. n = 0
    BY <1>1, <1>2, <1>3 DEF step
  <2>2. CountFor(in) = 1
    BY <1>1, <1>3 DEF CountFor
  <2> QED
    BY <2>1, <2>2
<1>4. CASE in.tokens > in.size
  <2>1. n > 0
    BY <1>1, <1>4 DEF step
  <2>2. n * step <= (rest + step) - 1 /\ (rest + step) - 1 < n * step + step
    BY <1>1, <1>2, <2>1 DEF step
  <2>3. n * step + step = (n + 1) * step
    BY <1>1, Z3
  <2>4. ((rest + step) - 1) \div step = n
    <3> DEFINE m == (rest + step) - 1
    <3>1. m \in Int /\ n * step <= m /\ m < (n + 1) * step
      BY <1>1, <1>2, <2>2, <2>3
    <3> HIDE DEF m
    <3>2. m \div step = n
      BY <1>1, <3>1, Quotient
    <3> QED
      BY <3>2 DEF m
  <2>5. CountFor(in) = 1 + (((rest + step) - 1) \div step)
    BY <1>1, <1>4 DEF CountFor, step
  <2> QED
    BY <2>4, <2>5
<1> QED
  BY <1>1, <1>3, <1>4

LEMMA IterateFirsts ==
    ASSUME Inv, FirstsFit, Iterate
    PROVE  FirstsFit'
<1>1. /\ pc = "loop" /\ input' = input /\ chunks' = Append(chunks, WindowFrom(input, start))
      /\ index \in Nat /\ start = index * StepOf(input) /\ index = Len(chunks)
  BY DEF Iterate, Inv, TypeOK, LoopInv, FirstsFit
<1>2. StepOf(input) \in Nat
  BY <1>1, Accepted DEF Inv, TypeOK
<1>3. \A i \in DOMAIN chunks' : chunks'[i].first = (i - 1) * StepOf(input)
  <2> SUFFICES ASSUME NEW i \in DOMAIN chunks' PROVE chunks'[i].first = (i - 1) * StepOf(input)
    OBVIOUS
  <2>1. CASE i \in DOMAIN chunks
    BY <1>1, <2>1, Window DEF FirstsFit
  <2>2. CASE i = Len(chunks')
    <3>1. chunks'[i].first = start
      BY <1>1, <2>2, Window DEF WindowFrom
    <3>2. i - 1 = index
      BY <1>1, <2>2, Window
    <3> QED
      BY <1>1, <3>1, <3>2
  <2> QED
    BY <1>1, <2>1, <2>2, Window
<1>4. pc' = "loop" => start' = index' * StepOf(input)
  <2>1. (index + 1) * StepOf(input) = index * StepOf(input) + StepOf(input)
    BY <1>1, <1>2, Z3
  <2> QED
    BY <1>1, <1>2, <2>1 DEF Iterate
<1> QED
  BY <1>1, <1>3, <1>4 DEF FirstsFit

LEMMA IterateExact ==
    ASSUME Inv, FirstsFit, Iterate
    PROVE  MatchesReference'
<1> SUFFICES ASSUME pc' = "returned"
             PROVE  chunks' = [i \in 1 .. CountFor(input) |->
                       [index |-> i - 1,
                        first |-> (i - 1) * StepOf(input),
                        count |-> IF i < CountFor(input) THEN input.size
                                  ELSE input.tokens - (i - 1) * StepOf(input)]]
  BY DEF MatchesReference, Iterate
<1> DEFINE w == WindowFrom(input, start)
           n == index
           step == StepOf(input)
<1>1. /\ pc = "loop" /\ input' = input /\ chunks' = Append(chunks, w)
      /\ input \in Inputs /\ ~ Rejected(input) /\ start < input.tokens
      /\ n \in Nat /\ start = n * step /\ n = Len(chunks)
      /\ LastWindow(input, start)
  BY DEF Iterate, Inv, TypeOK, LoopInv, FirstsFit
<1>2. /\ input.tokens \in Nat /\ input.size \in Nat \ {0} /\ step \in Nat \ {0} /\ start \in Nat
      /\ input.overlap \in Nat /\ step + input.overlap = input.size
  BY <1>1, Accepted DEF Inv, TypeOK
<1>3. start + input.size >= input.tokens
  BY <1>1 DEF LastWindow
<1>4. n > 0 => (n - 1) * step + input.size < input.tokens
  <2> SUFFICES ASSUME n > 0 PROVE (n - 1) * step + input.size < input.tokens
    OBVIOUS
  <2>1. chunks # <<>>
    BY <1>1
  <2>2. start + input.overlap < input.tokens
    BY <1>1, <2>1 DEF Inv, LoopInv
  <2>3. (n - 1) * step = n * step - step
    <3>1. n \in Int /\ step \in Int
      BY <1>1, <1>2
    <3> HIDE DEF n, step
    <3> QED
      BY <3>1, Z3
  <2> QED
    BY <1>1, <1>2, <2>2, <2>3
<1>5. CountFor(input) = n + 1
  <2>1. n * StepOf(input) + input.size >= input.tokens /\ input.tokens > 0
    BY <1>1, <1>2, <1>3
  <2>2. n > 0 => (n - 1) * StepOf(input) + input.size < input.tokens
    BY <1>4
  <2>3. input \in Inputs /\ ~ Rejected(input) /\ n \in Nat
    BY <1>1
  <2> HIDE DEF n
  <2> QED
    BY <2>1, <2>2, <2>3, WindowCount
<1>6. /\ chunks' \in Seq(ChunkType) /\ Len(chunks') = n + 1 /\ DOMAIN chunks' = 1 .. n + 1
      /\ \A i \in 1 .. n + 1 : chunks'[i] \in ChunkType
  <2>1. chunks' \in Seq(ChunkType) /\ Len(chunks') = n + 1
    BY <1>1, Window
  <2> QED
    BY <2>1, <1>1
<1>7. ASSUME NEW i \in 1 .. n + 1
      PROVE  /\ chunks'[i].index = i - 1
             /\ chunks'[i].first = (i - 1) * step
             /\ chunks'[i].count = IF i < n + 1 THEN input.size ELSE input.tokens - (i - 1) * step
  <2>1. chunks'[i].index = i - 1
    BY <1>6, IterateInv DEF Inv, IndicesContiguous
  <2>2. chunks'[i].first = (i - 1) * step
    BY <1>1, <1>6, IterateFirsts DEF FirstsFit
  <2>3. CASE i < n + 1
    <3>1. i \in DOMAIN chunks
      BY <1>1, <2>3 DEF Inv, TypeOK
    <3>2. chunks'[i].count = input.size
      BY <1>1, <3>1, Window DEF Inv, LoopInv
    <3> QED
      BY <2>1, <2>2, <2>3, <3>2
  <2>4. CASE i = n + 1
    <3>1. chunks'[i] = w
      BY <1>1, <1>6, <2>4, Window
    <3>2. w.count = input.tokens - start
      BY <1>2, <1>3 DEF WindowFrom
    <3>3. (i - 1) * step = start
      BY <1>1, <2>4
    <3> QED
      BY <1>1, <2>1, <2>2, <2>4, <3>1, <3>2, <3>3
  <2> QED
    BY <1>1, <2>3, <2>4
<1>8. \A i \in 1 .. n + 1 :
        chunks'[i] = [index |-> i - 1, first |-> (i - 1) * step,
                      count |-> IF i < n + 1 THEN input.size ELSE input.tokens - (i - 1) * step]
  BY <1>6, <1>7 DEF ChunkType
<1> QED
  BY <1>5, <1>6, <1>8

(* What chunk_text returns is the closed form, for texts of any length and *)
(* all sizes and overlaps.                                                 *)
THEOREM ClosedForm == Spec => []MatchesReference
<1>1. Init => ExactInv
  BY InitInv DEF Init, ExactInv, FirstsFit, MatchesReference
<1>2. ExactInv /\ [Next]_vars => ExactInv'
  <2> SUFFICES ASSUME ExactInv, [Next]_vars PROVE ExactInv'
    OBVIOUS
  <2>1. ASSUME NEW in \in Inputs, Call(in) PROVE ExactInv'
    <3>1. FirstsFit'
      <4>1. chunks' = <<>> /\ start' = 0 /\ index' = 0 /\ input' = in
        BY <2>1 DEF Call
      <4>2. StepOf(in) \in Int
        BY InputsAssumption DEF StepOf
      <4> QED
        BY <4>1, <4>2 DEF FirstsFit
    <3>2. MatchesReference'
      <4> SUFFICES ASSUME pc' = "returned"
                   PROVE  chunks' = [i \in 1 .. CountFor(input') |->
                             [index |-> i - 1,
                              first |-> (i - 1) * StepOf(input'),
                              count |-> IF i < CountFor(input') THEN input'.size
                                        ELSE input'.tokens - (i - 1) * StepOf(input')]]
        BY DEF MatchesReference, CountFor, StepOf
      <4>1. input' = in /\ in.tokens = 0 /\ chunks' = <<>>
        BY <2>1 DEF Call
      <4>2. CountFor(input') = 0
        BY <4>1 DEF CountFor
      <4> QED
        BY <4>1, <4>2
    <3> QED
      BY <2>1, <3>1, <3>2, CallInv DEF ExactInv
  <2>2. CASE Iterate
    BY <2>2, IterateInv, IterateFirsts, IterateExact DEF ExactInv
  <2>3. CASE UNCHANGED vars
    BY <2>3, StutterInv DEF ExactInv, vars, FirstsFit, MatchesReference, CountFor, StepOf
  <2> QED
    BY <2>1, <2>2, <2>3 DEF Next
<1>3. ExactInv => MatchesReference
  BY DEF ExactInv
<1> QED
  BY <1>1, <1>2, <1>3, PTL DEF Spec

=============================================================================
