------------------------------ MODULE Chunking ------------------------------
(***************************************************************************)
(* chunk_text of app/ingestion/chunking.py: a text is cut into windows of  *)
(* chunk_size_tokens tokens, each sharing overlap_tokens tokens with the   *)
(* one before.  A text is represented by how many tokens it has, a chunk   *)
(* by the window it holds, so that what a search can find of a document is *)
(* visible.  Every store keys chunks by their index, and ingestion relies  *)
(* on the call returning at all: it runs inside the transaction.           *)
(***************************************************************************)
EXTENDS Integers, Sequences

CONSTANT Inputs  \* the arguments of the calls

ASSUME InputsAssumption == Inputs \subseteq [tokens : Nat, size : Int, overlap : Int]

VARIABLES
    pc,      \* "idle", "loop", "returned" or "raised"
    input,   \* the arguments of the current or last call
    start,   \* the first token of the next window
    index,   \* the index of the next chunk
    chunks   \* the chunks made so far

vars == <<pc, input, start, index, chunks>>

(* Mutant: the overlap may be as long as a chunk.                          *)
RejectedButEqual(in) == in.size <= 0 \/ in.overlap < 0 \/ in.overlap > in.size

(* The three ValueErrors.                                                  *)
Rejected(in) == in.size <= 0 \/ in.overlap < 0 \/ in.overlap >= in.size

StepOf(in) == in.size - in.overlap

(* tokens[start : start + size]: a slice ends with the list.               *)
WindowFrom(in, s) ==
    [index |-> index, first |-> s,
     count |-> IF s + in.size <= in.tokens THEN in.size ELSE in.tokens - s]

(* Mutant: a text is over only when a window would start past its end.     *)
LastWindowLate(in, s) == s + StepOf(in) >= in.tokens

(* Mutant: a text is over when only its overlap is left.                   *)
LastWindowSoon(in, s) == s + in.size >= in.tokens - in.overlap

(* Mutant: a window that ends with the text is not its last.               *)
LastWindowPast(in, s) == s + in.size > in.tokens

LastWindow(in, s) == s + in.size >= in.tokens

Init ==
    /\ pc = "idle"
    /\ input \in Inputs
    /\ start = 0
    /\ index = 0
    /\ chunks = <<>>

Call(in) ==
    /\ pc # "loop"
    /\ input' = in
    /\ pc' = CASE Rejected(in)                     -> "raised"
               [] ~ Rejected(in) /\ in.tokens = 0 -> "returned"
               [] OTHER                            -> "loop"
    /\ start' = 0
    /\ index' = 0
    /\ chunks' = <<>>

(* Mutant: windows do not overlap.                                         *)
IterateBySize ==
    /\ pc = "loop"
    /\ chunks' = Append(chunks, WindowFrom(input, start))
    /\ IF LastWindow(input, start)
       THEN pc' = "returned" /\ UNCHANGED <<start, index>>
       ELSE /\ start' = start + input.size
            /\ index' = index + 1
            /\ UNCHANGED pc
    /\ UNCHANGED input

Iterate ==
    /\ pc = "loop"
    /\ chunks' = Append(chunks, WindowFrom(input, start))
    /\ IF LastWindow(input, start)
       THEN pc' = "returned" /\ UNCHANGED <<start, index>>
       ELSE /\ start' = start + StepOf(input)
            /\ index' = index + 1
            /\ UNCHANGED pc
    /\ UNCHANGED input

Next == (\E in \in Inputs : Call(in)) \/ Iterate

Spec == Init /\ [][Next]_vars

-----------------------------------------------------------------------------

ChunkType == [index : Nat, first : Nat, count : Nat \ {0}]

(* Every variable has its type; a window starts inside the text and is not *)
(* empty.                                                                  *)
TypeOK ==
    /\ pc \in {"idle", "loop", "returned", "raised"}
    /\ input \in Inputs
    /\ start \in Nat
    /\ index \in Nat
    /\ chunks \in Seq(ChunkType)
    /\ pc = "loop" => ~ Rejected(input) /\ start < input.tokens

Covered(t) == \E i \in DOMAIN chunks :
    chunks[i].first <= t /\ t < chunks[i].first + chunks[i].count

(* Nothing of an accepted text is lost: every token is in a chunk, so a    *)
(* search can find it.                                                     *)
EveryTokenCovered ==
    pc = "returned" => \A t \in 0 .. input.tokens - 1 : Covered(t)

(* A chunk holds at most chunk_size_tokens, shares exactly overlap_tokens  *)
(* with the next, and the next adds something to it: the loop neither      *)
(* skips ahead nor appends a chunk the one before already contains.        *)
OverlapsExactly ==
    \A i \in DOMAIN chunks :
        /\ chunks[i].count <= input.size
        /\ i > 1 => /\ chunks[i].first + input.overlap
                            = chunks[i - 1].first + chunks[i - 1].count
                    /\ chunks[i].count > input.overlap

(* Each turn of the loop moves on or ends it, so that the call returns:    *)
(* it runs on the event loop, with a transaction open.                     *)
MovesOn == pc = "loop" => (pc' = "loop" => start < start' /\ start' < input.tokens)

Progress == [][MovesOn]_vars

(* The reference: as many windows as it takes to reach the end, the i-th   *)
(* one step further than the (i - 1)-th.                                   *)
CountFor(in) ==
    IF in.tokens = 0 THEN 0
    ELSE IF in.tokens <= in.size THEN 1
         ELSE 1 + ((in.tokens - in.size) + StepOf(in) - 1) \div StepOf(in)

(* What chunk_text returns is what the closed form says, for each input:   *)
(* the number of chunks and where each one starts and ends.                *)
MatchesReference ==
    pc = "returned" =>
        chunks = [i \in 1 .. CountFor(input) |->
            [index |-> i - 1,
             first |-> (i - 1) * StepOf(input),
             count |-> IF i < CountFor(input) THEN input.size
                       ELSE input.tokens - (i - 1) * StepOf(input)]]

-----------------------------------------------------------------------------
(* The loop invariant behind these properties.                             *)

(* The indices are 0, 1, 2, ...: uuid5(document:index) gives every chunk   *)
(* an id of its own, and a shorter text reuses a prefix of the ids.        *)
IndicesContiguous == \A i \in DOMAIN chunks : chunks[i].index = i - 1

(* Until the last window, windows are full and the next starts overlap     *)
(* tokens before the end of the latest.                                    *)
LoopInv ==
    pc = "loop" =>
        /\ index = Len(chunks)
        /\ \A i \in DOMAIN chunks : chunks[i].count = input.size
        /\ chunks = <<>> => start = 0
        /\ chunks # <<>> =>
              /\ start = chunks[Len(chunks)].first + StepOf(input)
              /\ start + input.overlap < input.tokens
              /\ \A t \in 0 .. start + input.overlap - 1 : Covered(t)

(* The k-th window starts k - 1 steps into the text.                       *)
FirstsFit ==
    /\ \A i \in DOMAIN chunks : chunks[i].first = (i - 1) * StepOf(input)
    /\ pc = "loop" => start = index * StepOf(input)

Inv == TypeOK /\ LoopInv /\ EveryTokenCovered /\ OverlapsExactly /\ IndicesContiguous

ExactInv == Inv /\ FirstsFit /\ MatchesReference

=============================================================================
