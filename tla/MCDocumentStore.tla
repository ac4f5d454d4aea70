-------------------------- MODULE MCDocumentStore --------------------------
(* Small instances of DocumentStore for TLC.                               *)
EXTENDS DocumentStore, TLC

CONSTANTS r1, r2, d1, d2

MCSymmetry == Permutations(Requests)

(* "short" and "tagged" are the same text with other attributes; "long"    *)
(* is cut into two chunks; "other" is another short text.                  *)
MCChecksum == [b \in Bodies |->
    CASE b \in {"short", "tagged"} -> 1 [] b = "long" -> 2 [] OTHER -> 3]

MCChunkCount == [b \in Bodies |-> IF b = "long" THEN 2 ELSE 1]

NoSeeds == {}

(* Two seed runs over the same documents: dataset.target_chunks decides    *)
(* the order in which generate_documents shuffles them, dataset.seed and   *)
(* the index their ids, the index alone their contents.                    *)
Write(d, b) == [doc |-> d, body |-> b]

ShuffledSeeds ==
    { <<Write(d1, "short"), Write(d2, "long")>>,
      <<Write(d2, "long"), Write(d1, "short")>> }

OneSeed == { <<Write(d1, "short"), Write(d2, "long")>> }

=============================================================================
