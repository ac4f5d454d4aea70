----------------------------- MODULE MCChunking -----------------------------
(* Every call with small arguments, the invalid ones included.             *)
EXTENDS Chunking

CONSTANTS MaxTokens, MaxSize

MCInputs == [tokens : 0 .. MaxTokens, size : -1 .. MaxSize, overlap : -1 .. MaxSize + 1]

=============================================================================
