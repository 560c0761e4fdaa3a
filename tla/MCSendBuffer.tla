----------------------------- MODULE MCSendBuffer -----------------------------
(* Threads, chunks and blocks are interchangeable.                         *)
EXTENDS SendBuffer
LOCAL INSTANCE TLC
Symmetric == Permutations(Threads) \cup Permutations(Chunks) \cup Permutations(Blocks)
=============================================================================
