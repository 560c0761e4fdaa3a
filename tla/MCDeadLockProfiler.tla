-------------------------- MODULE MCDeadLockProfiler --------------------------
(* Three classes of locks, two objects of the first.                       *)
EXTENDS DeadLockProfiler
CONSTANTS a1, a2, b1, c1
MCClass == (a1 :> "A") @@ (a2 :> "A") @@ (b1 :> "B") @@ (c1 :> "C")
Symmetric == Permutations(Threads) \cup Permutations({a1, a2})
=============================================================================
