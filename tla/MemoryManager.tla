---------------------------- MODULE MemoryManager ----------------------------
(***************************************************************************)
(* The constructor of MemoryManager (Memory.cpp): three loops make the     *)
(* pools and fill _poolTable, in which Allocate and Release look up the    *)
(* pool for a size (header included) with no further test.                 *)
(*                                                                         *)
(* One step is one turn of a loop.  The second and the third loop go on    *)
(* with the size the loop before has left.                                 *)
(***************************************************************************)
EXTENDS Naturals, Sequences

CONSTANTS Limits,         \* the bound of each loop: 1024, 2048, 4096
          Steps,          \* its step: 32, 128, 256
          MAX_ALLOC_SIZE,
          None            \* an entry that was never written

VARIABLES
    loop,        \* which loop runs; Len(Limits) + 1 when the constructor is done
    size,
    tableIndex,
    pools,       \* _pools: the block sizes
    poolTable    \* _poolTable: the block size of the pool for each size

vars == <<loop, size, tableIndex, pools, poolTable>>

Init == /\ loop = 1 /\ size = 32 /\ tableIndex = 0 /\ pools = <<>>
        /\ poolTable = [n \in 0..MAX_ALLOC_SIZE |-> None]

Done == loop > Len(Limits)

\* A turn: a pool of this size, and the entries up to it.
MakePool ==
    /\ ~Done /\ size <= Limits[loop]
    /\ pools' = Append(pools, size)
    /\ poolTable' = [n \in 0..MAX_ALLOC_SIZE |->
                        IF n \in tableIndex..size THEN size ELSE poolTable[n]]
    /\ tableIndex' = IF tableIndex <= size THEN size + 1 ELSE tableIndex
    /\ size' = size + Steps[loop]
    /\ UNCHANGED loop

\* The condition of the loop fails; size keeps its value.
EndLoop ==
    /\ ~Done /\ size > Limits[loop]
    /\ loop' = loop + 1
    /\ UNCHANGED <<size, tableIndex, pools, poolTable>>

Next == MakePool \/ EndLoop

Spec == Init /\ [][Next]_vars

\* Every size that Allocate and Release take to a pool has one that is large
\* enough: "0 ~ 4096" at the table, "up to 4096" at the third loop.
EverySizeHasAPool ==
    Done => \A n \in 0..MAX_ALLOC_SIZE : poolTable[n] # None /\ poolTable[n] >= n
=============================================================================
