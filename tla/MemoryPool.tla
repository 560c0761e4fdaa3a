------------------------------ MODULE MemoryPool ------------------------------
(***************************************************************************)
(* The memory of an ObjectPool: MemoryPool.cpp with the headers of         *)
(* MemoryPool.h, a lock-free list of free blocks of one size, shared by    *)
(* all threads.  A block carries a MemoryHeader; its allocSize is 0 while  *)
(* the block is in the list.                                               *)
(*                                                                         *)
(* Where _STOMP is defined ObjectPool goes by StompAllocator instead,      *)
(* which maps and unmaps pages for every object.  Types.h defines it at    *)
(* this commit; stomp says which of the two builds runs.                   *)
(*                                                                         *)
(* One step is one access to shared memory, except that the two counters,  *)
(* which nothing reads, change in one step.  Allocating ends with          *)
(* AttachHeader; Push begins after the destructor ran.                     *)
(***************************************************************************)
EXTENDS Integers, Sequences

CONSTANTS Threads, Blocks, None,
          AllocSize   \* s_allocSize

ASSUME MemoryPoolAssumption == AllocSize \in Nat \ {0} /\ None \notin Blocks \cup Nat

VARIABLES
    stomp,    \* _STOMP is defined
    header,   \* allocSize in the header of each block; None while it is not allocated
    list,     \* _header, the interlocked list; the first entry is on top
    counts,   \* _useCount and _reserveCount
    mem,      \* what each thread is doing in the pool
    popCrash  \* the assertion of Pop has failed

memVars == <<stomp, header, list, counts, mem, popCrash>>

MemIdle == [at |-> "idle", block |-> None]

MemInit == /\ stomp \in BOOLEAN
           /\ header = [b \in Blocks |-> None]
           /\ list = <<>>
           /\ counts = [use |-> 0, reserve |-> 0]
           /\ mem = [t \in Threads |-> MemIdle]
           /\ popCrash = FALSE

At(t, step, b) == mem' = [mem EXCEPT ![t] = [at |-> step, block |-> b]]

\* Pop finds a block in the list.
PopListed(t) ==
    /\ ~stomp /\ mem[t] = MemIdle /\ list # <<>>
    /\ list' = Tail(list)
    /\ popCrash' = (popCrash \/ header[Head(list)] # 0)
    /\ At(t, "popped", Head(list))
    /\ UNCHANGED <<stomp, header, counts>>

\* Pop finds the list empty and allocates.  Nobody reads the new block's header
\* before AttachHeader; 0 stands for whatever is in it.
PopFresh(t) ==
    /\ ~stomp /\ mem[t] = MemIdle /\ list = <<>>
    /\ \E b \in Blocks : header[b] = None /\ At(t, "made", b)
                         /\ header' = [header EXCEPT ![b] = 0]
    /\ UNCHANGED <<stomp, list, counts, popCrash>>

\* StompAllocator::Alloc: fresh pages, full of zeros.
StompAlloc(t) ==
    /\ stomp /\ mem[t] = MemIdle
    /\ \E b \in Blocks : header[b] = None /\ At(t, "mapped", b)
                         /\ header' = [header EXCEPT ![b] = 0]
    /\ UNCHANGED <<stomp, list, counts, popCrash>>

\* The counters, AttachHeader, and the return of block b to the caller.
Deliver(t, b) ==
    /\ mem[t].at \in {"popped", "made", "mapped"} /\ b = mem[t].block
    /\ counts' = [use |-> counts.use + IF stomp THEN 0 ELSE 1,
                  reserve |-> counts.reserve - IF mem[t].at = "popped" THEN 1 ELSE 0]
    /\ header' = [header EXCEPT ![b] = AllocSize]
    /\ mem' = [mem EXCEPT ![t] = MemIdle]
    /\ UNCHANGED <<stomp, list, popCrash>>

\* Mutant: the header keeps the size of the block.
PushClearNot(t, b) ==
    /\ ~stomp /\ mem[t] = MemIdle
    /\ At(t, "cleared", b)
    /\ UNCHANGED <<stomp, header, list, counts, popCrash>>

\* Push of block b: the header first, then the list, then the counters.
PushClear(t, b) ==
    /\ ~stomp /\ mem[t] = MemIdle
    /\ header' = [header EXCEPT ![b] = 0]
    /\ At(t, "cleared", b)
    /\ UNCHANGED <<stomp, list, counts, popCrash>>

PushLink(t) ==
    /\ mem[t].at = "cleared"
    /\ list' = <<mem[t].block>> \o list
    /\ At(t, "linked", mem[t].block)
    /\ UNCHANGED <<stomp, header, counts, popCrash>>

\* StompAllocator::Release of block b.
StompRelease(t, b) ==
    /\ stomp /\ mem[t] = MemIdle
    /\ header' = [header EXCEPT ![b] = None]
    /\ UNCHANGED <<stomp, list, counts, mem, popCrash>>

\* Mutant: the block still counts as one in use.
PushCountKeepsUse(t) ==
    /\ mem[t].at = "linked"
    /\ counts' = [counts EXCEPT !.reserve = @ + 1]
    /\ mem' = [mem EXCEPT ![t] = MemIdle]
    /\ UNCHANGED <<stomp, header, list, popCrash>>

PushCount(t) ==
    /\ mem[t].at = "linked"
    /\ counts' = [use |-> counts.use - 1, reserve |-> counts.reserve + 1]
    /\ mem' = [mem EXCEPT ![t] = MemIdle]
    /\ UNCHANGED <<stomp, header, list, popCrash>>
=============================================================================
