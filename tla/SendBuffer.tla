------------------------------ MODULE SendBuffer ------------------------------
(***************************************************************************)
(* SendBuffer.cpp: packets are written into chunks of 6000 bytes.  Each    *)
(* thread carves its packets out of its own chunk and takes another when   *)
(* the rest is too small.  A packet is a SendBuffer object, shared by      *)
(* every send queue it is in; it refers to its chunk, and the thread that  *)
(* drops the last reference to a chunk puts it back into the global pool.  *)
(* The SendBuffer objects themselves live in blocks of an ObjectPool, so a *)
(* block is the identity of a live object here (module MemoryPool).        *)
(*                                                                         *)
(* A shared_ptr is modelled by who refers: the step that takes away the    *)
(* last holder goes on to the deleter.  How many queues share a SendBuffer *)
(* is left out: once closed, any thread may drop the last reference.       *)
(***************************************************************************)
EXTENDS MemoryPool, FiniteSets

CONSTANTS Chunks,     \* chunks that may be created; a bound
          ChunkSize,  \* SEND_BUFFER_CHUNK_SIZE
          Sizes       \* sizes of packets, which nothing relates to ChunkSize

Packet == [owner : Chunks, from : Nat, size : Nat, closed : BOOLEAN]

ASSUME SendBufferAssumption ==
    /\ ChunkSize \in Nat /\ Sizes \subseteq Nat \ {0}
    /\ Threads \cap Blocks = {} /\ None \notin Chunks \cup Packet

VARIABLES
    pool,     \* GSendBufferManager._sendBufferChunks
    created,  \* chunks made by xnew
    tls,      \* LSendBufferChunk of each thread
    open,     \* _open of each chunk
    used,     \* _usedSize of each chunk
    buffer,   \* the live SendBuffer in each block, or None
    pc,       \* where a thread is, with the locals it still needs
    tooLarge, \* the assertion on the size of a packet has ended the program
    crash     \* any other assertion of SendBuffer.cpp has failed

vars == <<memVars, pool, created, tls, open, used, buffer, pc, crash, tooLarge>>

Idle == [at |-> "idle", size |-> 0, chunk |-> None, block |-> None]

Init == /\ MemInit
        /\ pool = <<>> /\ created = {}
        /\ tls = [t \in Threads |-> None]
        /\ open = [c \in Chunks |-> FALSE] /\ used = [c \in Chunks |-> 0]
        /\ buffer = [b \in Blocks |-> None]
        /\ pc = [t \in Threads |-> Idle] /\ crash = FALSE /\ tooLarge = FALSE

\* Thread t goes on at a step, with these locals.
Goto(t, step, size, chunk, block) ==
    pc' = [pc EXCEPT ![t] = [at |-> step, size |-> size, chunk |-> chunk, block |-> block]]

Live == {b \in Blocks : buffer[b] # None}

\* Thread t refers to chunk c, by LSendBufferChunk or by the result of Pop.
Mine(t, c) == tls[t] = c \/ (pc[t].at = "swap" /\ pc[t].chunk = c)

\* Mutant: the SendBuffer keeps a plain pointer to its chunk.
HoldersThreadsOnly(c) == {t \in Threads : Mine(t, c)}

\* Who refers to chunk c, apart from the pool and a deleter at work.
Holders(c) == {t \in Threads : Mine(t, c)} \cup {b \in Live : buffer[b].owner = c}

FreeSize(c) == ChunkSize - used[c]

-----------------------------------------------------------------------------
(* SendBufferManager::Open                                                 *)

Fits(t, n) == tls[t] # None /\ FreeSize(tls[t]) >= n

\* The thread looks at its own chunk.
Open(t, n) ==
    /\ pc[t] = Idle /\ mem[t] = MemIdle
    /\ crash' = (crash \/ (tls[t] # None /\ open[tls[t]]))
    /\ Goto(t, IF Fits(t, n) THEN "carve" ELSE "fetch", n, None, None)
    /\ UNCHANGED <<memVars, pool, created, tls, open, used, buffer, tooLarge>>

\* Pop, under the lock of the pool.
PopChunk(t) ==
    /\ pc[t].at = "fetch"
    /\ \/ /\ pool # <<>>
          /\ pool' = SubSeq(pool, 1, Len(pool) - 1)
          /\ Goto(t, "swap", pc[t].size, pool[Len(pool)], None)
          /\ UNCHANGED created
       \/ /\ pool = <<>>
          /\ \E c \in Chunks \ created :
                /\ created' = created \cup {c}
                /\ Goto(t, "swap", pc[t].size, c, None)
          /\ UNCHANGED pool
    /\ UNCHANGED <<memVars, tls, open, used, buffer, crash, tooLarge>>

\* LSendBufferChunk = Pop(), which drops the chunk the thread had, and Reset.
Swap(t) ==
    /\ pc[t].at = "swap"
    /\ LET new == pc[t].chunk
           old == tls[t]
       IN  /\ tls'  = [tls EXCEPT ![t] = new]
           /\ open' = [open EXCEPT ![new] = FALSE]
           /\ used' = [used EXCEPT ![new] = 0]
           /\ IF old # None /\ Holders(old) = {t}
              THEN Goto(t, "recycle", pc[t].size, old, None)
              ELSE Goto(t, "carve", pc[t].size, None, None)
    /\ UNCHANGED <<memVars, pool, created, buffer, crash, tooLarge>>

\* The deleter of a chunk, PushGlobal, under the lock of the pool.  The thread then
\* goes on with Open, or with the block of the SendBuffer it was destroying.
PushGlobal(t) ==
    /\ pc[t].at = "recycle"
    /\ pool' = Append(pool, pc[t].chunk)
    /\ Goto(t, IF pc[t].block = None THEN "carve" ELSE "free", pc[t].size, None, pc[t].block)
    /\ UNCHANGED <<memVars, created, tls, open, used, buffer, crash, tooLarge>>

\* SendBufferChunk::Open: ASSERT_CRASH(allocSize <= SEND_BUFFER_CHUNK_SIZE) fails.
OpenTooLarge(t) ==
    /\ pc[t].at = "carve"
    /\ pc[t].size > ChunkSize
    /\ tooLarge' = TRUE
    /\ UNCHANGED <<memVars, pool, created, tls, open, used, buffer, pc, crash>>

\* SendBufferChunk::Open up to MakeShared: the chunk is open, a block is allocated.
OpenChunk(t) ==
    /\ pc[t].at = "carve"
    /\ pc[t].size <= ChunkSize
    /\ PopListed(t) \/ PopFresh(t) \/ StompAlloc(t)
    /\ crash' = (crash \/ open[tls[t]] \/ pc[t].size > FreeSize(tls[t]))
    /\ open' = [open EXCEPT ![tls[t]] = TRUE]
    /\ Goto(t, "make", pc[t].size, None, None)
    /\ UNCHANGED <<pool, created, tls, used, buffer, tooLarge>>

\* The constructor of the SendBuffer; the thread serialises its packet into it.
MakeBuffer(t) ==
    /\ pc[t].at = "make"
    /\ \E b \in Blocks :
          /\ Deliver(t, b)
          /\ buffer' = [buffer EXCEPT ![b] = [owner |-> tls[t], from |-> used[tls[t]],
                                              size |-> pc[t].size, closed |-> FALSE]]
          /\ Goto(t, "write", pc[t].size, None, b)
    /\ UNCHANGED <<pool, created, tls, open, used, crash, tooLarge>>

\* Mutant: the chunk does not account for what was written.
CloseForgetsSize(t) ==
    /\ pc[t].at = "write"
    /\ open' = [open EXCEPT ![buffer[pc[t].block].owner] = FALSE]
    /\ buffer' = [buffer EXCEPT ![pc[t].block].closed = TRUE]
    /\ pc' = [pc EXCEPT ![t] = Idle]
    /\ UNCHANGED <<memVars, pool, created, tls, used, crash, tooLarge>>

\* SendBuffer::Close with the size it was opened with, as MakeSendBuffer does.
Close(t) ==
    /\ pc[t].at = "write"
    /\ LET c == buffer[pc[t].block].owner
       IN  /\ crash' = (crash \/ ~open[c])
           /\ open' = [open EXCEPT ![c] = FALSE]
           /\ used' = [used EXCEPT ![c] = @ + pc[t].size]
    /\ buffer' = [buffer EXCEPT ![pc[t].block].closed = TRUE]
    /\ pc' = [pc EXCEPT ![t] = Idle]
    /\ UNCHANGED <<memVars, pool, created, tls, tooLarge>>

-----------------------------------------------------------------------------
(* The last reference to a SendBuffer goes: ObjectPool<SendBuffer>::Push.  *)

\* ~SendBuffer drops the chunk.
Destroy(t, b) ==
    /\ pc[t] = Idle /\ mem[t] = MemIdle
    /\ b \in Live /\ buffer[b].closed
    /\ LET c == buffer[b].owner
       IN  IF Holders(c) = {b} THEN Goto(t, "recycle", 0, c, b)
                               ELSE Goto(t, "free", 0, None, b)
    /\ buffer' = [buffer EXCEPT ![b] = None]
    /\ UNCHANGED <<memVars, pool, created, tls, open, used, crash, tooLarge>>

\* Mutant: the thread forgets that it has given the block back.
FreeBlockAgain(t) ==
    /\ pc[t].at = "free"
    /\ PushClear(t, pc[t].block) \/ StompRelease(t, pc[t].block)
    /\ UNCHANGED <<pool, created, tls, open, used, buffer, pc, crash, tooLarge>>

\* The block goes back to where it came from.
FreeBlock(t) ==
    /\ pc[t].at = "free"
    /\ PushClear(t, pc[t].block) \/ StompRelease(t, pc[t].block)
    /\ pc' = [pc EXCEPT ![t] = Idle]
    /\ UNCHANGED <<pool, created, tls, open, used, buffer, crash, tooLarge>>

FreeStep(t) ==
    /\ PushLink(t) \/ PushCount(t)
    /\ UNCHANGED <<pool, created, tls, open, used, buffer, pc, crash, tooLarge>>

Next ==
    /\ ~tooLarge
    /\ \E t \in Threads :
          \/ \E n \in Sizes : Open(t, n)
          \/ PopChunk(t) \/ Swap(t) \/ PushGlobal(t)
          \/ OpenTooLarge(t) \/ OpenChunk(t) \/ MakeBuffer(t) \/ Close(t)
          \/ \E b \in Blocks : Destroy(t, b)
          \/ FreeBlock(t) \/ FreeStep(t)

Spec == Init /\ [][Next]_vars

-----------------------------------------------------------------------------

\* Two packets that somebody may still read or write never share a byte, and none
\* reaches beyond its chunk, however chunks are recycled in between.
NoSharedBytes ==
    \A a, b \in Live :
        /\ buffer[a].from + buffer[a].size <= ChunkSize
        /\ a # b /\ buffer[a].owner = buffer[b].owner =>
             \/ buffer[a].from + buffer[a].size <= buffer[b].from
             \/ buffer[b].from + buffer[b].size <= buffer[a].from

\* A chunk is never lost and never in two places: it is referred to, or one thread
\* is recycling it, or it is in the pool once; and no two threads carve from it.
ChunkInOnePlace ==
    \A c \in created :
        /\ Cardinality({i \in DOMAIN pool : pool[i] = c})
             + Cardinality({t \in Threads : pc[t].at = "recycle" /\ pc[t].chunk = c})
             + (IF \/ \E t \in Threads : Mine(t, c)
                   \/ \E b \in Live : buffer[b].owner = c THEN 1 ELSE 0) = 1
        /\ \A t, u \in Threads : Mine(t, c) /\ Mine(u, c) => t = u

\* An allocated block is never lost and never in two places: a live SendBuffer,
\* in one thread's hands, or in the list of free blocks once.
BlockInOnePlace ==
    \A b \in {b \in Blocks : header[b] # None} :
        Cardinality({i \in DOMAIN list : list[i] = b})
          + Cardinality({t \in Threads : mem[t].block = b /\ mem[t].at # "linked"})
          + Cardinality({t \in Threads : pc[t].block = b /\ pc[t].at # "write"})
          + (IF b \in Live THEN 1 ELSE 0) = 1

\* Whenever no thread is inside the pool its counters tell the truth; a build with
\* _STOMP does not use it.
CountersAgree ==
    ~stomp /\ (\A t \in Threads : pc[t] = Idle /\ mem[t] = MemIdle) =>
        counts = [use |-> Cardinality(Live), reserve |-> Len(list)]

\* Of the assertions of the two files only the one on the size can fail, and only in
\* a thread whose packet is larger than a whole chunk: a chunk is never opened twice
\* nor for more than it has left, and no block of the list carries a size.
NoOtherAssertionFails ==
    /\ ~crash /\ ~popCrash
    /\ tooLarge => \E t \in Threads : pc[t].at = "carve" /\ pc[t].size > ChunkSize

\* "allocSize <= SEND_BUFFER_CHUNK_SIZE" (SendBuffer.cpp:48): a packet fits a chunk.
PacketFitsChunk == ~tooLarge
=============================================================================
