--------------------------- MODULE SendBufferProofs ---------------------------
(***************************************************************************)
(* Proofs about SendBuffer, for any number of threads, chunks and packets: *)
(* a chunk and a block are in one place each, so that packets in use never *)
(* share bytes and no assertion but the one on their size fails.           *)
(***************************************************************************)
EXTENDS SendBuffer, FiniteSetTheorems, SequenceTheorems, TLAPS

MemLocal == [at : {"idle", "popped", "made", "mapped", "cleared", "linked"},
             block : Blocks \cup {None}]

Local == [at : {"idle", "fetch", "swap", "recycle", "carve", "make", "write", "free"},
          size : Nat, chunk : Chunks \cup {None}, block : Blocks \cup {None}]

TypeOK ==
    /\ stomp \in BOOLEAN /\ popCrash \in BOOLEAN /\ crash \in BOOLEAN
    /\ header \in [Blocks -> {None, 0, AllocSize}]
    /\ list \in Seq(Blocks)
    /\ mem \in [Threads -> MemLocal]
    /\ pool \in Seq(Chunks)
    /\ created \in SUBSET Chunks
    /\ tls \in [Threads -> Chunks \cup {None}]
    /\ open \in [Chunks -> BOOLEAN]
    /\ used \in [Chunks -> Nat]
    /\ buffer \in [Blocks -> Packet \cup {None}]
    /\ pc \in [Threads -> Local]

-----------------------------------------------------------------------------
(* The inductive invariant.                                                *)

\* Thread t is on its way to carve a packet, or carving it, out of its own chunk.
Carving(t) == pc[t].at \in {"carve", "make"} \/ (pc[t].at = "recycle" /\ pc[t].block = None)

\* What the program counters say about a thread's locals and its chunk.
Shape(t) ==
    /\ pc[t].at = "idle" => pc[t] = Idle
    /\ pc[t].at \in {"fetch", "swap", "carve", "make"} => pc[t].block = None
    /\ pc[t].at \in {"swap", "recycle"} => pc[t].chunk # None
    /\ pc[t].at = "free" => pc[t].block # None
    /\ Carving(t) => /\ tls[t] # None
                     /\ pc[t].size <= ChunkSize => used[tls[t]] + pc[t].size <= ChunkSize
    /\ pc[t].at = "make" => pc[t].size <= ChunkSize
    /\ tls[t] # None => (open[tls[t]] <=> pc[t].at \in {"make", "write"})
    /\ pc[t].at = "make" <=> mem[t].at \in {"popped", "made", "mapped"}
    /\ mem[t].at \in {"cleared", "linked"} => pc[t].at = "idle"
    /\ mem[t].at = "idle" => mem[t] = MemIdle
    /\ mem[t].at # "idle" => mem[t].block # None

\* The packet that a thread writes begins where its chunk is used up to.
Writes(t, b) == pc[t].at = "write" /\ pc[t].block = b

Writing(t) ==
    pc[t].at = "write" =>
        /\ pc[t].block \in Live /\ tls[t] # None
        /\ buffer[pc[t].block] = [owner |-> tls[t], from |-> used[tls[t]],
                                  size |-> pc[t].size, closed |-> FALSE]

\* Block b is in the hands of thread t.
Hand(t, b) ==
    \/ mem[t].at \in {"popped", "made", "mapped", "cleared"} /\ mem[t].block = b
    \/ pc[t].at \in {"recycle", "free"} /\ pc[t].block = b

Listed(b) == \E i \in 1..Len(list) : list[i] = b

ListInjective == \A i, j \in 1..Len(list) : list[i] = list[j] => i = j

BlockPlace(b) ==
    /\ Listed(b) => header[b] = 0 /\ b \notin Live /\ \A t \in Threads : ~Hand(t, b)
    /\ b \in Live => header[b] # None /\ \A t \in Threads : ~Hand(t, b)
    /\ \A t \in Threads : Hand(t, b) =>
         /\ header[b] # None
         /\ mem[t].at = "cleared" => header[b] = 0
         /\ \A u \in Threads : Hand(u, b) => u = t
    /\ header[b] # None => Listed(b) \/ b \in Live \/ \E t \in Threads : Hand(t, b)

\* The places where a chunk can be.
Pooled(c) == \E i \in 1..Len(pool) : pool[i] = c

PoolInjective == \A i, j \in 1..Len(pool) : pool[i] = pool[j] => i = j

Recycles(t, c) == pc[t].at = "recycle" /\ pc[t].chunk = c

Referred(c) == \E b \in Blocks : buffer[b] # None /\ buffer[b].owner = c

ChunkPlace(c) ==
    /\ Pooled(c) => /\ c \in created /\ ~Referred(c)
                    /\ \A t \in Threads : ~Mine(t, c) /\ ~Recycles(t, c)
    /\ Referred(c) => c \in created /\ \A t \in Threads : ~Recycles(t, c)
    /\ \A t, u \in Threads :
         /\ Mine(t, c) => c \in created /\ ~Recycles(u, c) /\ (Mine(u, c) => u = t)
         /\ Recycles(t, c) => c \in created /\ (Recycles(u, c) => u = t)
    /\ c \in created => \/ Pooled(c) \/ Referred(c)
                        \/ \E t \in Threads : Mine(t, c) \/ Recycles(t, c)

\* The chunk a thread is about to take is fresh.
Fresh(t) == pc[t].at = "swap" => tls[t] # pc[t].chunk /\ ~Referred(pc[t].chunk)

\* Where the packets are in their chunks.
PacketPlace(b) ==
    buffer[b] # None =>
        /\ buffer[b].from + buffer[b].size <= ChunkSize
        /\ buffer[b].closed => buffer[b].from + buffer[b].size <= used[buffer[b].owner]
        /\ ~buffer[b].closed => \E t \in Threads : Writes(t, b)

Apart(a, b) == \/ buffer[a].from + buffer[a].size <= buffer[b].from
               \/ buffer[b].from + buffer[b].size <= buffer[a].from

Disjoint == \A a, b \in Blocks :
    /\ buffer[a] # None /\ buffer[b] # None /\ a # b
    /\ buffer[a].owner = buffer[b].owner
    => Apart(a, b)

BlocksInPlace == ListInjective /\ \A b \in Blocks : BlockPlace(b)
ChunksInPlace == PoolInjective /\ (\A c \in Chunks : ChunkPlace(c)) /\ \A t \in Threads : Fresh(t)
PacketsInPlace == (\A b \in Blocks : PacketPlace(b)) /\ Disjoint

\* No assertion but the one on the size has failed.
Sound == ~crash /\ ~popCrash

Inv ==
    /\ TypeOK
    /\ \A t \in Threads : Shape(t) /\ Writing(t)
    /\ BlocksInPlace
    /\ ChunksInPlace
    /\ PacketsInPlace
    /\ Sound

-----------------------------------------------------------------------------
(* Lemmas.                                                                 *)

\* The assumptions, as the leaves need them.
LEMMA Constants ==
    /\ None \notin Blocks /\ None \notin Chunks /\ None \notin Packet /\ None \notin Nat
    /\ AllocSize \in Nat /\ AllocSize # 0 /\ ChunkSize \in Nat
    /\ \A n \in Sizes : n \in Nat
    /\ Threads \cap Blocks = {}
BY MemoryPoolAssumption, SendBufferAssumption DEF MemoryPoolAssumption, SendBufferAssumption

\* A thread that writes has a chunk of its own, and no two write the same packet.
LEMMA OneWriter ==
    ASSUME Inv, NEW t \in Threads, NEW u \in Threads, NEW c \in Chunks,
           tls[t] = c, tls[u] = c
    PROVE  t = u
BY DEF Inv, ChunksInPlace, ChunkPlace, Mine

\* What Goto does to the program counters.
LEMMA GotoEffect ==
    ASSUME TypeOK, NEW t \in Threads,
           NEW step \in {"idle", "fetch", "swap", "recycle", "carve", "make", "write", "free"},
           NEW n \in Nat, NEW c \in Chunks \cup {None}, NEW b \in Blocks \cup {None},
           Goto(t, step, n, c, b)
    PROVE  /\ pc' \in [Threads -> Local]
           /\ pc'[t].at = step /\ pc'[t].size = n /\ pc'[t].chunk = c /\ pc'[t].block = b
           /\ \A u \in Threads : u # t => pc'[u] = pc[u]
BY DEF TypeOK, Local, Goto

\* The locals of one thread.
LEMMA Locals ==
    ASSUME Inv, NEW t \in Threads
    PROVE  /\ TypeOK /\ Shape(t) /\ Writing(t)
           /\ pc[t].size \in Nat /\ pc[t].chunk \in Chunks \cup {None}
           /\ pc[t].block \in Blocks \cup {None}
           /\ pc[t].at \in {"idle", "fetch", "swap", "recycle", "carve", "make", "write", "free"}
           /\ mem[t].at \in {"idle", "popped", "made", "mapped", "cleared", "linked"}
           /\ mem[t].block \in Blocks \cup {None}
           /\ tls[t] \in Chunks \cup {None}
           /\ tls[t] # None => used[tls[t]] \in Nat /\ open[tls[t]] \in BOOLEAN
<1>1. TypeOK /\ Shape(t) /\ Writing(t)
  BY DEF Inv
<1>2. pc[t] \in Local /\ mem[t] \in MemLocal /\ tls[t] \in Chunks \cup {None}
  BY <1>1 DEF TypeOK
<1>3. tls[t] # None => used[tls[t]] \in Nat /\ open[tls[t]] \in BOOLEAN
  BY <1>1, <1>2 DEF TypeOK
<1> QED BY <1>1, <1>2, <1>3 DEF Local, MemLocal

\* The thread on whose way a packet is written.
LEMMA Writer ==
    ASSUME Inv, NEW u \in Threads, pc[u].at = "write"
    PROVE  /\ pc[u].block \in Blocks /\ buffer[pc[u].block] # None /\ tls[u] \in Chunks
           /\ buffer[pc[u].block].owner = tls[u] /\ ~buffer[pc[u].block].closed
           /\ buffer[pc[u].block].from = used[tls[u]]
           /\ buffer[pc[u].block].size = pc[u].size
<1>1. Writing(u) /\ tls[u] \in Chunks \cup {None}
  BY Locals
<1> QED BY <1>1 DEF Writing, Live

\* Whoever is not a thread of chunk c refers to it by a packet.
LEMMA NotAlone ==
    ASSUME Inv, NEW c \in Chunks, NEW x, x \in Holders(c), Holders(c) # {x}
    PROVE  \/ \E b \in Blocks : b # x /\ buffer[b] # None /\ buffer[b].owner = c
           \/ \E t \in Threads : t # x /\ Mine(t, c)
BY DEF Holders, Live

\* Nobody else refers to a chunk with a single holder.
LEMMA Alone ==
    ASSUME Inv, NEW c \in Chunks, NEW x, Holders(c) = {x}
    PROVE  /\ \A b \in Blocks : buffer[b] # None /\ buffer[b].owner = c => b = x
           /\ \A t \in Threads : Mine(t, c) => t = x
BY DEF Holders, Live

\* A step that leaves blocks alone.
LEMMA SameBlocks ==
    ASSUME Inv, UNCHANGED <<list, header, mem>>, Live' = Live,
           \A t \in Threads, b \in Blocks : Hand(t, b)' <=> Hand(t, b)
    PROVE  BlocksInPlace'
BY DEF Inv, BlocksInPlace, ListInjective, BlockPlace, Listed

\* A step that leaves chunks alone.
LEMMA SameChunks ==
    ASSUME Inv, UNCHANGED <<pool, created>>,
           \A c \in Chunks : Referred(c)' <=> Referred(c),
           \A c \in Chunks, t \in Threads :
               (Mine(t, c)' <=> Mine(t, c)) /\ (Recycles(t, c)' <=> Recycles(t, c)),
           \A t \in Threads : Fresh(t)'
    PROVE  ChunksInPlace'
<1>1. ASSUME NEW c \in Chunks PROVE ChunkPlace(c)'
  <2>1. ChunkPlace(c) /\ (Pooled(c)' <=> Pooled(c))
    BY DEF Inv, ChunksInPlace, Pooled
  <2>2. /\ created' = created /\ (Referred(c)' <=> Referred(c))
        /\ \A t \in Threads : (Mine(t, c)' <=> Mine(t, c)) /\ (Recycles(t, c)' <=> Recycles(t, c))
    OBVIOUS
  <2> QED BY ONLY <2>1, <2>2 DEF ChunkPlace
<1> QED BY <1>1 DEF Inv, ChunksInPlace, PoolInjective

\* A thread that is not about to take a chunk, or that takes no step.
LEMMA SameFresh ==
    ASSUME Inv, NEW t \in Threads, pc'[t].at # "swap",
           \A u \in Threads : u # t => pc'[u] = pc[u] /\ tls'[u] = tls[u],
           \A c \in Chunks : Referred(c)' => Referred(c) \/ (tls[t] = c /\ c # None)
    PROVE  \A u \in Threads : Fresh(u)'
<1>1. Fresh(t)'
  BY DEF Fresh
<1>2. ASSUME NEW u \in Threads, u # t, pc[u].at = "swap" PROVE Fresh(u)'
  <2>1. /\ pc[u].chunk \in Chunks /\ tls[u] # pc[u].chunk /\ ~Referred(pc[u].chunk)
    BY <1>2, Locals DEF Shape, Inv, ChunksInPlace, Fresh
  <2>2. Mine(u, pc[u].chunk)
    BY <1>2 DEF Mine
  <2>3. ~Mine(t, pc[u].chunk)
    BY <1>2, <2>1, <2>2 DEF Inv, ChunksInPlace, ChunkPlace
  <2>4. pc'[u] = pc[u] /\ tls'[u] = tls[u] /\ tls[t] # pc[u].chunk
    BY <1>2, <2>3 DEF Mine
  <2>5. \A c \in Chunks : c = pc[u].chunk => ~Referred(c)'
    BY <2>1, <2>4
  <2> QED BY <2>1, <2>4, <2>5 DEF Fresh, Referred
<1>3. ASSUME NEW u \in Threads, u # t, pc[u].at # "swap" PROVE Fresh(u)'
  BY <1>3 DEF Fresh
<1> QED BY <1>1, <1>2, <1>3

\* A step that leaves packets alone.
LEMMA SamePackets ==
    ASSUME Inv, UNCHANGED <<used, buffer>>,
           \A t \in Threads, b \in Blocks : Writes(t, b)' <=> Writes(t, b)
    PROVE  PacketsInPlace'
BY DEF Inv, PacketsInPlace, PacketPlace, Disjoint, Apart

\* A thread that takes no step, and whose chunk is left alone, stays as it is.
LEMMA OtherThread ==
    ASSUME Inv, TypeOK', NEW u \in Threads, pc'[u] = pc[u], mem'[u] = mem[u], tls'[u] = tls[u],
           tls[u] # None => open'[tls[u]] = open[tls[u]] /\ used'[tls[u]] = used[tls[u]],
           pc[u].at = "write" => buffer'[pc[u].block] = buffer[pc[u].block]
    PROVE  Shape(u)' /\ Writing(u)'
<1>1. Shape(u)'
  BY DEF Inv, Shape, Carving
<1>2. pc[u].at = "write" => pc[u].block \in Blocks /\ buffer[pc[u].block] # None
  BY DEF Inv, Writing, Live
<1> QED BY <1>1, <1>2 DEF Inv, Writing, Live

-----------------------------------------------------------------------------
(* Init and the actions.                                                   *)

\* Everything is empty or idle at first.
LEMMA InitInv == Init => Inv
<1> SUFFICES ASSUME Init PROVE Inv
  OBVIOUS
<1>1. TypeOK
  <2>1. mem \in [Threads -> MemLocal]
    BY DEF Init, MemInit, MemIdle, MemLocal
  <2>2. pc \in [Threads -> Local]
    BY DEF Init, Idle, Local
  <2>3. stomp \in BOOLEAN /\ popCrash \in BOOLEAN /\ crash \in BOOLEAN
    BY DEF Init, MemInit
  <2>5. header \in [Blocks -> {None, 0, AllocSize}]
    BY DEF Init, MemInit
  <2>6. list \in Seq(Blocks) /\ pool \in Seq(Chunks) /\ created \in SUBSET Chunks
    BY DEF Init, MemInit
  <2>4. /\ tls \in [Threads -> Chunks \cup {None}]
        /\ open \in [Chunks -> BOOLEAN] /\ used \in [Chunks -> Nat]
        /\ buffer \in [Blocks -> Packet \cup {None}]
    BY DEF Init
  <2> QED BY <2>1, <2>2, <2>3, <2>4, <2>5, <2>6 DEF TypeOK
<1>2. \A t \in Threads : Shape(t) /\ Writing(t)
  BY DEF Init, MemInit, MemIdle, Idle, Shape, Writing, Carving
<1>3. BlocksInPlace
  BY Constants DEF Init, MemInit, MemIdle, Idle, BlocksInPlace, ListInjective, BlockPlace, Listed, Hand, Live
<1>4. ChunksInPlace
  BY Constants DEF Init, Idle, ChunksInPlace, PoolInjective, ChunkPlace, Pooled, Recycles, Referred, Mine, Fresh
<1>5. PacketsInPlace
  BY DEF Init, PacketsInPlace, PacketPlace, Disjoint
<1> QED BY <1>1, <1>2, <1>3, <1>4, <1>5 DEF Inv, Init, MemInit, Sound

\* Open: what is left of the thread's chunk is enough, or it goes for another.
LEMMA OpenInv ==
    ASSUME Inv, NEW t \in Threads, NEW n \in Sizes, Open(t, n)
    PROVE  Inv'
<1>1. TypeOK /\ Shape(t) /\ n \in Nat
  BY Locals, Constants
<1>2. PICK step \in {"carve", "fetch"} :
        Goto(t, step, n, None, None) /\ (step = "carve" => Fits(t, n))
  BY DEF Open
<1>3. /\ pc' \in [Threads -> Local]
      /\ pc'[t].at = step /\ pc'[t].size = n /\ pc'[t].chunk = None /\ pc'[t].block = None
      /\ \A u \in Threads : u # t => pc'[u] = pc[u]
  BY <1>1, <1>2, GotoEffect
<1>4. /\ pc[t] = Idle /\ pc[t].at = "idle" /\ mem[t] = MemIdle
      /\ UNCHANGED <<stomp, header, list, mem, popCrash, pool, created, tls, open, used, buffer>>
  BY DEF Open, Idle, memVars
<1>5. crash' = FALSE
  <2>1. crash' = (crash \/ (tls[t] # None /\ open[tls[t]]))
    BY DEF Open
  <2>2. tls[t] # None => ~open[tls[t]]
    BY <1>1, <1>4 DEF Shape
  <2> QED BY <2>1, <2>2 DEF Inv, Sound
<1>6. TypeOK'
  BY <1>1, <1>3, <1>4, <1>5 DEF TypeOK
<1>7. \A u \in Threads : Shape(u)' /\ Writing(u)'
  <2>1. step = "carve" => tls[t] \in Chunks /\ used[tls[t]] \in Nat /\ used[tls[t]] + n <= ChunkSize
    BY <1>1, <1>2, Constants, Locals DEF Fits, FreeSize
  <2>2. Shape(t)' /\ Writing(t)'
    BY <1>1, <1>3, <1>4, <2>1, Constants DEF Shape, Writing, Carving, MemIdle
  <2> QED BY <1>3, <1>4, <1>6, <2>2, OtherThread
<1>8. BlocksInPlace'
  BY <1>3, <1>4, SameBlocks DEF Hand, Live
<1>9. ChunksInPlace'
  <2>1. \A c \in Chunks : Referred(c)' <=> Referred(c)
    BY <1>4 DEF Referred
  <2>2. \A u \in Threads : Fresh(u)'
    BY <1>3, <1>4, <2>1, SameFresh
  <2> QED BY <1>3, <1>4, <2>1, <2>2, SameChunks DEF Mine, Recycles
<1>10. PacketsInPlace'
  BY <1>3, <1>4, SamePackets DEF Writes
<1> QED BY <1>4, <1>5, <1>6, <1>7, <1>8, <1>9, <1>10 DEF Inv, Sound

\* Pop: the chunk leaves the pool, or is made, and the thread alone has it.
LEMMA PopChunkInv ==
    ASSUME Inv, NEW t \in Threads, PopChunk(t)
    PROVE  Inv'
<1>1. PICK c \in Chunks :
        /\ Goto(t, "swap", pc[t].size, c, None)
        /\ ~Referred(c) /\ \A u \in Threads : ~Mine(u, c) /\ ~Recycles(u, c)
        /\ pool' \in Seq(Chunks) /\ PoolInjective'
        /\ \A d \in Chunks : Pooled(d)' <=> Pooled(d) /\ d # c
        /\ created' = created \cup {c}
  <2> pool \in Seq(Chunks) /\ created \subseteq Chunks
    BY DEF Inv, TypeOK
  <2>1. CASE pool # <<>>
    <3> DEFINE n == Len(pool)
    <3>1. /\ n \in Nat /\ n # 0
          /\ pool' = SubSeq(pool, 1, n - 1)
          /\ Goto(t, "swap", pc[t].size, pool[n], None)
          /\ created' = created
      BY <2>1 DEF PopChunk
    <3>2. /\ pool' \in Seq(Chunks) /\ Len(pool') = n - 1
          /\ \A i \in 1..(n - 1) : pool'[i] = pool[i]
          /\ pool[n] \in Chunks
      <4>1. \A i \in 1..n : pool[i] \in Chunks
        BY ElementOfSeq
      <4>2. n \in 1..n /\ \A i \in 1..(n - 1) : i \in 1..n /\ (1 + i) - 1 = i
        BY <3>1
      <4>3. 1 \in Int /\ n - 1 \in Int /\ \A i \in 1..(n - 1) : pool[i] \in Chunks
        BY <3>1, <4>1, <4>2
      <4> DEFINE s == SubSeq(pool, 1, n - 1)
      <4>4. /\ s \in Seq(Chunks)
            /\ Len(s) = IF 1 <= n - 1 THEN (n - 1) - 1 + 1 ELSE 0
            /\ \A i \in 1..((n - 1) - 1 + 1) : s[i] = pool[(1 + i) - 1]
        BY ONLY <4>3, SubSeqProperties
      <4> HIDE DEF s
      <4>5. Len(s) = n - 1 /\ (n - 1) - 1 + 1 = n - 1
        <5>1. \A k, l : k \in Nat /\ k # 0 /\ l = (IF 1 <= k - 1 THEN (k - 1) - 1 + 1 ELSE 0)
                         => l = k - 1 /\ (k - 1) - 1 + 1 = k - 1
          OBVIOUS
        <5> QED BY <3>1, <4>4, <5>1
      <4>6. \A i \in 1..(n - 1) : s[i] = pool[i]
        BY <4>2, <4>4, <4>5
      <4> QED BY <3>1, <4>1, <4>2, <4>4, <4>5, <4>6 DEF s
    <3>3. n \in 1..n /\ \A i : i \in 1..(n - 1) <=> i \in 1..n /\ i # n
      BY <3>1
    <3>4. \A i, j \in 1..n : pool[i] = pool[j] => i = j
      BY DEF Inv, ChunksInPlace, PoolInjective
    <3>5. Pooled(pool[n])
      BY <3>3 DEF Pooled
    <3>6. \A d \in Chunks : Pooled(d) <=> \E i \in 1..n : pool[i] = d
      BY DEF Pooled
    <3> HIDE DEF n
    <3>7. PoolInjective'
      BY <3>2, <3>3, <3>4 DEF PoolInjective
    <3>8. \A d \in Chunks : Pooled(d)' <=> Pooled(d) /\ d # pool[n]
      <4>1. \A d \in Chunks : Pooled(d)' <=> \E i \in 1..(n - 1) : pool'[i] = d
        BY <3>2 DEF Pooled
      <4> QED BY <3>2, <3>3, <3>4, <3>6, <4>1
    <3>9. /\ pool[n] \in created /\ ~Referred(pool[n])
          /\ \A u \in Threads : ~Mine(u, pool[n]) /\ ~Recycles(u, pool[n])
      BY <3>2, <3>5 DEF Inv, ChunksInPlace, ChunkPlace
    <3> QED BY <3>1, <3>2, <3>7, <3>8, <3>9
  <2>2. CASE pool = <<>>
    <3>1. PICK c \in Chunks \ created :
            /\ created' = created \cup {c} /\ pool' = pool
            /\ Goto(t, "swap", pc[t].size, c, None)
      BY <2>2 DEF PopChunk
    <3>2. ~Pooled(c) /\ ~Referred(c) /\ \A u \in Threads : ~Mine(u, c) /\ ~Recycles(u, c)
      BY <3>1 DEF Inv, ChunksInPlace, ChunkPlace
    <3>3. PoolInjective' /\ \A d \in Chunks : Pooled(d)' <=> Pooled(d)
      BY <3>1 DEF Inv, ChunksInPlace, PoolInjective, Pooled
    <3> QED BY <3>1, <3>2, <3>3
  <2> QED BY <2>1, <2>2
<1>2. /\ pc[t].at = "fetch"
      /\ UNCHANGED <<stomp, header, list, mem, popCrash, tls, open, used, buffer, crash>>
  BY DEF PopChunk, memVars
<1>3. TypeOK /\ Shape(t) /\ pc[t].size \in Nat
  BY Locals
<1>4. /\ pc' \in [Threads -> Local]
      /\ pc'[t].at = "swap" /\ pc'[t].chunk = c
      /\ pc'[t].size = pc[t].size /\ pc'[t].block = None
      /\ \A u \in Threads : u # t => pc'[u] = pc[u]
  BY <1>1, <1>3, GotoEffect
<1>5. TypeOK'
  BY <1>1, <1>2, <1>3, <1>4 DEF TypeOK
<1>6. \A u \in Threads : Shape(u)' /\ Writing(u)'
  <2>1. Shape(t)' /\ Writing(t)'
    BY <1>2, <1>3, <1>4, Constants DEF Shape, Writing, Carving
  <2> QED BY <1>2, <1>4, <1>5, <2>1, OtherThread
<1>7. BlocksInPlace'
  BY <1>2, <1>3, <1>4, SameBlocks DEF Hand, Live
<1>8. ChunksInPlace'
  <2>1. \A u \in Threads, d \in Chunks :
           /\ Mine(u, d)' <=> Mine(u, d) \/ (u = t /\ d = c)
           /\ Recycles(u, d)' <=> Recycles(u, d)
    BY <1>2, <1>4 DEF Mine, Recycles
  <2>2. \A d \in Chunks : Referred(d)' <=> Referred(d)
    BY <1>2 DEF Referred
  <2>3. ASSUME NEW d \in Chunks PROVE ChunkPlace(d)'
    <3>1. ChunkPlace(d)
      BY DEF Inv, ChunksInPlace
    <3> QED BY <1>1, <2>1, <2>2, <3>1 DEF ChunkPlace
  <2>4. ASSUME NEW u \in Threads PROVE Fresh(u)'
    <3>1. CASE u = t
      BY <1>1, <1>2, <1>4, <3>1 DEF Fresh, Mine, Referred
    <3>2. CASE u # t
      BY <1>2, <1>4, <3>2 DEF Inv, ChunksInPlace, Fresh, Referred
    <3> QED BY <3>1, <3>2
  <2> QED BY <1>1, <2>3, <2>4 DEF ChunksInPlace
<1>9. PacketsInPlace'
  BY <1>2, <1>4, SamePackets DEF Writes
<1> QED BY <1>2, <1>5, <1>6, <1>7, <1>8, <1>9 DEF Inv, Sound

\* The thread takes the fresh chunk; its old one goes back if no packet is left in it.
LEMMA SwapInv ==
    ASSUME Inv, NEW t \in Threads, Swap(t)
    PROVE  Inv'
<1> DEFINE new == pc[t].chunk
           old == tls[t]
           last == old # None /\ Holders(old) = {t}
<1>1. TypeOK /\ Shape(t) /\ pc[t].size \in Nat /\ old \in Chunks \cup {None}
  BY Locals
<1>2. /\ pc[t].at = "swap" /\ new \in Chunks /\ pc[t].block = None
      /\ mem[t].at = "idle" /\ Mine(t, new)
  BY Locals DEF Swap, Shape, Mine
<1>3. new # old /\ ~Referred(new)
  BY <1>2 DEF Inv, ChunksInPlace, Fresh
<1>4. /\ tls' = [tls EXCEPT ![t] = new]
      /\ open' = [open EXCEPT ![new] = FALSE]
      /\ used' = [used EXCEPT ![new] = 0]
      /\ UNCHANGED <<stomp, header, list, mem, popCrash, pool, created, buffer, crash>>
      /\ last => Goto(t, "recycle", pc[t].size, old, None)
      /\ ~last => Goto(t, "carve", pc[t].size, None, None)
  BY DEF Swap, memVars
<1>5. PICK step \in {"recycle", "carve"}, c \in Chunks \cup {None} :
        /\ Goto(t, step, pc[t].size, c, None)
        /\ last => step = "recycle" /\ c = old
        /\ ~last => step = "carve" /\ c = None
  <2> HIDE DEF last, old
  <2>1. CASE last
    BY <1>1, <1>4, <2>1
  <2>2. CASE ~last
    BY <1>4, <2>2
  <2> QED BY <2>1, <2>2
<1>6. /\ pc' \in [Threads -> Local]
      /\ pc'[t].at = step /\ pc'[t].chunk = c /\ pc'[t].size = pc[t].size /\ pc'[t].block = None
      /\ \A u \in Threads : u # t => pc'[u] = pc[u]
  <2>1. /\ pc \in [Threads -> Local] /\ pc[t].size \in Nat
        /\ pc' = [pc EXCEPT ![t] = [at |-> step, size |-> pc[t].size, chunk |-> c, block |-> None]]
    BY <1>1, <1>5 DEF TypeOK, Goto
  <2>2. [at |-> step, size |-> pc[t].size, chunk |-> c, block |-> None] \in Local
    BY <2>1 DEF Local
  <2> QED BY <2>1, <2>2
<1>7. /\ tls'[t] = new /\ ~open'[new] /\ used'[new] = 0
      /\ \A u \in Threads : u # t => tls'[u] = tls[u]
      /\ \A d \in Chunks : d # new => open'[d] = open[d] /\ used'[d] = used[d]
      /\ tls' \in [Threads -> Chunks \cup {None}] /\ open' \in [Chunks -> BOOLEAN]
      /\ used' \in [Chunks -> Nat]
  <2>1. tls \in [Threads -> Chunks \cup {None}] /\ open \in [Chunks -> BOOLEAN] /\ used \in [Chunks -> Nat]
    BY <1>1 DEF TypeOK
  <2> HIDE DEF new
  <2> QED BY <1>2, <1>4, <2>1
<1>8. TypeOK'
  BY <1>1, <1>4, <1>6, <1>7 DEF TypeOK
<1>9. \A u \in Threads, d \in Chunks : Mine(u, d)' <=> IF u = t THEN d = new ELSE Mine(u, d)
  BY <1>6, <1>7 DEF Mine
<1>10. \A u \in Threads, d \in Chunks :
          Recycles(u, d)' <=> Recycles(u, d) \/ (u = t /\ last /\ d = old)
  <2> HIDE DEF last, old
  <2>1. step = "recycle" <=> last
    BY <1>5
  <2>2. \A d \in Chunks : ~Recycles(t, d)
    BY <1>2 DEF Recycles
  <2>3. \A d \in Chunks : Recycles(t, d)' <=> last /\ d = old
    BY <1>5, <1>6, <2>1 DEF Recycles
  <2>4. \A u \in Threads, d \in Chunks : u # t => (Recycles(u, d)' <=> Recycles(u, d))
    BY <1>6 DEF Recycles
  <2> QED BY <2>2, <2>3, <2>4
<1>11. \A d \in Chunks : Referred(d)' <=> Referred(d)
  BY <1>4 DEF Referred
<1>12. old # None => Mine(t, old) /\ old \in Chunks
  BY <1>1 DEF Mine
<1>13. /\ last => ~Referred(old)
       /\ ~last /\ old # None => Referred(old)
  <2>1. ASSUME last PROVE ~Referred(old)
    <3>1. \A b \in Blocks : b # t
      BY Constants
    <3> QED BY <2>1, <3>1, <1>12, Alone DEF Referred
  <2>2. ASSUME ~last, old # None PROVE Referred(old)
    <3>1. t \in Holders(old) /\ Holders(old) # {t} /\ old \in Chunks
      BY <1>12, <2>2 DEF Holders
    <3>2. \A u \in Threads : Mine(u, old) => u = t
      BY <1>12, <2>2 DEF Inv, ChunksInPlace, ChunkPlace
    <3>3. \E b \in Blocks : b # t /\ buffer[b] # None /\ buffer[b].owner = old
      BY <3>1, <3>2, NotAlone
    <3> QED BY <3>3 DEF Referred
  <2> QED BY <2>1, <2>2
<1>14. \A u \in Threads : u # t => tls[u] # new
  BY <1>2 DEF Inv, ChunksInPlace, ChunkPlace, Mine
<1>15. old # None => \A u \in Threads : Mine(u, old) => u = t
  BY <1>12 DEF Inv, ChunksInPlace, ChunkPlace
<1> HIDE DEF last, new, old
<1>16. \A u \in Threads : Shape(u)' /\ Writing(u)'
  <2>1. Shape(t)'
    <3>1. new # None /\ new \in Chunks /\ (pc[t].size <= ChunkSize => 0 + pc[t].size <= ChunkSize)
      BY <1>1, <1>2, Constants
    <3>2. step = "recycle" => c # None
      BY <1>5 DEF last
    <3> QED BY <1>1, <1>2, <1>4, <1>6, <1>7, <3>1, <3>2 DEF Shape, Carving
  <2>2. Writing(t)'
    BY <1>6 DEF Writing
  <2>3. ASSUME NEW u \in Threads, u # t PROVE Shape(u)' /\ Writing(u)'
    <3>1. tls[u] # None => tls[u] \in Chunks /\ tls[u] # new
      BY <1>14, <2>3, Locals
    <3> QED BY <1>4, <1>6, <1>7, <1>8, <2>3, <3>1, OtherThread
  <2> QED BY <2>1, <2>2, <2>3
<1>17. BlocksInPlace'
  <2>1. \A u \in Threads, b \in Blocks : Hand(u, b)' <=> Hand(u, b)
    <3>1. \A b \in Blocks : b # None
      BY Constants
    <3> QED BY <1>2, <1>4, <1>6, <3>1 DEF Hand
  <2> QED BY <1>4, <2>1, SameBlocks DEF Live
<1>18. ChunksInPlace'
  <2>1. ASSUME NEW d \in Chunks PROVE ChunkPlace(d)'
    <3>1. ChunkPlace(d) /\ (Pooled(d)' <=> Pooled(d)) /\ created' = created
      BY <1>4 DEF Pooled, Inv, ChunksInPlace
    <3>2. CASE d = new
      BY <1>2, <1>3, <1>9, <1>10, <1>11, <3>1, <3>2 DEF ChunkPlace
    <3>3. CASE d = old
      BY <1>3, <1>9, <1>10, <1>11, <1>12, <1>13, <1>15, <3>1, <3>3, Constants DEF ChunkPlace, last
    <3>4. CASE d # new /\ d # old
      <4>1. ~Mine(t, d)
        BY <1>2, <3>4 DEF Mine, old, new
      <4> QED BY <1>9, <1>10, <1>11, <3>1, <3>4, <4>1 DEF ChunkPlace
    <3> QED BY <3>2, <3>3, <3>4
  <2>2. \A u \in Threads : Fresh(u)'
    <3>1. pc'[t].at # "swap"
      BY <1>5, <1>6
    <3> QED BY <1>6, <1>7, <1>11, <3>1, SameFresh
  <2> QED BY <1>4, <2>1, <2>2 DEF Inv, ChunksInPlace, PoolInjective
<1>19. PacketsInPlace'
  <2>1. \A u \in Threads, b \in Blocks : Writes(u, b)' <=> Writes(u, b)
    BY <1>2, <1>5, <1>6 DEF Writes
  <2>2. \A b \in Blocks : buffer[b] # None => buffer[b].owner \in Chunks /\ buffer[b].owner # new
    BY <1>1, <1>3 DEF TypeOK, Packet, Referred
  <2>3. ASSUME NEW b \in Blocks PROVE PacketPlace(b)'
    <3>1. PacketPlace(b)
      BY DEF Inv, PacketsInPlace
    <3> QED BY <1>4, <1>7, <2>1, <2>2, <3>1 DEF PacketPlace
  <2> QED BY <1>4, <2>3 DEF Inv, PacketsInPlace, Disjoint, Apart
<1> QED BY <1>4, <1>8, <1>16, <1>17, <1>18, <1>19 DEF Inv, Sound

\* PushGlobal: a chunk nobody refers to enters the pool.
LEMMA PushGlobalInv ==
    ASSUME Inv, NEW t \in Threads, PushGlobal(t)
    PROVE  Inv'
<1> DEFINE c == pc[t].chunk
<1>1. /\ TypeOK /\ Shape(t) /\ pc[t].size \in Nat /\ pc[t].block \in Blocks \cup {None}
      /\ pool \in Seq(Chunks)
  BY Locals DEF TypeOK
<1>2. /\ pc[t].at = "recycle" /\ c \in Chunks /\ Recycles(t, c)
      /\ pool' = Append(pool, c)
      /\ UNCHANGED <<stomp, header, list, mem, popCrash, created, tls, open, used, buffer, crash>>
  BY Locals DEF PushGlobal, Shape, Recycles, memVars
<1>3. PICK step \in {"carve", "free"}, a \in Blocks \cup {None} :
        /\ Goto(t, step, pc[t].size, None, a) /\ a = pc[t].block
        /\ step = "carve" <=> pc[t].block = None
  BY <1>1 DEF PushGlobal
<1>4. /\ pc' \in [Threads -> Local]
      /\ pc'[t].at = step /\ pc'[t].chunk = None
      /\ pc'[t].size = pc[t].size /\ pc'[t].block = a
      /\ \A u \in Threads : u # t => pc'[u] = pc[u]
  <2>1. TypeOK /\ pc[t].size \in Nat
    BY <1>1
  <2> QED BY <1>3, <2>1, GotoEffect
<1> DEFINE n == Len(pool)
<1>5. /\ n \in Nat /\ pool' \in Seq(Chunks) /\ Len(pool') = n + 1
      /\ \A i \in 1..n : pool'[i] = pool[i]
      /\ pool'[n + 1] = c
  BY <1>1, <1>2, AppendProperties
<1> HIDE DEF c
<1>6. TypeOK'
  BY <1>1, <1>2, <1>4, <1>5 DEF TypeOK
<1>7. \A u \in Threads : Shape(u)' /\ Writing(u)'
  <2>1. Shape(t)' /\ Writing(t)'
    BY <1>1, <1>2, <1>3, <1>4 DEF Shape, Writing, Carving
  <2> QED BY <1>2, <1>4, <1>6, <2>1, OtherThread
<1>8. BlocksInPlace'
  <2>1. \A b \in Blocks : b # None
    BY Constants
  <2>2. \A u \in Threads, b \in Blocks : Hand(u, b)' <=> Hand(u, b)
    BY <1>2, <1>3, <1>4, <2>1 DEF Hand
  <2> QED BY <1>2, <2>2, SameBlocks DEF Live
<1>9. ChunksInPlace'
  <2>1. \A i : i \in 1..(n + 1) <=> i \in 1..n \/ i = n + 1
    BY <1>5
  <2>2. \A d \in Chunks : Pooled(d)' <=> Pooled(d) \/ d = c
    <3>1. \A d \in Chunks : Pooled(d)' <=> \E i \in 1..(n + 1) : pool'[i] = d
      BY <1>5 DEF Pooled
    <3>2. \A d \in Chunks : Pooled(d) <=> \E i \in 1..n : pool[i] = d
      BY DEF Pooled
    <3> HIDE DEF n
    <3> QED BY <1>5, <2>1, <3>1, <3>2
  <2>3. /\ ~Pooled(c) /\ ~Referred(c) /\ c \in created
        /\ \A u \in Threads : ~Mine(u, c) /\ (Recycles(u, c) => u = t)
    BY <1>2 DEF Inv, ChunksInPlace, ChunkPlace
  <2>4. PoolInjective'
    <3>1. \A i \in 1..n : pool[i] # c
      BY <2>3 DEF Pooled
    <3>2. \A i, j \in 1..n : pool[i] = pool[j] => i = j
      BY DEF Inv, ChunksInPlace, PoolInjective
    <3> HIDE DEF n
    <3> QED BY <1>5, <2>1, <3>1, <3>2 DEF PoolInjective
  <2>5. \A u \in Threads, d \in Chunks :
           /\ Mine(u, d)' <=> Mine(u, d)
           /\ Recycles(u, d)' <=> Recycles(u, d) /\ d # c
    <3>1. \A d \in Chunks : Recycles(t, d) <=> d = c
      BY <1>2 DEF Recycles, c
    <3>2. \A d \in Chunks : ~Recycles(t, d)'
      BY <1>3, <1>4 DEF Recycles
    <3>3. \A u \in Threads, d \in Chunks : u # t => (Recycles(u, d)' <=> Recycles(u, d))
      BY <1>4 DEF Recycles
    <3>4. \A u \in Threads, d \in Chunks : Mine(u, d)' <=> Mine(u, d)
      BY <1>2, <1>3, <1>4 DEF Mine
    <3> QED BY <2>3, <3>1, <3>2, <3>3, <3>4
  <2>6. \A d \in Chunks : Referred(d)' <=> Referred(d)
    BY <1>2 DEF Referred
  <2>7. ASSUME NEW d \in Chunks PROVE ChunkPlace(d)'
    <3>1. ChunkPlace(d) /\ created' = created
      BY <1>2 DEF Inv, ChunksInPlace
    <3> QED BY <1>2, <2>2, <2>3, <2>5, <2>6, <3>1 DEF ChunkPlace
  <2>8. \A u \in Threads : Fresh(u)'
    BY <1>2, <1>3, <1>4, <2>6, SameFresh
  <2> QED BY <2>4, <2>7, <2>8 DEF ChunksInPlace
<1>10. PacketsInPlace'
  <2>1. \A u \in Threads, b \in Blocks : Writes(u, b)' <=> Writes(u, b)
    BY <1>2, <1>3, <1>4 DEF Writes
  <2> QED BY <1>2, <2>1, SamePackets
<1> QED BY <1>2, <1>6, <1>7, <1>8, <1>9, <1>10 DEF Inv, Sound

\* The three ways to get a block: nobody else has it.
LEMMA NewBlock ==
    ASSUME Inv, NEW t \in Threads, mem[t] = MemIdle,
           PopListed(t) \/ PopFresh(t) \/ StompAlloc(t)
    PROVE  \E b \in Blocks, step \in {"popped", "made", "mapped"} :
             /\ mem' = [mem EXCEPT ![t] = [at |-> step, block |-> b]]
             /\ b \notin Live /\ \A u \in Threads : ~Hand(u, b)
             /\ header' \in [Blocks -> {None, 0, AllocSize}] /\ header'[b] = 0
             /\ \A a \in Blocks : a # b => header'[a] = header[a]
             /\ list' \in Seq(Blocks) /\ ListInjective'
             /\ \A a \in Blocks : Listed(a)' <=> Listed(a) /\ a # b
             /\ stomp' = stomp /\ popCrash' = FALSE
<1>1. CASE PopListed(t)
  <2> DEFINE b == Head(list)
             n == Len(list)
  <2>1. list \in Seq(Blocks) /\ list # <<>> /\ list' = Tail(list)
    BY <1>1 DEF PopListed, Inv, TypeOK
  <2>2. /\ n \in Nat /\ n # 0 /\ b = list[1] /\ b \in Blocks
        /\ Len(list') = n - 1 /\ list' \in Seq(Blocks)
        /\ \A i \in 1..(n - 1) : list'[i] = list[i + 1]
    BY ONLY <2>1, HeadTailProperties
  <2>3. /\ mem' = [mem EXCEPT ![t] = [at |-> "popped", block |-> b]]
        /\ stomp' = stomp /\ header' = header
        /\ popCrash' = (popCrash \/ header[b] # 0)
    BY <1>1 DEF PopListed, At
  <2>4. /\ n \in Nat /\ n # 0 /\ b = list[1] /\ b \in Blocks
        /\ Len(list') = n - 1 /\ list' \in Seq(Blocks)
        /\ \A i \in 1..(n - 1) : list'[i] = list[i + 1]
        /\ mem' = [mem EXCEPT ![t] = [at |-> "popped", block |-> b]]
        /\ stomp' = stomp /\ header' = header
        /\ popCrash' = (popCrash \/ header[b] # 0)
    BY <2>2, <2>3
  <2> HIDE DEF b, n
  <2>5. 1 \in 1..n /\ \A i \in 1..(n - 1) : i + 1 \in 1..n /\ i + 1 # 1
    BY <2>4
  <2>6. \A i \in 1..n : i # 1 => i - 1 \in 1..(n - 1) /\ (i - 1) + 1 = i
    BY <2>4
  <2>7. \A i, j \in 1..n : list[i] = list[j] => i = j
    BY DEF Inv, BlocksInPlace, ListInjective, n
  <2>8. ListInjective'
    BY <2>4, <2>5, <2>7 DEF ListInjective
  <2>9. \A a \in Blocks : Listed(a)' <=> Listed(a) /\ a # b
    <3>1. ASSUME NEW a \in Blocks, Listed(a), a # b PROVE Listed(a)'
      <4>1. PICK i \in 1..n : list[i] = a
        BY <3>1 DEF Listed, n
      <4>2. i - 1 \in 1..Len(list') /\ list'[i - 1] = a
        BY <2>4, <2>6, <3>1, <4>1
      <4> QED BY <4>2 DEF Listed
    <3>2. ASSUME NEW a \in Blocks, Listed(a)' PROVE Listed(a) /\ a # b
      <4>1. PICK i \in 1..(n - 1) : list'[i] = a
        BY <2>4, <3>2 DEF Listed
      <4>2. i + 1 \in 1..n /\ list[i + 1] = a /\ i + 1 # 1
        BY <2>4, <2>5, <4>1
      <4> QED BY <2>4, <2>5, <2>7, <4>2 DEF Listed, n
    <3> QED BY <3>1, <3>2
  <2>10. Listed(b)
    BY <2>4, <2>5 DEF Listed, n
  <2>11. header[b] = 0 /\ b \notin Live /\ \A u \in Threads : ~Hand(u, b)
    BY <2>4, <2>10 DEF Inv, BlocksInPlace, BlockPlace
  <2>12. popCrash' = FALSE /\ header' \in [Blocks -> {None, 0, AllocSize}]
    BY <2>4, <2>11 DEF Inv, Sound, TypeOK
  <2> QED BY ONLY <2>4, <2>8, <2>9, <2>11, <2>12
<1>2. CASE PopFresh(t) \/ StompAlloc(t)
  <2>1. PICK b \in Blocks, step \in {"made", "mapped"} :
          /\ header[b] = None
          /\ mem' = [mem EXCEPT ![t] = [at |-> step, block |-> b]]
          /\ header' = [header EXCEPT ![b] = 0]
          /\ UNCHANGED <<stomp, list, popCrash>>
    BY <1>2 DEF PopFresh, StompAlloc, At
  <2>2. ~Listed(b) /\ b \notin Live /\ \A u \in Threads : ~Hand(u, b)
    BY <2>1, Constants DEF Inv, BlocksInPlace, BlockPlace
  <2>3. popCrash' = FALSE /\ list' \in Seq(Blocks) /\ header \in [Blocks -> {None, 0, AllocSize}]
    BY <2>1 DEF Inv, Sound, TypeOK
  <2>4. /\ header' \in [Blocks -> {None, 0, AllocSize}] /\ header'[b] = 0
        /\ \A a \in Blocks : a # b => header'[a] = header[a]
    BY <2>1, <2>3
  <2>5. ListInjective' /\ \A a \in Blocks : Listed(a)' <=> Listed(a)
    BY <2>1 DEF Inv, BlocksInPlace, ListInjective, Listed
  <2>6. \A a \in Blocks : Listed(a)' <=> Listed(a) /\ a # b
    BY <2>2, <2>5
  <2> QED BY ONLY <2>1, <2>2, <2>3, <2>4, <2>5, <2>6
<1> QED BY <1>1, <1>2

\* The chunk is open; a block is on its way to be the thread's SendBuffer.
LEMMA OpenChunkInv ==
    ASSUME Inv, NEW t \in Threads, OpenChunk(t)
    PROVE  Inv'
<1> DEFINE c == tls[t]
           n == pc[t].size
<1>1. TypeOK /\ Shape(t) /\ n \in Nat
  BY Locals
<1>2. /\ pc[t].at = "carve" /\ mem[t] = MemIdle /\ c \in Chunks
      /\ ~open[c] /\ n <= ChunkSize /\ used[c] + n <= ChunkSize /\ used[c] \in Nat
  BY <1>1, Locals DEF OpenChunk, PopListed, PopFresh, StompAlloc, Shape, Carving
<1>3. PICK b \in Blocks, step \in {"popped", "made", "mapped"} :
        /\ mem' = [mem EXCEPT ![t] = [at |-> step, block |-> b]]
        /\ b \notin Live /\ \A u \in Threads : ~Hand(u, b)
        /\ header' \in [Blocks -> {None, 0, AllocSize}] /\ header'[b] = 0
        /\ \A a \in Blocks : a # b => header'[a] = header[a]
        /\ list' \in Seq(Blocks) /\ ListInjective'
        /\ \A a \in Blocks : Listed(a)' <=> Listed(a) /\ a # b
        /\ stomp' = stomp /\ popCrash' = FALSE
  BY <1>2, NewBlock DEF OpenChunk
<1>4. /\ open' = [open EXCEPT ![c] = TRUE]
      /\ Goto(t, "make", n, None, None)
      /\ crash' = (crash \/ open[c] \/ n > FreeSize(c))
      /\ UNCHANGED <<pool, created, tls, used, buffer>>
  BY DEF OpenChunk
<1>5. /\ pc' \in [Threads -> Local]
      /\ pc'[t].at = "make" /\ pc'[t].size = n /\ pc'[t].chunk = None /\ pc'[t].block = None
      /\ \A u \in Threads : u # t => pc'[u] = pc[u]
  BY <1>1, <1>4, GotoEffect
<1> HIDE DEF c, n
<1>6. crash' = FALSE
  <2>1. ~(n > FreeSize(c))
    BY <1>1, <1>2, Constants DEF FreeSize
  <2> QED BY <1>2, <1>4, <2>1 DEF Inv, Sound
<1>7. /\ mem'[t] = [at |-> step, block |-> b]
      /\ \A u \in Threads : u # t => mem'[u] = mem[u]
      /\ mem' \in [Threads -> MemLocal]
      /\ open' \in [Chunks -> BOOLEAN] /\ open'[c]
      /\ \A d \in Chunks : d # c => open'[d] = open[d]
  <2>1. mem \in [Threads -> MemLocal] /\ open \in [Chunks -> BOOLEAN]
    BY <1>1 DEF TypeOK
  <2>2. [at |-> step, block |-> b] \in MemLocal
    BY DEF MemLocal
  <2> QED BY <1>2, <1>3, <1>4, <2>1, <2>2
<1>8. TypeOK'
  BY <1>1, <1>3, <1>4, <1>5, <1>6, <1>7 DEF TypeOK
<1>9. \A u \in Threads : Shape(u)' /\ Writing(u)'
  <2>1. Shape(t)' /\ Writing(t)'
    <3>1. mem'[t].at = step /\ mem'[t].block = b /\ b # None
      BY <1>7, Constants
    <3>2. tls'[t] = c /\ c # None /\ used'[c] = used[c]
      BY <1>2, <1>4, Constants DEF c
    <3> QED BY <1>2, <1>5, <1>7, <3>1, <3>2 DEF Shape, Writing, Carving
  <2>2. ASSUME NEW u \in Threads, u # t PROVE Shape(u)' /\ Writing(u)'
    <3>1. tls[u] # None => tls[u] \in Chunks /\ tls[u] # c
      BY <1>2, <2>2, OneWriter, Locals DEF c
    <3> QED BY <1>4, <1>5, <1>7, <1>8, <2>2, <3>1, OtherThread
  <2> QED BY <2>1, <2>2
<1>10. BlocksInPlace'
  <2>1. \A u \in Threads, a \in Blocks : Hand(u, a)' <=> Hand(u, a) \/ (u = t /\ a = b)
    <3>1. \A a \in Blocks : ~Hand(t, a)
      BY <1>2 DEF Hand, MemIdle
    <3>2. \A a \in Blocks : Hand(t, a)' <=> a = b
      BY <1>5, <1>7 DEF Hand
    <3>3. \A u \in Threads, a \in Blocks : u # t => (Hand(u, a)' <=> Hand(u, a))
      BY <1>5, <1>7 DEF Hand
    <3> QED BY <3>1, <3>2, <3>3
  <2>2. Live' = Live
    BY <1>4 DEF Live
  <2>3. ASSUME NEW a \in Blocks PROVE BlockPlace(a)'
    <3>1. BlockPlace(a)
      BY DEF Inv, BlocksInPlace
    <3>2. CASE a = b
      <4>1. \A u \in Threads : Hand(u, b)' <=> u = t
        BY <1>3, <2>1
      <4>2. ~Listed(b)' /\ b \notin Live' /\ header'[b] = 0 /\ 0 # None
        BY <1>3, <2>2, Constants
      <4> QED BY <3>2, <4>1, <4>2 DEF BlockPlace
    <3>3. CASE a # b
      <4>1. \A u \in Threads : Hand(u, a)' <=> Hand(u, a)
        BY <2>1, <3>3
      <4>2. ~Hand(t, a)
        BY <1>2 DEF Hand, MemIdle
      <4>3. (Listed(a)' <=> Listed(a)) /\ header'[a] = header[a]
        BY <1>3, <3>3
      <4> QED BY <1>7, <2>2, <3>1, <4>1, <4>2, <4>3 DEF BlockPlace
    <3> QED BY <3>2, <3>3
  <2> QED BY <1>3, <2>3 DEF BlocksInPlace
<1>11. ChunksInPlace'
  <2>1. \A d \in Chunks : Referred(d)' <=> Referred(d)
    BY <1>4 DEF Referred
  <2>2. \A u \in Threads : Fresh(u)'
    BY <1>4, <1>5, <2>1, SameFresh
  <2>3. \A d \in Chunks, u \in Threads :
           (Mine(u, d)' <=> Mine(u, d)) /\ (Recycles(u, d)' <=> Recycles(u, d))
    BY <1>2, <1>4, <1>5 DEF Mine, Recycles
  <2> QED BY <1>4, <2>1, <2>2, <2>3, SameChunks
<1>12. PacketsInPlace'
  <2>1. \A u \in Threads, a \in Blocks : Writes(u, a)' <=> Writes(u, a)
    BY <1>2, <1>5 DEF Writes
  <2> QED BY <1>4, <2>1, SamePackets
<1> QED BY <1>3, <1>6, <1>8, <1>9, <1>10, <1>11, <1>12 DEF Inv, Sound

\* The new packet begins where the chunk is used up to, beyond every other packet in it.
LEMMA MakeBufferInv ==
    ASSUME Inv, NEW t \in Threads, MakeBuffer(t)
    PROVE  Inv'
<1> DEFINE c == tls[t]
           n == pc[t].size
<1>1. TypeOK /\ Shape(t) /\ n \in Nat
  BY Locals
<1>2. /\ pc[t].at = "make" /\ mem[t].at \in {"popped", "made", "mapped"}
      /\ c \in Chunks /\ used[c] + n <= ChunkSize /\ used[c] \in Nat /\ open[c]
  BY <1>1, Locals DEF MakeBuffer, Shape, Carving
<1>3. PICK b \in Blocks :
        /\ b = mem[t].block
        /\ header' = [header EXCEPT ![b] = AllocSize]
        /\ mem' = [mem EXCEPT ![t] = MemIdle]
        /\ buffer' = [buffer EXCEPT ![b] = [owner |-> c, from |-> used[c], size |-> n, closed |-> FALSE]]
        /\ Goto(t, "write", n, None, b)
        /\ UNCHANGED <<stomp, list, popCrash>>
  BY DEF MakeBuffer, Deliver
<1>4. UNCHANGED <<pool, created, tls, open, used, crash>>
  BY DEF MakeBuffer
<1>5. /\ pc' \in [Threads -> Local]
      /\ pc'[t].at = "write" /\ pc'[t].size = n /\ pc'[t].chunk = None /\ pc'[t].block = b
      /\ \A u \in Threads : u # t => pc'[u] = pc[u]
  <2>1. TypeOK /\ n \in Nat
    BY <1>1
  <2> HIDE DEF n, c
  <2> QED BY <1>3, <2>1, GotoEffect
<1> HIDE DEF c, n
<1>6. PICK p \in Packet :
        /\ p = [owner |-> c, from |-> used[c], size |-> n, closed |-> FALSE]
        /\ p.owner = c /\ p.from = used[c] /\ p.size = n /\ ~p.closed /\ p # None
  <2> DEFINE p == [owner |-> c, from |-> used[c], size |-> n, closed |-> FALSE]
  <2>1. p \in Packet
    BY <1>1, <1>2 DEF Packet
  <2>2. p.owner = c /\ p.from = used[c] /\ p.size = n /\ ~p.closed
    OBVIOUS
  <2>3. p # None
    BY <2>1, Constants
  <2> QED BY <2>1, <2>2, <2>3
<1>7. /\ buffer'[b] = p /\ \A a \in Blocks : a # b => buffer'[a] = buffer[a]
      /\ buffer' \in [Blocks -> Packet \cup {None}]
  <2>1. buffer \in [Blocks -> Packet \cup {None}] /\ buffer' = [buffer EXCEPT ![b] = p]
    BY <1>1, <1>3, <1>6 DEF TypeOK
  <2> QED BY <2>1
<1>8. /\ header'[b] = AllocSize /\ \A a \in Blocks : a # b => header'[a] = header[a]
      /\ header' \in [Blocks -> {None, 0, AllocSize}]
  <2>1. header \in [Blocks -> {None, 0, AllocSize}]
    BY <1>1 DEF TypeOK
  <2> QED BY <1>3, <2>1
<1>9. /\ mem'[t] = MemIdle /\ \A u \in Threads : u # t => mem'[u] = mem[u]
      /\ mem' \in [Threads -> MemLocal]
  <2>1. mem \in [Threads -> MemLocal] /\ MemIdle \in MemLocal
    BY <1>1 DEF TypeOK, MemIdle, MemLocal
  <2> QED BY <1>3, <2>1
<1>10. TypeOK'
  BY <1>1, <1>3, <1>4, <1>5, <1>7, <1>8, <1>9 DEF TypeOK
<1>11. /\ Hand(t, b) /\ b \notin Live /\ ~Listed(b) /\ buffer[b] = None
       /\ \A u \in Threads : Hand(u, b) => u = t
  <2>1. Hand(t, b)
    BY <1>2, <1>3 DEF Hand
  <2>2. BlockPlace(b)
    BY DEF Inv, BlocksInPlace
  <2> QED BY <2>1, <2>2 DEF BlockPlace, Live
<1>12. \A u \in Threads : pc[u].at = "write" => u # t /\ pc[u].block \in Blocks /\ pc[u].block # b
  BY <1>2, <1>11, Writer
<1>13. \A u \in Threads : Shape(u)' /\ Writing(u)'
  <2>1. Shape(t)'
    <3>1. tls'[t] = c /\ c # None /\ open'[c] /\ MemIdle.at = "idle"
      BY <1>2, <1>4, Constants DEF c, MemIdle
    <3> QED BY <1>5, <1>9, <3>1 DEF Shape, Carving
  <2>2. Writing(t)'
    <3>1. tls'[t] = c /\ c # None /\ used'[c] = used[c]
      BY <1>2, <1>4, Constants DEF c
    <3> QED BY <1>5, <1>6, <1>7, <3>1 DEF Writing, Live
  <2>3. ASSUME NEW u \in Threads, u # t PROVE Shape(u)' /\ Writing(u)'
    BY <1>4, <1>5, <1>7, <1>9, <1>10, <1>12, <2>3, OtherThread
  <2> QED BY <2>1, <2>2, <2>3
<1>14. BlocksInPlace'
  <2>1. \A u \in Threads, a \in Blocks : Hand(u, a)' <=> Hand(u, a) /\ a # b
    <3>1. \A a \in Blocks : Hand(t, a) <=> a = b
      BY <1>2, <1>3 DEF Hand
    <3>2. \A a \in Blocks : ~Hand(t, a)'
      BY <1>5, <1>9 DEF Hand, MemIdle
    <3>3. \A u \in Threads, a \in Blocks : u # t => (Hand(u, a)' <=> Hand(u, a))
      BY <1>5, <1>9 DEF Hand
    <3> QED BY <1>11, <3>1, <3>2, <3>3
  <2>2. \A a \in Blocks : a \in Live' <=> a \in Live \/ a = b
    BY <1>6, <1>7 DEF Live
  <2>3. \A a \in Blocks : Listed(a)' <=> Listed(a)
    BY <1>3 DEF Listed
  <2>4. ASSUME NEW a \in Blocks PROVE BlockPlace(a)'
    <3>1. BlockPlace(a)
      BY DEF Inv, BlocksInPlace
    <3>2. CASE a = b
      <4>1. ~Listed(b)' /\ b \in Live' /\ header'[b] # None /\ \A u \in Threads : ~Hand(u, b)'
        BY <1>8, <1>11, <2>1, <2>2, <2>3, Constants
      <4> QED BY <3>2, <4>1 DEF BlockPlace
    <3>3. CASE a # b
      <4>1. ~Hand(t, a)
        BY <1>2, <1>3, <3>3 DEF Hand
      <4>2. (Listed(a)' <=> Listed(a)) /\ (a \in Live' <=> a \in Live) /\ header'[a] = header[a]
        BY <1>8, <2>2, <2>3, <3>3
      <4>3. \A u \in Threads : Hand(u, a)' <=> Hand(u, a)
        BY <2>1, <3>3
      <4> QED BY <1>9, <3>1, <4>1, <4>2, <4>3 DEF BlockPlace
    <3> QED BY <3>2, <3>3
  <2> QED BY <1>3, <2>4 DEF Inv, BlocksInPlace, ListInjective
<1>15. ChunksInPlace'
  <2>1. \A d \in Chunks : Referred(d)' <=> Referred(d) \/ d = c
    BY <1>6, <1>7, <1>11 DEF Referred
  <2>2. \A u \in Threads, d \in Chunks :
           (Mine(u, d)' <=> Mine(u, d)) /\ (Recycles(u, d)' <=> Recycles(u, d))
    BY <1>2, <1>4, <1>5 DEF Mine, Recycles
  <2>3. Mine(t, c)
    BY DEF Mine, c
  <2>4. ASSUME NEW d \in Chunks PROVE ChunkPlace(d)'
    <3>1. ChunkPlace(d) /\ (Pooled(d)' <=> Pooled(d)) /\ created' = created
      BY <1>4 DEF Inv, ChunksInPlace, Pooled
    <3> QED BY <2>1, <2>2, <2>3, <3>1 DEF ChunkPlace
  <2>5. \A u \in Threads : Fresh(u)'
    <3>1. \A d \in Chunks : Referred(d)' => Referred(d) \/ (tls[t] = d /\ d # None)
      BY <2>1, Constants DEF c
    <3> QED BY <1>4, <1>5, <3>1, SameFresh
  <2> QED BY <1>4, <2>4, <2>5 DEF Inv, ChunksInPlace, PoolInjective
<1>16. PacketsInPlace'
  <2>1. \A u \in Threads, a \in Blocks : Writes(u, a) => Writes(u, a)' /\ a # b
    BY <1>5, <1>12 DEF Writes
  <2>2. Writes(t, b)'
    BY <1>5 DEF Writes
  <2>3. ASSUME NEW a \in Blocks PROVE PacketPlace(a)'
    <3>1. CASE a = b
      BY <1>2, <1>4, <1>6, <1>7, <2>2, <3>1 DEF PacketPlace
    <3>2. CASE a # b
      <4>1. PacketPlace(a) /\ buffer'[a] = buffer[a] /\ used' = used
        BY <1>4, <1>7, <3>2 DEF Inv, PacketsInPlace
      <4> QED BY <2>1, <4>1 DEF PacketPlace
    <3> QED BY <3>1, <3>2
  <2>4. ASSUME NEW a \in Blocks, a # b, buffer[a] # None, buffer[a].owner = c
        PROVE  buffer[a].from + buffer[a].size <= used[c]
    <3>1. PacketPlace(a)
      BY DEF Inv, PacketsInPlace
    <3>2. CASE buffer[a].closed
      BY <2>4, <3>1, <3>2 DEF PacketPlace
    <3>3. CASE ~buffer[a].closed
      <4>1. PICK u \in Threads : Writes(u, a)
        BY <2>4, <3>1, <3>3 DEF PacketPlace
      <4>2. tls[u] = c /\ u # t
        BY <1>2, <2>4, <4>1, Writer DEF Writes
      <4> QED BY <1>2, <4>2, OneWriter DEF c
    <3> QED BY <3>2, <3>3
  <2>5. ASSUME NEW a \in Blocks, NEW d \in Blocks, a # d,
               buffer'[a] # None, buffer'[d] # None, buffer'[a].owner = buffer'[d].owner
        PROVE  Apart(a, d)'
    <3>1. CASE a = b
      <4>1. buffer'[d] = buffer[d] /\ buffer'[a] = p
        BY <1>7, <2>5, <3>1
      <4>2. buffer[d].from + buffer[d].size <= used[c]
        BY <1>6, <2>4, <2>5, <3>1, <4>1
      <4> QED BY <1>6, <4>1, <4>2 DEF Apart
    <3>2. CASE d = b
      <4>1. buffer'[a] = buffer[a] /\ buffer'[d] = p
        BY <1>7, <2>5, <3>2
      <4>2. buffer[a].from + buffer[a].size <= used[c]
        BY <1>6, <2>4, <2>5, <3>2, <4>1
      <4> QED BY <1>6, <4>1, <4>2 DEF Apart
    <3>3. CASE a # b /\ d # b
      <4>1. buffer'[a] = buffer[a] /\ buffer'[d] = buffer[d]
        BY <1>7, <3>3
      <4>2. Disjoint
        BY DEF Inv, PacketsInPlace
      <4> QED BY <2>5, <4>1, <4>2 DEF Apart, Disjoint
    <3> QED BY <3>1, <3>2, <3>3
  <2>6. Disjoint'
    BY <2>5 DEF Disjoint
  <2> QED BY <2>3, <2>6 DEF PacketsInPlace
<1> QED BY <1>3, <1>4, <1>10, <1>13, <1>14, <1>15, <1>16 DEF Inv, Sound

\* Close: the chunk accounts for the packet.
LEMMA CloseInv ==
    ASSUME Inv, NEW t \in Threads, Close(t)
    PROVE  Inv'
<1> DEFINE b == pc[t].block
           c == tls[t]
           n == pc[t].size
<1>1. TypeOK /\ Shape(t) /\ n \in Nat
  BY Locals
<1>2. pc[t].at = "write" /\ mem[t].at = "idle"
  BY <1>1, Locals DEF Close, Shape
<1>3. /\ b \in Blocks /\ c \in Chunks
      /\ buffer[b].owner = c /\ buffer[b].from = used[c] /\ buffer[b].size = n
      /\ ~buffer[b].closed /\ buffer[b] # None
  BY <1>2, Writer
<1>4. open[c] /\ used[c] \in Nat /\ buffer[b] \in Packet
  BY <1>1, <1>2, <1>3, Constants DEF Shape, TypeOK
<1>5. /\ open' = [open EXCEPT ![c] = FALSE]
      /\ used' = [used EXCEPT ![c] = used[c] + n]
      /\ buffer' = [buffer EXCEPT ![b].closed = TRUE]
      /\ pc' = [pc EXCEPT ![t] = Idle]
      /\ crash' = (crash \/ ~open[c])
      /\ UNCHANGED <<stomp, header, list, mem, popCrash, pool, created, tls>>
  BY <1>3 DEF Close, memVars
<1> HIDE DEF b, c, n
<1>6. crash' = FALSE
  BY <1>4, <1>5 DEF Inv, Sound
<1>7. /\ pc'[t] = Idle /\ \A u \in Threads : u # t => pc'[u] = pc[u]
      /\ pc' \in [Threads -> Local]
  <2>1. pc \in [Threads -> Local] /\ Idle \in Local
    BY <1>1 DEF TypeOK, Idle, Local
  <2> QED BY <1>5, <2>1
<1>8. /\ open' \in [Chunks -> BOOLEAN] /\ ~open'[c]
      /\ \A d \in Chunks : d # c => open'[d] = open[d]
  <2>1. open \in [Chunks -> BOOLEAN]
    BY <1>1 DEF TypeOK
  <2> QED BY <1>3, <1>5, <2>1
<1>9. /\ used' \in [Chunks -> Nat] /\ used'[c] = used[c] + n
      /\ \A d \in Chunks : d # c => used'[d] = used[d]
  <2>1. used \in [Chunks -> Nat] /\ used[c] + n \in Nat
    BY <1>1, <1>4 DEF TypeOK
  <2> QED BY <1>3, <1>5, <2>1
<1>10. /\ buffer'[b] \in Packet /\ buffer'[b] # None
       /\ buffer'[b].owner = c /\ buffer'[b].from = used[c] /\ buffer'[b].size = n
       /\ buffer'[b].closed
       /\ \A a \in Blocks : a # b => buffer'[a] = buffer[a]
       /\ buffer' \in [Blocks -> Packet \cup {None}]
  <2>1. PICK q \in Packet : /\ q = [buffer[b] EXCEPT !.closed = TRUE]
                            /\ q.owner = c /\ q.from = used[c] /\ q.size = n /\ q.closed
    <3>1. \A r \in Packet : /\ [r EXCEPT !.closed = TRUE] \in Packet
                            /\ [r EXCEPT !.closed = TRUE].owner = r.owner
                            /\ [r EXCEPT !.closed = TRUE].from = r.from
                            /\ [r EXCEPT !.closed = TRUE].size = r.size
                            /\ [r EXCEPT !.closed = TRUE].closed
      BY DEF Packet
    <3> QED BY <1>3, <1>4, <3>1
  <2>2. buffer \in [Blocks -> Packet \cup {None}] /\ buffer' = [buffer EXCEPT ![b] = q]
    BY <1>1, <1>5, <2>1 DEF TypeOK
  <2>3. buffer'[b] = q /\ q # None
    BY <1>3, <2>1, <2>2, Constants
  <2> QED BY <1>3, <2>1, <2>2, <2>3
<1>11. TypeOK'
  BY <1>1, <1>5, <1>6, <1>7, <1>8, <1>9, <1>10 DEF TypeOK
<1>12. Live' = Live
  BY <1>3, <1>10 DEF Live
<1>13. \A u \in Threads : u # t => tls[u] # c
  BY <1>3, OneWriter DEF c
<1>14. \A u \in Threads : pc[u].at = "write" /\ u # t => pc[u].block \in Blocks /\ pc[u].block # b
  BY <1>3, <1>13, Writer
<1>15. \A u \in Threads : Shape(u)' /\ Writing(u)'
  <2>1. /\ Idle.at = "idle" /\ Idle.block = None /\ Idle.chunk = None
    BY DEF Idle
  <2>2. Shape(t)'
    <3>1. mem'[t] = MemIdle /\ MemIdle.at = "idle" /\ tls'[t] = c
      BY <1>1, <1>2, <1>5 DEF Shape, MemIdle, c
    <3> QED BY <1>7, <1>8, <2>1, <3>1 DEF Shape, Carving
  <2>3. Writing(t)'
    BY <1>7, <2>1 DEF Writing
  <2>4. ASSUME NEW u \in Threads, u # t PROVE Shape(u)' /\ Writing(u)'
    <3>1. tls[u] # None => tls[u] \in Chunks /\ tls[u] # c
      BY <1>13, <2>4, Locals
    <3> QED BY <1>5, <1>7, <1>8, <1>9, <1>10, <1>11, <1>14, <2>4, <3>1, OtherThread
  <2> QED BY <2>2, <2>3, <2>4
<1>16. BlocksInPlace'
  <2>1. \A u \in Threads, a \in Blocks : Hand(u, a)' <=> Hand(u, a)
    BY <1>2, <1>5, <1>7 DEF Hand, Idle
  <2> QED BY <1>5, <1>12, <2>1, SameBlocks
<1>17. ChunksInPlace'
  <2>1. \A d \in Chunks : Referred(d)' <=> Referred(d)
    BY <1>3, <1>10 DEF Referred
  <2>2. \A u \in Threads, d \in Chunks :
           (Mine(u, d)' <=> Mine(u, d)) /\ (Recycles(u, d)' <=> Recycles(u, d))
    BY <1>2, <1>5, <1>7 DEF Mine, Recycles, Idle
  <2>3. \A u \in Threads : Fresh(u)'
    BY <1>5, <1>7, <2>1, SameFresh DEF Idle
  <2> QED BY <1>5, <2>1, <2>2, <2>3, SameChunks
<1>18. PacketsInPlace'
  <2>1. \A u \in Threads, a \in Blocks : Writes(u, a) /\ a # b => Writes(u, a)'
    BY <1>7 DEF Writes, b
  <2>2. ASSUME NEW a \in Blocks PROVE PacketPlace(a)'
    <3>1. PacketPlace(a)
      BY DEF Inv, PacketsInPlace
    <3>2. CASE a = b
      <4>1. used[c] + n <= ChunkSize
        BY <1>3, <3>1, <3>2 DEF PacketPlace
      <4>2. used[c] + n <= used'[c]
        BY <1>1, <1>4, <1>9
      <4> QED BY <1>10, <3>2, <4>1, <4>2 DEF PacketPlace
    <3>3. CASE a # b /\ buffer[a] # None
      <4>1. buffer'[a] = buffer[a] /\ buffer[a] \in Packet
        BY <1>1, <1>10, <3>3 DEF TypeOK
      <4>2. buffer[a].owner \in Chunks /\ buffer[a].from + buffer[a].size \in Nat
        BY <4>1 DEF Packet
      <4>3. used[buffer[a].owner] \in Nat /\ used'[buffer[a].owner] \in Nat
        BY <1>1, <1>9, <4>2 DEF TypeOK
      <4>4. used'[buffer[a].owner] >= used[buffer[a].owner]
        BY <1>1, <1>4, <1>9, <4>2, <4>3
      <4>5. buffer[a].closed => buffer[a].from + buffer[a].size <= used'[buffer[a].owner]
        BY <3>1, <3>3, <4>2, <4>3, <4>4 DEF PacketPlace
      <4> QED BY <2>1, <3>1, <3>3, <4>1, <4>5 DEF PacketPlace
    <3>4. CASE a # b /\ buffer[a] = None
      BY <1>10, <3>4 DEF PacketPlace
    <3> QED BY <3>2, <3>3, <3>4
  <2>3. \A a \in Blocks : /\ buffer'[a] # None => buffer[a] # None
                          /\ buffer'[a].owner = buffer[a].owner
                          /\ buffer'[a].from = buffer[a].from
                          /\ buffer'[a].size = buffer[a].size
    BY <1>3, <1>10
  <2>4. Disjoint
    BY DEF Inv, PacketsInPlace
  <2>5. Disjoint'
    BY <2>3, <2>4 DEF Disjoint, Apart
  <2> QED BY <2>2, <2>5 DEF PacketsInPlace
<1> QED BY <1>5, <1>6, <1>11, <1>15, <1>16, <1>17, <1>18 DEF Inv, Sound

\* A packet nobody refers to goes, and its chunk with it if that was the last one.
LEMMA DestroyInv ==
    ASSUME Inv, NEW t \in Threads, NEW b \in Blocks, Destroy(t, b)
    PROVE  Inv'
<1>1. TypeOK /\ Shape(t)
  BY Locals
<1>2. PICK c \in Chunks :
      /\ pc[t] = Idle /\ mem[t] = MemIdle /\ b \in Live /\ buffer[b] # None /\ buffer[b].closed
      /\ pc[t].at = "idle" /\ mem[t].at = "idle"
      /\ c = buffer[b].owner
      /\ buffer' = [buffer EXCEPT ![b] = None]
      /\ UNCHANGED <<stomp, header, list, mem, popCrash, pool, created, tls, open, used, crash>>
  BY <1>1 DEF Destroy, memVars, Live, Idle, MemIdle, TypeOK, Packet
<1> DEFINE last == Holders(c) = {b}
<1>3. /\ last => Goto(t, "recycle", 0, c, b)
      /\ ~last => Goto(t, "free", 0, None, b)
  BY <1>2 DEF Destroy
<1>4. PICK step \in {"recycle", "free"}, d \in Chunks \cup {None} :
        /\ Goto(t, step, 0, d, b)
        /\ last => step = "recycle" /\ d = c
        /\ ~last => step = "free" /\ d = None
  <2> HIDE DEF last
  <2>1. CASE last
    BY <1>3, <2>1
  <2>2. CASE ~last
    BY <1>3, <2>2
  <2> QED BY <2>1, <2>2
<1>5. /\ last => /\ \A a \in Blocks : a # b => buffer[a] = None \/ buffer[a].owner # c
                 /\ \A u \in Threads : ~Mine(u, c)
      /\ ~last => \/ \E a \in Blocks : a # b /\ buffer[a] # None /\ buffer[a].owner = c
                  \/ \E u \in Threads : Mine(u, c)
  <2>1. ASSUME last PROVE /\ \A a \in Blocks : a # b => buffer[a] = None \/ buffer[a].owner # c
                          /\ \A u \in Threads : ~Mine(u, c)
    <3>1. \A u \in Threads : u # b
      BY Constants
    <3> QED BY <1>3, <2>1, <3>1, Alone
  <2>2. b \in Holders(c)
    BY <1>2 DEF Holders, Live
  <2> QED BY <1>3, <2>1, <2>2, NotAlone
<1>6. Referred(c)
  BY <1>2 DEF Referred
<1> HIDE DEF last
<1>7. /\ pc' \in [Threads -> Local]
      /\ pc'[t].at = step /\ pc'[t].size = 0 /\ pc'[t].chunk = d /\ pc'[t].block = b
      /\ \A u \in Threads : u # t => pc'[u] = pc[u]
  <2>1. TypeOK /\ 0 \in Nat
    BY <1>1
  <2> QED BY <1>4, <2>1, GotoEffect
<1>8. /\ buffer'[b] = None /\ \A a \in Blocks : a # b => buffer'[a] = buffer[a]
      /\ buffer' \in [Blocks -> Packet \cup {None}]
  <2>1. buffer \in [Blocks -> Packet \cup {None}]
    BY <1>1 DEF TypeOK
  <2> QED BY <1>2, <2>1
<1>9. TypeOK'
  BY <1>1, <1>2, <1>7, <1>8 DEF TypeOK
<1>10. \A u \in Threads : pc[u].at = "write" => pc[u].block \in Blocks /\ pc[u].block # b
  BY <1>2, Writer
<1>11. \A u \in Threads : Shape(u)' /\ Writing(u)'
  <2>1. Shape(t)'
    <3>1. b # None /\ (step = "recycle" => d # None)
      BY <1>3, <1>4, Constants
    <3>2. ~Carving(t)'
      BY <1>4, <1>7, <3>1 DEF Carving
    <3>3. tls[t] # None => ~open[tls[t]]
      BY <1>1, <1>2 DEF Shape
    <3> QED BY <1>1, <1>2, <1>4, <1>7, <3>1, <3>2, <3>3 DEF Shape
  <2>2. Writing(t)'
    BY <1>7 DEF Writing
  <2>3. ASSUME NEW u \in Threads, u # t PROVE Shape(u)' /\ Writing(u)'
    BY <1>2, <1>7, <1>8, <1>9, <1>10, <2>3, OtherThread
  <2> QED BY <2>1, <2>2, <2>3
<1>12. BlocksInPlace'
  <2>1. \A u \in Threads, a \in Blocks : Hand(u, a)' <=> Hand(u, a) \/ (u = t /\ a = b)
    <3>1. \A a \in Blocks : ~Hand(t, a)
      BY <1>2 DEF Hand
    <3>2. \A a \in Blocks : Hand(t, a)' <=> a = b
      BY <1>2, <1>7 DEF Hand
    <3>3. \A u \in Threads, a \in Blocks : u # t => (Hand(u, a)' <=> Hand(u, a))
      BY <1>2, <1>7 DEF Hand
    <3> QED BY <3>1, <3>2, <3>3
  <2>2. \A a \in Blocks : a \in Live' <=> a \in Live /\ a # b
    BY <1>8 DEF Live
  <2>3. \A a \in Blocks : Listed(a)' <=> Listed(a)
    BY <1>2 DEF Listed
  <2>4. ASSUME NEW a \in Blocks PROVE BlockPlace(a)'
    <3>1. BlockPlace(a)
      BY DEF Inv, BlocksInPlace
    <3>2. CASE a = b
      <4>1. /\ ~Listed(b)' /\ b \notin Live' /\ header'[b] # None /\ mem'[t].at # "cleared"
            /\ \A u \in Threads : Hand(u, b)' <=> u = t
        BY <1>2, <2>1, <2>2, <2>3, <3>1, <3>2 DEF BlockPlace
      <4> QED BY <3>2, <4>1 DEF BlockPlace
    <3>3. CASE a # b
      <4>1. \A u \in Threads : Hand(u, a)' <=> Hand(u, a)
        BY <2>1, <3>3
      <4>2. (Listed(a)' <=> Listed(a)) /\ (a \in Live' <=> a \in Live) /\ UNCHANGED <<header, mem>>
        BY <1>2, <2>2, <2>3, <3>3
      <4> QED BY <3>1, <4>1, <4>2 DEF BlockPlace
    <3> QED BY <3>2, <3>3
  <2> QED BY <1>2, <2>4 DEF Inv, BlocksInPlace, ListInjective
<1>13. ChunksInPlace'
  <2>1. \A e \in Chunks : e # c => (Referred(e)' <=> Referred(e))
    BY <1>2, <1>8 DEF Referred
  <2>2. /\ last => ~Referred(c)' /\ \A u \in Threads : ~Mine(u, c)
        /\ ~last => Referred(c)' \/ \E u \in Threads : Mine(u, c)
    <3>1. ASSUME last PROVE ~Referred(c)'
      BY <1>5, <1>8, <3>1 DEF Referred
    <3>2. ASSUME NEW a \in Blocks, a # b, buffer[a] # None, buffer[a].owner = c PROVE Referred(c)'
      BY <1>8, <3>2 DEF Referred
    <3> QED BY <1>5, <3>1, <3>2
  <2>3. \A u \in Threads, e \in Chunks : Mine(u, e)' <=> Mine(u, e)
    BY <1>2, <1>4, <1>7 DEF Mine
  <2>4. \A u \in Threads, e \in Chunks :
           Recycles(u, e)' <=> Recycles(u, e) \/ (u = t /\ last /\ e = c)
    <3>1. \A e \in Chunks : ~Recycles(t, e)
      BY <1>2 DEF Recycles
    <3>2. \A e \in Chunks : Recycles(t, e)' <=> last /\ e = c
      BY <1>4, <1>7 DEF Recycles
    <3>3. \A u \in Threads, e \in Chunks : u # t => (Recycles(u, e)' <=> Recycles(u, e))
      BY <1>7 DEF Recycles
    <3> QED BY <3>1, <3>2, <3>3
  <2>5. ASSUME NEW e \in Chunks PROVE ChunkPlace(e)'
    <3>1. ChunkPlace(e) /\ (Pooled(e)' <=> Pooled(e)) /\ created' = created
      BY <1>2 DEF Inv, ChunksInPlace, Pooled
    <3>2. CASE e = c
      <4>1. /\ ~Pooled(c)' /\ c \in created'
            /\ \A u \in Threads : ~Recycles(u, c) /\ (Recycles(u, c)' <=> u = t /\ last)
        BY <1>6, <2>4, <3>1, <3>2 DEF ChunkPlace
      <4>2. \A u, v \in Threads : Mine(u, c)' /\ Mine(v, c)' => u = v
        BY <2>3, <3>1, <3>2 DEF ChunkPlace
      <4>3. CASE last
        BY <2>2, <2>3, <3>2, <4>1, <4>2, <4>3 DEF ChunkPlace
      <4>4. CASE ~last
        BY <2>2, <2>3, <3>2, <4>1, <4>2, <4>4 DEF ChunkPlace
      <4> QED BY <4>3, <4>4
    <3>3. CASE e # c
      BY <2>1, <2>3, <2>4, <3>1, <3>3 DEF ChunkPlace
    <3> QED BY <3>2, <3>3
  <2>6. \A e \in Chunks : Referred(e)' => Referred(e)
    BY <1>6, <2>1
  <2>7. \A u \in Threads : Fresh(u)'
    BY <1>2, <1>4, <1>7, <2>6, SameFresh
  <2> QED BY <1>2, <2>5, <2>7 DEF Inv, ChunksInPlace, PoolInjective
<1>14. PacketsInPlace'
  <2>1. \A u \in Threads, a \in Blocks : Writes(u, a) => Writes(u, a)'
    BY <1>2, <1>7 DEF Writes
  <2>2. ASSUME NEW a \in Blocks PROVE PacketPlace(a)'
    <3>1. PacketPlace(a)
      BY DEF Inv, PacketsInPlace
    <3> QED BY <1>2, <1>8, <2>1, <3>1 DEF PacketPlace
  <2>3. Disjoint
    BY DEF Inv, PacketsInPlace
  <2>4. Disjoint'
    BY <1>8, <2>3 DEF Disjoint, Apart
  <2> QED BY <2>2, <2>4 DEF PacketsInPlace
<1> QED BY <1>2, <1>9, <1>11, <1>12, <1>13, <1>14 DEF Inv, Sound

\* The block of a destroyed packet is on its way back, or unmapped.
LEMMA FreeBlockInv ==
    ASSUME Inv, NEW t \in Threads, FreeBlock(t)
    PROVE  Inv'
<1>1. TypeOK /\ Shape(t)
  BY Locals
<1>2. PICK b \in Blocks :
        /\ b = pc[t].block /\ pc[t].at = "free" /\ mem[t] = MemIdle /\ mem[t].at = "idle"
        /\ pc' = [pc EXCEPT ![t] = Idle]
        /\ UNCHANGED <<stomp, list, popCrash, pool, created, tls, open, used, buffer, crash>>
  BY <1>1, Locals DEF FreeBlock, PushClear, StompRelease, Shape, MemIdle
<1>3. PICK m \in MemLocal, h \in {None, 0, AllocSize} :
        /\ mem' = [mem EXCEPT ![t] = m] /\ header' = [header EXCEPT ![b] = h]
        /\ \/ m.at = "cleared" /\ m.block = b /\ h = 0
           \/ m = MemIdle /\ m.at = "idle" /\ h = None
  <2>1. CASE PushClear(t, b)
    <3>1. [at |-> "cleared", block |-> b] \in MemLocal
      BY DEF MemLocal
    <3> QED BY <2>1, <3>1 DEF PushClear, At
  <2>2. CASE StompRelease(t, b)
    <3>1. MemIdle \in MemLocal /\ MemIdle.at = "idle" /\ mem = [mem EXCEPT ![t] = MemIdle]
      BY <1>1, <1>2 DEF MemLocal, MemIdle, TypeOK
    <3> QED BY <2>2, <3>1 DEF StompRelease
  <2> QED BY <1>2, <2>1, <2>2 DEF FreeBlock
<1>4. /\ mem'[t] = m /\ \A u \in Threads : u # t => mem'[u] = mem[u]
      /\ mem' \in [Threads -> MemLocal]
      /\ header'[b] = h /\ \A a \in Blocks : a # b => header'[a] = header[a]
      /\ header' \in [Blocks -> {None, 0, AllocSize}]
  <2>1. mem \in [Threads -> MemLocal] /\ header \in [Blocks -> {None, 0, AllocSize}]
    BY <1>1 DEF TypeOK
  <2> QED BY <1>3, <2>1
<1>5. /\ pc'[t] = Idle /\ \A u \in Threads : u # t => pc'[u] = pc[u]
      /\ pc' \in [Threads -> Local]
  <2>1. pc \in [Threads -> Local] /\ Idle \in Local
    BY <1>1 DEF TypeOK, Idle, Local
  <2> QED BY <1>2, <2>1
<1>6. TypeOK'
  BY <1>1, <1>2, <1>4, <1>5 DEF TypeOK
<1>7. /\ Hand(t, b) /\ b \notin Live /\ ~Listed(b)
      /\ \A u \in Threads : Hand(u, b) => u = t
  <2>1. Hand(t, b)
    BY <1>2 DEF Hand
  <2>2. BlockPlace(b)
    BY DEF Inv, BlocksInPlace
  <2> QED BY <2>1, <2>2 DEF BlockPlace
<1>8. \A u \in Threads : Shape(u)' /\ Writing(u)'
  <2>1. Shape(t)'
    <3>1. /\ Idle.at = "idle" /\ b # None
          /\ tls[t] # None => ~open[tls[t]]
      BY <1>1, <1>2, Constants DEF Shape, Idle
    <3> QED BY <1>2, <1>3, <1>4, <1>5, <3>1 DEF Shape, Carving
  <2>2. Writing(t)'
    BY <1>5 DEF Writing, Idle
  <2>3. ASSUME NEW u \in Threads, u # t PROVE Shape(u)' /\ Writing(u)'
    BY <1>2, <1>4, <1>5, <1>6, <2>3, OtherThread
  <2> QED BY <2>1, <2>2, <2>3
<1>9. BlocksInPlace'
  <2>1. \A u \in Threads, a \in Blocks : a # b => (Hand(u, a)' <=> Hand(u, a))
    <3>1. \A a \in Blocks : a # b => ~Hand(t, a)
      BY <1>2 DEF Hand
    <3>2. \A a \in Blocks : a # b => ~Hand(t, a)'
      BY <1>3, <1>4, <1>5 DEF Hand, Idle
    <3>3. \A u \in Threads, a \in Blocks : u # t => (Hand(u, a)' <=> Hand(u, a))
      BY <1>4, <1>5 DEF Hand
    <3> QED BY <3>1, <3>2, <3>3
  <2>2. \A u \in Threads : Hand(u, b)' <=> u = t /\ m.at = "cleared"
    <3>1. Hand(t, b)' <=> m.at = "cleared"
      BY <1>3, <1>4, <1>5 DEF Hand, Idle
    <3>2. \A u \in Threads : u # t => ~Hand(u, b)'
      BY <1>4, <1>5, <1>7 DEF Hand
    <3> QED BY <3>1, <3>2
  <2>3. Live' = Live /\ \A a \in Blocks : Listed(a)' <=> Listed(a)
    BY <1>2 DEF Live, Listed
  <2>4. ASSUME NEW a \in Blocks PROVE BlockPlace(a)'
    <3>1. BlockPlace(a)
      BY DEF Inv, BlocksInPlace
    <3>2. CASE a = b
      <4>1. ~Listed(b)' /\ b \notin Live' /\ header'[b] = h /\ mem'[t].at = m.at
        BY <1>4, <1>7, <2>3
      <4>2. /\ m.at = "cleared" => h = 0 /\ h # None
            /\ m.at # "cleared" => h = None
        BY <1>3, Constants
      <4> QED BY <2>2, <3>2, <4>1, <4>2 DEF BlockPlace
    <3>3. CASE a # b
      <4>1. \A u \in Threads : Hand(u, a)' <=> Hand(u, a)
        BY <2>1, <3>3
      <4>2. ~Hand(t, a)
        BY <1>2, <3>3 DEF Hand
      <4>3. (Listed(a)' <=> Listed(a)) /\ Live' = Live /\ header'[a] = header[a]
        BY <1>4, <2>3, <3>3
      <4> QED BY <1>4, <3>1, <4>1, <4>2, <4>3 DEF BlockPlace
    <3> QED BY <3>2, <3>3
  <2> QED BY <1>2, <2>4 DEF Inv, BlocksInPlace, ListInjective
<1>10. ChunksInPlace'
  <2>1. \A d \in Chunks : Referred(d)' <=> Referred(d)
    BY <1>2 DEF Referred
  <2>2. \A u \in Threads : Fresh(u)'
    BY <1>2, <1>5, <2>1, SameFresh DEF Idle
  <2>3. \A u \in Threads, d \in Chunks :
           (Mine(u, d)' <=> Mine(u, d)) /\ (Recycles(u, d)' <=> Recycles(u, d))
    BY <1>2, <1>5 DEF Mine, Recycles, Idle
  <2> QED BY <1>2, <2>1, <2>2, <2>3, SameChunks
<1>11. PacketsInPlace'
  <2>1. \A u \in Threads, a \in Blocks : Writes(u, a)' <=> Writes(u, a)
    BY <1>2, <1>5 DEF Writes, Idle
  <2> QED BY <1>2, <2>1, SamePackets
<1> QED BY <1>2, <1>6, <1>8, <1>9, <1>10, <1>11 DEF Inv, Sound

\* The block enters the list, then is counted.
LEMMA FreeStepInv ==
    ASSUME Inv, NEW t \in Threads, FreeStep(t)
    PROVE  Inv'
<1>1. TypeOK /\ Shape(t)
  BY Locals
<1>2. PICK b \in Blocks :
        /\ b = mem[t].block /\ mem[t].at \in {"cleared", "linked"} /\ pc[t].at = "idle"
        /\ UNCHANGED <<stomp, header, popCrash, pool, created, tls, open, used, buffer, pc, crash>>
  BY <1>1, Locals DEF FreeStep, PushLink, PushCount, Shape
<1>3. PICK m \in MemLocal :
        /\ mem' = [mem EXCEPT ![t] = m]
        /\ \/ m.at = "linked" /\ m.block = b /\ mem[t].at = "cleared" /\ list' = <<b>> \o list
           \/ m = MemIdle /\ m.at = "idle" /\ mem[t].at = "linked" /\ list' = list
  <2>1. CASE PushLink(t)
    <3>1. [at |-> "linked", block |-> b] \in MemLocal
      BY DEF MemLocal
    <3> QED BY <1>2, <2>1, <3>1 DEF PushLink, At
  <2>2. CASE PushCount(t)
    <3>1. MemIdle \in MemLocal /\ MemIdle.at = "idle"
      BY DEF MemLocal, MemIdle
    <3> QED BY <2>2, <3>1 DEF PushCount
  <2> QED BY <2>1, <2>2 DEF FreeStep
<1>4. /\ mem'[t] = m /\ \A u \in Threads : u # t => mem'[u] = mem[u]
      /\ mem' \in [Threads -> MemLocal]
  <2>1. mem \in [Threads -> MemLocal]
    BY <1>1 DEF TypeOK
  <2> QED BY <1>3, <2>1
<1> DEFINE n == Len(list)
<1>5. list \in Seq(Blocks) /\ n \in Nat
  BY <1>1 DEF TypeOK
<1>6. mem[t].at = "cleared" =>
        /\ list' \in Seq(Blocks) /\ Len(list') = n + 1 /\ list'[1] = b
        /\ \A i \in 1..n : list'[i + 1] = list[i]
  <2> SUFFICES ASSUME list' = <<b>> \o list
               PROVE  /\ list' \in Seq(Blocks) /\ Len(list') = n + 1 /\ list'[1] = b
                      /\ \A i \in 1..n : list'[i + 1] = list[i]
    BY <1>3
  <2> DEFINE one == <<b>>
  <2>1. one \in Seq(Blocks) /\ Len(one) = 1 /\ one[1] = b
    OBVIOUS
  <2> HIDE DEF one
  <2>2. /\ one \o list \in Seq(Blocks) /\ Len(one \o list) = Len(one) + n
        /\ \A i \in 1..(Len(one) + n) :
              (one \o list)[i] = IF i <= Len(one) THEN one[i] ELSE list[i - Len(one)]
    BY ONLY <1>5, <2>1, ConcatProperties
  <2>3. list' = one \o list
    BY DEF one
  <2>4. Len(list') = n + 1 /\ list'[1] = b
    BY <1>5, <2>1, <2>2, <2>3
  <2>5. \A i \in 1..n : i + 1 \in 1..(1 + n) /\ ~(i + 1 <= 1) /\ (i + 1) - 1 = i
    BY <1>5
  <2>6. \A i \in 1..n : list'[i + 1] = list[i]
    BY <2>1, <2>2, <2>3, <2>5
  <2> QED BY <2>2, <2>3, <2>4, <2>6
<1>7. TypeOK'
  <2>1. list' \in Seq(Blocks)
    BY <1>3, <1>5, <1>6
  <2> QED BY <1>1, <1>2, <1>4, <2>1 DEF TypeOK
<1>8. \A u \in Threads : Shape(u)' /\ Writing(u)'
  <2>1. Shape(t)'
    <3>1. b # None
      BY Constants
    <3> QED BY <1>1, <1>2, <1>3, <1>4, <3>1 DEF Shape, Carving
  <2>2. Writing(t)'
    BY <1>2 DEF Writing
  <2>3. ASSUME NEW u \in Threads, u # t PROVE Shape(u)' /\ Writing(u)'
    BY <1>2, <1>4, <1>7, <2>3, OtherThread
  <2> QED BY <2>1, <2>2, <2>3
<1> HIDE DEF n
<1>9. Live' = Live
  BY <1>2 DEF Live
<1>10. BlocksInPlace'
  <2>1. \A u \in Threads, a \in Blocks : u # t => (Hand(u, a)' <=> Hand(u, a))
    BY <1>2, <1>4 DEF Hand
  <2>2. CASE mem[t].at = "cleared"
    <3>1. m.at = "linked" /\ m.block = b
      BY <1>3, <2>2
    <3>2. /\ 1 \in 1..(n + 1) /\ \A i \in 1..n : i + 1 \in 1..(n + 1)
          /\ \A i \in 1..(n + 1) : i # 1 => i - 1 \in 1..n /\ (i - 1) + 1 = i
      BY <1>5 DEF n
    <3>3. Hand(t, b) /\ BlockPlace(b)
      BY <1>2, <2>2 DEF Hand, Inv, BlocksInPlace
    <3>4. header[b] = 0 /\ b \notin Live /\ ~Listed(b) /\ \A u \in Threads : Hand(u, b) => u = t
      BY <2>2, <3>3 DEF BlockPlace
    <3>5. \A a \in Blocks : /\ Listed(a) <=> \E i \in 1..n : list[i] = a
                            /\ Listed(a)' <=> \E i \in 1..(n + 1) : list'[i] = a
      BY <1>6, <2>2 DEF Listed, n
    <3>6. \A i \in 1..(n + 1) : i # 1 => list'[i] = list[i - 1]
      BY <1>6, <2>2, <3>2
    <3>7. \A a \in Blocks : Listed(a)' <=> Listed(a) \/ a = b
      BY <1>6, <2>2, <3>2, <3>5, <3>6
    <3>8. ListInjective'
      <4>1. \A i \in 1..n : list[i] # b
        BY <3>4, <3>5
      <4>2. \A i, j \in 1..n : list[i] = list[j] => i = j
        BY DEF Inv, BlocksInPlace, ListInjective, n
      <4>3. ASSUME NEW i \in 1..(n + 1), NEW j \in 1..(n + 1), list'[i] = list'[j] PROVE i = j
        <5>1. CASE i = 1 \/ j = 1
          BY <1>6, <2>2, <3>2, <3>6, <4>1, <4>3, <5>1
        <5>2. CASE i # 1 /\ j # 1
          <6>1. i - 1 = j - 1
            BY <3>2, <3>6, <4>2, <4>3, <5>2
          <6> QED BY <3>2, <5>2, <6>1
        <5> QED BY <5>1, <5>2
      <4> QED BY <1>6, <2>2, <4>3 DEF ListInjective
    <3>9. \A u \in Threads, a \in Blocks : Hand(u, a)' <=> Hand(u, a) /\ a # b
      <4>1. \A a \in Blocks : Hand(t, a) <=> a = b
        BY <1>2, <2>2 DEF Hand
      <4>2. \A a \in Blocks : ~Hand(t, a)'
        BY <1>2, <1>4, <3>1 DEF Hand
      <4> QED BY <2>1, <3>4, <4>1, <4>2
    <3>10. ASSUME NEW a \in Blocks PROVE BlockPlace(a)'
      <4>1. BlockPlace(a)
        BY DEF Inv, BlocksInPlace
      <4>2. CASE a = b
        <5>1. Listed(b)' /\ header'[b] = 0 /\ b \notin Live' /\ \A u \in Threads : ~Hand(u, b)'
          BY <1>2, <1>9, <3>4, <3>7, <3>9
        <5> QED BY <4>2, <5>1 DEF BlockPlace
      <4>3. CASE a # b
        <5>1. \A u \in Threads : Hand(u, a)' <=> Hand(u, a)
          BY <3>9, <4>3
        <5>2. ~Hand(t, a)
          BY <1>2, <2>2, <4>3 DEF Hand
        <5>3. (Listed(a)' <=> Listed(a)) /\ header'[a] = header[a]
          BY <1>2, <3>7, <4>3
        <5> QED BY <1>4, <1>9, <4>1, <5>1, <5>2, <5>3 DEF BlockPlace
      <4> QED BY <4>2, <4>3
    <3> QED BY <3>8, <3>10 DEF BlocksInPlace
  <2>3. CASE mem[t].at = "linked"
    <3>1. list' = list /\ m.at = "idle"
      BY <1>3, <2>3
    <3>2. \A a \in Blocks : ~Hand(t, a) /\ ~Hand(t, a)'
      BY <1>2, <1>4, <2>3, <3>1 DEF Hand
    <3>3. \A a \in Blocks : Listed(a)' <=> Listed(a)
      BY <3>1 DEF Listed
    <3>4. ASSUME NEW a \in Blocks PROVE BlockPlace(a)'
      <4>1. BlockPlace(a) /\ header'[a] = header[a]
        BY <1>2 DEF Inv, BlocksInPlace
      <4>2. \A u \in Threads : Hand(u, a)' <=> Hand(u, a)
        BY <2>1, <3>2
      <4> QED BY <1>4, <1>9, <3>2, <3>3, <4>1, <4>2 DEF BlockPlace
    <3> QED BY <3>1, <3>4 DEF Inv, BlocksInPlace, ListInjective
  <2> QED BY <1>2, <2>2, <2>3
<1>11. ChunksInPlace'
  <2>1. \A d \in Chunks : Referred(d)' <=> Referred(d)
    BY <1>2 DEF Referred
  <2>2. \A u \in Threads : Fresh(u)'
    BY <1>2, <2>1, SameFresh
  <2>3. \A u \in Threads, d \in Chunks :
           (Mine(u, d)' <=> Mine(u, d)) /\ (Recycles(u, d)' <=> Recycles(u, d))
    BY <1>2 DEF Mine, Recycles
  <2> QED BY <1>2, <2>1, <2>2, <2>3, SameChunks
<1>12. PacketsInPlace'
  <2>1. \A u \in Threads, a \in Blocks : Writes(u, a)' <=> Writes(u, a)
    BY <1>2 DEF Writes
  <2> QED BY <1>2, <2>1, SamePackets
<1> QED BY <1>2, <1>7, <1>8, <1>10, <1>11, <1>12 DEF Inv, Sound

-----------------------------------------------------------------------------
(* The theorems.                                                           *)

\* Every step of every thread keeps the invariant.
LEMMA NextInv == Inv /\ [Next]_vars => Inv'
<1> SUFFICES ASSUME Inv, [Next]_vars PROVE Inv'
  OBVIOUS
<1>1. ASSUME NEW t \in Threads, NEW n \in Sizes, Open(t, n) PROVE Inv'
  BY <1>1, OpenInv
<1>2. ASSUME NEW t \in Threads, PopChunk(t) PROVE Inv'
  BY <1>2, PopChunkInv
<1>3. ASSUME NEW t \in Threads, Swap(t) PROVE Inv'
  BY <1>3, SwapInv
<1>4. ASSUME NEW t \in Threads, PushGlobal(t) PROVE Inv'
  BY <1>4, PushGlobalInv
<1>5. ASSUME NEW t \in Threads, OpenChunk(t) PROVE Inv'
  BY <1>5, OpenChunkInv
<1>6. ASSUME NEW t \in Threads, MakeBuffer(t) PROVE Inv'
  BY <1>6, MakeBufferInv
<1>7. ASSUME NEW t \in Threads, Close(t) PROVE Inv'
  BY <1>7, CloseInv
<1>8. ASSUME NEW t \in Threads, NEW b \in Blocks, Destroy(t, b) PROVE Inv'
  BY <1>8, DestroyInv
<1>9. ASSUME NEW t \in Threads, FreeBlock(t) PROVE Inv'
  BY <1>9, FreeBlockInv
<1>10. ASSUME NEW t \in Threads, FreeStep(t) PROVE Inv'
  BY <1>10, FreeStepInv
<1>11. ASSUME UNCHANGED vars \/ \E t \in Threads : OpenTooLarge(t) PROVE Inv'
  <2>1. /\ UNCHANGED <<stomp, header, list, mem, popCrash>>
        /\ UNCHANGED <<pool, created, tls, open, used, buffer, pc, crash>>
    BY <1>11 DEF vars, memVars, OpenTooLarge
  <2>2. TypeOK' /\ \A t \in Threads : Shape(t)' /\ Writing(t)'
    BY <2>1 DEF Inv, TypeOK, Shape, Carving, Writing, Live
  <2>3. BlocksInPlace'
    BY <2>1, SameBlocks DEF Hand, Live
  <2>4. ChunksInPlace'
    <3>1. \A t \in Threads : Fresh(t)'
      BY <2>1 DEF Inv, ChunksInPlace, Fresh, Referred
    <3> QED BY <2>1, <3>1, SameChunks DEF Mine, Recycles, Referred
  <2>5. PacketsInPlace'
    BY <2>1, SamePackets DEF Writes
  <2> QED BY <2>1, <2>2, <2>3, <2>4, <2>5 DEF Inv, Sound
<1> QED
  <2>1. CASE Next
    BY <1>1, <1>2, <1>3, <1>4, <1>5, <1>6, <1>7, <1>8, <1>9, <1>10, <1>11, <2>1 DEF Next
  <2> QED BY <1>11, <2>1

\* Blocks, chunks and packets are where the invariant says, for any number of them.
THEOREM InvHolds == Spec => []Inv
BY InitInv, NextInv, PTL DEF Spec

\* SendBufferChunk::Open and Close: packets in use never share a byte of a chunk.
THEOREM PacketsApart == Spec => []NoSharedBytes
<1>1. Inv => NoSharedBytes
  BY DEF Inv, PacketsInPlace, PacketPlace, Disjoint, Apart, NoSharedBytes, Live
<1> QED BY <1>1, InvHolds, PTL

\* The assertion on the size ends the program at the step of one thread.
SizeOnly ==
    /\ tooLarge \in BOOLEAN
    /\ tooLarge => \E t \in Threads : pc[t].at = "carve" /\ pc[t].size > ChunkSize

LEMMA SizeOnlyHolds == Spec => []SizeOnly
<1>1. Init => SizeOnly
  BY DEF Init, SizeOnly
<1>2. SizeOnly /\ [Next]_vars => SizeOnly'
  <2> SUFFICES ASSUME SizeOnly, [Next]_vars PROVE SizeOnly'
    OBVIOUS
  <2>1. CASE UNCHANGED vars
    BY <2>1 DEF vars, SizeOnly
  <2>2. ASSUME NEW t \in Threads, OpenTooLarge(t) PROVE SizeOnly'
    BY <2>2 DEF OpenTooLarge, SizeOnly
  <2>3. ASSUME tooLarge = FALSE, tooLarge' = tooLarge PROVE SizeOnly'
    BY <2>3 DEF SizeOnly
  <2>4. CASE Next
    <3>1. tooLarge = FALSE
      BY <2>4 DEF Next, SizeOnly
    <3>2. PICK t \in Threads : OpenTooLarge(t) \/ tooLarge' = tooLarge
      BY <2>4 DEF Next, Open, PopChunk, Swap, PushGlobal, OpenChunk, MakeBuffer, Close,
                  Destroy, FreeBlock, FreeStep
    <3> QED BY <2>2, <2>3, <3>1, <3>2
  <2> QED BY <2>1, <2>4
<1> QED BY <1>1, <1>2, PTL DEF Spec

\* The variables keep their types: the offsets of packets stay natural numbers, the
\* program counters know every step, and lists and pool hold blocks and chunks only.
THEOREM TypeCorrect == Spec => [](TypeOK /\ tooLarge \in BOOLEAN)
<1>1. Inv => TypeOK
  BY DEF Inv
<1>2. SizeOnly => tooLarge \in BOOLEAN
  BY DEF SizeOnly
<1> QED BY <1>1, <1>2, InvHolds, SizeOnlyHolds, PTL

\* Of the assertions of SendBuffer.cpp and MemoryPool.cpp the one on the size of a packet
\* is the only one that can fail, whatever the sizes, and only for a packet that is
\* larger than a chunk.
THEOREM OtherAssertionsHold == Spec => []NoOtherAssertionFails
<1>1. Inv /\ SizeOnly => NoOtherAssertionFails
  BY DEF Inv, Sound, SizeOnly, NoOtherAssertionFails
<1> QED BY <1>1, InvHolds, SizeOnlyHolds, PTL

\* How many elements a set has that cannot have two.
LEMMA AtMostOne ==
    ASSUME NEW S, \A x, y \in S : x = y
    PROVE  Cardinality(S) = IF S = {} THEN 0 ELSE 1
<1>1. CASE S = {}
  BY <1>1, FS_EmptySet
<1>2. CASE S # {}
  <2>1. PICK x \in S : TRUE
    BY <1>2
  <2>2. S = {x}
    BY <2>1
  <2>3. Cardinality({x}) = 1
    BY FS_Singleton
  <2> QED BY <1>2, <2>2, <2>3
<1> QED BY <1>1, <1>2

\* PushGlobal and Pop: a chunk is in one place and has one thread at most.
THEOREM ChunksNotLost == Spec => []ChunkInOnePlace
<1> SUFFICES Inv => ChunkInOnePlace
  BY InvHolds, PTL
<1> SUFFICES ASSUME Inv, NEW c \in created
             PROVE  /\ Cardinality({i \in DOMAIN pool : pool[i] = c})
                         + Cardinality({t \in Threads : pc[t].at = "recycle" /\ pc[t].chunk = c})
                         + (IF \/ \E t \in Threads : Mine(t, c)
                               \/ \E b \in Live : buffer[b].owner = c THEN 1 ELSE 0) = 1
                    /\ \A t, u \in Threads : Mine(t, c) /\ Mine(u, c) => t = u
  BY DEF ChunkInOnePlace
<1> DEFINE P == {i \in DOMAIN pool : pool[i] = c}
           R == {t \in Threads : pc[t].at = "recycle" /\ pc[t].chunk = c}
           held == \/ \E t \in Threads : Mine(t, c)
                   \/ \E b \in Live : buffer[b].owner = c
<1>1. c \in Chunks /\ ChunkPlace(c) /\ PoolInjective /\ DOMAIN pool = 1..Len(pool)
  BY DEF Inv, TypeOK, ChunksInPlace
<1>2. /\ P # {} <=> Pooled(c)
      /\ R # {} <=> \E t \in Threads : Recycles(t, c)
      /\ held <=> Referred(c) \/ \E t \in Threads : Mine(t, c)
  BY <1>1 DEF Pooled, Recycles, Referred, Live
<1>3. (\A i, j \in P : i = j) /\ (\A t, u \in R : t = u)
  BY <1>1 DEF PoolInjective, ChunkPlace, Recycles
<1> HIDE DEF P, R, held
<1>4. /\ Cardinality(P) = IF P = {} THEN 0 ELSE 1
      /\ Cardinality(R) = IF R = {} THEN 0 ELSE 1
  BY <1>3, AtMostOne
<1>5. \/ P # {} /\ R = {} /\ ~held
      \/ P = {} /\ R # {} /\ ~held
      \/ P = {} /\ R = {} /\ held
  BY <1>1, <1>2 DEF ChunkPlace
<1>6. Cardinality(P) + Cardinality(R) + (IF held THEN 1 ELSE 0) = 1
  BY <1>4, <1>5
<1>7. \A t, u \in Threads : Mine(t, c) /\ Mine(u, c) => t = u
  BY <1>1 DEF ChunkPlace
<1> QED BY <1>6, <1>7 DEF P, R, held

\* MemoryPool and the hand-over to ObjectPool: a block is in one place.
THEOREM BlocksNotLost == Spec => []BlockInOnePlace
<1> SUFFICES Inv => BlockInOnePlace
  BY InvHolds, PTL
<1> SUFFICES ASSUME Inv, NEW b \in Blocks, header[b] # None
             PROVE  Cardinality({i \in DOMAIN list : list[i] = b})
                      + Cardinality({t \in Threads : mem[t].block = b /\ mem[t].at # "linked"})
                      + Cardinality({t \in Threads : pc[t].block = b /\ pc[t].at # "write"})
                      + (IF b \in Live THEN 1 ELSE 0) = 1
  BY DEF BlockInOnePlace
<1> DEFINE L == {i \in DOMAIN list : list[i] = b}
           M == {t \in Threads : mem[t].block = b /\ mem[t].at # "linked"}
           P == {t \in Threads : pc[t].block = b /\ pc[t].at # "write"}
<1>1. BlockPlace(b) /\ ListInjective /\ DOMAIN list = 1..Len(list) /\ b # None
  BY Constants DEF Inv, TypeOK, BlocksInPlace
<1>2. \A t \in Threads : /\ mem[t].block = b /\ mem[t].at # "linked"
                            => mem[t].at \in {"popped", "made", "mapped", "cleared"}
                         /\ pc[t].block = b /\ pc[t].at # "write" => pc[t].at \in {"recycle", "free"}
                         /\ pc[t].at \in {"recycle", "free"} => mem[t].at = "idle" \/ mem[t].at = "linked"
  <2> SUFFICES ASSUME NEW t \in Threads
               PROVE  /\ mem[t].block = b /\ mem[t].at # "linked"
                         => mem[t].at \in {"popped", "made", "mapped", "cleared"}
                      /\ pc[t].block = b /\ pc[t].at # "write" => pc[t].at \in {"recycle", "free"}
                      /\ pc[t].at \in {"recycle", "free"} => mem[t].at = "idle" \/ mem[t].at = "linked"
    OBVIOUS
  <2>1. Shape(t)
    BY Locals
  <2>2. MemIdle.block = None /\ Idle.block = None
    BY DEF MemIdle, Idle
  <2>3. /\ mem[t].at \in {"idle", "popped", "made", "mapped", "cleared", "linked"}
        /\ pc[t].at \in {"idle", "fetch", "swap", "recycle", "carve", "make", "write", "free"}
    BY Locals
  <2>4. mem[t].at = "idle" => mem[t].block # b
    BY <1>1, <2>1, <2>2 DEF Shape
  <2>5. pc[t].at \in {"idle", "fetch", "swap", "carve", "make"} => pc[t].block # b
    BY <1>1, <2>1, <2>2 DEF Shape
  <2>6. pc[t].at \in {"recycle", "free"} => mem[t].at \notin {"popped", "made", "mapped", "cleared"}
    BY <2>1 DEF Shape
  <2> QED BY <2>3, <2>4, <2>5, <2>6
<1>3. L # {} <=> Listed(b)
  BY <1>1 DEF Listed
<1>4. /\ \A t \in M : Hand(t, b) /\ t \notin P
      /\ \A t \in P : Hand(t, b)
      /\ \A t \in Threads : Hand(t, b) => t \in M \/ t \in P
  BY <1>2 DEF Hand
<1>5. \A t, u \in Threads : Hand(t, b) /\ Hand(u, b) => t = u
  BY <1>1 DEF BlockPlace
<1>6. (\A i, j \in L : i = j) /\ (\A t, u \in M : t = u) /\ (\A t, u \in P : t = u)
  BY <1>1, <1>4, <1>5 DEF ListInjective
<1>7. M \subseteq Threads /\ P \subseteq Threads
  OBVIOUS
<1> HIDE DEF L, M, P
<1>8. /\ Cardinality(L) = IF L = {} THEN 0 ELSE 1
      /\ Cardinality(M) = IF M = {} THEN 0 ELSE 1
      /\ Cardinality(P) = IF P = {} THEN 0 ELSE 1
  BY <1>6, AtMostOne
<1>9. \/ L # {} /\ M = {} /\ P = {} /\ b \notin Live
      \/ L = {} /\ M # {} /\ P = {} /\ b \notin Live
      \/ L = {} /\ M = {} /\ P # {} /\ b \notin Live
      \/ L = {} /\ M = {} /\ P = {} /\ b \in Live
  BY <1>1, <1>3, <1>4, <1>5, <1>7 DEF BlockPlace
<1>10. Cardinality(L) + Cardinality(M) + Cardinality(P) + (IF b \in Live THEN 1 ELSE 0) = 1
  BY <1>8, <1>9
<1> QED BY <1>10 DEF L, M, P


-----------------------------------------------------------------------------
(* The counters of the pool.                                               *)

\* A block that thread t is giving back and has not linked into the list.
Returns(t, b) ==
    \/ mem[t].at = "cleared" /\ mem[t].block = b
    \/ pc[t].at \in {"recycle", "free"} /\ pc[t].block = b

\* The blocks out of the pool, and the threads between a change of the list and the
\* change of the counters that belongs to it.
InUse   == {b \in Blocks : b \in Live \/ \E t \in Threads : Returns(t, b)}
Linking == {t \in Threads : mem[t].at = "linked"}
Popping == {t \in Threads : mem[t].at = "popped"}

Counting == ~stomp =>
    /\ IsFiniteSet(InUse) /\ IsFiniteSet(Linking) /\ IsFiniteSet(Popping)
    /\ counts = [use |-> Cardinality(InUse) + Cardinality(Linking),
                 reserve |-> Len(list) + Cardinality(Popping) - Cardinality(Linking)]

\* What two sets differ by when a step adds one element or takes one away.
LEMMA OneMore ==
    ASSUME NEW S, IsFiniteSet(S), NEW x, x \notin S, NEW T, T = S \cup {x}
    PROVE  IsFiniteSet(T) /\ Cardinality(T) = Cardinality(S) + 1 /\ Cardinality(S) \in Nat
BY FS_AddElement, FS_CardinalityType

LEMMA OneLess ==
    ASSUME NEW S, IsFiniteSet(S), NEW x \in S, NEW T, T = S \ {x}
    PROVE  IsFiniteSet(T) /\ Cardinality(T) = Cardinality(S) - 1 /\ Cardinality(S) \in Nat
BY FS_RemoveElement, FS_CardinalityType

\* Only thread t moves: the sets change by what it does.
LEMMA Moves ==
    ASSUME NEW t \in Threads,
           \A u \in Threads : u # t => pc'[u] = pc[u] /\ mem'[u] = mem[u]
    PROVE  /\ \A u \in Threads, b \in Blocks : u # t => (Returns(u, b)' <=> Returns(u, b))
           /\ mem'[t].at \notin {"linked", "popped"} /\ mem[t].at \notin {"linked", "popped"} =>
                Linking' = Linking /\ Popping' = Popping
           /\ mem'[t].at = "linked" /\ mem[t].at \notin {"linked", "popped"} =>
                Linking' = Linking \cup {t} /\ t \notin Linking /\ Popping' = Popping
           /\ mem'[t].at \notin {"linked", "popped"} /\ mem[t].at = "linked" =>
                Linking' = Linking \ {t} /\ t \in Linking /\ Popping' = Popping
           /\ mem'[t].at = "popped" /\ mem[t].at \notin {"linked", "popped"} =>
                Popping' = Popping \cup {t} /\ t \notin Popping /\ Linking' = Linking
           /\ mem'[t].at \notin {"linked", "popped"} /\ mem[t].at = "popped" =>
                Popping' = Popping \ {t} /\ t \in Popping /\ Linking' = Linking
<1>1. \A u \in Threads, b \in Blocks : u # t => (Returns(u, b)' <=> Returns(u, b))
  BY DEF Returns
<1>2. \A u \in Threads : u # t => (u \in Linking' <=> u \in Linking) /\ (u \in Popping' <=> u \in Popping)
  BY DEF Linking, Popping
<1>3. /\ Linking' \subseteq Threads /\ Popping' \subseteq Threads
      /\ Linking \subseteq Threads /\ Popping \subseteq Threads
      /\ t \in Linking <=> mem[t].at = "linked"
      /\ t \in Linking' <=> mem'[t].at = "linked"
      /\ t \in Popping <=> mem[t].at = "popped"
      /\ t \in Popping' <=> mem'[t].at = "popped"
  BY DEF Linking, Popping
<1> QED BY <1>1, <1>2, <1>3

\* A step of thread t that neither changes the counters nor takes a block out of the pool
\* or puts one into it.
LEMMA CountFrame ==
    ASSUME Counting, NEW t \in Threads, UNCHANGED <<stomp, list, counts>>,
           \A u \in Threads : u # t => pc'[u] = pc[u] /\ mem'[u] = mem[u],
           mem[t].at \notin {"linked", "popped"}, mem'[t].at \notin {"linked", "popped"},
           \A b \in Blocks : b \in Live' \/ Returns(t, b)' <=> b \in Live \/ Returns(t, b)
    PROVE  Counting'
<1>1. /\ \A u \in Threads, b \in Blocks : u # t => (Returns(u, b)' <=> Returns(u, b))
      /\ Linking' = Linking /\ Popping' = Popping
  BY Moves
<1>2. ASSUME NEW b \in Blocks PROVE b \in InUse' <=> b \in InUse
  BY <1>1 DEF InUse
<1>3. InUse' = InUse
  BY <1>2 DEF InUse
<1> QED BY <1>1, <1>3 DEF Counting

\* The steps of Open before a block is taken, and the ends of Open and Close.
LEMMA CountChunkSteps ==
    ASSUME Inv, Counting, NEW t \in Threads,
           \/ \E n \in Sizes : Open(t, n)
           \/ PopChunk(t) \/ Swap(t) \/ PushGlobal(t)
    PROVE  Counting'
<1>1. /\ TypeOK /\ Shape(t) /\ pc[t].size \in Nat /\ pc[t].chunk \in Chunks \cup {None}
      /\ pc[t].block \in Blocks \cup {None}
  BY Locals
<1>2. UNCHANGED <<stomp, list, counts, mem, buffer>>
  BY DEF Open, PopChunk, Swap, PushGlobal, memVars
<1>3. /\ mem[t].at \notin {"linked", "popped"} \/ pc[t].at = "idle"
      /\ pc[t].at # "make"
  BY <1>1 DEF Open, PopChunk, Swap, PushGlobal, Shape, Idle
<1>4. mem[t].at \notin {"linked", "popped"}
  <2>1. CASE \E n \in Sizes : Open(t, n)
    BY <2>1 DEF Open, MemIdle
  <2>2. CASE PopChunk(t) \/ Swap(t) \/ PushGlobal(t)
    BY <1>1, <2>2 DEF PopChunk, Swap, PushGlobal, Shape
  <2> QED BY <2>1, <2>2
<1>5. PICK step \in {"fetch", "swap", "recycle", "carve", "free"}, c \in Chunks \cup {None},
           b \in Blocks \cup {None}, n \in Nat :
        /\ Goto(t, step, n, c, b)
        /\ pc[t].at = "recycle" => b = pc[t].block /\ (step = "free" \/ b = None)
        /\ pc[t].at # "recycle" => b = None /\ pc[t].at # "free"
  <2>1. ASSUME NEW n \in Sizes, Open(t, n)
        PROVE  \E step \in {"carve", "fetch"} : Goto(t, step, n, None, None) /\ pc[t].at = "idle"
    BY <2>1 DEF Open, Idle
  <2>2. CASE PopChunk(t)
    <3>1. pool # <<>> => pool[Len(pool)] \in Chunks
      BY <1>1 DEF TypeOK
    <3>2. PICK c \in Chunks : Goto(t, "swap", pc[t].size, c, None)
      BY <2>2, <3>1, <1>1 DEF PopChunk, TypeOK
    <3> QED BY <1>1, <2>2, <3>2 DEF PopChunk
  <2>3. CASE Swap(t)
    <3>1. tls[t] \in Chunks \cup {None}
      BY Locals
    <3>2. \/ Goto(t, "recycle", pc[t].size, tls[t], None)
          \/ Goto(t, "carve", pc[t].size, None, None)
      BY <2>3 DEF Swap
    <3> QED BY <1>1, <2>3, <3>1, <3>2 DEF Swap
  <2>4. CASE PushGlobal(t)
    <3>1. Goto(t, IF pc[t].block = None THEN "carve" ELSE "free", pc[t].size, None, pc[t].block)
      BY <2>4 DEF PushGlobal
    <3> QED BY <1>1, <2>4, <3>1 DEF PushGlobal
  <2> QED BY <2>1, <2>2, <2>3, <2>4, Constants
<1>6. /\ pc'[t].at = step /\ pc'[t].block = b
      /\ \A u \in Threads : u # t => pc'[u] = pc[u]
  <2>1. pc' = [pc EXCEPT ![t] = [at |-> step, size |-> n, chunk |-> c, block |-> b]]
    BY <1>5 DEF Goto
  <2>2. DOMAIN pc = Threads
    BY <1>1 DEF TypeOK
  <2> QED BY <2>1, <2>2
<1>7. \A a \in Blocks : Returns(t, a)' <=> Returns(t, a)
  BY <1>2, <1>5, <1>6, Constants DEF Returns
<1>8. Live' = Live
  BY <1>2 DEF Live
<1> QED BY <1>2, <1>4, <1>6, <1>7, <1>8, CountFrame

LEMMA CountClose ==
    ASSUME Inv, Counting, NEW t \in Threads, Close(t)
    PROVE  Counting'
<1> DEFINE b == pc[t].block
<1>1. TypeOK /\ Shape(t) /\ pc[t].at = "write" /\ b \in Blocks /\ b \in Live
  BY Writer, Locals DEF Close, Live
<1>2. /\ UNCHANGED <<stomp, list, counts, mem>>
      /\ pc' = [pc EXCEPT ![t] = Idle] /\ buffer' = [buffer EXCEPT ![b].closed = TRUE]
  BY DEF Close, memVars
<1>3. mem[t].at \notin {"linked", "popped"}
  BY <1>1 DEF Shape
<1>4. pc'[t] = Idle /\ \A u \in Threads : u # t => pc'[u] = pc[u]
  BY <1>1, <1>2 DEF TypeOK
<1>5. Live' = Live
  <2>1. buffer \in [Blocks -> Packet \cup {None}] /\ buffer[b] \in Packet
    BY <1>1 DEF TypeOK, Live
  <2>2. [buffer[b] EXCEPT !.closed = TRUE] \in Packet
    BY <2>1 DEF Packet
  <2>3. buffer' = [buffer EXCEPT ![b] = [buffer[b] EXCEPT !.closed = TRUE]]
    BY <1>2
  <2> HIDE DEF b
  <2>4. /\ buffer'[b] = [buffer[b] EXCEPT !.closed = TRUE]
        /\ \A a \in Blocks : a # b => buffer'[a] = buffer[a]
    BY <1>1, <2>1, <2>3
  <2> QED BY <1>1, <2>2, <2>4, Constants DEF Live
<1>6. \A a \in Blocks : Returns(t, a)' <=> Returns(t, a)
  BY <1>1, <1>2, <1>4 DEF Returns, Idle
<1> QED BY <1>2, <1>3, <1>4, <1>5, <1>6, CountFrame

\* The block that a thread destroys the object in stays counted as in use.
LEMMA CountDestroy ==
    ASSUME Inv, Counting, NEW t \in Threads, NEW b \in Blocks, Destroy(t, b)
    PROVE  Counting'
<1>1. TypeOK /\ pc[t] = Idle /\ mem[t] = MemIdle /\ b \in Live
  BY Locals DEF Destroy
<1>2. /\ UNCHANGED <<stomp, list, counts, mem>>
      /\ buffer' = [buffer EXCEPT ![b] = None]
  BY DEF Destroy, memVars
<1>3. PICK step \in {"recycle", "free"}, c \in Chunks \cup {None} : Goto(t, step, 0, c, b)
  <2>1. buffer[b] \in Packet
    BY <1>1 DEF TypeOK, Live
  <2>2. buffer[b].owner \in Chunks
    BY <2>1 DEF Packet
  <2> QED BY <2>2 DEF Destroy
<1>4. /\ pc'[t].at = step /\ pc'[t].block = b
      /\ \A u \in Threads : u # t => pc'[u] = pc[u]
  BY <1>1, <1>3, GotoEffect
<1>5. \A a \in Blocks : a \in Live' <=> a \in Live /\ a # b
  BY <1>1, <1>2 DEF TypeOK, Live
<1>6. \A a \in Blocks : (Returns(t, a)' <=> a = b) /\ ~Returns(t, a)
  BY <1>1, <1>2, <1>4 DEF Returns, Idle, MemIdle
<1>7. mem[t].at \notin {"linked", "popped"}
  BY <1>1 DEF MemIdle
<1> QED BY <1>1, <1>2, <1>4, <1>5, <1>6, <1>7, CountFrame

LEMMA CountFreeBlock ==
    ASSUME Inv, Counting, NEW t \in Threads, FreeBlock(t)
    PROVE  Counting'
<1> DEFINE b == pc[t].block
<1>1. TypeOK /\ Shape(t) /\ pc[t].at = "free" /\ b \in Blocks
  BY Locals DEF FreeBlock, Shape
<1>2. CASE stomp
  <2>1. stomp' = stomp
    BY DEF FreeBlock, PushClear, StompRelease
  <2> QED BY <1>2, <2>1 DEF Counting
<1>3. CASE ~stomp
  <2>1. /\ mem[t] = MemIdle /\ mem' = [mem EXCEPT ![t] = [at |-> "cleared", block |-> b]]
        /\ pc' = [pc EXCEPT ![t] = Idle]
        /\ UNCHANGED <<stomp, list, counts, buffer>>
    BY <1>3 DEF FreeBlock, PushClear, StompRelease, At
  <2>2. /\ mem'[t] = [at |-> "cleared", block |-> b] /\ pc'[t] = Idle
        /\ \A u \in Threads : u # t => pc'[u] = pc[u] /\ mem'[u] = mem[u]
    BY <1>1, <2>1 DEF TypeOK
  <2>3. \A a \in Blocks : Returns(t, a)' <=> Returns(t, a)
    BY <1>1, <2>1, <2>2 DEF Returns, Idle, MemIdle
  <2>4. Live' = Live
    BY <2>1 DEF Live
  <2>5. mem[t].at \notin {"linked", "popped"} /\ mem'[t].at \notin {"linked", "popped"}
    BY <2>1, <2>2 DEF MemIdle
  <2> QED BY <2>1, <2>2, <2>3, <2>4, <2>5, CountFrame
<1> QED BY <1>2, <1>3

\* Pop takes a block out of the list, or makes one, and counts later.
LEMMA CountOpenChunk ==
    ASSUME Inv, Counting, NEW t \in Threads, OpenChunk(t)
    PROVE  Counting'
<1>1. TypeOK /\ Shape(t) /\ pc[t].at = "carve" /\ pc[t].size \in Nat
  BY Locals DEF OpenChunk
<1>2. /\ Goto(t, "make", pc[t].size, None, None) /\ buffer' = buffer
      /\ mem[t] = MemIdle /\ UNCHANGED <<stomp, counts>>
  BY DEF OpenChunk, PopListed, PopFresh, StompAlloc
<1>3. /\ pc'[t].at = "make" /\ pc'[t].block = None
      /\ \A u \in Threads : u # t => pc'[u] = pc[u]
  BY <1>1, <1>2, GotoEffect
<1>4. mem[t].at = "idle"
  BY <1>2 DEF MemIdle
<1>5. Live' = Live
  BY <1>2 DEF Live
<1>6. CASE PopListed(t)
  <2>1. /\ list # <<>> /\ list' = Tail(list)
        /\ mem' = [mem EXCEPT ![t] = [at |-> "popped", block |-> Head(list)]]
    BY <1>6 DEF PopListed, At
  <2>2. Len(list') = Len(list) - 1 /\ Len(list) \in Nat
    BY <1>1, <2>1 DEF TypeOK
  <2>3. mem'[t].at = "popped" /\ \A u \in Threads : u # t => mem'[u] = mem[u]
    BY <1>1, <2>1 DEF TypeOK
  <2>4. /\ \A u \in Threads, b \in Blocks : u # t => (Returns(u, b)' <=> Returns(u, b))
        /\ Popping' = Popping \cup {t} /\ t \notin Popping /\ Linking' = Linking
    BY <1>3, <1>4, <2>3, Moves
  <2>5. \A b \in Blocks : ~Returns(t, b) /\ ~Returns(t, b)'
    BY <1>1, <1>3, <1>4, <2>3 DEF Returns
  <2>6. InUse' = InUse
    <3>1. \A b \in Blocks : b \in InUse' <=> b \in InUse
      BY <1>5, <2>4, <2>5 DEF InUse
    <3> QED BY <3>1 DEF InUse
  <2> SUFFICES ASSUME ~stomp PROVE Counting'
    BY <1>2 DEF Counting
  <2>7. /\ IsFiniteSet(Popping') /\ Cardinality(Popping') = Cardinality(Popping) + 1
        /\ Cardinality(Popping) \in Nat
    BY <2>4, OneMore DEF Counting
  <2>8. Cardinality(Linking) \in Nat
    BY FS_CardinalityType DEF Counting
  <2> QED BY <1>2, <2>2, <2>4, <2>6, <2>7, <2>8 DEF Counting
<1>7. CASE PopFresh(t) \/ StompAlloc(t)
  <2>1. PICK b \in Blocks, step \in {"made", "mapped"} :
          mem' = [mem EXCEPT ![t] = [at |-> step, block |-> b]]
    BY <1>7 DEF PopFresh, StompAlloc, At
  <2>2. mem'[t].at = step /\ \A u \in Threads : u # t => mem'[u] = mem[u]
    BY <1>1, <2>1 DEF TypeOK
  <2>3. \A a \in Blocks : Returns(t, a)' <=> Returns(t, a)
    BY <1>1, <1>3, <1>4, <2>2 DEF Returns
  <2>4. list' = list
    BY <1>7 DEF PopFresh, StompAlloc
  <2> QED BY <1>2, <1>3, <1>4, <1>5, <2>2, <2>3, <2>4, CountFrame
<1> QED BY <1>6, <1>7 DEF OpenChunk

\* The block is counted when it is handed out, which makes the object live.
LEMMA CountMakeBuffer ==
    ASSUME Inv, Counting, NEW t \in Threads, MakeBuffer(t)
    PROVE  Counting'
<1>1. TypeOK /\ Shape(t) /\ pc[t].at = "make" /\ pc[t].size \in Nat /\ tls[t] \in Chunks
  BY Locals DEF MakeBuffer, Shape, Carving
<1>2. PICK b \in Blocks :
        /\ b = mem[t].block /\ mem[t].at \in {"popped", "made", "mapped"}
        /\ stomp' = stomp /\ list' = list
        /\ counts' = [use |-> counts.use + IF stomp THEN 0 ELSE 1,
                      reserve |-> counts.reserve - IF mem[t].at = "popped" THEN 1 ELSE 0]
        /\ mem' = [mem EXCEPT ![t] = MemIdle]
        /\ buffer' = [buffer EXCEPT ![b] = [owner |-> tls[t], from |-> used[tls[t]],
                                            size |-> pc[t].size, closed |-> FALSE]]
        /\ Goto(t, "write", pc[t].size, None, b)
  BY DEF MakeBuffer, Deliver
<1> SUFFICES ASSUME ~stomp PROVE Counting'
  BY <1>2 DEF Counting
<1>3. /\ pc'[t].at = "write" /\ mem'[t] = MemIdle /\ mem'[t].at = "idle"
      /\ \A u \in Threads : u # t => pc'[u] = pc[u] /\ mem'[u] = mem[u]
  <2>1. pc'[t].at = "write" /\ \A u \in Threads : u # t => pc'[u] = pc[u]
    <3> DEFINE n == pc[t].size
    <3>1. TypeOK /\ n \in Nat /\ Goto(t, "write", n, None, b)
      BY <1>1, <1>2
    <3> HIDE DEF n
    <3> QED BY <3>1, GotoEffect
  <2>2. mem'[t] = MemIdle /\ \A u \in Threads : u # t => mem'[u] = mem[u]
    BY <1>1, <1>2 DEF TypeOK
  <2> QED BY <2>1, <2>2 DEF MemIdle
<1>4. b \notin InUse
  <2>1. Hand(t, b) /\ BlockPlace(b)
    BY <1>2 DEF Hand, Inv, BlocksInPlace
  <2>2. b \notin Live /\ \A u \in Threads : Hand(u, b) => u = t
    BY <2>1 DEF BlockPlace
  <2>3. \A u \in Threads : Returns(u, b) => Hand(u, b)
    BY DEF Returns, Hand
  <2>4. ~Returns(t, b)
    BY <1>1, <1>2 DEF Returns
  <2> QED BY <2>2, <2>3, <2>4 DEF InUse
<1>5. \A a \in Blocks : a \in Live' <=> a \in Live \/ a = b
  <2>1. [owner |-> tls[t], from |-> used[tls[t]], size |-> pc[t].size, closed |-> FALSE] \in Packet
    BY <1>1 DEF TypeOK, Packet
  <2> QED BY <1>1, <1>2, <2>1, Constants DEF TypeOK, Live
<1>6. /\ \A u \in Threads, a \in Blocks : u # t => (Returns(u, a)' <=> Returns(u, a))
      /\ Linking' = Linking
      /\ mem[t].at = "popped" => Popping' = Popping \ {t} /\ t \in Popping
      /\ mem[t].at # "popped" => Popping' = Popping
  BY <1>2, <1>3, Moves
<1>7. \A a \in Blocks : ~Returns(t, a) /\ ~Returns(t, a)'
  BY <1>1, <1>2, <1>3 DEF Returns
<1>8. InUse' = InUse \cup {b}
  <2>1. \A a \in Blocks : a \in InUse' <=> a \in InUse \/ a = b
    BY <1>5, <1>6, <1>7 DEF InUse
  <2> QED BY <2>1 DEF InUse
<1>9. IsFiniteSet(InUse') /\ Cardinality(InUse') = Cardinality(InUse) + 1 /\ Cardinality(InUse) \in Nat
  BY <1>4, <1>8, OneMore DEF Counting
<1>10. /\ IsFiniteSet(Popping') /\ Cardinality(Popping) \in Nat
       /\ Cardinality(Popping') = Cardinality(Popping) - IF mem[t].at = "popped" THEN 1 ELSE 0
  <2>1. CASE mem[t].at = "popped"
    BY <1>6, <2>1, OneLess DEF Counting
  <2>2. CASE mem[t].at # "popped"
    BY <1>6, <2>2, FS_CardinalityType DEF Counting
  <2> QED BY <2>1, <2>2
<1>11. Cardinality(Linking) \in Nat /\ Len(list) \in Nat
  BY <1>1, FS_CardinalityType DEF Counting, TypeOK
<1>12. /\ counts.use = Cardinality(InUse) + Cardinality(Linking)
       /\ counts.reserve = Len(list) + Cardinality(Popping) - Cardinality(Linking)
       /\ IsFiniteSet(Linking)
  BY DEF Counting
<1>13. /\ counts.use + 1 = Cardinality(InUse') + Cardinality(Linking')
       /\ counts.reserve - (IF mem[t].at = "popped" THEN 1 ELSE 0)
            = Len(list') + Cardinality(Popping') - Cardinality(Linking')
  BY <1>2, <1>6, <1>9, <1>10, <1>11, <1>12
<1> QED BY <1>2, <1>6, <1>9, <1>10, <1>12, <1>13 DEF Counting

\* Push links the block and counts after that.
LEMMA CountFreeStep ==
    ASSUME Inv, Counting, NEW t \in Threads, FreeStep(t)
    PROVE  Counting'
<1> DEFINE b == mem[t].block
<1>1. /\ TypeOK /\ Shape(t) /\ pc' = pc /\ stomp' = stomp /\ b \in Blocks /\ pc[t].at = "idle"
      /\ buffer' = buffer /\ list \in Seq(Blocks)
  BY Locals DEF FreeStep, PushLink, PushCount, Shape, TypeOK
<1> SUFFICES ASSUME ~stomp PROVE Counting'
  BY <1>1 DEF Counting
<1>2. Live' = Live
  BY <1>1 DEF Live
<1>3. /\ IsFiniteSet(InUse) /\ IsFiniteSet(Linking) /\ IsFiniteSet(Popping)
      /\ Cardinality(InUse) \in Nat /\ Cardinality(Linking) \in Nat /\ Cardinality(Popping) \in Nat
      /\ counts.use = Cardinality(InUse) + Cardinality(Linking)
      /\ counts.reserve = Len(list) + Cardinality(Popping) - Cardinality(Linking)
  BY FS_CardinalityType DEF Counting
<1>4. CASE PushLink(t)
  <2>1. /\ mem[t].at = "cleared" /\ list' = <<b>> \o list /\ counts' = counts
        /\ mem' = [mem EXCEPT ![t] = [at |-> "linked", block |-> b]]
    BY <1>4 DEF PushLink, At
  <2>2. /\ mem'[t] = [at |-> "linked", block |-> b]
        /\ \A u \in Threads : u # t => mem'[u] = mem[u]
    BY <1>1, <2>1 DEF TypeOK
  <2>3. Len(list') = Len(list) + 1 /\ Len(list) \in Nat
    BY <1>1, <2>1
  <2>4. /\ \A u \in Threads, a \in Blocks : u # t => (Returns(u, a)' <=> Returns(u, a))
        /\ Linking' = Linking \cup {t} /\ t \notin Linking /\ Popping' = Popping
    BY <1>1, <2>1, <2>2, Moves
  <2>5. b \in InUse
    BY <1>1, <2>1 DEF InUse, Returns
  <2>6. InUse' = InUse \ {b}
    <3>1. \A u \in Threads : Returns(u, b) => u = t
      <4>1. Hand(t, b) /\ BlockPlace(b)
        BY <1>1, <2>1 DEF Hand, Inv, BlocksInPlace
      <4>2. \A u \in Threads : Returns(u, b) => Hand(u, b)
        BY DEF Returns, Hand
      <4> QED BY <4>1, <4>2 DEF BlockPlace
    <3>2. b \notin Live
      <4>1. Hand(t, b) /\ BlockPlace(b)
        BY <1>1, <2>1 DEF Hand, Inv, BlocksInPlace
      <4> QED BY <4>1 DEF BlockPlace
    <3>3. \A a \in Blocks : (Returns(t, a) <=> a = b) /\ ~Returns(t, a)'
      BY <1>1, <2>1, <2>2 DEF Returns
    <3>4. \A a \in Blocks : a \in InUse' <=> a \in InUse /\ a # b
      BY <1>2, <2>4, <3>1, <3>2, <3>3 DEF InUse
    <3> QED BY <3>4 DEF InUse
  <2>7. IsFiniteSet(InUse') /\ Cardinality(InUse') = Cardinality(InUse) - 1
    BY <1>3, <2>5, <2>6, OneLess
  <2>8. IsFiniteSet(Linking') /\ Cardinality(Linking') = Cardinality(Linking) + 1
    BY <1>3, <2>4, OneMore
  <2>9. /\ counts.use = Cardinality(InUse') + Cardinality(Linking')
        /\ counts.reserve = Len(list') + Cardinality(Popping') - Cardinality(Linking')
    BY <1>3, <2>3, <2>4, <2>7, <2>8
  <2>10. counts' = [use |-> counts.use, reserve |-> counts.reserve]
    BY <2>1 DEF Counting
  <2> QED BY <1>3, <2>4, <2>7, <2>8, <2>9, <2>10 DEF Counting
<1>5. CASE PushCount(t)
  <2>1. /\ mem[t].at = "linked" /\ list' = list /\ mem' = [mem EXCEPT ![t] = MemIdle]
        /\ counts' = [use |-> counts.use - 1, reserve |-> counts.reserve + 1]
    BY <1>5 DEF PushCount
  <2>2. /\ mem'[t] = MemIdle /\ mem'[t].at = "idle"
        /\ \A u \in Threads : u # t => mem'[u] = mem[u]
    BY <1>1, <2>1 DEF TypeOK, MemIdle
  <2>3. /\ \A u \in Threads, a \in Blocks : u # t => (Returns(u, a)' <=> Returns(u, a))
        /\ Linking' = Linking \ {t} /\ t \in Linking /\ Popping' = Popping
    BY <1>1, <2>1, <2>2, Moves
  <2>4. \A a \in Blocks : ~Returns(t, a) /\ ~Returns(t, a)'
    BY <1>1, <2>1, <2>2 DEF Returns
  <2>5. InUse' = InUse
    <3>1. \A a \in Blocks : a \in InUse' <=> a \in InUse
      BY <1>2, <2>3, <2>4 DEF InUse
    <3> QED BY <3>1 DEF InUse
  <2>6. IsFiniteSet(Linking') /\ Cardinality(Linking') = Cardinality(Linking) - 1
    BY <1>3, <2>3, OneLess
  <2>7. Len(list) \in Nat
    BY <1>1
  <2>8. /\ counts.use - 1 = Cardinality(InUse') + Cardinality(Linking')
        /\ counts.reserve + 1 = Len(list') + Cardinality(Popping') - Cardinality(Linking')
    BY <1>3, <2>1, <2>3, <2>5, <2>6, <2>7
  <2> QED BY <1>3, <2>1, <2>3, <2>5, <2>6, <2>8 DEF Counting
<1> QED BY <1>4, <1>5 DEF FreeStep

\* The counters are exact up to the threads that are about to change them.
LEMMA CountingHolds == Spec => []Counting
<1>1. Init => Counting
  <2> SUFFICES ASSUME Init PROVE Counting
    OBVIOUS
  <2>1. InUse = {} /\ Linking = {} /\ Popping = {} /\ Len(list) = 0
    BY DEF Init, MemInit, MemIdle, Idle, InUse, Linking, Popping, Live, Returns
  <2>2. counts = [use |-> 0, reserve |-> 0]
    BY DEF Init, MemInit
  <2> QED BY <2>1, <2>2, FS_EmptySet DEF Counting
<1>2. Inv /\ Counting /\ [Next]_vars => Counting'
  <2> SUFFICES ASSUME Inv, Counting, [Next]_vars PROVE Counting'
    OBVIOUS
  <2>1. ASSUME UNCHANGED vars \/ \E t \in Threads : OpenTooLarge(t) PROVE Counting'
    BY <2>1 DEF vars, memVars, OpenTooLarge, Counting, InUse, Linking, Popping, Live, Returns
  <2>2. ASSUME NEW t \in Threads,
               \/ \E n \in Sizes : Open(t, n)
               \/ PopChunk(t) \/ Swap(t) \/ PushGlobal(t)
        PROVE  Counting'
    BY <2>2, CountChunkSteps
  <2>3. ASSUME NEW t \in Threads,
               OpenChunk(t) \/ MakeBuffer(t) \/ Close(t) \/ FreeBlock(t) \/ FreeStep(t)
        PROVE  Counting'
    BY <2>3, CountOpenChunk, CountMakeBuffer, CountClose, CountFreeBlock, CountFreeStep
  <2>4. ASSUME NEW t \in Threads, NEW b \in Blocks, Destroy(t, b) PROVE Counting'
    BY <2>4, CountDestroy
  <2> QED BY <2>1, <2>2, <2>3, <2>4 DEF Next
<1> QED BY <1>1, <1>2, InvHolds, PTL DEF Spec

\* _useCount and _reserveCount: whenever no thread is inside the pool they are the number
\* of live objects and the length of the list, however the threads interleaved before.
THEOREM CountersAreTrue == Spec => []CountersAgree
<1>1. Counting => CountersAgree
  <2> SUFFICES ASSUME Counting, ~stomp, \A t \in Threads : pc[t] = Idle /\ mem[t] = MemIdle
               PROVE  counts = [use |-> Cardinality(Live), reserve |-> Len(list)]
    BY DEF CountersAgree
  <2>1. InUse = Live /\ Linking = {} /\ Popping = {}
    BY DEF InUse, Linking, Popping, Live, Returns, Idle, MemIdle
  <2>2. Cardinality(Linking) = 0 /\ Cardinality(Popping) = 0 /\ Cardinality(InUse) \in Nat
    BY <2>1, FS_EmptySet, FS_CardinalityType DEF Counting
  <2>3. counts.use = Cardinality(InUse) /\ counts.reserve = Len(list) + 0 - 0
    BY <2>2 DEF Counting
  <2> QED BY <2>1, <2>2, <2>3 DEF Counting
<1> QED BY <1>1, CountingHolds, PTL
=============================================================================
