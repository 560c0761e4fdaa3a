--------------------------- MODULE SpinLockProofs ---------------------------
(***************************************************************************)
(* Proofs about SpinLock, for any number of threads and any depth of       *)
(* nesting that the 16-bit count of readers can hold: the word of the lock *)
(* is true, write guards exclude all others, and the unsynchronised        *)
(* _writeCount is only touched by the owner; an unlock crashes only in a   *)
(* thread with a read guard of its own inside the write; and the whole     *)
(* implements the reader-writer lock of RWLock.                            *)
(***************************************************************************)
EXTENDS SpinLock, FiniteSetTheorems, TLAPS

Last(t) == held[t][Len(held[t])]

Counting == \E t \in Threads : pc[t] \in {"wcount", "wstore"}

\* What a thread's program counter says about its guards and the word.
Local(t) ==
  /\ Len(held[t]) <= MaxDepth
  /\ pc[t] \in {"wcheck", "wspin", "rcheck", "radd", "rload", "rcas"}
       => Len(held[t]) < MaxDepth
  /\ pc[t] \in {"wcount", "wtest", "wdec", "wstore", "radd"} => owner = t
  /\ pc[t] \in {"wtest", "wdec", "wstore"} => held[t] # <<>> /\ Last(t) = "W"
  /\ pc[t] = "rsub" => held[t] # <<>> /\ Last(t) = "R"
  /\ pc[t] \in {"wdec", "wstore"} /\ crash = "no" => readers = 0
  /\ pc[t] = "wstore" => writeCount = 0

\* The inductive invariant: the word and _writeCount count the guards, except
\* that _writeCount lags by one guard while one is being counted or let go.
OwnerTrue == \A t \in Threads : Holds(t, "W") <=> owner = t

Alone == \A s, t \in Threads : owner = s /\ s # t => held[t] = <<>>

ReadersTrue == readers = Cardinality(Guards("R"))

WritesTrue == writeCount = Cardinality(Guards("W")) - (IF Counting THEN 1 ELSE 0)

LockInv ==
  /\ TypeOK
  /\ \A t \in Threads : Local(t)
  /\ OwnerTrue
  /\ Alone
  /\ ReadersTrue
  /\ WritesTrue

-----------------------------------------------------------------------------
\* A thread's id is not 0.
LEMMA NoneIsNoThread == \A t \in Threads : t # None
BY SpinLockAssumption DEF SpinLockAssumption

\* The guards of a kind can be counted.
LEMMA GuardsFinite ==
  ASSUME NEW kind
  PROVE  IsFiniteSet(Guards(kind)) /\ Cardinality(Guards(kind)) \in Nat
<1>1. IsFiniteSet(Threads) /\ IsFiniteSet(1 .. MaxDepth)
  BY SpinLockAssumption, FS_Interval DEF SpinLockAssumption
<1>2. IsFiniteSet(Threads \X (1 .. MaxDepth))
  BY <1>1, FS_Product
<1>3. Guards(kind) \subseteq Threads \X (1 .. MaxDepth)
  BY DEF Guards
<1> QED BY <1>2, <1>3, FS_Subset, FS_CardinalityType

\* A thread has a guard of a kind iff the set of those guards has one of it.
LEMMA GuardOfThread ==
  ASSUME NEW kind, TypeOK, \A s \in Threads : Len(held[s]) <= MaxDepth,
         NEW t \in Threads
  PROVE  Holds(t, kind) <=> \E i \in 1 .. MaxDepth : <<t, i>> \in Guards(kind)
<1>1. DOMAIN held[t] = 1 .. Len(held[t]) /\ Len(held[t]) \in Nat
  BY DEF TypeOK
<1>2. MaxDepth \in Nat /\ Len(held[t]) <= MaxDepth
  BY SpinLockAssumption DEF SpinLockAssumption
<1>3. DOMAIN held[t] \subseteq 1 .. MaxDepth
  BY <1>1, <1>2
<1>4. \A i : <<t, i>> \in Guards(kind) <=>
               i \in 1 .. MaxDepth /\ i \in DOMAIN held[t] /\ held[t][i] = kind
  BY DEF Guards
<1> QED BY <1>3, <1>4 DEF Holds

\* There are no guards of a kind iff no thread holds one.
LEMMA NoGuards ==
  ASSUME NEW kind, TypeOK, \A s \in Threads : Len(held[s]) <= MaxDepth
  PROVE  Cardinality(Guards(kind)) = 0 <=> \A t \in Threads : ~ Holds(t, kind)
<1>1. Cardinality(Guards(kind)) = 0 <=> Guards(kind) = {}
  BY GuardsFinite, FS_EmptySet
<1>2. Guards(kind) = {} <=> \A t \in Threads, i \in 1 .. MaxDepth : <<t, i>> \notin Guards(kind)
  BY DEF Guards
<1> QED BY <1>1, <1>2, GuardOfThread

\* Opening a guard adds one place to the guards of its kind.
LEMMA PushGuard ==
  ASSUME TypeOK, NEW t \in Threads, NEW kind \in {"W", "R"}, Push(t, kind),
         Len(held[t]) < MaxDepth
  PROVE  /\ Cardinality(Guards(kind)') = Cardinality(Guards(kind)) + 1
         /\ \A k \in {"W", "R"} : k # kind => Guards(k)' = Guards(k)
         /\ Holds(t, kind)'
         /\ \A k \in {"W", "R"} : k # kind => (Holds(t, k)' <=> Holds(t, k))
         /\ \A s \in Threads : s # t => held'[s] = held[s]
         /\ Len(held'[t]) = Len(held[t]) + 1
<1> DEFINE n == Len(held[t])
<1>1. /\ held[t] \in Seq({"W", "R"}) /\ n \in Nat
      /\ DOMAIN held[t] = 1 .. n
      /\ held'[t] = Append(held[t], kind)
      /\ \A s \in Threads : s # t => held'[s] = held[s]
  BY DEF TypeOK, Push
<1>2. /\ DOMAIN held'[t] = 1 .. (n + 1)
      /\ Len(held'[t]) = n + 1
      /\ held'[t][n + 1] = kind
      /\ \A i \in 1 .. n : held'[t][i] = held[t][i]
  BY <1>1
<1>3. n + 1 \in 1 .. MaxDepth
  BY <1>1, SpinLockAssumption DEF SpinLockAssumption
<1> HIDE DEF n
<1>4. \A i \in 1 .. (n + 1) : i = n + 1 \/ i \in 1 .. n
  BY <1>1
<1>5. Guards(kind)' = Guards(kind) \cup {<<t, n + 1>>}
  BY <1>1, <1>2, <1>3, <1>4 DEF Guards
<1>6. <<t, n + 1>> \notin Guards(kind)
  BY <1>1 DEF Guards
<1>7. \A k \in {"W", "R"} : k # kind => Guards(k)' = Guards(k)
  BY <1>1, <1>2, <1>4 DEF Guards
<1>8. Holds(t, kind)' /\ \A k \in {"W", "R"} : k # kind => (Holds(t, k)' <=> Holds(t, k))
  BY <1>1, <1>2, <1>4 DEF Holds
<1>9. Cardinality(Guards(kind)') = Cardinality(Guards(kind)) + 1
  BY <1>5, <1>6, GuardsFinite, FS_AddElement
<1> QED BY <1>1, <1>2, <1>7, <1>8, <1>9 DEF n

\* Closing the youngest guard removes its place.
LEMMA PopGuard ==
  ASSUME TypeOK, NEW t \in Threads, Pop(t), held[t] # <<>>, Len(held[t]) <= MaxDepth,
         NEW kind \in {"W", "R"}, kind = Last(t)
  PROVE  /\ IsFiniteSet(Guards(kind)')
         /\ Cardinality(Guards(kind)') = Cardinality(Guards(kind)) - 1
         /\ \A k \in {"W", "R"} : k # kind => Guards(k)' = Guards(k)
         /\ \A k \in {"W", "R"} : k # kind => (Holds(t, k)' <=> Holds(t, k))
         /\ \A s \in Threads : s # t => held'[s] = held[s]
         /\ Len(held'[t]) = Len(held[t]) - 1
<1> DEFINE n == Len(held[t])
<1>1. /\ held[t] \in Seq({"W", "R"}) /\ n \in Nat /\ n # 0
      /\ DOMAIN held[t] = 1 .. n
      /\ held'[t] = SubSeq(held[t], 1, n - 1)
      /\ \A s \in Threads : s # t => held'[s] = held[s]
      /\ held[t][n] = kind
  BY DEF TypeOK, Pop, Last
<1>2. /\ DOMAIN held'[t] = 1 .. (n - 1)
      /\ Len(held'[t]) = n - 1
      /\ \A i \in 1 .. (n - 1) : held'[t][i] = held[t][i]
  BY <1>1
<1>3. n \in 1 .. MaxDepth
  BY <1>1, SpinLockAssumption DEF SpinLockAssumption
<1> HIDE DEF n
<1>4. \A i : i \in 1 .. n <=> i = n \/ i \in 1 .. (n - 1)
  BY <1>1
<1>5. n \notin 1 .. (n - 1)
  BY <1>1
<1>6. Guards(kind)' = Guards(kind) \ {<<t, n>>}
  <2>1. ASSUME NEW g \in Threads \X (1 .. MaxDepth)
        PROVE  g \in Guards(kind)' <=> g \in Guards(kind) /\ g # <<t, n>>
    <3>1. PICK s \in Threads, i \in 1 .. MaxDepth : g = <<s, i>>
      OBVIOUS
    <3>2. CASE s = t
      BY <1>1, <1>2, <1>4, <1>5, <3>1, <3>2 DEF Guards
    <3>3. CASE s # t
      BY <1>1, <3>1, <3>3 DEF Guards
    <3> QED BY <3>2, <3>3
  <2>2. Guards(kind)' \subseteq Threads \X (1 .. MaxDepth)
        /\ Guards(kind) \subseteq Threads \X (1 .. MaxDepth)
    BY DEF Guards
  <2> QED BY <2>1, <2>2
<1>7. <<t, n>> \in Guards(kind)
  BY <1>1, <1>3 DEF Guards
<1>8. \A k \in {"W", "R"} : k # kind => Guards(k)' = Guards(k)
  BY <1>1, <1>2, <1>4 DEF Guards
<1>9. \A k \in {"W", "R"} : k # kind => (Holds(t, k)' <=> Holds(t, k))
  <2>1. ASSUME NEW k \in {"W", "R"}, k # kind PROVE Holds(t, k)' => Holds(t, k)
    BY <1>1, <1>2, <1>4 DEF Holds
  <2>2. ASSUME NEW k \in {"W", "R"}, k # kind PROVE Holds(t, k) => Holds(t, k)'
    BY <1>1, <1>2, <1>4, <2>2 DEF Holds
  <2> QED BY <2>1, <2>2
<1>10. /\ IsFiniteSet(Guards(kind)')
       /\ Cardinality(Guards(kind)') = Cardinality(Guards(kind)) - 1
  <2>1. IsFiniteSet(Guards(kind))
    BY GuardsFinite
  <2>2. Cardinality(Guards(kind) \ {<<t, n>>}) = Cardinality(Guards(kind)) - 1
        /\ IsFiniteSet(Guards(kind) \ {<<t, n>>})
    BY <1>7, <2>1, FS_RemoveElement
  <2> QED BY <1>6, <2>2
<1> QED BY <1>1, <1>2, <1>8, <1>9, <1>10 DEF n

-----------------------------------------------------------------------------
\* A step that opens and closes no guard and leaves the word alone.
LEMMA SameGuards ==
  ASSUME LockInv, UNCHANGED <<held, owner, readers>>
  PROVE  OwnerTrue' /\ Alone' /\ ReadersTrue' /\ \A k : Guards(k)' = Guards(k)
<1>1. \A k : Guards(k)' = Guards(k)
  BY DEF Guards
<1>2. \A t \in Threads, k \in {"W", "R"} : Holds(t, k)' <=> Holds(t, k)
  BY DEF Holds
<1> QED BY <1>1, <1>2 DEF LockInv, OwnerTrue, Alone, ReadersTrue

\* Only the owner is counting, so a step of t moves Counting by t alone.
LEMMA OwnerCounts ==
  ASSUME LockInv, NEW t \in Threads, owner = t
  PROVE  Counting <=> pc[t] \in {"wcount", "wstore"}
BY NoneIsNoThread DEF LockInv, Local, Counting

\* LockInv holds of a new lock.
LEMMA InitLockInv == Init => LockInv
<1> SUFFICES ASSUME Init PROVE LockInv
  OBVIOUS
<1>1. TypeOK
  BY DEF Init, TypeOK, Pcs
<1>2. \A t \in Threads : Local(t)
  BY SpinLockAssumption DEF Init, Local, SpinLockAssumption
<1>3. \A k : Cardinality(Guards(k)) = 0
  <2>1. \A k : Guards(k) = {}
    BY DEF Init, Guards
  <2> QED BY <2>1, FS_EmptySet
<1>4. OwnerTrue /\ Alone
  BY NoneIsNoThread DEF Init, OwnerTrue, Alone, Holds
<1>5. ReadersTrue
  BY <1>3 DEF Init, ReadersTrue
<1>6. WritesTrue
  <2>1. ~ Counting
    BY DEF Init, Counting
  <2> QED BY <1>3, <2>1 DEF Init, WritesTrue
<1> QED BY <1>1, <1>2, <1>4, <1>5, <1>6 DEF LockInv

\* Every access to the word or the counter keeps LockInv.
LEMMA NextLockInv == LockInv /\ [Next]_vars => LockInv'
<1> SUFFICES ASSUME LockInv, [Next]_vars PROVE LockInv'
  OBVIOUS
<1>0. TypeOK /\ \A s \in Threads : Len(held[s]) <= MaxDepth
  BY DEF LockInv, Local
<1>a. MaxDepth \in Nat /\ \A s \in Threads : Len(held[s]) \in Nat
  BY <1>0, SpinLockAssumption DEF TypeOK, SpinLockAssumption
<1> USE DEF Goto, word
<1>1. ASSUME NEW t \in Threads, AskWrite(t) PROVE LockInv'
  <2>1. TypeOK'
    BY <1>0, <1>1 DEF AskWrite, TypeOK, Pcs
  <2>2. \A s \in Threads : Local(s)'
    BY <1>1 DEF AskWrite, LockInv, Local, Last, TypeOK
  <2>3. Counting' <=> Counting
    BY <1>0, <1>1 DEF AskWrite, Counting, TypeOK
  <2>4. WritesTrue'
    BY <1>1, <2>3, SameGuards DEF AskWrite, LockInv, WritesTrue
  <2> QED BY <1>1, <2>1, <2>2, <2>4, SameGuards DEF LockInv, AskWrite
<1>2. ASSUME NEW t \in Threads, AskRead(t) PROVE LockInv'
  <2>1. TypeOK'
    BY <1>0, <1>2 DEF AskRead, TypeOK, Pcs
  <2>2. \A s \in Threads : Local(s)'
    BY <1>2 DEF AskRead, LockInv, Local, Last, TypeOK
  <2>3. Counting' <=> Counting
    BY <1>0, <1>2 DEF AskRead, Counting, TypeOK
  <2>4. WritesTrue'
    BY <1>2, <2>3, SameGuards DEF AskRead, LockInv, WritesTrue
  <2> QED BY <1>2, <2>1, <2>2, <2>4, SameGuards DEF LockInv, AskRead
<1>3. ASSUME NEW t \in Threads, CloseGuard(t) PROVE LockInv'
  <2>1. TypeOK'
    BY <1>0, <1>3 DEF CloseGuard, TypeOK, Pcs
  <2>2. Last(t) \in {"W", "R"} /\ (Last(t) = "W" => owner = t)
    <3>1. held[t] \in Seq({"W", "R"}) /\ held[t] # <<>>
      BY <1>0, <1>3 DEF CloseGuard, TypeOK
    <3>2. Len(held[t]) \in DOMAIN held[t]
      BY <3>1
    <3> QED BY <3>1, <3>2 DEF Last, LockInv, OwnerTrue, Holds
  <2>3. \A s \in Threads : Local(s)'
    BY <1>3, <2>2 DEF CloseGuard, LockInv, Local, Last, TypeOK
  <2>4. Counting' <=> Counting
    BY <1>0, <1>3 DEF CloseGuard, Counting, TypeOK
  <2>5. WritesTrue'
    BY <1>3, <2>4, SameGuards DEF CloseGuard, LockInv, WritesTrue
  <2> QED BY <1>3, <2>1, <2>3, <2>5, SameGuards DEF LockInv, CloseGuard
<1>4. ASSUME NEW t \in Threads, WriteCheck(t), owner # t PROVE LockInv'
  <2>1. TypeOK'
    BY <1>0, <1>4 DEF WriteCheck, TypeOK, Pcs
  <2>2. \A s \in Threads : Local(s)'
    BY <1>4 DEF WriteCheck, LockInv, Local, Last, TypeOK
  <2>3. Counting' <=> Counting
    BY <1>0, <1>4 DEF WriteCheck, Counting, TypeOK
  <2>4. WritesTrue'
    BY <1>4, <2>3, SameGuards DEF WriteCheck, LockInv, WritesTrue
  <2> QED BY <1>4, <2>1, <2>2, <2>4, SameGuards DEF LockInv, WriteCheck
<1>5. ASSUME NEW t \in Threads, pc[t] \in {"wcheck", "wspin"}, owner' = t,
             owner = t \/ Empty, Goto(t, "wcount"), Push(t, "W"),
             ~ Counting, UNCHANGED <<readers, writeCount, expected, crash>>
      PROVE  LockInv'
  <2>1. Len(held[t]) < MaxDepth
    BY <1>5 DEF LockInv, Local
  <2>2. TypeOK'
    BY <1>0, <1>5 DEF TypeOK, Pcs, Push
  <2>3. \A s \in Threads : s # t => held[s] = <<>>
    <3>1. CASE owner = t
      BY <3>1 DEF LockInv, Alone
    <3>2. CASE Empty
      <4>1. \A s \in Threads : ~ Holds(s, "W") /\ ~ Holds(s, "R")
        BY <1>0, <3>2, NoGuards, NoneIsNoThread
           DEF LockInv, OwnerTrue, ReadersTrue, Empty
      <4>2. \A s \in Threads : held[s] \in Seq({"W", "R"})
        BY <1>0 DEF TypeOK
      <4> QED BY <4>1, <4>2 DEF Holds
    <3> QED BY <1>5, <3>1, <3>2
  <2>4. /\ Cardinality(Guards("W")') = Cardinality(Guards("W")) + 1
        /\ Guards("R")' = Guards("R")
        /\ Holds(t, "W")'
        /\ \A s \in Threads : s # t => held'[s] = held[s]
        /\ Len(held'[t]) = Len(held[t]) + 1
    BY <1>0, <1>5, <2>1, PushGuard
  <2>5. Alone' /\ OwnerTrue'
    BY <1>5, <2>3, <2>4 DEF Alone, OwnerTrue, Holds
  <2>6. ReadersTrue'
    BY <1>5, <2>4 DEF LockInv, ReadersTrue
  <2>7. pc'[t] = "wcount" /\ Counting'
    BY <1>0, <1>5 DEF TypeOK, Counting
  <2>8. WritesTrue'
    <3>1. writeCount = Cardinality(Guards("W")) /\ Cardinality(Guards("W")) \in Nat
      BY <1>5, GuardsFinite DEF LockInv, WritesTrue
    <3> QED BY <1>5, <2>4, <2>7, <3>1 DEF WritesTrue
  <2>9. \A s \in Threads : Local(s)'
    <3>1. ASSUME NEW s \in Threads, s # t PROVE Local(s)'
      <4>1. pc'[s] = pc[s] /\ held'[s] = held[s] /\ Last(s)' = Last(s)
        BY <1>0, <1>5, <2>4, <3>1 DEF TypeOK, Last
      <4>2. Local(s) /\ owner # s /\ held[s] = <<>>
        BY <1>5, <2>3, <3>1, NoneIsNoThread DEF LockInv, Empty
      <4> QED BY <1>5, <4>1, <4>2 DEF Local
    <3>2. Local(t)'
      <4>1. Len(held'[t]) <= MaxDepth
        BY <1>0, <2>1, <2>4, SpinLockAssumption DEF TypeOK, SpinLockAssumption
      <4> QED BY <1>5, <2>7, <4>1 DEF Local
    <3> QED BY <3>1, <3>2
  <2> QED BY <2>2, <2>5, <2>6, <2>8, <2>9 DEF LockInv
<1>6. ASSUME NEW t \in Threads, WriteCheck(t) PROVE LockInv'
  <2>1. CASE owner = t
    <3>1. ~ Counting
      BY <1>6, <2>1, OwnerCounts DEF WriteCheck
    <3> QED BY <1>6, <2>1, <3>1, <1>5 DEF WriteCheck
  <2>2. CASE owner # t
    BY <1>6, <2>2, <1>4
  <2> QED BY <2>1, <2>2
<1>7. ASSUME NEW t \in Threads, WriteSpin(t) PROVE LockInv'
  <2>1. ~ Counting
    BY <1>7, NoneIsNoThread DEF WriteSpin, Empty, Counting, LockInv, Local
  <2> QED BY <1>7, <2>1, <1>5 DEF WriteSpin
<1>8. ASSUME NEW t \in Threads, WriteCount(t) PROVE LockInv'
  <2>1. TypeOK'
    BY <1>0, <1>8 DEF WriteCount, TypeOK, Pcs
  <2>2. owner = t /\ \A s \in Threads : pc[s] = "wstore" => s = t
    BY <1>8 DEF WriteCount, LockInv, Local
  <2>3. \A s \in Threads : Local(s)'
    BY <1>8, <2>2 DEF WriteCount, LockInv, Local, Last, TypeOK
  <2>4. Counting /\ ~ Counting'
    BY <1>0, <1>8, <2>2 DEF WriteCount, Counting, LockInv, Local, TypeOK
  <2>5. WritesTrue'
    <3>1. \A k : Guards(k)' = Guards(k)
      BY <1>8, SameGuards DEF WriteCount
    <3>2. writeCount = Cardinality(Guards("W")) - 1 /\ Cardinality(Guards("W")) \in Nat
      BY <2>4, GuardsFinite DEF LockInv, WritesTrue
    <3> QED BY <1>8, <2>4, <3>1, <3>2 DEF WriteCount, WritesTrue
  <2> QED BY <1>8, <2>1, <2>3, <2>5, SameGuards DEF LockInv, WriteCount
<1>9. ASSUME NEW t \in Threads, WriteTest(t) PROVE LockInv'
  <2>1. TypeOK'
    BY <1>0, <1>9 DEF WriteTest, TypeOK, Pcs
  <2>2. \A s \in Threads : Local(s)'
    BY <1>9 DEF WriteTest, LockInv, Local, Last, TypeOK
  <2>3. Counting' <=> Counting
    BY <1>0, <1>9 DEF WriteTest, Counting, TypeOK
  <2>4. WritesTrue'
    BY <1>9, <2>3, SameGuards DEF WriteTest, LockInv, WritesTrue
  <2> QED BY <1>9, <2>1, <2>2, <2>4, SameGuards DEF LockInv, WriteTest
<1>10. ASSUME NEW t \in Threads, WriteDec(t), crash = "no" PROVE LockInv'
  <2>1. TypeOK'
    <3>1. writeCount' \in Int /\ owner' = owner /\ readers' = readers
          /\ expected' = expected /\ crash' = crash
      BY <1>0, <1>10 DEF WriteDec, TypeOK
    <3>2. pc' \in [Threads -> Pcs]
      BY <1>0, <1>10 DEF WriteDec, TypeOK, Pcs
    <3>3. held' \in [Threads -> Seq({"W", "R"})]
      <4>1. UNCHANGED held \/ Pop(t)
        BY <1>10 DEF WriteDec
      <4>2. CASE Pop(t)
        BY <1>0, <4>2 DEF TypeOK, Pop
      <4> QED BY <1>0, <4>1, <4>2 DEF TypeOK
    <3> QED BY <1>0, <3>1, <3>2, <3>3 DEF TypeOK
  <2>2. /\ owner = t /\ readers = 0 /\ held[t] # <<>> /\ Last(t) = "W"
        /\ ~ Counting
        /\ \A s \in Threads : s # t => held[s] = <<>> /\ owner # s
    BY <1>10, OwnerCounts DEF WriteDec, LockInv, Local, Alone
  <2>3. writeCount = Cardinality(Guards("W")) /\ Cardinality(Guards("W")) \in Nat
    BY <2>2, GuardsFinite DEF LockInv, WritesTrue
  <2>4. CASE writeCount' = 0
    <3>1. Goto(t, "wstore") /\ UNCHANGED <<held, owner, readers, crash>>
      BY <1>10, <2>4 DEF WriteDec
    <3>2. Counting'
      BY <1>0, <3>1 DEF Counting, TypeOK
    <3>3. WritesTrue'
      BY <1>10, <2>3, <3>1, <3>2, SameGuards DEF WriteDec, WritesTrue
    <3>4. \A s \in Threads : Local(s)'
      BY <1>10, <2>2, <2>4, <3>1 DEF WriteDec, LockInv, Local, Last, TypeOK
    <3> QED BY <2>1, <3>1, <3>3, <3>4, SameGuards DEF LockInv
  <2>5. CASE writeCount' # 0
    <3>1. Goto(t, "out") /\ Pop(t) /\ UNCHANGED <<owner, readers, crash>>
      BY <1>10, <2>5 DEF WriteDec
    <3>2. /\ Cardinality(Guards("W")') = Cardinality(Guards("W")) - 1
          /\ Guards("R")' = Guards("R")
          /\ \A s \in Threads : s # t => held'[s] = held[s]
          /\ Len(held'[t]) = Len(held[t]) - 1
      BY <1>0, <2>2, <3>1, PopGuard
    <3>3. ~ Counting'
      BY <1>0, <2>2, <3>1 DEF Counting, TypeOK
    <3>4. WritesTrue'
      BY <1>10, <2>3, <3>2, <3>3 DEF WriteDec, WritesTrue
    <3>5. ReadersTrue'
      BY <3>1, <3>2 DEF LockInv, ReadersTrue
    <3>6. Alone'
      BY <2>2, <3>1, <3>2 DEF Alone
    <3>7. ASSUME NEW s \in Threads, s # t PROVE Local(s)' /\ ~ Holds(s, "W")'
      <4>1. pc'[s] = pc[s] /\ held'[s] = held[s] /\ Last(s)' = Last(s) /\ held[s] = <<>>
        BY <1>0, <2>2, <3>1, <3>2, <3>7 DEF TypeOK, Last
      <4>2. Local(s) /\ owner # s
        BY <2>2, <3>7 DEF LockInv
      <4> QED BY <3>1, <4>1, <4>2 DEF Local, Holds
    <3>8. Local(t)'
      BY <1>0, <1>a, <3>1, <3>2 DEF Local, TypeOK
    <3>9. Holds(t, "W")'
      <4>1. Cardinality(Guards("W")') # 0
        BY <1>10, <2>3, <2>5, <3>2 DEF WriteDec
      <4>2. \E g \in Guards("W")' : TRUE
        BY <4>1, FS_EmptySet
      <4>3. \E s \in Threads : Holds(s, "W")'
        BY <4>2 DEF Guards, Holds
      <4> QED BY <3>7, <4>3
    <3>10. OwnerTrue'
      BY <2>2, <3>1, <3>7, <3>9 DEF OwnerTrue
    <3> QED BY <2>1, <3>4, <3>5, <3>6, <3>7, <3>8, <3>10 DEF LockInv
  <2> QED BY <2>4, <2>5
<1>11. ASSUME NEW t \in Threads, WriteStore(t), crash = "no" PROVE LockInv'
  <2>1. TypeOK'
    BY <1>0, <1>11 DEF WriteStore, TypeOK, Pcs, Pop
  <2>2. /\ owner = t /\ readers = 0 /\ held[t] # <<>> /\ Last(t) = "W"
        /\ Counting /\ writeCount = 0
        /\ \A s \in Threads : s # t => held[s] = <<>> /\ owner # s
    BY <1>11, OwnerCounts DEF WriteStore, LockInv, Local, Alone
  <2>3. Cardinality(Guards("W")) = 1
    BY <2>2, GuardsFinite DEF LockInv, WritesTrue
  <2>4. Goto(t, "out") /\ Pop(t)
    BY <1>11 DEF WriteStore
  <2>5. /\ IsFiniteSet(Guards("W")')
        /\ Cardinality(Guards("W")') = 0
        /\ Guards("R")' = Guards("R")
        /\ \A s \in Threads : s # t => held'[s] = held[s]
        /\ Len(held'[t]) = Len(held[t]) - 1
    BY <1>0, <2>2, <2>3, <2>4, PopGuard
  <2>6. ASSUME NEW s \in Threads, s # t PROVE Local(s)' /\ held'[s] = <<>>
    <3>1. pc'[s] = pc[s] /\ held'[s] = held[s] /\ Last(s)' = Last(s) /\ held[s] = <<>>
      BY <1>0, <2>2, <2>4, <2>5, <2>6 DEF TypeOK, Last
    <3>2. Local(s) /\ owner # s
      BY <2>2, <2>6 DEF LockInv
    <3> QED BY <1>11, <2>2, <3>1, <3>2 DEF WriteStore, Local
  <2>7. Local(t)'
    BY <1>0, <1>a, <2>4, <2>5 DEF Local, TypeOK
  <2>8. \A s \in Threads : ~ Holds(s, "W")'
    <3>1. Guards("W")' = {}
      BY <2>5, FS_EmptySet
    <3>2. ASSUME NEW i \in DOMAIN held'[t], held'[t][i] = "W" PROVE FALSE
      <4>1. held'[t] \in Seq({"W", "R"}) /\ Len(held'[t]) <= MaxDepth /\ MaxDepth \in Nat
        BY <2>1, <2>7, SpinLockAssumption DEF TypeOK, Local, SpinLockAssumption
      <4>2. i \in 1 .. MaxDepth
        BY <4>1, <3>2
      <4>3. <<t, i>> \in Guards("W")'
        BY <4>2, <3>2 DEF Guards
      <4> QED BY <3>1, <4>3
    <3> QED BY <2>6, <3>2 DEF Holds
  <2>9. Alone' /\ OwnerTrue'
    BY <1>11, <2>8, NoneIsNoThread DEF WriteStore, Alone, OwnerTrue
  <2>10. ReadersTrue'
    BY <1>11, <2>2, <2>5 DEF WriteStore, LockInv, ReadersTrue
  <2>11. ~ Counting'
    BY <1>0, <2>2, <2>4 DEF Counting, TypeOK, LockInv, Local
  <2>12. WritesTrue'
    BY <1>11, <2>2, <2>5, <2>11 DEF WriteStore, WritesTrue
  <2> QED BY <2>1, <2>6, <2>7, <2>9, <2>10, <2>12 DEF LockInv
\* A read guard is added by the owner or in a word without one.
<1>12. ASSUME NEW t \in Threads, pc[t] \in {"radd", "rcas"}, owner \in {t, None},
              readers' = readers + 1, Goto(t, "out"), Push(t, "R"),
              UNCHANGED <<owner, writeCount, expected, crash>>
       PROVE  LockInv'
  <2>1. Len(held[t]) < MaxDepth
    BY <1>12 DEF LockInv, Local
  <2>2. TypeOK'
    BY <1>0, <1>12 DEF TypeOK, Pcs, Push
  <2>3. /\ Cardinality(Guards("R")') = Cardinality(Guards("R")) + 1
        /\ Guards("W")' = Guards("W")
        /\ Holds(t, "W")' <=> Holds(t, "W")
        /\ \A s \in Threads : s # t => held'[s] = held[s]
        /\ Len(held'[t]) = Len(held[t]) + 1
    BY <1>0, <1>12, <2>1, PushGuard
  <2>4. Alone' /\ OwnerTrue'
    BY <1>12, <2>3, NoneIsNoThread DEF LockInv, Alone, OwnerTrue, Holds
  <2>5. ReadersTrue'
    BY <1>12, <2>3 DEF LockInv, ReadersTrue
  <2>6. Counting' <=> Counting
    BY <1>0, <1>12 DEF Counting, TypeOK
  <2>7. WritesTrue'
    BY <1>12, <2>3, <2>6 DEF LockInv, WritesTrue
  <2>8. ASSUME NEW s \in Threads, s # t PROVE Local(s)'
    <3>1. pc'[s] = pc[s] /\ held'[s] = held[s] /\ Last(s)' = Last(s)
      BY <1>0, <1>12, <2>3, <2>8 DEF TypeOK, Last
    <3>2. Local(s) /\ owner # s
      BY <1>12, <2>8, NoneIsNoThread DEF LockInv
    <3> QED BY <1>12, <3>1, <3>2 DEF Local
  <2>9. Local(t)'
    <3>1. Len(held'[t]) <= MaxDepth
      BY <1>0, <2>1, <2>3, SpinLockAssumption DEF TypeOK, SpinLockAssumption
    <3> QED BY <1>0, <1>12, <3>1 DEF Local, TypeOK
  <2> QED BY <2>2, <2>4, <2>5, <2>7, <2>8, <2>9 DEF LockInv
<1>13. ASSUME NEW t \in Threads, ReadCheck(t) PROVE LockInv'
  <2>1. TypeOK'
    BY <1>0, <1>13 DEF ReadCheck, TypeOK, Pcs
  <2>2. \A s \in Threads : Local(s)'
    BY <1>13 DEF ReadCheck, LockInv, Local, Last, TypeOK
  <2>3. Counting' <=> Counting
    BY <1>0, <1>13 DEF ReadCheck, Counting, TypeOK
  <2>4. WritesTrue'
    BY <1>13, <2>3, SameGuards DEF ReadCheck, LockInv, WritesTrue
  <2> QED BY <1>13, <2>1, <2>2, <2>4, SameGuards DEF LockInv, ReadCheck
<1>14. ASSUME NEW t \in Threads, ReadAdd(t) PROVE LockInv'
  <2>1. owner = t
    BY <1>14 DEF ReadAdd, LockInv, Local
  <2> QED BY <1>14, <2>1, <1>12 DEF ReadAdd
<1>15. ASSUME NEW t \in Threads, ReadLoad(t) PROVE LockInv'
  <2>1. TypeOK'
    BY <1>0, <1>15 DEF ReadLoad, TypeOK, Pcs
  <2>2. \A s \in Threads : Local(s)'
    BY <1>15 DEF ReadLoad, LockInv, Local, Last, TypeOK
  <2>3. Counting' <=> Counting
    BY <1>0, <1>15 DEF ReadLoad, Counting, TypeOK
  <2>4. WritesTrue'
    BY <1>15, <2>3, SameGuards DEF ReadLoad, LockInv, WritesTrue
  <2> QED BY <1>15, <2>1, <2>2, <2>4, SameGuards DEF LockInv, ReadLoad
<1>16. ASSUME NEW t \in Threads, ReadCas(t) PROVE LockInv'
  <2>1. CASE owner = None /\ readers = expected[t]
    BY <1>16, <2>1, <1>12 DEF ReadCas
  <2>2. CASE ~ (owner = None /\ readers = expected[t])
    <3>1. pc[t] = "rcas" /\ Goto(t, "rload") /\ UNCHANGED <<owner, readers, writeCount, expected, held, crash>>
      BY <1>16, <2>2 DEF ReadCas
    <3>2. TypeOK'
      BY <1>0, <3>1 DEF TypeOK, Pcs
    <3>3. \A s \in Threads : Local(s)'
      BY <3>1 DEF LockInv, Local, Last, TypeOK
    <3>4. Counting' <=> Counting
      BY <1>0, <3>1 DEF Counting, TypeOK
    <3>5. WritesTrue'
      BY <3>1, <3>4, SameGuards DEF LockInv, WritesTrue
    <3> QED BY <3>1, <3>2, <3>3, <3>5, SameGuards DEF LockInv
  <2> QED BY <2>1, <2>2
<1>17. ASSUME NEW t \in Threads, ReadSub(t) PROVE LockInv'
  <2>1. pc[t] = "rsub" /\ Goto(t, "out") /\ Pop(t) /\ readers' = readers - 1
        /\ UNCHANGED <<owner, writeCount, expected>>
    BY <1>17 DEF ReadSub
  <2>2. held[t] # <<>> /\ Last(t) = "R"
    BY <2>1 DEF LockInv, Local
  <2>3. Len(held[t]) <= MaxDepth
    BY <1>0
  <2>4. /\ IsFiniteSet(Guards("R")')
        /\ Cardinality(Guards("R")') = Cardinality(Guards("R")) - 1
        /\ Guards("W")' = Guards("W")
        /\ Holds(t, "W")' <=> Holds(t, "W")
        /\ \A s \in Threads : s # t => held'[s] = held[s]
        /\ Len(held'[t]) = Len(held[t]) - 1
    BY <1>0, <2>1, <2>2, <2>3, PopGuard
  <2>5. readers # 0
    <3>1. Cardinality(Guards("R")') \in Nat
      BY <2>4, FS_CardinalityType
    <3> QED BY <2>4, <3>1, GuardsFinite DEF LockInv, ReadersTrue
  <2>6. crash' = crash
    BY <1>17, <2>5 DEF ReadSub
  <2>7. TypeOK'
    BY <1>0, <2>1, <2>6 DEF TypeOK, Pcs, Pop
  <2>8. Alone'
    BY <2>1, <2>2, <2>4 DEF LockInv, Alone
  <2>9. OwnerTrue'
    BY <2>1, <2>4 DEF LockInv, OwnerTrue, Holds
  <2>10. ReadersTrue'
    BY <2>1, <2>4 DEF LockInv, ReadersTrue
  <2>11. Counting' <=> Counting
    BY <1>0, <2>1 DEF Counting, TypeOK
  <2>12. WritesTrue'
    BY <2>1, <2>4, <2>11 DEF LockInv, WritesTrue
  <2>13. ASSUME NEW s \in Threads, s # t PROVE Local(s)'
    <3>1. pc'[s] = pc[s] /\ held'[s] = held[s] /\ Last(s)' = Last(s)
      BY <1>0, <2>1, <2>4, <2>13 DEF TypeOK, Last
    <3>2. Local(s)
      BY DEF LockInv
    <3> QED BY <2>1, <2>5, <2>6, <3>1, <3>2 DEF Local
  <2>14. Local(t)'
    BY <1>0, <1>a, <2>1, <2>4 DEF Local, TypeOK
  <2> QED BY <2>7, <2>8, <2>9, <2>10, <2>12, <2>13, <2>14 DEF LockInv
<1>18. ASSUME NEW t \in Threads, TimeOut(t) PROVE LockInv'
  <2>1. TypeOK'
    BY <1>0, <1>18 DEF TimeOut, TypeOK, Pcs
  <2>2. \A s \in Threads : Local(s)'
    BY <1>18 DEF TimeOut, LockInv, Local, Last, TypeOK
  <2>3. Counting' <=> Counting
    BY <1>0, <1>18 DEF TimeOut, Counting, TypeOK
  <2>4. WritesTrue'
    BY <1>18, <2>3, SameGuards DEF TimeOut, LockInv, WritesTrue
  <2> QED BY <1>18, <2>1, <2>2, <2>4, SameGuards DEF LockInv, TimeOut
<1>19. ASSUME UNCHANGED vars PROVE LockInv'
  <2>1. UNCHANGED <<held, owner, readers>> /\ UNCHANGED <<writeCount, pc, expected, crash>>
    BY <1>19 DEF vars
  <2>2. TypeOK' /\ (Counting' <=> Counting) /\ \A s \in Threads : Local(s)'
    BY <2>1 DEF LockInv, TypeOK, Counting, Local, Last
  <2>3. WritesTrue'
    BY <2>1, <2>2, SameGuards DEF LockInv, WritesTrue
  <2> QED BY <2>1, <2>2, <2>3, SameGuards DEF LockInv
<1> QED
  BY <1>1, <1>2, <1>3, <1>6, <1>7, <1>8, <1>9, <1>10, <1>11, <1>13, <1>14, <1>15,
     <1>16, <1>17, <1>18, <1>19 DEF Next, Inside

\* LockInv holds in every state of the lock.
THEOREM Invariance == SafetySpec => []LockInv
<1>1. Init => LockInv
  BY InitLockInv
<1>2. LockInv /\ [Next]_vars => LockInv'
  BY NextLockInv
<1> QED BY <1>1, <1>2, PTL DEF SafetySpec

\* Every variable of Lock keeps its type.
THEOREM TypeCorrect == SafetySpec => []TypeOK
<1>1. LockInv => TypeOK
  BY DEF LockInv
<1> QED BY <1>1, Invariance, PTL

\* No thread holds a guard of either kind while another one holds a write
\* guard: what WriteLcok and ReadLock are for.
THEOREM MutualExclusion == SafetySpec => []Exclusive
<1>1. LockInv => Exclusive
  BY DEF LockInv, OwnerTrue, Alone, Exclusive
<1> QED BY <1>1, Invariance, PTL

\* _lockFlag names the thread with write guards and counts all read guards.
THEOREM WordTellsTheTruth == SafetySpec => []WordIsTrue
<1>1. LockInv => WordIsTrue
  BY DEF LockInv, OwnerTrue, ReadersTrue, WordIsTrue
<1> QED BY <1>1, Invariance, PTL

\* _writeCount, which is not atomic, is touched by the owner alone, and is 0
\* whenever the lock has no owner.
THEOREM WriteCountIsPrivate == SafetySpec => []WriteCountPrivate
<1>1. ASSUME LockInv PROVE WriteCountPrivate
  <2>1. \A t \in TouchWriteCount : owner = t
    BY <1>1 DEF TouchWriteCount, LockInv, Local
  <2>2. ASSUME owner = None PROVE writeCount = 0
    <3>1. ~ Counting
      BY <1>1, <2>2, NoneIsNoThread DEF LockInv, Counting, Local
    <3>2. \A t \in Threads : ~ Holds(t, "W")
      BY <1>1, <2>2, NoneIsNoThread DEF LockInv, OwnerTrue
    <3>3. TypeOK /\ \A s \in Threads : Len(held[s]) <= MaxDepth
      BY <1>1 DEF LockInv, Local
    <3>4. Cardinality(Guards("W")) = 0
      BY <3>2, <3>3, NoGuards
    <3> QED BY <1>1, <3>1, <3>4 DEF LockInv, WritesTrue
  <2> QED BY <2>1, <2>2 DEF WriteCountPrivate
<1> QED BY <1>1, Invariance, PTL

-----------------------------------------------------------------------------
(* All reads of a thread have to be released before its write is.          *)

\* The readers that the owner finds in the word when it closes a write guard are
\* its own.
LEMMA ReadersAreOwn ==
  ASSUME LockInv, NEW t \in Threads, pc[t] = "wtest"
  PROVE  readers = 0 <=> ~ Holds(t, "R")
<1>1. /\ owner = t /\ TypeOK
      /\ \A s \in Threads : Len(held[s]) <= MaxDepth
  BY DEF LockInv, Local
<1>2. \A s \in Threads : s # t => ~ Holds(s, "R")
  BY <1>1 DEF LockInv, Alone, Holds
<1> QED BY <1>1, <1>2, NoGuards DEF LockInv, ReadersTrue

\* A thread that has a read guard finds itself counted in the word.
LEMMA ReaderCounted ==
  ASSUME LockInv, NEW t \in Threads, pc[t] = "rsub"
  PROVE  readers # 0
<1>1. /\ held[t] # <<>> /\ Last(t) = "R" /\ TypeOK
      /\ \A s \in Threads : Len(held[s]) <= MaxDepth
  BY DEF LockInv, Local
<1>2. Holds(t, "R")
  BY <1>1 DEF TypeOK, Last, Holds
<1> QED BY <1>1, <1>2, NoGuards DEF LockInv, ReadersTrue

\* A step by which nobody comes to --_writeCount and nobody crashes there.
LEMMA NobodyTested ==
  ASSUME OnlyOwnReadsCrash, TypeOK, crash = "no", crash' \in {"no", "LOCK_TIMEOUT"},
         NEW t \in Threads, pc'[t] # "wdec" \/ (pc' = pc /\ held' = held),
         \A s \in Threads : s # t => pc'[s] = pc[s] /\ held'[s] = held[s]
  PROVE  OnlyOwnReadsCrash'
<1>1. \A s \in Threads : ~ (pc[s] = "wdec" /\ Holds(s, "R"))
  BY DEF OnlyOwnReadsCrash
<1>2. \A s \in Threads : ~ (pc'[s] = "wdec" /\ Holds(s, "R")')
  BY <1>1 DEF Holds
<1> QED BY <1>2 DEF OnlyOwnReadsCrash

\* Every step keeps OnlyOwnReadsCrash.
LEMMA NextOwnReads == LockInv /\ OnlyOwnReadsCrash /\ [Next]_vars => OnlyOwnReadsCrash'
<1> SUFFICES ASSUME LockInv, OnlyOwnReadsCrash, [Next]_vars PROVE OnlyOwnReadsCrash'
  OBVIOUS
<1>1. TypeOK
  BY DEF LockInv
<1>2. CASE UNCHANGED vars
  BY <1>2 DEF vars, OnlyOwnReadsCrash, Holds
<1>3. ASSUME crash = "no", NEW t \in Threads,
             \/ AskWrite(t) \/ AskRead(t) \/ CloseGuard(t) \/ Inside(t) \/ TimeOut(t)
      PROVE  OnlyOwnReadsCrash'
  <2>1. CASE WriteTest(t)
    <3>1. /\ pc' = [pc EXCEPT ![t] = "wdec"] /\ held' = held
          /\ crash' = IF Holds(t, "R") THEN "INVALID_UNLOCK_ORDER" ELSE "no"
      BY <1>3, <2>1, ReadersAreOwn DEF WriteTest, Goto
    <3>2. \A s \in Threads : ~ (pc[s] = "wdec" /\ Holds(s, "R"))
      BY <1>3 DEF OnlyOwnReadsCrash
    <3>3. \A s \in Threads : Holds(s, "R")' <=> Holds(s, "R")
      BY <3>1 DEF Holds
    <3>4. pc'[t] = "wdec" /\ \A s \in Threads : s # t => pc'[s] = pc[s]
      BY <1>1, <3>1 DEF TypeOK
    <3> QED BY <3>1, <3>2, <3>3, <3>4 DEF OnlyOwnReadsCrash
  <2>2. CASE AskWrite(t) \/ AskRead(t) \/ CloseGuard(t) \/ WriteCount(t) \/ ReadCheck(t)
               \/ ReadLoad(t)
    <3>1. /\ crash' = "no" /\ pc'[t] # "wdec" /\ held' = held
          /\ \A s \in Threads : s # t => pc'[s] = pc[s]
      BY <1>1, <1>3, <2>2 DEF AskWrite, AskRead, CloseGuard, WriteCount, ReadCheck, ReadLoad,
                              Goto, TypeOK
    <3> QED BY <1>1, <1>3, <3>1, NobodyTested
  <2>3. CASE WriteCheck(t) \/ WriteSpin(t)
    <3>1. /\ crash' = "no" /\ pc'[t] # "wdec"
          /\ \A s \in Threads : s # t => pc'[s] = pc[s] /\ held'[s] = held[s]
      BY <1>1, <1>3, <2>3 DEF WriteCheck, WriteSpin, Push, Goto, TypeOK
    <3> QED BY <1>1, <1>3, <3>1, NobodyTested
  <2>4. CASE WriteDec(t) \/ WriteStore(t)
    <3>1. /\ crash' = "no" /\ pc'[t] # "wdec"
          /\ \A s \in Threads : s # t => pc'[s] = pc[s] /\ held'[s] = held[s]
      BY <1>1, <1>3, <2>4 DEF WriteDec, WriteStore, Pop, Goto, TypeOK
    <3> QED BY <1>1, <1>3, <3>1, NobodyTested
  <2>5. CASE ReadAdd(t) \/ ReadCas(t)
    <3>1. /\ crash' = "no" /\ pc'[t] # "wdec"
          /\ \A s \in Threads : s # t => pc'[s] = pc[s] /\ held'[s] = held[s]
      BY <1>1, <1>3, <2>5 DEF ReadAdd, ReadCas, Push, Goto, TypeOK
    <3> QED BY <1>1, <1>3, <3>1, NobodyTested
  <2>6. CASE ReadSub(t)
    <3>1. /\ crash' = "no" /\ pc'[t] # "wdec"
          /\ \A s \in Threads : s # t => pc'[s] = pc[s] /\ held'[s] = held[s]
      BY <1>1, <1>3, <2>6, ReaderCounted DEF ReadSub, Pop, Goto, TypeOK
    <3> QED BY <1>1, <1>3, <3>1, NobodyTested
  <2>7. CASE TimeOut(t)
    <3>1. crash' = "LOCK_TIMEOUT" /\ pc' = pc /\ held' = held
      BY <2>7 DEF TimeOut
    <3> QED BY <1>1, <1>3, <3>1, NobodyTested
  <2> QED BY <1>3, <2>1, <2>2, <2>3, <2>4, <2>5, <2>6, <2>7 DEF Inside
<1> QED BY <1>2, <1>3 DEF Next

\* Whatever the other threads do, CRASH("INVALID_UNLOCK_ORDER") hits exactly a thread
\* that releases a write while it still has a read guard of its own, the rule that
\* the comment in WriteUnlock states.
THEOREM OwnReadsCrash == SafetySpec => []OnlyOwnReadsCrash
<1>1. Init => OnlyOwnReadsCrash
  BY DEF Init, OnlyOwnReadsCrash, Holds
<1> QED BY <1>1, NextOwnReads, Invariance, PTL DEF SafetySpec

-----------------------------------------------------------------------------
(* SpinLock implements RWLock.                                             *)

\* Pushing a write guard is what RWLock allows.
LEMMA WriteAllowed ==
  ASSUME LockInv, NEW t \in Threads, owner = t \/ Empty, Push(t, "W")
  PROVE  Abstract!AcquireWrite(t)
<1>1. CASE owner = t
  BY <1>1 DEF LockInv, Alone, OwnerTrue, Push, Abstract!AcquireWrite, Abstract!Holds, Holds
<1>2. CASE Empty
  <2>1. TypeOK /\ \A s \in Threads : Len(held[s]) <= MaxDepth
    BY DEF LockInv, Local
  <2>2. \A s \in Threads : ~ Holds(s, "W") /\ ~ Holds(s, "R")
    BY <1>2, <2>1, NoGuards, NoneIsNoThread DEF LockInv, OwnerTrue, ReadersTrue, Empty
  <2>3. \A s \in Threads : held[s] \in Seq({"W", "R"})
    BY <2>1 DEF TypeOK
  <2>4. \A s \in Threads : held[s] = <<>>
    BY <2>2, <2>3 DEF Holds
  <2> QED BY <2>2, <2>4 DEF Push, Abstract!AcquireWrite, Abstract!Holds, Holds
<1> QED BY <1>1, <1>2

\* So is pushing a read guard,
LEMMA ReadAllowed ==
  ASSUME LockInv, NEW t \in Threads, owner \in {t, None}, Push(t, "R")
  PROVE  Abstract!AcquireRead(t)
<1>1. \A s \in Threads \ {t} : ~ Holds(s, "W")
  BY NoneIsNoThread DEF LockInv, OwnerTrue
<1> QED BY <1>1 DEF Push, Abstract!AcquireRead, Abstract!Holds, Holds

\* and popping the youngest guard.
LEMMA ReleaseAllowed ==
  ASSUME NEW t \in Threads, held[t] # <<>>, Pop(t)
  PROVE  Abstract!Release(t)
BY DEF Pop, Abstract!Release

\* WriteLcok, WriteUnlock, ReadLock and ReadUnlock, an access to the word at a
\* time, together are a reader-writer lock whose guards nest.
THEOREM Implementation == SafetySpec => ImplementsRWLock
<1>1. Init => Abstract!Init
  BY DEF Init, Abstract!Init
<1>2. LockInv /\ [Next]_vars => [Abstract!Next]_held
  <2> SUFFICES ASSUME LockInv, [Next]_vars, held' # held
               PROVE  \E t \in Threads : \/ Abstract!AcquireWrite(t)
                                         \/ Abstract!AcquireRead(t)
                                         \/ Abstract!Release(t)
    BY DEF Abstract!Next
  <2>1. PICK t \in Threads :
          AskWrite(t) \/ AskRead(t) \/ CloseGuard(t) \/ Inside(t) \/ TimeOut(t)
    BY DEF Next, vars
  <2>2. \/ WriteCheck(t) /\ owner = t /\ Push(t, "W")
        \/ WriteSpin(t)
        \/ WriteDec(t) /\ Pop(t)
        \/ WriteStore(t)
        \/ ReadAdd(t)
        \/ ReadCas(t) /\ owner = None /\ Push(t, "R")
        \/ ReadSub(t)
    BY <2>1 DEF Inside, AskWrite, AskRead, CloseGuard, WriteCheck, WriteCount,
                WriteTest, WriteDec, ReadCheck, ReadLoad, ReadCas, TimeOut
  <2>3. Local(t)
    BY DEF LockInv
  <2>4. CASE (WriteCheck(t) /\ owner = t /\ Push(t, "W")) \/ WriteSpin(t)
    BY <2>4, WriteAllowed DEF WriteSpin
  <2>5. CASE ReadAdd(t) \/ (ReadCas(t) /\ owner = None /\ Push(t, "R"))
    BY <2>3, <2>5, ReadAllowed DEF ReadAdd, Local
  <2>6. CASE (WriteDec(t) /\ Pop(t)) \/ WriteStore(t) \/ ReadSub(t)
    BY <2>3, <2>6, ReleaseAllowed DEF WriteDec, WriteStore, ReadSub, Local
  <2> QED BY <2>2, <2>4, <2>5, <2>6
<1> QED BY <1>1, <1>2, Invariance, PTL DEF SafetySpec, ImplementsRWLock, Abstract!Spec
=============================================================================
