------------------------------ MODULE SpinLock ------------------------------
(***************************************************************************)
(* ServerCore's Lock: a reentrant reader-writer spin lock in one 32-bit    *)
(* word, [owner thread : 16][read count : 16], plus _writeCount, an        *)
(* ordinary variable that the owner uses to count its nested write locks.  *)
(* Threads use it through WRITE_LOCK and READ_LOCK, guards whose           *)
(* destructors run in the reverse order of the constructors.               *)
(*                                                                         *)
(* One step is one access to _lockFlag or _writeCount.                     *)
(***************************************************************************)
EXTENDS Integers, FiniteSets, Sequences

CONSTANTS
  Threads,   \* threads that use the lock, each with an LThreadId # 0
  MaxDepth,  \* bound: guards one thread has on the lock at a time
  None       \* thread id 0: nobody

\* The read count never carries into the owner bits, nor does _writeCount wrap.
ASSUME SpinLockAssumption ==
  /\ IsFiniteSet(Threads)
  /\ MaxDepth \in Nat
  /\ Cardinality(Threads) * MaxDepth < 65536
  /\ None \notin Threads

VARIABLES
  owner,       \* the upper half of _lockFlag
  readers,     \* the lower half of _lockFlag
  writeCount,  \* _writeCount
  pc,          \* where each thread is, see Pcs
  expected,    \* the local of ReadLock's loop
  held,        \* the guards of each thread, oldest first
  crash        \* what the program died of, or "no"

word == <<owner, readers>>
vars == <<owner, readers, writeCount, pc, expected, held, crash>>

Pcs == { "out",      \* outside Lock
         "wcheck",   \* WriteLcok: before the load of _lockFlag
         "wspin",    \* WriteLcok: before compare_exchange(EMPTY, me)
         "wcount",   \* WriteLcok: before _writeCount++
         "wtest",    \* WriteUnlock: before the load of _lockFlag
         "wdec",     \* WriteUnlock: before --_writeCount
         "wstore",   \* WriteUnlock: before store(EMPTY)
         "rcheck",   \* ReadLock: before the load of _lockFlag
         "radd",     \* ReadLock by the owner: before fetch_add(1)
         "rload",    \* ReadLock: before the load in the loop
         "rcas",     \* ReadLock: before the compare_exchange
         "rsub" }    \* ReadUnlock: before fetch_sub(1)

Holds(t, kind) == \E i \in DOMAIN held[t] : held[t][i] = kind

Empty == owner = None /\ readers = 0

Push(t, kind) == held' = [held EXCEPT ![t] = Append(@, kind)]

Pop(t) == held' = [held EXCEPT ![t] = SubSeq(@, 1, Len(@) - 1)]

Goto(t, label) == pc' = [pc EXCEPT ![t] = label]

-----------------------------------------------------------------------------
Init ==
  /\ owner = None
  /\ readers = 0
  /\ writeCount = 0
  /\ pc = [t \in Threads |-> "out"]
  /\ expected = [t \in Threads |-> 0]
  /\ held = [t \in Threads |-> <<>>]
  /\ crash = "no"

-----------------------------------------------------------------------------
(* What the code around the lock does: open a guard, or close the youngest. *)

AskWrite(t) ==
  /\ pc[t] = "out"
  /\ Len(held[t]) < MaxDepth
  /\ Goto(t, "wcheck")
  /\ UNCHANGED <<word, writeCount, expected, held, crash>>

AskRead(t) ==
  /\ pc[t] = "out"
  /\ Len(held[t]) < MaxDepth
  /\ Goto(t, "rcheck")
  /\ UNCHANGED <<word, writeCount, expected, held, crash>>

CloseGuard(t) ==
  /\ pc[t] = "out"
  /\ held[t] # <<>>
  /\ Goto(t, IF held[t][Len(held[t])] = "W" THEN "wtest" ELSE "rsub")
  /\ UNCHANGED <<word, writeCount, expected, held, crash>>

-----------------------------------------------------------------------------
(* Lock::WriteLcok *)

\* The owner gets the lock again, anyone else has to compete for it.
WriteCheck(t) ==
  /\ pc[t] = "wcheck"
  /\ \/ owner = t /\ Goto(t, "wcount") /\ Push(t, "W")
     \/ owner # t /\ Goto(t, "wspin") /\ UNCHANGED held
  /\ UNCHANGED <<word, writeCount, expected, crash>>

\* Fault: the compare_exchange looks at the owner only.
WriteSpinOverReaders(t) ==
  /\ pc[t] = "wspin"
  /\ owner = None
  /\ owner' = t
  /\ Goto(t, "wcount")
  /\ Push(t, "W")
  /\ UNCHANGED <<readers, writeCount, expected, crash>>

WriteSpin(t) ==
  /\ pc[t] = "wspin"
  /\ Empty
  /\ owner' = t
  /\ Goto(t, "wcount")
  /\ Push(t, "W")
  /\ UNCHANGED <<readers, writeCount, expected, crash>>

WriteCount(t) ==
  /\ pc[t] = "wcount"
  /\ writeCount' = writeCount + 1
  /\ Goto(t, "out")
  /\ UNCHANGED <<word, expected, held, crash>>

-----------------------------------------------------------------------------
(* Lock::WriteUnlock *)

\* Fault: the last unlock frees the word before it counts down.
WriteTestFrees(t) ==
  /\ pc[t] = "wtest"
  /\ crash' = IF readers = 0 THEN crash ELSE "INVALID_UNLOCK_ORDER"
  /\ owner' = IF writeCount = 1 THEN None ELSE owner
  /\ Goto(t, "wdec")
  /\ UNCHANGED <<readers, writeCount, expected, held>>

\* CRASH("INVALID_UNLOCK_ORDER") if the word counts a reader.
WriteTest(t) ==
  /\ pc[t] = "wtest"
  /\ crash' = IF readers = 0 THEN crash ELSE "INVALID_UNLOCK_ORDER"
  /\ Goto(t, "wdec")
  /\ UNCHANGED <<word, writeCount, expected, held>>

\* Fault: tests the count before the decrement.
WriteDecLate(t) ==
  /\ pc[t] = "wdec"
  /\ writeCount' = writeCount - 1
  /\ \/ writeCount = 0 /\ Goto(t, "wstore") /\ UNCHANGED held
     \/ writeCount # 0 /\ Goto(t, "out") /\ Pop(t)
  /\ UNCHANGED <<word, expected, crash>>

WriteDec(t) ==
  /\ pc[t] = "wdec"
  /\ writeCount' = writeCount - 1
  /\ \/ writeCount' = 0 /\ Goto(t, "wstore") /\ UNCHANGED held
     \/ writeCount' # 0 /\ Goto(t, "out") /\ Pop(t)
  /\ UNCHANGED <<word, expected, crash>>

WriteStore(t) ==
  /\ pc[t] = "wstore"
  /\ owner' = None
  /\ readers' = 0
  /\ Goto(t, "out")
  /\ Pop(t)
  /\ UNCHANGED <<writeCount, expected, crash>>

-----------------------------------------------------------------------------
(* Lock::ReadLock *)

ReadCheck(t) ==
  /\ pc[t] = "rcheck"
  /\ Goto(t, IF owner = t THEN "radd" ELSE "rload")
  /\ UNCHANGED <<word, writeCount, expected, held, crash>>

\* Fault: the owner reads without counting itself.
ReadAddForgotten(t) ==
  /\ pc[t] = "radd"
  /\ Goto(t, "out")
  /\ Push(t, "R")
  /\ UNCHANGED <<word, writeCount, expected, crash>>

ReadAdd(t) ==
  /\ pc[t] = "radd"
  /\ readers' = readers + 1
  /\ Goto(t, "out")
  /\ Push(t, "R")
  /\ UNCHANGED <<owner, writeCount, expected, crash>>

\* expected = _lockFlag.load() & READ_COUNT_MASK
ReadLoad(t) ==
  /\ pc[t] = "rload"
  /\ expected' = [expected EXCEPT ![t] = readers]
  /\ Goto(t, "rcas")
  /\ UNCHANGED <<word, writeCount, held, crash>>

\* The compare_exchange compares the whole word, so it fails on an owner too.
ReadCas(t) ==
  /\ pc[t] = "rcas"
  /\ \/ /\ owner = None /\ readers = expected[t]
        /\ readers' = readers + 1
        /\ Goto(t, "out")
        /\ Push(t, "R")
     \/ /\ ~ (owner = None /\ readers = expected[t])
        /\ Goto(t, "rload")
        /\ UNCHANGED <<readers, held>>
  /\ UNCHANGED <<owner, writeCount, expected, crash>>

-----------------------------------------------------------------------------
\* Lock::ReadUnlock: fetch_sub(1), and CRASH if there was no reader.
ReadSub(t) ==
  /\ pc[t] = "rsub"
  /\ readers' = readers - 1
  /\ crash' = IF readers = 0 THEN "INVALID_UNLOCK_ORDER" ELSE crash
  /\ Goto(t, "out")
  /\ Pop(t)
  /\ UNCHANGED <<owner, writeCount, expected>>

\* The last of MAX_SPIN_COUNT attempts failed and 10 s have passed since the
\* first: CRASH("LOCK_TIMEOUT").
TimeOut(t) ==
  /\ \/ pc[t] = "wspin" /\ ~ Empty
     \/ pc[t] = "rcas" /\ ~ (owner = None /\ readers = expected[t])
  /\ crash' = "LOCK_TIMEOUT"
  /\ UNCHANGED <<word, writeCount, pc, expected, held>>

-----------------------------------------------------------------------------
\* A thread inside Lock goes on.
Inside(t) ==
  \/ WriteCheck(t) \/ WriteSpin(t) \/ WriteCount(t)
  \/ WriteTest(t) \/ WriteDec(t) \/ WriteStore(t)
  \/ ReadCheck(t) \/ ReadAdd(t) \/ ReadLoad(t) \/ ReadCas(t)
  \/ ReadSub(t)

Next ==
  /\ crash = "no"
  /\ \E t \in Threads :
       \/ AskWrite(t) \/ AskRead(t) \/ CloseGuard(t)
       \/ Inside(t)
       \/ TimeOut(t)

\* Every thread is scheduled, and every critical section ends.
Fairness ==
  \A t \in Threads :
    /\ WF_vars(crash = "no" /\ Inside(t))
    /\ SF_vars(crash = "no" /\ CloseGuard(t))

SafetySpec == Init /\ [][Next]_vars

Spec == SafetySpec /\ Fairness

-----------------------------------------------------------------------------
(* Properties. *)

\* The type of every variable.
TypeOK ==
  /\ owner \in Threads \cup {None}
  /\ readers \in Int
  /\ writeCount \in Int
  /\ pc \in [Threads -> Pcs]
  /\ expected \in [Threads -> Int]
  /\ held \in [Threads -> Seq({"W", "R"})]
  /\ crash \in {"no", "LOCK_TIMEOUT", "INVALID_UNLOCK_ORDER"}

\* While a thread holds a write guard, no other thread holds any.
Exclusive ==
  \A s, t \in Threads : Holds(s, "W") /\ s # t => held[t] = <<>>

\* The guards of a kind that exist, each a place on the stack of a thread.
Guards(kind) ==
  {g \in Threads \X (1 .. MaxDepth) :
     g[2] \in DOMAIN held[g[1]] /\ held[g[1]][g[2]] = kind}

\* The word says who holds what: its upper half names the thread with write
\* guards and its lower half counts the read guards of all threads.
WordIsTrue ==
  /\ \A t \in Threads : Holds(t, "W") <=> owner = t
  /\ readers = Cardinality(Guards("R"))

\* The threads whose next step reads or writes _writeCount.
TouchWriteCount == {t \in Threads : pc[t] \in {"wcount", "wdec"}}

\* _writeCount is not atomic: two threads are never about to touch it at the
\* same time, and between critical sections it is back to zero.
WriteCountPrivate ==
  /\ \A t \in TouchWriteCount : owner = t
  /\ owner = None => writeCount = 0

\* All reads have to be released before a write is (Lock.cpp:54), which is the
\* business of a single thread: WriteUnlock crashes exactly in a thread that still
\* has a read guard of its own, never for the readers of others, and ReadUnlock
\* never does.
OnlyOwnReadsCrash ==
  crash = "INVALID_UNLOCK_ORDER" <=> \E t \in Threads : pc[t] = "wdec" /\ Holds(t, "R")

Waiting(t) == pc[t] \in {"wspin", "rload", "rcas"}

\* A thread that asks to write while it has only read guards waits for itself.
Upgrades(t) == pc[t] = "wspin" /\ Holds(t, "R")

\* If a thread waits forever, it is because other threads keep getting the lock,
\* or because somebody asked to write inside a read, the one nesting that the lock
\* cannot grant: nobody waits for a guard that was closed, or in any other circle.
\* The lock is not fair, so more cannot be said.
OnlyOvertaken ==
  \A t \in Threads :
    <>[](Waiting(t) /\ crash = "no") =>
      \/ []<><<\E s \in Threads \ {t} : Len(held'[s]) > Len(held[s])>>_vars
      \/ <>[](\E s \in Threads : Upgrades(s))

\* The atomic operations together implement a reader-writer lock.
Abstract == INSTANCE RWLock

ImplementsRWLock == Abstract!Spec
=============================================================================
