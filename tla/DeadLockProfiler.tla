--------------------------- MODULE DeadLockProfiler ---------------------------
(***************************************************************************)
(* DeadLockProfiler.cpp under the locks that call it (Lock.cpp, a debug    *)
(* build): every request of a lock first reports the lock's name to the    *)
(* profiler, which remembers every order "b was requested while a was on   *)
(* top of the thread's stack" and crashes when the orders form a cycle.    *)
(* The name of a lock is the type name of the object that owns it, so all  *)
(* objects of a class have one name.                                       *)
(*                                                                         *)
(* The depth-first search is taken step by step, a visit of an order each, *)
(* while the profiler's _lock is held: the other threads go on trying for  *)
(* their locks and giving them back, but report nothing.                   *)
(*                                                                         *)
(* Ids count from 1 (the code counts from 0), and 0 stands for the code's  *)
(* -1.  The ten second timeout of Lock.cpp is left to SpinLock: here a     *)
(* thread that cannot have its lock waits.  READ_LOCK is used nowhere, so  *)
(* locks are exclusive.                                                    *)
(***************************************************************************)
EXTENDS Naturals, FiniteSets, SequencesExt

CONSTANTS Threads, Locks,
          Class,     \* [Locks -> names], typeid(this).name() of the owner
          None,
          MaxDepth   \* bound on the nesting of one thread's guards

ASSUME ProfilerAssumption ==
    /\ None \notin Locks \cup Threads
    /\ DOMAIN Class = Locks
    /\ MaxDepth \in Nat

VARIABLES
    known,    \* _nameToId and _idToName: the names in the order of their ids
    history,  \* _lockHisotry: pairs of ids
    stack,    \* LLockStack of each thread
    held,     \* guards of each thread in the order they were opened
    want,     \* what a thread has asked for and not yet been given
    prof,     \* the thread that holds the profiler's _lock during a search, or None
    count, disc, finished, parent,  \* _discoveredCount, _discoveredOrder, _finished, _parent
    root,     \* lockId in CheckCycle
    calls,    \* the arguments of the calls of Dfs that have not returned
    rest,     \* the orders that no call has looked at
    closing,  \* there, once the search has found its way back to it, or 0
    report,   \* the path that has been printed
    crash

locks == <<stack, held, want>>
tree == <<count, disc, finished, parent, root, calls, rest>>
vars == <<known, history, locks, prof, tree, closing, report, crash>>

Init == /\ known = <<>> /\ history = {}
        /\ stack = [t \in Threads |-> <<>>]
        /\ held  = [t \in Threads |-> <<>>]
        /\ want  = [t \in Threads |-> None]
        /\ prof = None
        /\ count = 0 /\ disc = <<>> /\ finished = <<>> /\ parent = <<>>
        /\ root = 1 /\ calls = <<>> /\ rest = {}
        /\ closing = 0 /\ report = <<>> /\ crash = FALSE

IdOf(names, n) == CHOOSE i \in DOMAIN names : names[i] = n

-----------------------------------------------------------------------------
(* A thread's guards.  The code between two guards is anything.            *)

Waits(t)   == want[t] # None /\ prof # t
Closing(t) == Len(stack[t]) < Len(held[t])

\* A thread between two calls of the profiler.
Runs(t) == ~ crash /\ prof = None /\ want[t] = None /\ ~ Closing(t)

\* The threads that keep t from the lock it waits for; its own lock it may have again.
Blockers(t) == {u \in Threads \ {t} : Waits(t) /\ Contains(held[u], want[t])}

\* CheckCycle: the vectors for n ids.
CheckCycle(edges, n) ==
    /\ count' = 0 /\ disc' = [i \in 1..n |-> 0]
    /\ finished' = [i \in 1..n |-> FALSE] /\ parent' = [i \in 1..n |-> 0]
    /\ root' = 1 /\ calls' = <<>> /\ rest' = edges

\* Mutant: the order is recorded against the thread's oldest lock.
PrevIdOldest(t) == Head(stack[t])

PrevId(t) == Last(stack[t])

\* WriteLcok up to the point where it starts to try for the lock: PushLock, up to
\* the search if the order is new.
PushLock(t, l) ==
    LET names == IF Class[l] \in Range(known) THEN known ELSE Append(known, Class[l])
        id    == IdOf(names, Class[l])
        edge  == IF stack[t] = <<>> THEN {} ELSE {<<PrevId(t), id>>} \ {<<id, id>>}
    IN  /\ Runs(t) /\ Len(stack[t]) < MaxDepth
        /\ known' = names
        /\ history' = history \cup edge
        /\ want' = [want EXCEPT ![t] = l]
        /\ \/ /\ edge \subseteq history
              /\ stack' = [stack EXCEPT ![t] = Append(@, id)]
              /\ UNCHANGED <<prof, tree>>
           \/ /\ ~ edge \subseteq history
              /\ prof' = t
              /\ CheckCycle(history', Len(names))
              /\ UNCHANGED stack
        /\ UNCHANGED <<held, closing, report, crash>>

\* The rest of WriteLcok.
Acquire(t) ==
    /\ ~ crash
    /\ Waits(t) /\ Blockers(t) = {}
    /\ held' = [held EXCEPT ![t] = Append(@, want[t])]
    /\ want' = [want EXCEPT ![t] = None]
    /\ UNCHANGED <<known, history, stack, prof, tree, closing, report, crash>>

\* The destructor of the innermost guard: PopLock, which crashes on an empty
\* stack and on another name on top.
PopLock(t) ==
    /\ Runs(t) /\ held[t] # <<>>
    /\ crash' = (stack[t] = <<>> \/ Last(stack[t]) # IdOf(known, Class[Last(held[t])]))
    /\ stack' = IF crash' THEN stack ELSE [stack EXCEPT ![t] = Front(@)]
    /\ UNCHANGED <<known, history, held, want, prof, tree, closing, report>>

\* The rest of WriteUnlock.
Unlock(t) ==
    /\ ~ crash
    /\ Closing(t)
    /\ held' = [held EXCEPT ![t] = Front(@)]
    /\ UNCHANGED <<known, history, stack, want, prof, tree, closing, report, crash>>

-----------------------------------------------------------------------------
(* The search, by the thread that holds the profiler's lock.               *)

Searching == ~ crash /\ prof # None /\ closing = 0

\* Dfs(here) up to its loop.
Discover(here) ==
    /\ count' = count + 1
    /\ disc' = [disc EXCEPT ![here] = count + 1]
    /\ calls' = Append(calls, here)

\* CheckCycle calls Dfs for every id; it returns at once if the id was discovered.
DfsRoot ==
    /\ Searching /\ calls = <<>> /\ root <= Len(known)
    /\ root' = root + 1
    /\ \/ disc[root] = 0 /\ Discover(root)
       \/ disc[root] # 0 /\ UNCHANGED <<count, disc, calls>>
    /\ UNCHANGED <<known, history, locks, prof, finished, parent, rest, closing, report, crash>>

\* What Dfs(here) has not looked at, for the innermost call.
Ahead == {e \in rest : e[1] = Last(calls)}

\* Dfs(here) looks at there; a set<int32> is visited in ascending order.
DfsVisit ==
    /\ Searching /\ calls # <<>>
    /\ \E e \in Ahead :
         LET here == e[1]
             there == e[2]
         IN  /\ \A f \in Ahead : there <= f[2]
             /\ rest' = rest \ {e}
             /\ \/ /\ disc[there] = 0
                   /\ parent' = [parent EXCEPT ![there] = here]
                   /\ Discover(there)
                   /\ UNCHANGED <<closing, report>>
                \/ /\ disc[there] # 0
                   /\ disc[here] < disc[there] \/ finished[there]
                   /\ UNCHANGED <<count, disc, calls, parent, closing, report>>
                \/ /\ disc[there] # 0
                   /\ ~ (disc[here] < disc[there]) /\ ~ finished[there]
                   /\ closing' = there /\ report' = <<here>>
                   /\ UNCHANGED <<count, disc, calls, parent>>
    /\ UNCHANGED <<known, history, locks, prof, finished, root, crash>>

\* The end of Dfs(here).
DfsReturn ==
    /\ Searching /\ calls # <<>> /\ Ahead = {}
    /\ finished' = [finished EXCEPT ![Last(calls)] = TRUE]
    /\ calls' = Front(calls)
    /\ UNCHANGED <<known, history, locks, prof, count, disc, parent, root, rest, closing, report, crash>>

\* Mutant: only the order that closed the cycle is printed.
PrintCycleOnce ==
    /\ ~ crash /\ closing # 0
    /\ report' = Cons(parent[Head(report)], report)
    /\ crash' = TRUE
    /\ UNCHANGED <<known, history, locks, prof, tree, closing>>

\* Dfs prints the way back to there, by _parent, and crashes.
PrintCycle ==
    /\ ~ crash /\ closing # 0
    /\ report' = Cons(parent[Head(report)], report)
    /\ crash' = (parent[Head(report)] = closing)
    /\ UNCHANGED <<known, history, locks, prof, tree, closing>>

\* Mutant: CheckCycle starts from the first id only.
CheckCycleEndsEarly ==
    /\ Searching /\ calls = <<>> /\ root > 1
    /\ CheckCycle({}, 0)
    /\ stack' = [stack EXCEPT ![prof] = Append(@, IdOf(known, Class[want[prof]]))]
    /\ prof' = None
    /\ UNCHANGED <<known, history, held, want, closing, report, crash>>

\* The end of CheckCycle, which clears the vectors, and of PushLock.
CheckCycleEnds ==
    /\ Searching /\ calls = <<>> /\ root > Len(known)
    /\ CheckCycle({}, 0)
    /\ stack' = [stack EXCEPT ![prof] = Append(@, IdOf(known, Class[want[prof]]))]
    /\ prof' = None
    /\ UNCHANGED <<known, history, held, want, closing, report, crash>>

-----------------------------------------------------------------------------
Next ==
    \/ \E t \in Threads :
         \/ \E l \in Locks : PushLock(t, l)
         \/ Acquire(t) \/ PopLock(t) \/ Unlock(t)
    \/ DfsRoot \/ DfsVisit \/ DfsReturn \/ PrintCycle \/ CheckCycleEnds

Spec == Init /\ [][Next]_vars

-----------------------------------------------------------------------------
(* Properties. *)

\* A set of threads each of which waits for one of the set, and no smaller one.
IsKnot(D) == D # {} /\ \A t \in D : Blockers(t) \cap D # {}
IsDeadlock(D) == IsKnot(D) /\ \A E \in SUBSET D : IsKnot(E) => E = D

\* No deadlock gets past the profiler unless its locks have one name: a cycle of
\* waits over two classes crashes at the request that would close it, before
\* anybody waits, whichever locks lie on the stacks in between.
OnlyOneClassDeadlocks ==
    \A D \in SUBSET Threads : IsDeadlock(D) =>
        \A t, u \in D : Class[want[t]] = Class[want[u]]

\* There is a cycle in the orders: ids each of which comes before another of them.
Cyclic(edges) ==
    \E S \in SUBSET DOMAIN known :
        S # {} /\ \A a \in S : \E b \in S : <<a, b>> \in edges

\* The depth-first search with its discovery numbers crashes exactly when the
\* orders seen so far form a cycle, and nothing else crashes.
CrashIffCycle ==
    prof = None \/ crash => (crash <=> Cyclic(history))

\* The path printed on the way to the crash goes along orders that were seen, so
\* _parent is never followed past a root, and in the end it is a cycle.
ReportIsACycle ==
    /\ \A i \in 1 .. Len(report) - 1 : <<report[i], report[i + 1]>> \in history
    /\ crash => report # <<>> /\ <<Last(report), Head(report)>> \in history
=============================================================================
