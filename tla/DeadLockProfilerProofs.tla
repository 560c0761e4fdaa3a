------------------------ MODULE DeadLockProfilerProofs ------------------------
(***************************************************************************)
(* Proofs about DeadLockProfiler for any threads, locks and classes: the   *)
(* search crashes exactly when the orders form a cycle, it prints one, and *)
(* only locks of one class can deadlock behind its back.                   *)
(***************************************************************************)
EXTENDS DeadLockProfiler, SequenceTheorems, WellFoundedInduction, TLAPS

-----------------------------------------------------------------------------
(* The invariant.                                                          *)

Ids == 1 .. Len(known)

Typed ==
  /\ known \in Seq({Class[l] : l \in Locks})
  /\ history \subseteq Ids \X Ids
  /\ stack \in [Threads -> Seq(Ids)]
  /\ held \in [Threads -> Seq(Locks)]
  /\ want \in [Threads -> Locks \cup {None}]
  /\ prof \in Threads \cup {None}
  /\ closing \in Nat
  /\ report \in Seq(Ids)
  /\ crash \in BOOLEAN

\* A name has one id, and no lock comes before itself.
OneId ==
  /\ \A i, j \in Ids : known[i] = known[j] => i = j
  /\ \A e \in history : e[1] # e[2]

\* The ids on a thread's stack are those of its guards and of the lock it waits for;
\* the thread inside PushLock has a lock and asks for one with an id.
GuardsMatch == \A t \in Threads :
  /\ \A i \in 1 .. Len(stack[t]) : i <= Len(held[t]) => known[stack[t][i]] = Class[held[t][i]]
  /\ want[t] = None => Len(held[t]) \in {Len(stack[t]), Len(stack[t]) + 1}
  /\ Waits(t) => /\ Len(stack[t]) = Len(held[t]) + 1
                 /\ known[stack[t][Len(stack[t])]] = Class[want[t]]
  /\ prof = t => /\ want[t] # None
                 /\ Len(stack[t]) = Len(held[t]) /\ stack[t] # <<>>
                 /\ \E i \in Ids : known[i] = Class[want[t]]

\* The order that the running PushLock has entered and not yet found harmless.
Asked == <<PrevId(prof), IdOf(known, Class[want[prof]])>>

\* The orders that have passed a search.
Passed == IF prof = None THEN history ELSE history \ {Asked}

\* They form no cycle, and every stack keeps to them.
Orders ==
  /\ ~ Cyclic(Passed)
  /\ \A t \in Threads : \A i \in 1 .. Len(stack[t]) - 1 :
       stack[t][i] # stack[t][i + 1] => <<stack[t][i], stack[t][i + 1]>> \in Passed
  /\ prof # None => Asked \in history

Called == 1 .. Len(calls)

TreeTyped ==
  /\ disc \in [Ids -> Nat] /\ finished \in [Ids -> BOOLEAN] /\ parent \in [Ids -> Nat]
  /\ count \in Nat /\ root \in 1 .. Len(known) + 1
  /\ calls \in Seq(Ids) /\ rest \subseteq history

\* The ids that were discovered and are not finished are on the path of calls, in the
\* order of their discovery, and _parent leads back along it.
Path ==
  /\ \A a \in Ids : disc[a] <= count
  /\ \A a \in Ids : finished[a] => disc[a] # 0
  /\ \A a \in Ids : disc[a] # 0 /\ ~ finished[a] <=> \E i \in Called : calls[i] = a
  /\ \A i, j \in Called : i < j => disc[calls[i]] < disc[calls[j]]
  /\ \A i \in Called : i + 1 \in Called =>
       <<calls[i], calls[i + 1]>> \in history /\ parent[calls[i + 1]] = calls[i]
  /\ \A a \in 1 .. root - 1 : disc[a] # 0

\* What was looked at leads to a finished id, or on along the path.
Looked ==
  \A e \in history \ rest :
    finished[e[2]] \/ \E i \in Called : i + 1 \in Called /\ e = <<calls[i], calls[i + 1]>>

\* The orders after a finished id lead to finished ids and form no cycle.
NoCycleBehind ==
  /\ \A e \in history : finished[e[1]] => finished[e[2]]
  /\ \A S \in SUBSET {a \in Ids : finished[a]} :
       S # {} => \E a \in S : \A b \in S : <<a, b>> \notin history

\* The report is the end of the path of calls, which goes back as far as the id that
\* closes the cycle when the process crashes.
Printed ==
  /\ <<calls[Len(calls)], closing>> \in history
  /\ Len(report) # 0
  /\ \E k \in Called :
       /\ calls[k] = closing
       /\ Len(report) <= Len(calls) - k + 1
       /\ crash <=> Len(report) = Len(calls) - k + 1
  /\ \A i \in 1 .. Len(report) : report[i] = calls[Len(calls) - Len(report) + i]

Inv ==
  /\ Typed /\ OneId /\ GuardsMatch /\ Orders
  /\ prof # None => TreeTyped /\ Path /\ NoCycleBehind
  /\ prof # None /\ closing = 0 => Looked
  /\ closing # 0 => prof # None /\ Printed
  /\ closing = 0 => report = <<>> /\ ~ crash

-----------------------------------------------------------------------------
(* Sequences.                                                              *)

\* A sequence without its last element.
LEMMA FrontFacts ==
  ASSUME NEW S, NEW s \in Seq(S), s # <<>>
  PROVE  /\ Front(s) \in Seq(S) /\ Len(Front(s)) = Len(s) - 1 /\ Len(s) - 1 \in Nat
         /\ \A i \in 1 .. Len(s) - 1 : Front(s)[i] = s[i]
<1>1. Len(s) \in Nat /\ Len(s) # 0 /\ \A i \in 1 .. Len(s) : s[i] \in S
  BY EmptySeq, ElementOfSeq
<1>2. \A i \in 1 .. Len(s) - 1 : s[i] \in S
  BY <1>1
<1> PICK n : n = Len(s) - 1
  OBVIOUS
<1>3. n \in Nat
  BY <1>1
<1>4. /\ SubSeq(s, 1, n) \in Seq(S)
      /\ Len(SubSeq(s, 1, n)) = IF 1 <= n THEN n - 1 + 1 ELSE 0
      /\ \A i \in 1 .. n - 1 + 1 : SubSeq(s, 1, n)[i] = s[1 + i - 1]
  BY <1>2, <1>3, SubSeqProperties
<1>5. Len(SubSeq(s, 1, n)) = n /\ \A i \in 1 .. n : SubSeq(s, 1, n)[i] = s[i]
  BY <1>3, <1>4
<1> QED BY <1>3, <1>4, <1>5 DEF Front

\* A sequence with one more element before it.
LEMMA ConsFacts ==
  ASSUME NEW S, NEW s \in Seq(S), NEW x \in S
  PROVE  /\ Cons(x, s) \in Seq(S) /\ Len(Cons(x, s)) = Len(s) + 1
         /\ Cons(x, s)[1] = x
         /\ \A i \in 1 .. Len(s) : Cons(x, s)[i + 1] = s[i]
<1>1. <<x>> \in Seq(S) /\ Len(<<x>>) = 1 /\ <<x>>[1] = x
  OBVIOUS
<1>2. /\ <<x>> \o s \in Seq(S) /\ Len(<<x>> \o s) = 1 + Len(s) /\ Len(s) \in Nat
      /\ \A i \in 1 .. 1 + Len(s) :
           (<<x>> \o s)[i] = IF i <= 1 THEN <<x>>[i] ELSE s[i - 1]
  BY <1>1, ConcatProperties
<1> QED BY <1>1, <1>2 DEF Cons

-----------------------------------------------------------------------------
(* The search.                                                             *)

\* A step that leaves the locks, the names and the orders alone.
LEMMA KeepsLocks ==
  ASSUME Inv, UNCHANGED <<known, history, stack, held, want, prof>>
  PROVE  /\ OneId' /\ GuardsMatch' /\ Orders' /\ Ids' = Ids
         /\ known' \in Seq({Class[l] : l \in Locks})
         /\ history' \subseteq Ids' \X Ids'
         /\ stack' \in [Threads -> Seq(Ids')] /\ held' \in [Threads -> Seq(Locks)]
         /\ want' \in [Threads -> Locks \cup {None}] /\ prof' \in Threads \cup {None}
<1>1. Ids' = Ids
  BY DEF Ids
<1>2. OneId'
  BY <1>1 DEF Inv, OneId
<1>3. GuardsMatch'
  BY <1>1 DEF Inv, GuardsMatch, Waits
<1>4. Asked' = Asked /\ Passed' = Passed
  BY DEF Asked, Passed, PrevId
<1>5. Orders'
  BY <1>4 DEF Inv, Orders, Cyclic
<1> QED BY <1>1, <1>2, <1>3, <1>5 DEF Inv, Typed

\* The places on the path of calls are different ids.
LEMMA PathDistinct ==
  ASSUME TreeTyped, Path, NEW i \in Called, NEW j \in Called, calls[i] = calls[j]
  PROVE  i = j
<1>1. i \in Nat /\ j \in Nat /\ calls[i] \in Ids /\ disc[calls[i]] \in Nat
  BY ElementOfSeq DEF Called, TreeTyped
<1>2. ~ (i < j) /\ ~ (j < i)
  BY <1>1 DEF Path
<1> QED BY <1>1, <1>2

\* A call of Dfs for an id that was not discovered extends the path.
LEMMA DiscoverPath ==
  ASSUME TreeTyped, Path, NEW here \in Ids, disc[here] = 0, Discover(here),
         UNCHANGED <<known, history, finished>>,
         parent' \in [Ids -> Nat], \A a \in Ids : a # here => parent'[a] = parent[a],
         calls # <<>> => <<calls[Len(calls)], here>> \in history /\ parent'[here] = calls[Len(calls)],
         root' \in {root, root + 1},
         \A a \in 1 .. root' - 1 : a = here \/ disc[a] # 0,
         root' - 1 \in 0 .. Len(known)
  PROVE  /\ Path' /\ Len(calls') = Len(calls) + 1 /\ Len(calls) \in Nat
         /\ calls'[Len(calls) + 1] = here
         /\ \A i \in Called : calls'[i] = calls[i]
         /\ disc' \in [Ids -> Nat] /\ count' \in Nat /\ calls' \in Seq(Ids)
<1> PICK n : n = Len(calls)
  OBVIOUS
<1>1. /\ calls' \in Seq(Ids) /\ Len(calls') = n + 1 /\ n \in Nat
      /\ calls'[n + 1] = here
      /\ \A i \in 1 .. n : calls'[i] = calls[i]
  BY AppendProperties DEF Discover, TreeTyped
<1>2. /\ Ids' = Ids /\ Called' = 1 .. n + 1 /\ Called = 1 .. n
  BY <1>1 DEF Ids, Called
<1>3. /\ count' = count + 1 /\ count \in Nat /\ disc' \in [Ids -> Nat]
      /\ disc'[here] = count + 1 /\ \A a \in Ids : a # here => disc'[a] = disc[a]
      /\ \A a \in Ids : disc[a] \in Nat
  BY DEF Discover, TreeTyped
<1>4. \A a \in Ids : disc[a] <= count
  BY DEF Path
<1>5. \A i \in 1 .. n : calls[i] \in Ids /\ calls[i] # here
  <2>1. \A i \in 1 .. n : calls[i] \in Ids
    BY <1>1, ElementOfSeq DEF TreeTyped
  <2>2. ~ \E i \in Called : calls[i] = here
    BY DEF Path
  <2> QED BY <1>2, <2>1, <2>2
<1>6. ~ finished[here]
  BY DEF Path
<1>7. \A a \in Ids : disc'[a] <= count'
  BY <1>3, <1>4
<1>8. \A a \in Ids : finished'[a] => disc'[a] # 0
  BY <1>3 DEF Path
<1>9. \A a \in Ids : disc'[a] # 0 /\ ~ finished'[a] <=> \E i \in Called' : calls'[i] = a
  <2> TAKE a \in Ids
  <2>1. CASE a = here
    <3>1. n + 1 \in Called' /\ calls'[n + 1] = here
      BY <1>1, <1>2
    <3>2. disc'[here] # 0
      BY <1>3
    <3> QED BY <1>6, <2>1, <3>1, <3>2
  <2>2. CASE a # here
    <3>1. disc'[a] # 0 /\ ~ finished'[a] <=> \E i \in Called : calls[i] = a
      BY <1>3, <2>2 DEF Path
    <3>2. ASSUME NEW i \in Called', calls'[i] = a PROVE i \in Called /\ calls[i] = a
      <4>1. i # n + 1
        BY <1>1, <2>2, <3>2
      <4>2. i \in 1 .. n
        BY <1>1, <1>2, <4>1
      <4> QED BY <1>1, <1>2, <3>2, <4>2
    <3>3. ASSUME NEW i \in Called, calls[i] = a PROVE i \in Called' /\ calls'[i] = a
      BY <1>1, <1>2, <3>3
    <3> QED BY <3>1, <3>2, <3>3
  <2> QED BY <2>1, <2>2
<1>10. \A i, j \in Called' : i < j => disc'[calls'[i]] < disc'[calls'[j]]
  <2> SUFFICES ASSUME NEW i \in Called', NEW j \in Called', i < j
               PROVE  disc'[calls'[i]] < disc'[calls'[j]]
    OBVIOUS
  <2>1. i \in 1 .. n /\ (j = n + 1 \/ j \in 1 .. n)
    BY <1>1, <1>2
  <2>2. \A k \in 1 .. n : calls'[k] = calls[k] /\ disc'[calls'[k]] = disc[calls[k]]
    BY <1>1, <1>3, <1>5
  <2>3. CASE j = n + 1
    <3>1. disc'[calls'[j]] = count + 1
      BY <1>1, <1>3, <2>3
    <3>2. disc[calls[i]] <= count /\ disc[calls[i]] \in Nat
      BY <1>3, <1>4, <1>5, <2>1
    <3>3. disc[calls[i]] < count + 1
      BY <1>3, <3>2
    <3> QED BY <2>1, <2>2, <3>1, <3>3
  <2>4. CASE j \in 1 .. n
    <3>1. disc[calls[i]] < disc[calls[j]]
      BY <1>2, <2>1, <2>4 DEF Path
    <3> QED BY <2>1, <2>2, <2>4, <3>1
  <2> QED BY <2>1, <2>3, <2>4
<1>11. \A i \in Called' : i + 1 \in Called' =>
         <<calls'[i], calls'[i + 1]>> \in history' /\ parent'[calls'[i + 1]] = calls'[i]
  <2> SUFFICES ASSUME NEW i \in Called', i + 1 \in Called'
               PROVE  <<calls'[i], calls'[i + 1]>> \in history' /\ parent'[calls'[i + 1]] = calls'[i]
    OBVIOUS
  <2>1. i \in 1 .. n /\ calls'[i] = calls[i]
    BY <1>1, <1>2
  <2>2. CASE i = n
    <3>1. calls # <<>> /\ calls'[i + 1] = here
      BY <1>1, <1>2, <2>1, <2>2
    <3> QED BY <2>1, <2>2, <3>1
  <2>3. CASE i # n
    <3>1. i + 1 \in 1 .. n
      BY <1>1, <2>1, <2>3
    <3>2. calls'[i + 1] = calls[i + 1] /\ parent'[calls[i + 1]] = parent[calls[i + 1]]
      BY <1>1, <1>5, <3>1
    <3>3. <<calls[i], calls[i + 1]>> \in history /\ parent[calls[i + 1]] = calls[i]
      BY <1>2, <2>1, <3>1 DEF Path
    <3> QED BY <2>1, <3>2, <3>3
  <2> QED BY <2>2, <2>3
<1>12. \A a \in 1 .. root' - 1 : disc'[a] # 0
  <2> TAKE a \in 1 .. root' - 1
  <2>1. Len(known) \in Nat \/ root' - 1 \in Int
    BY DEF TreeTyped
  <2>2. a \in Ids
    BY <2>1 DEF Ids
  <2>3. CASE a = here
    BY <1>3, <2>3
  <2>4. CASE a # here
    BY <1>3, <2>2, <2>4
  <2> QED BY <2>3, <2>4
<1> QED BY <1>1, <1>2, <1>3, <1>7, <1>8, <1>9, <1>10, <1>11, <1>12 DEF Path


\* The ids that a step of the search leaves finished stay what they were.
LEMMA KeepsBehind ==
  ASSUME NoCycleBehind, UNCHANGED <<known, history, finished>>
  PROVE  NoCycleBehind'
<1>1. Ids' = Ids
  BY DEF Ids
<1> QED BY <1>1 DEF NoCycleBehind

\* What Inv says during a search.
LEMMA SearchFacts ==
  ASSUME Inv, Searching
  PROVE  /\ prof # None /\ closing = 0 /\ report = <<>> /\ ~ crash
         /\ TreeTyped /\ Path /\ NoCycleBehind /\ Looked
         /\ history \subseteq Ids \X Ids /\ Len(known) \in Nat
<1>1. known \in Seq({Class[l] : l \in Locks})
  BY DEF Inv, Typed
<1>2. Len(known) \in Nat
  BY <1>1
<1> QED BY <1>2 DEF Inv, Searching, Typed

\* CheckCycle calls Dfs for the next id.
LEMMA InvDfsRoot ==
  ASSUME Inv, DfsRoot
  PROVE  Inv'
<1>1. Searching /\ UNCHANGED <<known, history, stack, held, want, prof, finished, parent, rest, closing, report, crash>>
  BY DEF DfsRoot, locks
<1>2. /\ prof # None /\ closing = 0 /\ report = <<>> /\ ~ crash
      /\ TreeTyped /\ Path /\ NoCycleBehind /\ Looked
      /\ history \subseteq Ids \X Ids /\ Len(known) \in Nat
  BY <1>1, SearchFacts
<1>3. /\ OneId' /\ GuardsMatch' /\ Orders' /\ Ids' = Ids
      /\ known' \in Seq({Class[l] : l \in Locks})
      /\ history' \subseteq Ids' \X Ids'
      /\ stack' \in [Threads -> Seq(Ids')] /\ held' \in [Threads -> Seq(Locks)]
      /\ want' \in [Threads -> Locks \cup {None}] /\ prof' \in Threads \cup {None}
  BY <1>1, KeepsLocks
<1>4. Typed'
  BY <1>1, <1>3 DEF Inv, Typed
<1>5. calls = <<>> /\ Len(calls) = 0 /\ Called = {}
  BY DEF DfsRoot, Called
<1>6. root \in Ids /\ root' = root + 1 /\ root + 1 \in 1 .. Len(known) + 1
  BY <1>2 DEF DfsRoot, TreeTyped, Ids
<1>7. TreeTyped' /\ Path' /\ Looked'
  <2>1. \A e \in history' \ rest' : finished'[e[2]]
    BY <1>1, <1>2, <1>5 DEF Looked
  <2>2. CASE disc[root] = 0 /\ Discover(root)
    <3>1. \A a \in 1 .. root' - 1 : a = root \/ disc[a] # 0
      BY <1>2, <1>6 DEF Path, Ids
    <3>2. root' - 1 \in 0 .. Len(known)
      BY <1>2, <1>6 DEF Ids
    <3>3. parent' \in [Ids -> Nat] /\ \A a \in Ids : a # root => parent'[a] = parent[a]
      BY <1>1, <1>2 DEF TreeTyped
    <3>4. Path' /\ disc' \in [Ids -> Nat] /\ count' \in Nat /\ calls' \in Seq(Ids)
      BY <1>1, <1>2, <1>5, <1>6, <2>2, <3>1, <3>2, <3>3, DiscoverPath
    <3>5. TreeTyped'
      BY <1>1, <1>2, <1>3, <1>6, <3>4 DEF TreeTyped
    <3> QED BY <2>1, <3>4, <3>5 DEF Looked
  <2>3. CASE disc[root] # 0 /\ UNCHANGED <<count, disc, calls>>
    <3>1. Called' = Called
      BY <2>3 DEF Called
    <3>2. \A a \in 1 .. root' - 1 : disc[a] # 0
      BY <1>2, <1>6, <2>3 DEF Path, Ids
    <3>3. Path'
      BY <1>1, <1>2, <1>3, <2>3, <3>1, <3>2 DEF Path
    <3>4. TreeTyped'
      BY <1>1, <1>2, <1>3, <1>6, <2>3 DEF TreeTyped
    <3> QED BY <2>1, <3>3, <3>4 DEF Looked
  <2> QED BY <2>2, <2>3 DEF DfsRoot
<1>8. NoCycleBehind'
  BY <1>1, <1>2, KeepsBehind
<1>9. prof' # None /\ closing' = 0 /\ report' = <<>> /\ ~ crash'
  BY <1>1, <1>2
<1> QED BY <1>3, <1>4, <1>7, <1>8, <1>9 DEF Inv


\* The innermost call of Dfs, in Inv.
LEMMA Innermost ==
  ASSUME TreeTyped, Path, calls # <<>>
  PROVE  /\ Len(calls) \in Nat /\ Len(calls) # 0 /\ Len(calls) \in Called
         /\ Last(calls) = calls[Len(calls)] /\ Last(calls) \in Ids
         /\ disc[Last(calls)] # 0 /\ ~ finished[Last(calls)]
<1>1. Len(calls) \in Nat /\ Len(calls) # 0
  BY EmptySeq DEF TreeTyped
<1>2. Len(calls) \in Called
  BY <1>1 DEF Called
<1>3. calls[Len(calls)] \in Ids
  BY <1>2, ElementOfSeq DEF Called, TreeTyped
<1>4. disc[calls[Len(calls)]] # 0 /\ ~ finished[calls[Len(calls)]]
  BY <1>2, <1>3 DEF Path
<1> QED BY <1>1, <1>2, <1>3, <1>4 DEF Last

\* The end of a call of Dfs.
LEMMA InvDfsReturn ==
  ASSUME Inv, DfsReturn
  PROVE  Inv'
<1>1. Searching /\ UNCHANGED <<known, history, stack, held, want, prof, count, disc, parent, root, rest, closing, report, crash>>
  BY DEF DfsReturn, locks
<1>2. /\ prof # None /\ closing = 0 /\ report = <<>> /\ ~ crash
      /\ TreeTyped /\ Path /\ NoCycleBehind /\ Looked
      /\ history \subseteq Ids \X Ids /\ Len(known) \in Nat
  BY <1>1, SearchFacts
<1>3. /\ OneId' /\ GuardsMatch' /\ Orders' /\ Ids' = Ids
      /\ known' \in Seq({Class[l] : l \in Locks})
      /\ history' \subseteq Ids' \X Ids'
      /\ stack' \in [Threads -> Seq(Ids')] /\ held' \in [Threads -> Seq(Locks)]
      /\ want' \in [Threads -> Locks \cup {None}] /\ prof' \in Threads \cup {None}
  BY <1>1, KeepsLocks
<1>4. Typed'
  BY <1>1, <1>3 DEF Inv, Typed
<1> PICK here : here = Last(calls)
  OBVIOUS
<1> PICK n : n = Len(calls)
  OBVIOUS
<1>5. /\ calls # <<>> /\ Ahead = {}
      /\ finished' = [finished EXCEPT ![here] = TRUE] /\ calls' = Front(calls)
  BY DEF DfsReturn
<1>6. /\ n \in Nat /\ n # 0 /\ Called = 1 .. n /\ here = calls[n] /\ here \in Ids
      /\ disc[here] # 0 /\ ~ finished[here] /\ n \in Called
  BY <1>2, <1>5, Innermost DEF Called
<1>7. calls' \in Seq(Ids) /\ Len(calls') = n - 1 /\ \A i \in 1 .. n - 1 : calls'[i] = calls[i]
  BY <1>2, <1>5, FrontFacts DEF TreeTyped
<1>8. Called' = 1 .. n - 1
  BY <1>7 DEF Called
<1>9. \A i \in Called : calls[i] = here => i = n
  BY <1>2, <1>6, PathDistinct
<1>10. finished' \in [Ids -> BOOLEAN] /\ finished'[here] /\ \A a \in Ids : a # here => finished'[a] = finished[a]
  BY <1>2, <1>5, <1>6 DEF TreeTyped
<1>11. TreeTyped'
  BY <1>1, <1>2, <1>3, <1>7, <1>10 DEF TreeTyped
<1>12. Path'
  <2>1. \A a \in Ids : disc[a] <= count
    BY <1>2 DEF Path
  <2>2. \A a \in Ids : finished'[a] => disc[a] # 0
    BY <1>2, <1>6, <1>10 DEF Path
  <2>3. \A a \in Ids : disc[a] # 0 /\ ~ finished'[a] <=> \E i \in Called' : calls'[i] = a
    <3> TAKE a \in Ids
    <3>1. CASE a = here
      <4>1. \A i \in Called' : calls'[i] # here
        BY <1>6, <1>7, <1>8, <1>9
      <4> QED BY <1>10, <3>1, <4>1
    <3>2. CASE a # here
      <4>1. disc[a] # 0 /\ ~ finished[a] <=> \E i \in Called : calls[i] = a
        BY <1>2 DEF Path
      <4>2. (\E i \in Called : calls[i] = a) <=> \E i \in Called' : calls'[i] = a
        BY <1>6, <1>7, <1>8, <3>2
      <4> QED BY <1>10, <3>2, <4>1, <4>2
    <3> QED BY <3>1, <3>2
  <2>4. \A i, j \in Called' : i < j => disc[calls'[i]] < disc[calls'[j]]
    <3>1. \A i \in Called' : i \in Called /\ calls'[i] = calls[i]
      BY <1>6, <1>7, <1>8
    <3> QED BY <1>2, <3>1 DEF Path
  <2>5. \A i \in Called' : i + 1 \in Called' =>
          <<calls'[i], calls'[i + 1]>> \in history /\ parent[calls'[i + 1]] = calls'[i]
    <3>1. \A i \in Called' : i \in Called /\ calls'[i] = calls[i]
      BY <1>6, <1>7, <1>8
    <3> QED BY <1>2, <3>1 DEF Path
  <2>6. \A a \in 1 .. root - 1 : disc[a] # 0
    BY <1>2 DEF Path
  <2> QED BY <1>1, <1>3, <2>1, <2>2, <2>3, <2>4, <2>5, <2>6 DEF Path
<1>13. Looked'
  <2> SUFFICES ASSUME NEW e \in history \ rest
               PROVE  finished'[e[2]] \/ \E i \in Called' : i + 1 \in Called' /\ e = <<calls'[i], calls'[i + 1]>>
    BY <1>1 DEF Looked
  <2>1. e[2] \in Ids
    BY <1>2
  <2>2. CASE finished[e[2]]
    BY <1>10, <2>1, <2>2
  <2>3. ASSUME NEW i \in Called, i + 1 \in Called, e = <<calls[i], calls[i + 1]>>
        PROVE  finished'[e[2]] \/ \E j \in Called' : j + 1 \in Called' /\ e = <<calls'[j], calls'[j + 1]>>
    <3>1. CASE i + 1 = n
      BY <1>6, <1>10, <2>3, <3>1
    <3>2. CASE i + 1 # n
      <4>1. i \in 1 .. n - 1 /\ i + 1 \in 1 .. n - 1
        BY <1>6, <2>3, <3>2
      <4>2. calls'[i] = calls[i] /\ calls'[i + 1] = calls[i + 1]
        BY <1>7, <4>1
      <4> QED BY <1>8, <2>3, <4>1, <4>2
    <3> QED BY <3>1, <3>2
  <2> QED BY <1>2, <2>2, <2>3 DEF Looked
<1>14. \A e \in history : e[1] = here => finished[e[2]]
  <2> SUFFICES ASSUME NEW e \in history, e[1] = here PROVE finished[e[2]]
    OBVIOUS
  <2>1. e \notin rest
    BY <1>5 DEF Ahead
  <2>2. ASSUME NEW i \in Called, i + 1 \in Called, e = <<calls[i], calls[i + 1]>> PROVE FALSE
    BY <1>6, <1>9, <2>2
  <2> QED BY <1>2, <2>1, <2>2 DEF Looked
<1>15. \A e \in history : e \in Ids \X Ids /\ e[1] \in Ids /\ e[2] \in Ids /\ e = <<e[1], e[2]>> /\ e[1] # e[2]
  BY <1>2 DEF Inv, OneId
<1>16. NoCycleBehind'
  <2>1. ASSUME NEW e \in history, finished'[e[1]] PROVE finished'[e[2]]
    <3>1. finished[e[2]]
      <4>1. CASE e[1] = here
        BY <1>14, <4>1
      <4>2. CASE e[1] # here
        BY <1>2, <1>10, <1>15, <2>1, <4>2 DEF NoCycleBehind
      <4> QED BY <4>1, <4>2
    <3> QED BY <1>10, <1>15, <3>1
  <2>2. ASSUME NEW S \in SUBSET {a \in Ids : finished'[a]}, S # {}
        PROVE  \E a \in S : \A b \in S : <<a, b>> \notin history
    <3> PICK T : T = S \ {here}
      OBVIOUS
    <3>1. T \in SUBSET {a \in Ids : finished[a]}
      BY <1>10
    <3>2. CASE T = {}
      <4>1. here \in S /\ \A b \in S : b = here
        BY <2>2, <3>2
      <4>2. <<here, here>> \notin history
        BY <1>15
      <4> QED BY <4>1, <4>2
    <3>3. CASE T # {}
      <4>1. PICK a \in T : \A b \in T : <<a, b>> \notin history
        BY <1>2, <3>1, <3>3 DEF NoCycleBehind
      <4>2. finished[a]
        BY <3>1
      <4>3. <<a, here>> \notin history
        <5>1. ASSUME <<a, here>> \in history PROVE FALSE
          <6>1. finished[<<a, here>>[1]] => finished[<<a, here>>[2]]
            BY <1>2, <5>1 DEF NoCycleBehind
          <6> QED BY <1>6, <4>2, <6>1
        <5> QED BY <5>1
      <4> QED BY <4>1, <4>3
    <3> QED BY <3>2, <3>3
  <2> QED BY <1>1, <1>3, <2>1, <2>2 DEF NoCycleBehind
<1>17. prof' # None /\ closing' = 0 /\ report' = <<>> /\ ~ crash'
  BY <1>1, <1>2
<1> QED BY <1>3, <1>4, <1>11, <1>12, <1>13, <1>16, <1>17 DEF Inv


\* Dfs looks at one order.
LEMMA InvDfsVisit ==
  ASSUME Inv, DfsVisit
  PROVE  Inv'
<1>1. Searching /\ calls # <<>> /\ UNCHANGED <<known, history, stack, held, want, prof, finished, root, crash>>
  BY DEF DfsVisit, locks
<1>2. /\ prof # None /\ closing = 0 /\ report = <<>> /\ ~ crash
      /\ TreeTyped /\ Path /\ NoCycleBehind /\ Looked
      /\ history \subseteq Ids \X Ids /\ Len(known) \in Nat
  BY <1>1, SearchFacts
<1>3. /\ OneId' /\ GuardsMatch' /\ Orders' /\ Ids' = Ids
      /\ known' \in Seq({Class[l] : l \in Locks})
      /\ history' \subseteq Ids' \X Ids'
      /\ stack' \in [Threads -> Seq(Ids')] /\ held' \in [Threads -> Seq(Locks)]
      /\ want' \in [Threads -> Locks \cup {None}] /\ prof' \in Threads \cup {None}
  BY <1>1, KeepsLocks
<1>4. NoCycleBehind'
  BY <1>1, <1>2, KeepsBehind
<1> PICK n : n = Len(calls)
  OBVIOUS
<1>5. PICK e \in Ahead :
         /\ rest' = rest \ {e}
         /\ \/ /\ disc[e[2]] = 0
               /\ parent' = [parent EXCEPT ![e[2]] = e[1]]
               /\ Discover(e[2])
               /\ UNCHANGED <<closing, report>>
            \/ /\ disc[e[2]] # 0
               /\ disc[e[1]] < disc[e[2]] \/ finished[e[2]]
               /\ UNCHANGED <<count, disc, calls, parent, closing, report>>
            \/ /\ disc[e[2]] # 0
               /\ ~ (disc[e[1]] < disc[e[2]]) /\ ~ finished[e[2]]
               /\ closing' = e[2] /\ report' = <<e[1]>>
               /\ UNCHANGED <<count, disc, calls, parent>>
  BY DEF DfsVisit
<1> PICK here, there : here = e[1] /\ there = e[2]
  OBVIOUS
<1>6. /\ n \in Nat /\ n # 0 /\ Called = 1 .. n /\ n \in Called
      /\ here = calls[n] /\ here \in Ids /\ disc[here] # 0 /\ ~ finished[here]
  BY <1>1, <1>2, <1>5, Innermost DEF Called, Ahead
<1>7. e \in history /\ e = <<here, there>> /\ there \in Ids /\ here # there
  BY <1>2, <1>5 DEF Ahead, TreeTyped, Inv, OneId
<1>8. rest' \subseteq history /\ \A f \in history \ rest' : f = e \/ f \in history \ rest
  BY <1>2, <1>5 DEF TreeTyped
<1>9. \A i \in Called : calls[i] \in Ids /\ disc[calls[i]] \in Nat
  BY <1>2, ElementOfSeq DEF Called, TreeTyped
<1>10. CASE disc[there] = 0 /\ parent' = [parent EXCEPT ![there] = here] /\ Discover(there)
            /\ UNCHANGED <<closing, report>>
  <2>1. parent' \in [Ids -> Nat] /\ parent'[there] = here /\ \A a \in Ids : a # there => parent'[a] = parent[a]
    BY <1>2, <1>6, <1>7, <1>10 DEF TreeTyped, Ids
  <2>2. /\ \A a \in 1 .. root' - 1 : a = there \/ disc[a] # 0
        /\ root' \in {root, root + 1} /\ root' - 1 \in 0 .. Len(known)
    BY <1>1, <1>2 DEF Path, TreeTyped
  <2>3. calls # <<>> => <<calls[Len(calls)], there>> \in history /\ parent'[there] = calls[Len(calls)]
    BY <1>6, <1>7, <2>1
  <2>4. /\ Path' /\ Len(calls') = n + 1
        /\ calls'[n + 1] = there
        /\ \A i \in Called : calls'[i] = calls[i]
        /\ disc' \in [Ids -> Nat] /\ count' \in Nat /\ calls' \in Seq(Ids)
    BY <1>1, <1>2, <1>7, <1>10, <2>1, <2>2, <2>3, DiscoverPath
  <2>5. Called' = 1 .. n + 1
    BY <2>4 DEF Called
  <2>6. TreeTyped'
    BY <1>1, <1>2, <1>3, <1>8, <2>1, <2>4 DEF TreeTyped
  <2>7. Looked'
    <3> SUFFICES ASSUME NEW f \in history \ rest'
                 PROVE  finished[f[2]] \/ \E i \in Called' : i + 1 \in Called' /\ f = <<calls'[i], calls'[i + 1]>>
      BY <1>1 DEF Looked
    <3>1. CASE f = e
      <4>1. n \in Called' /\ n + 1 \in Called' /\ f = <<calls'[n], calls'[n + 1]>>
        BY <1>6, <1>7, <2>4, <2>5, <3>1
      <4> QED BY <4>1
    <3>2. ASSUME NEW i \in Called, i + 1 \in Called, f = <<calls[i], calls[i + 1]>>
          PROVE  i \in Called' /\ i + 1 \in Called' /\ f = <<calls'[i], calls'[i + 1]>>
      BY <1>6, <2>4, <2>5, <3>2
    <3> QED BY <1>2, <1>8, <3>1, <3>2 DEF Looked
  <2>8. Typed'
    BY <1>1, <1>3, <1>10 DEF Inv, Typed
  <2>9. prof' # None /\ closing' = 0 /\ report' = <<>> /\ ~ crash'
    BY <1>1, <1>2, <1>10
  <2> QED BY <1>3, <1>4, <2>4, <2>6, <2>7, <2>8, <2>9 DEF Inv
<1>11. ASSUME UNCHANGED <<count, disc, calls, parent>>
       PROVE  TreeTyped' /\ Path' /\ Called' = Called
  <2>1. Called' = Called
    BY <1>11 DEF Called
  <2>2. Path'
    BY <1>1, <1>2, <1>3, <1>11, <2>1 DEF Path
  <2>3. TreeTyped'
    BY <1>1, <1>2, <1>3, <1>8, <1>11 DEF TreeTyped
  <2> QED BY <2>1, <2>2, <2>3
<1>12. CASE /\ disc[there] # 0
            /\ disc[here] < disc[there] \/ finished[there]
            /\ UNCHANGED <<count, disc, calls, parent, closing, report>>
  <2>1. TreeTyped' /\ Path' /\ Called' = Called
    BY <1>11, <1>12
  <2>2. finished[there]
    <3> SUFFICES ASSUME ~ finished[there] PROVE FALSE
      OBVIOUS
    <3>1. PICK i \in Called : calls[i] = there
      BY <1>2, <1>7, <1>12 DEF Path
    <3>2. i # n
      BY <1>6, <1>7, <3>1
    <3>3. i < n
      BY <1>6, <3>2
    <3>4. disc[calls[i]] < disc[calls[n]]
      BY <1>2, <1>6, <3>3 DEF Path
    <3> QED BY <1>6, <1>9, <1>12, <3>1, <3>4
  <2>3. Looked'
    <3> SUFFICES ASSUME NEW f \in history \ rest'
                 PROVE  finished[f[2]] \/ \E i \in Called' : i + 1 \in Called' /\ f = <<calls'[i], calls'[i + 1]>>
      BY <1>1 DEF Looked
    <3>1. CASE f = e
      BY <2>2, <3>1
    <3>2. CASE f \in history \ rest
      BY <1>2, <1>12, <2>1, <3>2 DEF Looked
    <3> QED BY <1>8, <3>1, <3>2
  <2>4. Typed'
    BY <1>1, <1>3, <1>12 DEF Inv, Typed
  <2>5. prof' # None /\ closing' = 0 /\ report' = <<>> /\ ~ crash'
    BY <1>1, <1>2, <1>12
  <2> QED BY <1>3, <1>4, <2>1, <2>3, <2>4, <2>5 DEF Inv
<1>13. CASE /\ disc[there] # 0 /\ ~ (disc[here] < disc[there]) /\ ~ finished[there]
            /\ closing' = there /\ report' = <<here>>
            /\ UNCHANGED <<count, disc, calls, parent>>
  <2>1. TreeTyped' /\ Path' /\ Called' = Called
    BY <1>11, <1>13
  <2>2. PICK k \in Called : calls[k] = there
    BY <1>2, <1>7, <1>13 DEF Path
  <2>3. k \in Nat /\ k < n
    BY <1>6, <1>7, <2>2
  <2>4. Printed'
    <3>1. Len(report') = 1 /\ report'[1] = calls'[n - 1 + 1] /\ Len(calls') = n
      BY <1>6, <1>13
    <3>2. 1 <= n - k + 1 /\ 1 # n - k + 1
      BY <1>6, <2>3
    <3>3. <<calls'[Len(calls')], closing'>> \in history'
      BY <1>1, <1>6, <1>7, <1>13
    <3>4. /\ k \in Called' /\ calls'[k] = closing'
          /\ Len(report') <= Len(calls') - k + 1
          /\ crash' <=> Len(report') = Len(calls') - k + 1
      BY <1>1, <1>2, <1>13, <2>1, <2>2, <3>1, <3>2
    <3>5. \A i \in 1 .. Len(report') : report'[i] = calls'[Len(calls') - Len(report') + i]
      BY <3>1
    <3>6. Len(report') # 0
      BY <3>1
    <3> QED BY <3>3, <3>4, <3>5, <3>6 DEF Printed
  <2>5. there \in Nat /\ there # 0 /\ <<here>> \in Seq(Ids)
    BY <1>6, <1>7 DEF Ids
  <2>6. Typed'
    BY <1>1, <1>3, <1>13, <2>5 DEF Inv, Typed
  <2>7. prof' # None /\ closing' # 0
    BY <1>1, <1>2, <1>13, <2>5
  <2> QED BY <1>3, <1>4, <2>1, <2>4, <2>6, <2>7 DEF Inv
<1> QED BY <1>5, <1>10, <1>12, <1>13


\* One line of the report: the walk along _parent stays on the path of calls.
LEMMA InvPrintCycle ==
  ASSUME Inv, PrintCycle
  PROVE  Inv'
<1>1. UNCHANGED <<known, history, stack, held, want, prof, count, disc, finished, parent, root, calls, rest, closing>>
  BY DEF PrintCycle, locks, tree
<1>2. /\ ~ crash /\ closing # 0 /\ prof # None
      /\ report' = Cons(parent[Head(report)], report)
      /\ crash' = (parent[Head(report)] = closing)
      /\ Printed /\ TreeTyped /\ Path /\ NoCycleBehind
  BY DEF PrintCycle, Inv
<1>3. /\ OneId' /\ GuardsMatch' /\ Orders' /\ Ids' = Ids
      /\ known' \in Seq({Class[l] : l \in Locks})
      /\ history' \subseteq Ids' \X Ids'
      /\ stack' \in [Threads -> Seq(Ids')] /\ held' \in [Threads -> Seq(Locks)]
      /\ want' \in [Threads -> Locks \cup {None}] /\ prof' \in Threads \cup {None}
  BY <1>1, KeepsLocks
<1>4. NoCycleBehind'
  BY <1>1, <1>2, KeepsBehind
<1>5. Called' = Called
  BY <1>1 DEF Called
<1>6. TreeTyped' /\ Path'
  BY <1>1, <1>2, <1>3, <1>5 DEF TreeTyped, Path
<1> PICK n, r : n = Len(calls) /\ r = Len(report)
  OBVIOUS
<1>7. n \in Nat /\ r \in Nat /\ r # 0 /\ report \in Seq(Ids) /\ Called = 1 .. n
  BY <1>2 DEF Inv, Typed, TreeTyped, Printed, Called
<1>8. PICK k \in Called : calls[k] = closing /\ r <= n - k + 1 /\ r # n - k + 1
  BY <1>2 DEF Printed
<1> PICK m : m = n - r
  OBVIOUS
<1>9. m \in Called /\ m + 1 \in Called /\ k <= m
  BY <1>7, <1>8
<1>10. \A i \in 1 .. r : report[i] = calls[m + i]
  BY <1>2 DEF Printed
<1>11. Head(report) = calls[m + 1]
  <2>1. report # <<>> /\ Head(report) = report[1]
    BY <1>7
  <2> QED BY <1>7, <1>10, <2>1
<1>12. parent[Head(report)] = calls[m]
  BY <1>2, <1>9, <1>11 DEF Path
<1>13. calls[m] \in Ids
  BY <1>2, <1>7, <1>9, ElementOfSeq DEF TreeTyped
<1>14. /\ report' \in Seq(Ids) /\ Len(report') = r + 1 /\ report'[1] = calls[m]
       /\ \A i \in 1 .. r : report'[i + 1] = report[i]
  <2>1. report' = Cons(calls[m], report)
    BY <1>2, <1>12
  <2>2. \A s \in Seq(Ids), x \in Ids :
          /\ Cons(x, s) \in Seq(Ids) /\ Len(Cons(x, s)) = Len(s) + 1
          /\ Cons(x, s)[1] = x
          /\ \A i \in 1 .. Len(s) : Cons(x, s)[i + 1] = s[i]
    <3> TAKE s \in Seq(Ids), x \in Ids
    <3> QED BY ConsFacts
  <2>3. /\ Cons(calls[m], report) \in Seq(Ids) /\ Len(Cons(calls[m], report)) = Len(report) + 1
        /\ Cons(calls[m], report)[1] = calls[m]
        /\ \A i \in 1 .. Len(report) : Cons(calls[m], report)[i + 1] = report[i]
    BY <1>7, <1>13, <2>2, Zenon
  <2> QED BY <1>7, <2>1, <2>3
<1>15. crash' <=> r + 1 = n - k + 1
  <2>1. crash' <=> calls[m] = calls[k]
    BY <1>2, <1>8, <1>12
  <2>2. calls[m] = calls[k] <=> m = k
    BY <1>2, <1>8, <1>9, PathDistinct
  <2> QED BY <1>7, <1>8, <2>1, <2>2
<1>16. Printed'
  <2>1. <<calls'[Len(calls')], closing'>> \in history'
    BY <1>1, <1>2 DEF Printed
  <2>2. Len(report') # 0 /\ Len(calls') = n
    BY <1>1, <1>7, <1>14
  <2>3. /\ k \in Called' /\ calls'[k] = closing'
        /\ Len(report') <= Len(calls') - k + 1
        /\ crash' <=> Len(report') = Len(calls') - k + 1
    <3>1. r + 1 <= n - k + 1
      BY <1>7, <1>8
    <3> QED BY <1>1, <1>5, <1>8, <1>14, <1>15, <2>2, <3>1
  <2>4. \A i \in 1 .. r + 1 : report'[i] = calls[n - (r + 1) + i]
    <3> TAKE i \in 1 .. r + 1
    <3>1. CASE i = 1
      <4>1. n - (r + 1) + i = m
        BY <1>7, <3>1
      <4> QED BY <1>14, <3>1, <4>1
    <3>2. CASE i # 1
      <4>1. PICK j \in 1 .. r : i = j + 1
        BY <1>7, <3>2
      <4>2. n - (r + 1) + i = m + j
        BY <1>7, <4>1
      <4>3. report'[i] = report[j] /\ report[j] = calls[m + j]
        BY <1>10, <1>14, <4>1
      <4> QED BY <4>2, <4>3
    <3> QED BY <3>1, <3>2
  <2>5. \A i \in 1 .. Len(report') : report'[i] = calls'[Len(calls') - Len(report') + i]
    BY <1>1, <1>14, <2>2, <2>4
  <2> QED BY <2>1, <2>2, <2>3, <2>5 DEF Printed
<1>17. crash' \in BOOLEAN /\ closing' \in Nat
  BY <1>1, <1>2 DEF Inv, Typed
<1>18. Typed'
  BY <1>3, <1>14, <1>17 DEF Typed
<1>19. prof' # None /\ closing' # 0
  BY <1>1, <1>2
<1> QED BY <1>3, <1>4, <1>6, <1>16, <1>18, <1>19 DEF Inv


-----------------------------------------------------------------------------
(* The guards.                                                             *)

\* The id of a name that has one.
LEMMA IdOfName ==
  ASSUME NEW S, NEW names \in Seq(S), NEW i \in 1 .. Len(names),
         \A j, k \in 1 .. Len(names) : names[j] = names[k] => j = k
  PROVE  IdOf(names, names[i]) = i
<1>1. DOMAIN names = 1 .. Len(names)
  OBVIOUS
<1>2. \A j \in DOMAIN names : names[j] = names[i] => j = i
  BY <1>1
<1>3. (CHOOSE j \in DOMAIN names : names[j] = names[i]) = i
  BY <1>1, <1>2
<1> QED BY <1>3 DEF IdOf

\* A thread of Inv.
LEMMA ThreadFacts ==
  ASSUME Inv, NEW t \in Threads
  PROVE  /\ stack[t] \in Seq(Ids) /\ held[t] \in Seq(Locks) /\ want[t] \in Locks \cup {None}
         /\ Len(stack[t]) \in Nat /\ Len(held[t]) \in Nat /\ Len(known) \in Nat
         /\ \A i \in 1 .. Len(stack[t]) : stack[t][i] \in Ids
         /\ \A i \in 1 .. Len(held[t]) : held[t][i] \in Locks
         /\ t # None /\ None \notin Locks
<1>1. stack[t] \in Seq(Ids) /\ held[t] \in Seq(Locks) /\ want[t] \in Locks \cup {None}
  BY DEF Inv, Typed
<1>2. known \in Seq({Class[l] : l \in Locks})
  BY DEF Inv, Typed
<1>3. Len(stack[t]) \in Nat /\ Len(held[t]) \in Nat /\ Len(known) \in Nat
  BY <1>1, <1>2
<1>4. \A i \in 1 .. Len(stack[t]) : stack[t][i] \in Ids
  BY <1>1, ElementOfSeq
<1>5. \A i \in 1 .. Len(held[t]) : held[t][i] \in Locks
  BY <1>1, ElementOfSeq
<1> QED BY <1>1, <1>3, <1>4, <1>5, ProfilerAssumption

\* A step that leaves the names, the orders and the search alone.
LEMMA KeepsSearch ==
  ASSUME Inv, UNCHANGED <<known, history, prof, tree, closing, report, crash>>
  PROVE  /\ OneId' /\ Ids' = Ids
         /\ known' \in Seq({Class[l] : l \in Locks})
         /\ history' \subseteq Ids' \X Ids'
         /\ prof' \in Threads \cup {None} /\ closing' \in Nat
         /\ report' \in Seq(Ids') /\ crash' \in BOOLEAN
         /\ prof' # None => TreeTyped' /\ Path' /\ NoCycleBehind'
         /\ prof' # None /\ closing' = 0 => Looked'
         /\ closing' # 0 => prof' # None /\ Printed'
         /\ closing' = 0 => report' = <<>> /\ ~ crash'
<1>1. /\ Ids' = Ids /\ Called' = Called
      /\ UNCHANGED <<known, history, prof, count, disc, finished, parent, root, calls, rest, closing, report, crash>>
  BY DEF Ids, Called, tree
<1>2. OneId'
  BY <1>1 DEF Inv, OneId
<1>3. prof' # None => TreeTyped' /\ Path'
  BY <1>1 DEF Inv, TreeTyped, Path
<1>4. prof' # None => NoCycleBehind'
  BY <1>1, KeepsBehind DEF Inv
<1>5. prof' # None /\ closing' = 0 => Looked'
  BY <1>1 DEF Inv, Looked
<1>6. closing' # 0 => prof' # None /\ Printed'
  BY <1>1 DEF Inv, Printed
<1> QED BY <1>1, <1>2, <1>3, <1>4, <1>5, <1>6 DEF Inv, Typed

\* A thread gets the lock it waits for.
LEMMA InvAcquire ==
  ASSUME Inv, NEW t \in Threads, Acquire(t)
  PROVE  Inv'
<1>1. /\ UNCHANGED <<known, history, stack, prof, tree, closing, report, crash>>
      /\ want[t] # None /\ prof # t
      /\ held' = [held EXCEPT ![t] = Append(@, want[t])]
      /\ want' = [want EXCEPT ![t] = None]
  BY DEF Acquire, Waits
<1>2. /\ OneId' /\ Ids' = Ids
      /\ known' \in Seq({Class[l] : l \in Locks})
      /\ history' \subseteq Ids' \X Ids'
      /\ prof' \in Threads \cup {None} /\ closing' \in Nat
      /\ report' \in Seq(Ids') /\ crash' \in BOOLEAN
      /\ prof' # None => TreeTyped' /\ Path' /\ NoCycleBehind'
      /\ prof' # None /\ closing' = 0 => Looked'
      /\ closing' # 0 => prof' # None /\ Printed'
      /\ closing' = 0 => report' = <<>> /\ ~ crash'
  BY <1>1, KeepsSearch
<1>3. /\ stack[t] \in Seq(Ids) /\ held[t] \in Seq(Locks) /\ want[t] \in Locks \cup {None}
      /\ Len(stack[t]) \in Nat /\ Len(held[t]) \in Nat
  BY ThreadFacts
<1>4. want[t] \in Locks
  BY <1>1, <1>3
<1> PICK L : L = Len(held[t])
  OBVIOUS
<1>5. /\ held'[t] \in Seq(Locks) /\ Len(held'[t]) = L + 1
      /\ held'[t][L + 1] = want[t]
      /\ \A i \in 1 .. L : held'[t][i] = held[t][i]
  <2>1. held'[t] = Append(held[t], want[t])
    BY <1>1 DEF Inv, Typed
  <2> QED BY <1>3, <1>4, <2>1, AppendProperties
<1>6. \A u \in Threads : u # t => held'[u] = held[u] /\ want'[u] = want[u]
  BY <1>1 DEF Inv, Typed
<1>7. want'[t] = None
  BY <1>1 DEF Inv, Typed
<1>8. held' \in [Threads -> Seq(Locks)] /\ want' \in [Threads -> Locks \cup {None}]
  <2>1. Append(held[t], want[t]) \in Seq(Locks)
    BY <1>3, <1>4
  <2> QED BY <1>1, <2>1 DEF Inv, Typed
<1>9. Typed'
  BY <1>1, <1>2, <1>8 DEF Inv, Typed
<1>10. GuardsMatch'
  <2>1. /\ Len(stack[t]) = L + 1 /\ known[stack[t][L + 1]] = Class[want[t]]
        /\ \A i \in 1 .. Len(stack[t]) : i <= L => known[stack[t][i]] = Class[held[t][i]]
    BY <1>1 DEF Inv, GuardsMatch, Waits
  <2>2. ASSUME NEW i \in 1 .. Len(stack[t]), i <= L + 1
        PROVE  known[stack[t][i]] = Class[held'[t][i]]
    <3>1. CASE i = L + 1
      BY <1>5, <2>1, <3>1
    <3>2. CASE i # L + 1
      <4>1. i \in 1 .. L /\ i <= L
        BY <1>3, <2>2, <3>2
      <4> QED BY <1>5, <2>1, <2>2, <4>1
    <3> QED BY <3>1, <3>2
  <2> SUFFICES ASSUME NEW u \in Threads
               PROVE  /\ \A i \in 1 .. Len(stack[u]) : i <= Len(held'[u]) => known[stack[u][i]] = Class[held'[u][i]]
                      /\ want'[u] = None => Len(held'[u]) \in {Len(stack[u]), Len(stack[u]) + 1}
                      /\ want'[u] # None /\ prof # u =>
                           /\ Len(stack[u]) = Len(held'[u]) + 1
                           /\ known[stack[u][Len(stack[u])]] = Class[want'[u]]
                      /\ prof = u => /\ want'[u] # None
                                     /\ Len(stack[u]) = Len(held'[u]) /\ stack[u] # <<>>
                                     /\ \E i \in Ids : known[i] = Class[want'[u]]
    BY <1>1, <1>2 DEF GuardsMatch, Waits
  <2>3. CASE u = t
    BY <1>1, <1>5, <1>7, <2>1, <2>2, <2>3
  <2>4. CASE u # t
    BY <1>6, <2>4 DEF Inv, GuardsMatch, Waits
  <2> QED BY <2>3, <2>4
<1>11. Orders'
  <2>1. Passed' = Passed /\ (prof # None => Asked' = Asked)
    <3>1. prof # None => Asked' = Asked
      BY <1>1, <1>6 DEF Asked, PrevId, Inv, Typed
    <3> QED BY <1>1, <3>1 DEF Passed
  <2>2. ~ Cyclic(Passed)'
    BY <1>1, <2>1 DEF Inv, Orders, Cyclic
  <2> QED BY <1>1, <2>1, <2>2 DEF Inv, Orders
<1> QED BY <1>2, <1>9, <1>10, <1>11 DEF Inv


\* A guard lets its lock go.
LEMMA InvUnlock ==
  ASSUME Inv, NEW t \in Threads, Unlock(t)
  PROVE  Inv'
<1>1. /\ UNCHANGED <<known, history, stack, want, prof, tree, closing, report, crash>>
      /\ Len(stack[t]) < Len(held[t])
      /\ held' = [held EXCEPT ![t] = Front(@)]
  BY DEF Unlock, Closing
<1>2. /\ OneId' /\ Ids' = Ids
      /\ known' \in Seq({Class[l] : l \in Locks})
      /\ history' \subseteq Ids' \X Ids'
      /\ prof' \in Threads \cup {None} /\ closing' \in Nat
      /\ report' \in Seq(Ids') /\ crash' \in BOOLEAN
      /\ prof' # None => TreeTyped' /\ Path' /\ NoCycleBehind'
      /\ prof' # None /\ closing' = 0 => Looked'
      /\ closing' # 0 => prof' # None /\ Printed'
      /\ closing' = 0 => report' = <<>> /\ ~ crash'
  BY <1>1, KeepsSearch
<1>3. /\ stack[t] \in Seq(Ids) /\ held[t] \in Seq(Locks)
      /\ Len(stack[t]) \in Nat /\ Len(held[t]) \in Nat
  BY ThreadFacts
<1> PICK L : L = Len(stack[t])
  OBVIOUS
<1>4. want[t] = None /\ prof # t /\ Len(held[t]) = L + 1
  <2>1. prof # t
    BY <1>1, <1>3 DEF Inv, GuardsMatch
  <2>2. ~ Waits(t)
    BY <1>1, <1>3 DEF Inv, GuardsMatch
  <2>3. want[t] = None
    BY <2>1, <2>2 DEF Waits
  <2>4. Len(held[t]) \in {L, L + 1}
    BY <2>3 DEF Inv, GuardsMatch
  <2> QED BY <1>1, <1>3, <2>1, <2>3, <2>4
<1>5. /\ Front(held[t]) \in Seq(Locks) /\ Len(Front(held[t])) = L
      /\ \A i \in 1 .. L : Front(held[t])[i] = held[t][i]
  <2>1. held[t] # <<>>
    BY <1>3, <1>4
  <2>2. Len(held[t]) - 1 = L
    BY <1>3, <1>4
  <2> QED BY <1>3, <2>1, <2>2, FrontFacts
<1>6. held'[t] = Front(held[t]) /\ \A u \in Threads : u # t => held'[u] = held[u]
  BY <1>1 DEF Inv, Typed
<1>7. held' \in [Threads -> Seq(Locks)]
  BY <1>1, <1>5 DEF Inv, Typed
<1>8. Typed'
  BY <1>1, <1>2, <1>7 DEF Inv, Typed
<1>9. GuardsMatch'
  <2>1. \A i \in 1 .. L : known[stack[t][i]] = Class[held[t][i]]
    <3>1. \A i \in 1 .. L : i <= L + 1
      BY <1>3
    <3> QED BY <1>4, <3>1 DEF Inv, GuardsMatch
  <2> SUFFICES ASSUME NEW u \in Threads
               PROVE  /\ \A i \in 1 .. Len(stack[u]) : i <= Len(held'[u]) => known[stack[u][i]] = Class[held'[u][i]]
                      /\ want[u] = None => Len(held'[u]) \in {Len(stack[u]), Len(stack[u]) + 1}
                      /\ want[u] # None /\ prof # u =>
                           /\ Len(stack[u]) = Len(held'[u]) + 1
                           /\ known[stack[u][Len(stack[u])]] = Class[want[u]]
                      /\ prof = u => /\ want[u] # None
                                     /\ Len(stack[u]) = Len(held'[u]) /\ stack[u] # <<>>
                                     /\ \E i \in Ids : known[i] = Class[want[u]]
    BY <1>1, <1>2 DEF GuardsMatch, Waits
  <2>2. CASE u = t
    BY <1>4, <1>5, <1>6, <2>1, <2>2
  <2>3. CASE u # t
    BY <1>6, <2>3 DEF Inv, GuardsMatch, Waits
  <2> QED BY <2>2, <2>3
<1>10. Orders'
  <2>1. Passed' = Passed /\ Asked' = Asked
    BY <1>1 DEF Passed, Asked, PrevId
  <2>2. ~ Cyclic(Passed)'
    BY <1>1, <2>1 DEF Inv, Orders, Cyclic
  <2> QED BY <1>1, <2>1, <2>2 DEF Inv, Orders
<1> QED BY <1>2, <1>8, <1>9, <1>10 DEF Inv

\* A guard ends: the name on top of the stack is its own, PopLock never crashes.
LEMMA InvPopLock ==
  ASSUME Inv, NEW t \in Threads, PopLock(t)
  PROVE  Inv'
<1>1. /\ UNCHANGED <<known, history, held, want, prof, tree, closing, report>>
      /\ ~ crash /\ prof = None /\ want[t] = None /\ ~ (Len(stack[t]) < Len(held[t]))
      /\ held[t] # <<>>
      /\ crash' = (stack[t] = <<>> \/ Last(stack[t]) # IdOf(known, Class[Last(held[t])]))
      /\ stack' = IF crash' THEN stack ELSE [stack EXCEPT ![t] = Front(@)]
  BY DEF PopLock, Runs, Closing
<1>2. /\ stack[t] \in Seq(Ids) /\ held[t] \in Seq(Locks)
      /\ Len(stack[t]) \in Nat /\ Len(held[t]) \in Nat /\ Len(known) \in Nat
      /\ \A i \in 1 .. Len(stack[t]) : stack[t][i] \in Ids
  BY ThreadFacts
<1> PICK L : L = Len(stack[t])
  OBVIOUS
<1>3. Len(held[t]) = L /\ L # 0 /\ stack[t] # <<>>
  <2>1. Len(held[t]) \in {L, L + 1}
    BY <1>1 DEF Inv, GuardsMatch
  <2>2. Len(held[t]) # 0
    BY <1>1, <1>2, EmptySeq
  <2>3. Len(held[t]) = L /\ L # 0
    BY <1>1, <1>2, <2>1, <2>2
  <2> QED BY <2>3
<1>4. L \in 1 .. L /\ stack[t][L] \in Ids
  BY <1>2, <1>3
<1>5. known[stack[t][L]] = Class[held[t][L]]
  <2>1. L <= Len(held[t])
    BY <1>2, <1>3
  <2> QED BY <1>4, <2>1 DEF Inv, GuardsMatch
<1>6. IdOf(known, known[stack[t][L]]) = stack[t][L]
  <2>1. \A j, k \in 1 .. Len(known) : known[j] = known[k] => j = k
    BY DEF Inv, OneId, Ids
  <2>2. known \in Seq({Class[l] : l \in Locks}) /\ stack[t][L] \in 1 .. Len(known)
    BY <1>4 DEF Inv, Typed, Ids
  <2> QED BY <2>1, <2>2, IdOfName
<1>7. ~ crash'
  BY <1>1, <1>3, <1>5, <1>6 DEF Last
<1>8. /\ OneId' /\ Ids' = Ids
      /\ known' \in Seq({Class[l] : l \in Locks})
      /\ history' \subseteq Ids' \X Ids'
      /\ prof' \in Threads \cup {None} /\ closing' \in Nat
      /\ report' \in Seq(Ids') /\ crash' \in BOOLEAN
      /\ prof' # None => TreeTyped' /\ Path' /\ NoCycleBehind'
      /\ prof' # None /\ closing' = 0 => Looked'
      /\ closing' # 0 => prof' # None /\ Printed'
      /\ closing' = 0 => report' = <<>> /\ ~ crash'
  <2>1. crash' = crash
    BY <1>1, <1>7 DEF Inv, Typed
  <2> QED BY <1>1, <2>1, KeepsSearch
<1>9. stack' = [stack EXCEPT ![t] = Front(@)]
  BY <1>1, <1>7
<1>10. /\ Front(stack[t]) \in Seq(Ids) /\ Len(Front(stack[t])) = L - 1 /\ L - 1 \in Nat
       /\ \A i \in 1 .. L - 1 : Front(stack[t])[i] = stack[t][i]
  BY <1>2, <1>3, FrontFacts
<1>11. stack'[t] = Front(stack[t]) /\ \A u \in Threads : u # t => stack'[u] = stack[u]
  BY <1>9 DEF Inv, Typed
<1>12. stack' \in [Threads -> Seq(Ids)]
  BY <1>9, <1>10 DEF Inv, Typed
<1>13. Typed'
  BY <1>1, <1>8, <1>12 DEF Inv, Typed
<1>14. GuardsMatch'
  <2> SUFFICES ASSUME NEW u \in Threads
               PROVE  /\ \A i \in 1 .. Len(stack'[u]) : i <= Len(held[u]) => known[stack'[u][i]] = Class[held[u][i]]
                      /\ want[u] = None => Len(held[u]) \in {Len(stack'[u]), Len(stack'[u]) + 1}
                      /\ want[u] # None /\ prof # u =>
                           /\ Len(stack'[u]) = Len(held[u]) + 1
                           /\ known[stack'[u][Len(stack'[u])]] = Class[want[u]]
                      /\ prof = u => /\ want[u] # None
                                     /\ Len(stack'[u]) = Len(held[u]) /\ stack'[u] # <<>>
                                     /\ \E i \in Ids : known[i] = Class[want[u]]
    BY <1>1, <1>8 DEF GuardsMatch, Waits
  <2>1. CASE u = t
    <3>1. \A i \in 1 .. L - 1 : known[stack[t][i]] = Class[held[t][i]]
      <4>1. \A i \in 1 .. L - 1 : i \in 1 .. L /\ i <= L
        BY <1>10
      <4> QED BY <1>3, <4>1 DEF Inv, GuardsMatch
    <3>2. Len(stack'[t]) = L - 1 /\ \A i \in 1 .. L - 1 : stack'[t][i] = stack[t][i]
      BY <1>10, <1>11
    <3>3. \A i \in 1 .. Len(stack'[u]) : known[stack'[u][i]] = Class[held[u][i]]
      BY <2>1, <3>1, <3>2
    <3>4. Len(held[u]) = Len(stack'[u]) + 1
      BY <1>2, <1>3, <2>1, <3>2
    <3>5. prof # u
      BY <1>1, <2>1, ThreadFacts
    <3> QED BY <1>1, <2>1, <3>3, <3>4, <3>5
  <2>2. CASE u # t
    BY <1>11, <2>2 DEF Inv, GuardsMatch, Waits
  <2> QED BY <2>1, <2>2
<1>15. Orders'
  <2>1. Passed' = history /\ Passed = history /\ prof' = None
    BY <1>1 DEF Passed
  <2>2. ~ Cyclic(Passed)'
    BY <1>1, <2>1 DEF Inv, Orders, Cyclic
  <2>3. ASSUME NEW u \in Threads, NEW i \in 1 .. Len(stack'[u]) - 1, stack'[u][i] # stack'[u][i + 1]
        PROVE  <<stack'[u][i], stack'[u][i + 1]>> \in history
    <3>1. CASE u = t
      <4>1. i \in 1 .. L - 1 /\ i + 1 \in 1 .. L - 1
        BY <1>10, <1>11, <3>1
      <4>2. stack'[u][i] = stack[t][i] /\ stack'[u][i + 1] = stack[t][i + 1]
        BY <1>10, <1>11, <3>1, <4>1
      <4> QED BY <2>1, <2>3, <4>1, <4>2 DEF Inv, Orders
    <3>2. CASE u # t
      BY <1>11, <2>1, <2>3, <3>2 DEF Inv, Orders
    <3> QED BY <3>1, <3>2
  <2> QED BY <2>1, <2>2, <2>3 DEF Orders
<1> QED BY <1>8, <1>13, <1>14, <1>15 DEF Inv


\* A search that has returned from every id has found no cycle.
LEMMA SearchedAll ==
  ASSUME Inv, Searching, calls = <<>>, root > Len(known)
  PROVE  ~ Cyclic(history)
<1>1. /\ TreeTyped /\ Path /\ NoCycleBehind /\ Len(known) \in Nat
  BY SearchFacts
<1>2. \A i \in Called : FALSE
  BY DEF Called
<1>3. \A a \in Ids : finished[a]
  <2> TAKE a \in Ids
  <2>1. a \in 1 .. root - 1
    BY <1>1 DEF TreeTyped, Ids
  <2>2. disc[a] # 0
    BY <1>1, <2>1 DEF Path
  <2> QED BY <1>1, <1>2, <2>2 DEF Path
<1>4. DOMAIN known = Ids
  BY DEF Inv, Typed, Ids
<1>5. ASSUME NEW S \in SUBSET Ids, S # {} PROVE \E a \in S : \A b \in S : <<a, b>> \notin history
  <2>1. S \in SUBSET {a \in Ids : finished[a]}
    BY <1>3
  <2> QED BY <1>1, <1>5, <2>1 DEF NoCycleBehind
<1> QED BY <1>4, <1>5 DEF Cyclic

\* The end of a search, and of PushLock.
LEMMA InvCheckCycleEnds ==
  ASSUME Inv, CheckCycleEnds
  PROVE  Inv'
<1> PICK p, id : p = prof /\ id = IdOf(known, Class[want[prof]])
  OBVIOUS
<1>1. /\ Searching /\ calls = <<>> /\ root > Len(known)
      /\ stack' = [stack EXCEPT ![p] = Append(@, id)] /\ prof' = None
      /\ UNCHANGED <<known, history, held, want, closing, report, crash>>
  BY DEF CheckCycleEnds
<1>2. prof # None /\ closing = 0 /\ report = <<>> /\ ~ crash
  BY <1>1, SearchFacts
<1>3. p \in Threads
  BY <1>2 DEF Inv, Typed
<1>4. /\ stack[p] \in Seq(Ids) /\ held[p] \in Seq(Locks)
      /\ Len(stack[p]) \in Nat /\ Len(held[p]) \in Nat /\ Len(known) \in Nat
      /\ p # None
  BY <1>3, ThreadFacts
<1> PICK L : L = Len(stack[p])
  OBVIOUS
<1>5. /\ want[p] # None /\ Len(held[p]) = L /\ L # 0 /\ stack[p] # <<>>
      /\ \E i \in Ids : known[i] = Class[want[p]]
  BY <1>3, <1>4, EmptySeq DEF Inv, GuardsMatch
<1>6. id \in Ids /\ known[id] = Class[want[p]]
  <2>1. PICK i \in Ids : known[i] = Class[want[p]]
    BY <1>5
  <2>2. \A j, k \in 1 .. Len(known) : known[j] = known[k] => j = k
    BY DEF Inv, OneId, Ids
  <2>3. known \in Seq({Class[l] : l \in Locks}) /\ i \in 1 .. Len(known)
    BY <2>1 DEF Inv, Typed, Ids
  <2>4. IdOf(known, known[i]) = i
    BY <2>2, <2>3, IdOfName
  <2> QED BY <2>1, <2>4
<1>7. /\ Append(stack[p], id) \in Seq(Ids) /\ Len(Append(stack[p], id)) = L + 1
      /\ Append(stack[p], id)[L + 1] = id
      /\ \A i \in 1 .. L : Append(stack[p], id)[i] = stack[p][i]
  BY <1>4, <1>6, AppendProperties
<1>8. stack'[p] = Append(stack[p], id) /\ \A u \in Threads : u # p => stack'[u] = stack[u]
  BY <1>1, <1>3 DEF Inv, Typed
<1>9. stack' \in [Threads -> Seq(Ids)]
  BY <1>1, <1>7 DEF Inv, Typed
<1>10. Ids' = Ids
  BY <1>1 DEF Ids
<1>11. Typed'
  BY <1>1, <1>9, <1>10 DEF Inv, Typed
<1>12. OneId'
  BY <1>1, <1>10 DEF Inv, OneId
<1>13. GuardsMatch'
  <2> SUFFICES ASSUME NEW u \in Threads
               PROVE  /\ \A i \in 1 .. Len(stack'[u]) : i <= Len(held[u]) => known[stack'[u][i]] = Class[held[u][i]]
                      /\ want[u] = None => Len(held[u]) \in {Len(stack'[u]), Len(stack'[u]) + 1}
                      /\ want[u] # None =>
                           /\ Len(stack'[u]) = Len(held[u]) + 1
                           /\ known[stack'[u][Len(stack'[u])]] = Class[want[u]]
                      /\ u # None
    BY <1>1, <1>10 DEF GuardsMatch, Waits
  <2>1. CASE u = p
    <3>1. \A i \in 1 .. L : known[stack[p][i]] = Class[held[p][i]]
      <4>1. \A i \in 1 .. L : i <= L
        BY <1>4
      <4> QED BY <1>3, <1>5, <4>1 DEF Inv, GuardsMatch
    <3>2. ASSUME NEW i \in 1 .. L + 1, i <= L PROVE known[stack'[p][i]] = Class[held[p][i]]
      <4>1. i \in 1 .. L
        BY <1>4, <3>2
      <4> QED BY <1>7, <1>8, <3>1, <4>1
    <3>3. Len(stack'[p]) = L + 1 /\ stack'[p][L + 1] = id
      BY <1>7, <1>8
    <3>4. known[stack'[p][Len(stack'[p])]] = Class[want[p]]
      BY <1>6, <3>3
    <3>5. \A i \in 1 .. Len(stack'[p]) : i <= Len(held[p]) => known[stack'[p][i]] = Class[held[p][i]]
      BY <1>5, <3>2, <3>3
    <3> QED BY <1>4, <1>5, <2>1, <3>3, <3>4, <3>5
  <2>2. CASE u # p
    <3>1. Waits(u) <=> want[u] # None
      BY <2>2 DEF Waits
    <3> QED BY <1>8, <2>2, <3>1, ThreadFacts DEF Inv, GuardsMatch
  <2> QED BY <2>1, <2>2
<1>14. Orders'
  <2>1. Passed' = history /\ Passed \subseteq history
    BY <1>1 DEF Passed
  <2>2. ~ Cyclic(Passed)'
    <3>1. ~ Cyclic(history)
      BY <1>1, SearchedAll
    <3> QED BY <1>1, <2>1, <3>1 DEF Cyclic
  <2>3. <<stack[p][L], id>> \in history
    BY <1>2 DEF Inv, Orders, Asked, PrevId, Last
  <2>4. ASSUME NEW u \in Threads, NEW i \in 1 .. Len(stack'[u]) - 1, stack'[u][i] # stack'[u][i + 1]
        PROVE  <<stack'[u][i], stack'[u][i + 1]>> \in history
    <3>1. CASE u = p
      <4>1. i \in 1 .. L
        BY <1>4, <1>7, <1>8, <3>1
      <4>2. CASE i = L
        BY <1>5, <1>7, <1>8, <2>3, <3>1, <4>1, <4>2
      <4>3. CASE i # L
        <5>1. i \in 1 .. L - 1 /\ i + 1 \in 1 .. L
          BY <1>4, <4>1, <4>3
        <5>2. stack'[u][i] = stack[p][i] /\ stack'[u][i + 1] = stack[p][i + 1]
          BY <1>7, <1>8, <3>1, <4>1, <5>1
        <5> QED BY <1>3, <2>1, <2>4, <5>1, <5>2 DEF Inv, Orders
      <4> QED BY <4>2, <4>3
    <3>2. CASE u # p
      BY <1>8, <2>1, <2>4, <3>2 DEF Inv, Orders
    <3> QED BY <3>1, <3>2
  <2> QED BY <1>1, <2>1, <2>2, <2>4 DEF Orders
<1>15. prof' = None /\ closing' = 0 /\ report' = <<>> /\ ~ crash'
  BY <1>1, <1>2
<1> QED BY <1>11, <1>12, <1>13, <1>14, <1>15 DEF Inv


\* A sequence over a set is one over a larger set.
LEMMA SeqLarger ==
  ASSUME NEW S, NEW T, S \subseteq T, NEW s \in Seq(S)
  PROVE  s \in Seq(T)
<1>1. Len(s) \in Nat /\ \A i \in 1 .. Len(s) : s[i] \in T
  BY ElementOfSeq
<1>2. s = [i \in 1 .. Len(s) |-> s[i]]
  OBVIOUS
<1>3. [i \in 1 .. Len(s) |-> s[i]] \in [1 .. Len(s) -> T]
  BY <1>1
<1> QED BY <1>1, <1>2, <1>3

\* The names once l was asked for.
Names(l) == IF Class[l] \in Range(known) THEN known ELSE Append(known, Class[l])

\* PushLock gives a name its id; the ids there were stay.
LEMMA NamesGrow ==
  ASSUME Inv, NEW l \in Locks
  PROVE  /\ Names(l) \in Seq({Class[k] : k \in Locks}) /\ Len(Names(l)) \in Nat /\ Len(known) \in Nat
         /\ Len(known) <= Len(Names(l)) /\ \A i \in Ids : Names(l)[i] = known[i]
         /\ \A i, j \in 1 .. Len(Names(l)) : Names(l)[i] = Names(l)[j] => i = j
         /\ IdOf(Names(l), Class[l]) \in 1 .. Len(Names(l))
         /\ Names(l)[IdOf(Names(l), Class[l])] = Class[l]
<1> PICK names : names = Names(l)
  OBVIOUS
<1> PICK C, c, n : C = {Class[k] : k \in Locks} /\ c = Class[l] /\ n = Len(known)
  OBVIOUS
<1>1. known \in Seq(C) /\ n \in Nat /\ c \in C /\ Ids = 1 .. n /\ DOMAIN known = Ids
  BY DEF Inv, Typed, Ids
<1>2. \A i, j \in Ids : known[i] = known[j] => i = j
  BY DEF Inv, OneId
<1>3. /\ names \in Seq(C) /\ Len(names) \in Nat /\ n <= Len(names)
      /\ \A i \in Ids : names[i] = known[i]
      /\ \A i, j \in 1 .. Len(names) : names[i] = names[j] => i = j
      /\ \E i \in 1 .. Len(names) : names[i] = c
  <2>1. CASE c \in Range(known)
    <3>1. names = known
      BY <2>1 DEF Names
    <3>2. \E i \in Ids : known[i] = c
      BY <1>1, <2>1 DEF Range
    <3> QED BY <1>1, <1>2, <3>1, <3>2
  <2>2. CASE c \notin Range(known)
    <3>1. names = Append(known, c)
      BY <2>2 DEF Names
    <3>2. /\ names \in Seq(C) /\ Len(names) = n + 1 /\ names[n + 1] = c
          /\ \A i \in 1 .. n : names[i] = known[i]
      BY <1>1, <3>1, AppendProperties
    <3>3. \A i \in 1 .. n : known[i] # c
      BY <1>1, <2>2 DEF Range
    <3>4. \A i, j \in 1 .. n + 1 : names[i] = names[j] => i = j
      <4> TAKE i, j \in 1 .. n + 1
      <4>1. (i = n + 1 \/ i \in Ids) /\ (j = n + 1 \/ j \in Ids)
        BY <1>1
      <4> QED BY <1>1, <1>2, <3>2, <3>3, <4>1
    <3> QED BY <1>1, <3>2, <3>4
  <2> QED BY <2>1, <2>2
<1>4. PICK i \in 1 .. Len(names) : names[i] = c
  BY <1>3
<1>5. IdOf(names, names[i]) = i
  BY <1>3, <1>4, IdOfName
<1> QED BY <1>1, <1>3, <1>4, <1>5

\* A thread asks for a lock.
LEMMA InvPushLock ==
  ASSUME Inv, NEW t \in Threads, NEW l \in Locks, PushLock(t, l)
  PROVE  Inv'
<1> PICK names : names = Names(l)
  OBVIOUS
<1> PICK id : id = IdOf(names, Class[l])
  OBVIOUS
<1> PICK edge : edge = IF stack[t] = <<>> THEN {} ELSE {<<PrevId(t), id>>} \ {<<id, id>>}
  OBVIOUS
<1> PICK m, n, L : m = Len(known) /\ n = Len(names) /\ L = Len(stack[t])
  OBVIOUS
<1>1. /\ Runs(t) /\ known' = names /\ history' = history \cup edge
      /\ want' = [want EXCEPT ![t] = l]
      /\ UNCHANGED <<held, closing, report, crash>>
      /\ \/ /\ edge \subseteq history
            /\ stack' = [stack EXCEPT ![t] = Append(@, id)]
            /\ UNCHANGED <<prof, tree>>
         \/ /\ ~ edge \subseteq history
            /\ prof' = t
            /\ CheckCycle(history', n)
            /\ UNCHANGED stack
  BY DEF PushLock, Names
<1>2. /\ names \in Seq({Class[k] : k \in Locks}) /\ n \in Nat /\ m \in Nat
      /\ m <= n /\ \A i \in Ids : names[i] = known[i]
      /\ \A i, j \in 1 .. n : names[i] = names[j] => i = j
      /\ id \in 1 .. n /\ names[id] = Class[l]
  BY NamesGrow
<1>3. Ids = 1 .. m /\ Ids' = 1 .. n /\ Ids \subseteq Ids' /\ id \in Ids'
  BY <1>1, <1>2 DEF Ids
<1>4. /\ prof = None /\ want[t] = None /\ ~ crash /\ closing = 0 /\ report = <<>>
      /\ ~ (Len(stack[t]) < Len(held[t]))
  BY <1>1 DEF Runs, Closing, Inv
<1>5. /\ stack[t] \in Seq(Ids) /\ Len(held[t]) \in Nat /\ L \in Nat
      /\ t # None /\ None \notin Locks
      /\ \A i \in 1 .. L : stack[t][i] \in Ids
  BY ThreadFacts
<1>6. Len(held[t]) = L
  <2>1. Len(held[t]) \in {L, L + 1}
    BY <1>4 DEF Inv, GuardsMatch
  <2> QED BY <1>4, <1>5, <2>1
<1>7. stack[t] # <<>> => L # 0 /\ L \in 1 .. L /\ PrevId(t) = stack[t][L] /\ PrevId(t) \in Ids
  <2>1. stack[t] # <<>> => L # 0
    BY <1>5, EmptySeq
  <2> QED BY <1>5, <2>1 DEF PrevId, Last
<1>8. history \subseteq Ids \X Ids /\ \A e \in history : e[1] # e[2]
  BY DEF Inv, Typed, OneId
<1>9. edge \subseteq Ids' \X Ids' /\ \A e \in edge : e[1] # e[2]
  <2>1. CASE stack[t] = <<>>
    BY <2>1
  <2>2. CASE stack[t] # <<>>
    BY <1>3, <1>7, <2>2
  <2> QED BY <2>1, <2>2
<1>10. history' \subseteq Ids' \X Ids' /\ OneId'
  <2>1. Ids \X Ids \subseteq Ids' \X Ids'
    BY <1>3
  <2>2. \A e \in history' : e[1] # e[2]
    BY <1>1, <1>8, <1>9
  <2>3. history' \subseteq Ids' \X Ids'
    BY <1>1, <1>8, <1>9, <2>1
  <2> QED BY <1>1, <1>2, <1>3, <2>2, <2>3 DEF OneId
<1>11. want' \in [Threads -> Locks \cup {None}] /\ want'[t] = l /\ \A u \in Threads : u # t => want'[u] = want[u]
  BY <1>1 DEF Inv, Typed
<1>12. \A u \in Threads : stack[u] \in Seq(Ids')
  <2> TAKE u \in Threads
  <2>1. stack[u] \in Seq(Ids)
    BY ThreadFacts
  <2> QED BY <1>3, <2>1, SeqLarger
<1>13. \A u \in Threads : \A i \in 1 .. Len(stack[u]) : names[stack[u][i]] = known[stack[u][i]]
  BY <1>2, ThreadFacts
<1>14. ~ Cyclic(history)
  BY <1>4 DEF Inv, Orders, Passed
<1>15. \A S \in SUBSET Ids' : S # {} => \E a \in S : \A b \in S : <<a, b>> \notin history
  <2> TAKE S \in SUBSET Ids'
  <2>1. CASE S \subseteq Ids
    <3>1. DOMAIN known = Ids
      BY DEF Inv, Typed, Ids
    <3> QED BY <1>14, <2>1, <3>1 DEF Cyclic
  <2>2. CASE ~ S \subseteq Ids
    <3>1. PICK a \in S : a \notin Ids
      BY <2>2
    <3> QED BY <1>8, <3>1
  <2> QED BY <2>1, <2>2
<1>16. DOMAIN known' = Ids'
  BY <1>1, <1>2, <1>3
<1>17. \A u \in Threads : u # t =>
         /\ \A i \in 1 .. Len(stack[u]) : i <= Len(held[u]) => names[stack[u][i]] = Class[held[u][i]]
         /\ want[u] = None => Len(held[u]) \in {Len(stack[u]), Len(stack[u]) + 1}
         /\ want[u] # None => /\ Len(stack[u]) = Len(held[u]) + 1
                              /\ names[stack[u][Len(stack[u])]] = Class[want[u]]
  <2> SUFFICES ASSUME NEW u \in Threads, u # t
               PROVE  /\ \A i \in 1 .. Len(stack[u]) : i <= Len(held[u]) => names[stack[u][i]] = Class[held[u][i]]
                      /\ want[u] = None => Len(held[u]) \in {Len(stack[u]), Len(stack[u]) + 1}
                      /\ want[u] # None => /\ Len(stack[u]) = Len(held[u]) + 1
                                           /\ names[stack[u][Len(stack[u])]] = Class[want[u]]
    OBVIOUS
  <2>1. Waits(u) <=> want[u] # None
    BY <1>4, ThreadFacts DEF Waits
  <2>2. want[u] # None => Len(stack[u]) \in 1 .. Len(stack[u])
    <3>1. Len(held[u]) \in Nat
      BY ThreadFacts
    <3> QED BY <2>1, <3>1 DEF Inv, GuardsMatch
  <2>3. want[u] # None => /\ Len(stack[u]) = Len(held[u]) + 1
                          /\ known[stack[u][Len(stack[u])]] = Class[want[u]]
    BY <2>1 DEF Inv, GuardsMatch
  <2>4. want[u] = None => Len(held[u]) \in {Len(stack[u]), Len(stack[u]) + 1}
    BY DEF Inv, GuardsMatch
  <2>5. \A i \in 1 .. Len(stack[u]) : i <= Len(held[u]) => known[stack[u][i]] = Class[held[u][i]]
    BY DEF Inv, GuardsMatch
  <2> QED BY <1>13, <2>2, <2>3, <2>4, <2>5
<1>18. \A i \in 1 .. L : names[stack[t][i]] = Class[held[t][i]]
  <2>1. \A i \in 1 .. L : i <= Len(held[t])
    BY <1>5, <1>6
  <2>2. \A i \in 1 .. L : known[stack[t][i]] = Class[held[t][i]]
    BY <2>1 DEF Inv, GuardsMatch
  <2> QED BY <1>13, <2>2
<1>19. closing' = 0 /\ report' = <<>> /\ ~ crash' /\ held' = held
  BY <1>1, <1>4
<1>20. \A u \in Threads : \A i \in 1 .. Len(stack[u]) - 1 :
         stack[u][i] # stack[u][i + 1] => <<stack[u][i], stack[u][i + 1]>> \in history
  BY <1>4 DEF Inv, Orders, Passed
<1>21. CASE /\ edge \subseteq history
            /\ stack' = [stack EXCEPT ![t] = Append(@, id)]
            /\ UNCHANGED <<prof, tree>>
  <2>1. prof' = None /\ history' = history /\ Passed' = history
    BY <1>1, <1>4, <1>21 DEF Passed
  <2>2. stack[t] \in Seq(Ids')
    BY <1>12
  <2>3. /\ Append(stack[t], id) \in Seq(Ids') /\ Len(Append(stack[t], id)) = L + 1
        /\ Append(stack[t], id)[L + 1] = id
        /\ \A i \in 1 .. L : Append(stack[t], id)[i] = stack[t][i]
    BY <1>3, <2>2, AppendProperties
  <2>4. stack'[t] = Append(stack[t], id) /\ \A u \in Threads : u # t => stack'[u] = stack[u]
    BY <1>21 DEF Inv, Typed
  <2>5. stack' \in [Threads -> Seq(Ids')]
    <3>1. stack' = [u \in Threads |-> IF u = t THEN Append(stack[t], id) ELSE stack[u]]
      BY <1>21 DEF Inv, Typed
    <3> QED BY <1>12, <2>3, <3>1
  <2>6. Typed'
    BY <1>1, <1>2, <1>10, <1>11, <1>19, <2>1, <2>5 DEF Inv, Typed
  <2>7. GuardsMatch'
    <3> SUFFICES ASSUME NEW u \in Threads
                 PROVE  /\ \A i \in 1 .. Len(stack'[u]) : i <= Len(held[u]) => names[stack'[u][i]] = Class[held[u][i]]
                        /\ want'[u] = None => Len(held[u]) \in {Len(stack'[u]), Len(stack'[u]) + 1}
                        /\ want'[u] # None =>
                             /\ Len(stack'[u]) = Len(held[u]) + 1
                             /\ names[stack'[u][Len(stack'[u])]] = Class[want'[u]]
                        /\ u # None
      BY <1>1, <2>1 DEF GuardsMatch, Waits
    <3>1. CASE u = t
      <4>1. Len(stack'[t]) = L + 1 /\ stack'[t][L + 1] = id /\ \A i \in 1 .. L : stack'[t][i] = stack[t][i]
        BY <2>3, <2>4
      <4>2. names[stack'[t][Len(stack'[t])]] = Class[l]
        BY <1>2, <4>1
      <4>3. \A i \in 1 .. Len(stack'[t]) : i <= Len(held[t]) => names[stack'[t][i]] = Class[held[t][i]]
        <5> SUFFICES ASSUME NEW i \in 1 .. Len(stack'[t]), i <= Len(held[t])
                     PROVE  names[stack'[t][i]] = Class[held[t][i]]
          OBVIOUS
        <5>1. i \in 1 .. L
          BY <1>5, <1>6, <4>1
        <5> QED BY <1>18, <4>1, <5>1
      <4>4. l # None
        BY <1>5
      <4> QED BY <1>5, <1>6, <1>11, <3>1, <4>1, <4>2, <4>3, <4>4
    <3>2. CASE u # t
      <4>1. u # None
        BY ThreadFacts
      <4>2. stack'[u] = stack[u] /\ want'[u] = want[u]
        BY <1>11, <2>4, <3>2
      <4>3. /\ \A i \in 1 .. Len(stack[u]) : i <= Len(held[u]) => names[stack[u][i]] = Class[held[u][i]]
            /\ want[u] = None => Len(held[u]) \in {Len(stack[u]), Len(stack[u]) + 1}
            /\ want[u] # None => /\ Len(stack[u]) = Len(held[u]) + 1
                                 /\ names[stack[u][Len(stack[u])]] = Class[want[u]]
        BY <1>17, <3>2
      <4> QED BY <4>1, <4>2, <4>3, Zenon
    <3> QED BY <3>1, <3>2
  <2>8. ASSUME NEW u \in Threads, NEW i \in 1 .. Len(stack'[u]) - 1, stack'[u][i] # stack'[u][i + 1]
        PROVE  <<stack'[u][i], stack'[u][i + 1]>> \in history
    <3>1. CASE u = t
      <4>1. i \in 1 .. L /\ Len(stack'[t]) = L + 1
        BY <1>5, <2>3, <2>4, <3>1
      <4>2. CASE i = L
        <5>1. stack[t] # <<>>
          BY <1>5, <4>1
        <5>2. stack'[u][i] = PrevId(t) /\ stack'[u][i + 1] = id
          BY <1>7, <2>3, <2>4, <3>1, <4>2, <5>1
        <5>3. <<PrevId(t), id>> \in edge
          BY <2>8, <5>1, <5>2
        <5> QED BY <1>21, <5>2, <5>3
      <4>3. CASE i # L
        <5>1. i \in 1 .. L - 1 /\ i + 1 \in 1 .. L
          BY <1>5, <4>1, <4>3
        <5>2. stack'[u][i] = stack[t][i] /\ stack'[u][i + 1] = stack[t][i + 1]
          BY <2>3, <2>4, <3>1, <4>1, <5>1
        <5> QED BY <1>20, <2>8, <5>1, <5>2
      <4> QED BY <4>2, <4>3
    <3>2. CASE u # t
      BY <1>20, <2>4, <2>8, <3>2
    <3> QED BY <3>1, <3>2
  <2>9. ~ Cyclic(Passed)'
    BY <1>15, <1>16, <2>1 DEF Cyclic
  <2>10. Orders'
    BY <2>1, <2>8, <2>9 DEF Orders
  <2> QED BY <1>10, <1>19, <2>1, <2>6, <2>7, <2>10 DEF Inv
<1>22. CASE /\ ~ edge \subseteq history
            /\ prof' = t
            /\ CheckCycle(history', n)
            /\ UNCHANGED stack
  <2>1. stack[t] # <<>> /\ PrevId(t) # id /\ edge = {<<PrevId(t), id>>} /\ <<PrevId(t), id>> \notin history
    BY <1>22
  <2>2. stack' \in [Threads -> Seq(Ids')]
    BY <1>12, <1>22 DEF Inv, Typed
  <2>3. Typed'
    BY <1>1, <1>2, <1>10, <1>11, <1>19, <1>22, <2>2 DEF Inv, Typed
  <2>4. known' = names /\ held' = held /\ stack' = stack /\ prof' = t
    BY <1>1, <1>22
  <2>5. GuardsMatch'
    <3> SUFFICES ASSUME NEW u \in Threads
                 PROVE  /\ \A i \in 1 .. Len(stack[u]) : i <= Len(held[u]) => names[stack[u][i]] = Class[held[u][i]]
                        /\ want'[u] = None => Len(held[u]) \in {Len(stack[u]), Len(stack[u]) + 1}
                        /\ want'[u] # None /\ u # t =>
                             /\ Len(stack[u]) = Len(held[u]) + 1
                             /\ names[stack[u][Len(stack[u])]] = Class[want'[u]]
                        /\ u = t => /\ want'[u] # None
                                    /\ Len(stack[u]) = Len(held[u]) /\ stack[u] # <<>>
                                    /\ \E i \in Ids' : names[i] = Class[want'[u]]
      BY <2>4 DEF GuardsMatch, Waits
    <3>1. CASE u = t
      BY <1>2, <1>3, <1>5, <1>6, <1>11, <1>18, <2>1, <3>1
    <3>2. CASE u # t
      <4>1. want'[u] = want[u]
        BY <1>11, <3>2
      <4>2. /\ \A i \in 1 .. Len(stack[u]) : i <= Len(held[u]) => names[stack[u][i]] = Class[held[u][i]]
            /\ want[u] = None => Len(held[u]) \in {Len(stack[u]), Len(stack[u]) + 1}
            /\ want[u] # None => /\ Len(stack[u]) = Len(held[u]) + 1
                                 /\ names[stack[u][Len(stack[u])]] = Class[want[u]]
        BY <1>17, <3>2
      <4> QED BY <3>2, <4>1, <4>2, Zenon
    <3> QED BY <3>1, <3>2
  <2>6. Asked' = <<PrevId(t), id>>
    BY <1>1, <1>11, <1>22 DEF Asked, PrevId
  <2>7. prof' # None /\ Passed' = history /\ Asked' \in history'
    BY <1>1, <1>5, <1>22, <2>1, <2>6 DEF Passed
  <2>8. ~ Cyclic(Passed)'
    BY <1>15, <1>16, <2>7 DEF Cyclic
  <2>9. Orders'
    BY <1>20, <1>22, <2>7, <2>8 DEF Orders
  <2>10. /\ count' = 0 /\ disc' = [i \in 1..n |-> 0]
        /\ finished' = [i \in 1..n |-> FALSE] /\ parent' = [i \in 1..n |-> 0]
        /\ root' = 1 /\ calls' = <<>> /\ rest' = history'
    BY <1>22 DEF CheckCycle
  <2>11. TreeTyped'
    <3>1. Len(known') = n
      BY <1>1
    <3> QED BY <1>2, <1>3, <2>10, <3>1 DEF TreeTyped
  <2>12. \A i \in Called' : FALSE
    BY <2>10 DEF Called
  <2>13. \A a \in Ids' : disc'[a] = 0 /\ ~ finished'[a]
    BY <1>3, <2>10
  <2>14. \A a \in Ids' : disc'[a] = 0
    BY <2>13
  <2>15. Path'
    <3>1. \A a \in Ids' : disc'[a] <= count'
      <4> TAKE a \in Ids'
      <4>1. disc'[a] = 0 /\ count' = 0
        BY <2>10, <2>14
      <4> QED BY <4>1
    <3>2. \A a \in 1 .. root' - 1 : disc'[a] # 0
      BY <2>10
    <3> QED BY <2>12, <2>13, <3>1, <3>2 DEF Path
  <2>16. NoCycleBehind'
    <3>1. \A e \in history' : ~ finished'[e[1]]
      BY <1>10, <2>13
    <3>2. {a \in Ids' : finished'[a]} = {}
      BY <2>13
    <3> QED BY <3>1, <3>2 DEF NoCycleBehind
  <2>17. Looked'
    BY <2>10 DEF Looked
  <2> QED BY <1>10, <1>19, <2>3, <2>5, <2>7, <2>9, <2>11, <2>15, <2>16, <2>17 DEF Inv
<1> QED BY <1>1, <1>21, <1>22


-----------------------------------------------------------------------------
(* The invariant holds, and what it says about the crash.                  *)

\* Nobody has asked for a lock.
LEMMA InvInit == Init => Inv
<1> SUFFICES ASSUME Init PROVE Inv
  OBVIOUS
<1>1. /\ known = <<>> /\ history = {} /\ prof = None /\ closing = 0 /\ report = <<>> /\ crash = FALSE
      /\ Len(known) = 0 /\ Ids = {}
      /\ \A t \in Threads : stack[t] = <<>> /\ held[t] = <<>> /\ want[t] = None /\ t # None
  BY ProfilerAssumption DEF Init, Ids
<1>2. Typed
  <2>1. \A S : <<>> \in Seq(S)
    OBVIOUS
  <2>2. /\ stack \in [Threads -> Seq(Ids)] /\ held \in [Threads -> Seq(Locks)]
        /\ want \in [Threads -> Locks \cup {None}]
    BY <2>1 DEF Init
  <2>3. known \in Seq({Class[l] : l \in Locks}) /\ report \in Seq(Ids)
    BY <1>1, <2>1
  <2> QED BY <1>1, <2>2, <2>3 DEF Typed
<1>3. OneId
  BY <1>1 DEF OneId
<1>4. GuardsMatch
  BY <1>1 DEF GuardsMatch, Waits
<1>5. DOMAIN known = {} /\ Passed = {}
  BY <1>1 DEF Passed
<1>6. ~ Cyclic(Passed)
  BY <1>5 DEF Cyclic
<1>7. Orders
  BY <1>1, <1>6 DEF Orders
<1> QED BY <1>1, <1>2, <1>3, <1>4, <1>7 DEF Inv

\* Every step keeps the invariant.
LEMMA InvNext == Inv /\ [Next]_vars => Inv'
<1> SUFFICES ASSUME Inv, [Next]_vars PROVE Inv'
  OBVIOUS
<1>1. ASSUME NEW t \in Threads, NEW l \in Locks, PushLock(t, l) PROVE Inv'
  BY <1>1, InvPushLock
<1>2. ASSUME NEW t \in Threads, Acquire(t) PROVE Inv'
  BY <1>2, InvAcquire
<1>3. ASSUME NEW t \in Threads, PopLock(t) PROVE Inv'
  BY <1>3, InvPopLock
<1>4. ASSUME NEW t \in Threads, Unlock(t) PROVE Inv'
  BY <1>4, InvUnlock
<1>5. CASE UNCHANGED vars
  <2>1. UNCHANGED <<known, history, stack, held, want, prof>> /\ UNCHANGED <<known, history, prof, tree, closing, report, crash>>
    BY <1>5 DEF vars, locks
  <2>2. /\ OneId' /\ GuardsMatch' /\ Orders' /\ Ids' = Ids
        /\ stack' \in [Threads -> Seq(Ids')] /\ held' \in [Threads -> Seq(Locks)]
        /\ want' \in [Threads -> Locks \cup {None}]
    BY <2>1, KeepsLocks
  <2>3. /\ known' \in Seq({Class[l] : l \in Locks})
        /\ history' \subseteq Ids' \X Ids'
        /\ prof' \in Threads \cup {None} /\ closing' \in Nat
        /\ report' \in Seq(Ids') /\ crash' \in BOOLEAN
        /\ prof' # None => TreeTyped' /\ Path' /\ NoCycleBehind'
        /\ prof' # None /\ closing' = 0 => Looked'
        /\ closing' # 0 => prof' # None /\ Printed'
        /\ closing' = 0 => report' = <<>> /\ ~ crash'
    BY <2>1, KeepsSearch
  <2> QED BY <2>2, <2>3 DEF Inv, Typed
<1> QED BY <1>1, <1>2, <1>3, <1>4, <1>5, InvDfsRoot, InvDfsVisit, InvDfsReturn, InvPrintCycle,
           InvCheckCycleEnds DEF Next

\* The invariant of the profiler: the stacks match the guards, the orders that passed
\* a search form no cycle, and the path of calls is what the search knows.
THEOREM InvHolds == Spec => []Inv
BY InvInit, InvNext, PTL DEF Spec

\* The report in terms of the path of calls.
LEMMA ReportOnPath ==
  ASSUME Inv, closing # 0
  PROVE  \E k \in Called :
           /\ Path /\ TreeTyped /\ Len(calls) \in Nat
           /\ calls[k] = closing /\ <<calls[Len(calls)], closing>> \in history
           /\ Len(report) \in Nat /\ Len(report) # 0 /\ Len(report) <= Len(calls) - k + 1
           /\ crash <=> Len(report) = Len(calls) - k + 1
           /\ \A i \in 1 .. Len(report) : report[i] = calls[Len(calls) - Len(report) + i]
           /\ \A i \in 1 .. Len(calls) - 1 : <<calls[i], calls[i + 1]>> \in history
<1>1. prof # None /\ Printed /\ Path /\ TreeTyped
  BY DEF Inv
<1>2. Len(calls) \in Nat /\ Len(report) \in Nat
  BY <1>1 DEF TreeTyped, Inv, Typed
<1>3. \A i \in 1 .. Len(calls) - 1 : <<calls[i], calls[i + 1]>> \in history
  <2> TAKE i \in 1 .. Len(calls) - 1
  <2>1. i \in Called /\ i + 1 \in Called
    BY <1>2 DEF Called
  <2> QED BY <1>1, <2>1 DEF Path
<1> QED BY <1>1, <1>2, <1>3 DEF Printed

\* The crash of the search stands for a cycle among all the orders seen.
LEMMA CrashHasCycle ==
  ASSUME Inv, crash
  PROVE  Cyclic(history)
<1>1. closing # 0
  BY DEF Inv
<1> PICK n : n = Len(calls)
  OBVIOUS
<1>2. PICK k \in Called :
         /\ Path /\ TreeTyped /\ n \in Nat
         /\ calls[k] = closing /\ <<calls[n], closing>> \in history
         /\ \A i \in 1 .. n - 1 : <<calls[i], calls[i + 1]>> \in history
  BY <1>1, ReportOnPath
<1>3. Called = 1 .. n /\ \A i \in 1 .. n : calls[i] \in Ids
  BY <1>2, ElementOfSeq DEF TreeTyped, Called
<1> PICK S : S = {calls[i] : i \in k .. n}
  OBVIOUS
<1>4. S \subseteq Ids /\ S # {}
  <2>1. k .. n \subseteq 1 .. n /\ k \in k .. n
    BY <1>2, <1>3
  <2> QED BY <1>3, <2>1
<1>5. ASSUME NEW a \in S PROVE \E b \in S : <<a, b>> \in history
  <2>1. PICK i \in k .. n : a = calls[i]
    OBVIOUS
  <2>2. CASE i = n
    <3>1. k \in k .. n
      BY <1>2, <1>3
    <3> QED BY <1>2, <2>1, <2>2, <3>1
  <2>3. CASE i # n
    <3>1. i \in 1 .. n - 1 /\ i + 1 \in k .. n
      BY <1>2, <1>3, <2>3
    <3> QED BY <1>2, <2>1, <3>1
  <2> QED BY <2>2, <2>3
<1>6. DOMAIN known = Ids
  BY DEF Inv, Typed, Ids
<1> QED BY <1>4, <1>5, <1>6 DEF Cyclic

\* CheckCycle crashes exactly when the orders seen so far form a cycle.
THEOREM CrashMeansCycle == Spec => []CrashIffCycle
<1>1. Inv => CrashIffCycle
  <2> SUFFICES ASSUME Inv, prof = None \/ crash PROVE crash <=> Cyclic(history)
    BY DEF CrashIffCycle
  <2>1. CASE crash
    BY <2>1, CrashHasCycle
  <2>2. CASE ~ crash
    <3>1. prof = None
      BY <2>2
    <3>2. ~ Cyclic(history)
      BY <3>1 DEF Inv, Orders, Passed
    <3> QED BY <2>2, <3>2
  <2> QED BY <2>1, <2>2
<1> QED BY <1>1, InvHolds, PTL

\* The report printed before the crash is a way along orders that were seen, and in
\* the end a cycle.
THEOREM PrintsACycle == Spec => []ReportIsACycle
<1>1. Inv => ReportIsACycle
  <2> SUFFICES ASSUME Inv PROVE ReportIsACycle
    OBVIOUS
  <2>1. CASE closing = 0
    <3>1. report = <<>> /\ ~ crash
      BY <2>1 DEF Inv
    <3>2. \A i \in 1 .. Len(report) - 1 : FALSE
      BY <3>1
    <3> QED BY <3>1, <3>2 DEF ReportIsACycle
  <2>2. CASE closing # 0
    <3> PICK n, r : n = Len(calls) /\ r = Len(report)
      OBVIOUS
    <3>1. PICK k \in Called :
             /\ n \in Nat
             /\ calls[k] = closing /\ <<calls[n], closing>> \in history
             /\ r \in Nat /\ r # 0 /\ r <= n - k + 1
             /\ crash <=> r = n - k + 1
             /\ \A i \in 1 .. r : report[i] = calls[n - r + i]
             /\ \A i \in 1 .. n - 1 : <<calls[i], calls[i + 1]>> \in history
      BY <2>2, ReportOnPath
    <3>2. k \in 1 .. n
      BY DEF Called
    <3>3. ASSUME NEW i \in 1 .. r - 1 PROVE <<report[i], report[i + 1]>> \in history
      <4>1. i \in 1 .. r /\ i + 1 \in 1 .. r /\ n - r + i \in 1 .. n - 1
        BY <3>1, <3>2
      <4>2. report[i] = calls[n - r + i] /\ report[i + 1] = calls[n - r + (i + 1)]
        BY <3>1, <4>1
      <4>3. n - r + (i + 1) = (n - r + i) + 1
        BY <3>1
      <4> QED BY <3>1, <4>1, <4>2, <4>3
    <3>4. ASSUME crash PROVE report # <<>> /\ <<Last(report), Head(report)>> \in history
      <4>1. report # <<>>
        BY <3>1
      <4>2. Head(report) = report[1] /\ Last(report) = report[r]
        BY <4>1 DEF Last, Inv, Typed
      <4>3. 1 \in 1 .. r /\ r \in 1 .. r /\ n - r + 1 = k /\ n - r + r = n
        BY <3>1, <3>2, <3>4
      <4>4. report[1] = calls[k] /\ report[r] = calls[n]
        BY <3>1, <4>3
      <4> QED BY <3>1, <4>1, <4>2, <4>4
    <3> QED BY <3>3, <3>4 DEF ReportIsACycle
  <2> QED BY <2>1, <2>2
<1> QED BY <1>1, InvHolds, PTL


-----------------------------------------------------------------------------
(* The deadlocks the profiler lets through.                                *)

\* In a sequence that does not end with s[j], there is a last place with s[j].
LEMMA LastPlace ==
  ASSUME NEW S, NEW s \in Seq(S), NEW j \in 1 .. Len(s), s[j] # s[Len(s)]
  PROVE  \E i \in 1 .. Len(s) - 1 : s[i] = s[j] /\ s[i + 1] # s[j]
<1> PICK n : n = Len(s)
  OBVIOUS
<1>1. n \in Nat
  BY ElementOfSeq
<1> PICK R : R = {e \in Nat \X Nat : e[1] < e[2]}
  OBVIOUS
<1>2. IsWellFoundedOn(R, Nat)
  BY NatLessThanWellFounded DEF OpToRel
<1> PICK T : T = {d \in Nat : n - d \in 1 .. n /\ s[n - d] = s[j]}
  OBVIOUS
<1>3. n - j \in T /\ T \subseteq Nat
  <2>1. n - j \in Nat /\ n - (n - j) = j
    BY <1>1
  <2> QED BY <2>1
<1>4. PICK d \in T : \A e \in T : ~ (<<e, d>> \in R)
  BY <1>2, <1>3, WFMin
<1>5. d \in Nat /\ n - d \in 1 .. n /\ s[n - d] = s[j] /\ d # 0
  BY <1>1
<1>6. d - 1 \in Nat /\ <<d - 1, d>> \in R
  BY <1>5
<1>7. d - 1 \notin T
  BY <1>4, <1>6
<1>8. n - (d - 1) = (n - d) + 1 /\ (n - d) + 1 \in 1 .. n
  BY <1>1, <1>5
<1>9. s[(n - d) + 1] # s[j]
  BY <1>6, <1>7, <1>8
<1>10. n - d \in 1 .. n - 1
  BY <1>1, <1>5
<1> QED BY <1>5, <1>9, <1>10

\* Who keeps a thread waiting and waits itself has the id that is waited for on its
\* stack.
LEMMA BlockerHasId ==
  ASSUME Inv, NEW t \in Threads, NEW u \in Blockers(t), Waits(u)
  PROVE  \E i \in 1 .. Len(stack[u]) : stack[u][i] = stack[t][Len(stack[t])]
<1>1. u \in Threads /\ Waits(t) /\ Contains(held[u], want[t])
  BY DEF Blockers
<1>2. PICK i \in 1 .. Len(held[u]) : held[u][i] = want[t]
  BY <1>1 DEF Contains
<1>3. Len(held[u]) \in Nat /\ Len(stack[u]) = Len(held[u]) + 1
  BY <1>1, ThreadFacts DEF Inv, GuardsMatch
<1>4. i \in 1 .. Len(stack[u]) /\ i <= Len(held[u])
  BY <1>3
<1>5. known[stack[u][i]] = Class[want[t]]
  BY <1>1, <1>2, <1>4 DEF Inv, GuardsMatch
<1>6. Len(stack[t]) = Len(held[t]) + 1 /\ known[stack[t][Len(stack[t])]] = Class[want[t]]
  BY <1>1 DEF Inv, GuardsMatch
<1>7. Len(stack[t]) \in 1 .. Len(stack[t])
  BY <1>6, ThreadFacts
<1>8. stack[t][Len(stack[t])] \in Ids /\ stack[u][i] \in Ids
  BY <1>1, <1>4, <1>7, ThreadFacts
<1>9. stack[u][i] = stack[t][Len(stack[t])]
  BY <1>5, <1>6, <1>8 DEF Inv, OneId
<1> QED BY <1>4, <1>9

\* A deadlock over two classes has a cycle among the orders that passed: from an id that
\* somebody has below the top of the stack an order goes on up that stack, and an id that
\* is only on tops is waited for by a set that somebody outside it blocks.
LEMMA DeadlockHasCycle ==
  ASSUME Inv, NEW D \in SUBSET Threads, IsDeadlock(D),
         NEW t \in D, NEW u \in D, Class[want[t]] # Class[want[u]]
  PROVE  Cyclic(Passed)
<1> DEFINE Top(v) == stack[v][Len(stack[v])]
<1> PICK S : S = UNION {{stack[v][i] : i \in 1 .. Len(stack[v])} : v \in D}
  OBVIOUS
<1>1. \A v \in D : v \in Threads /\ Waits(v)
  BY DEF IsDeadlock, IsKnot, Blockers
<1>2. \A v \in D : /\ stack[v] \in Seq(Ids) /\ Len(stack[v]) \in Nat
                   /\ Len(stack[v]) \in 1 .. Len(stack[v])
                   /\ known[Top(v)] = Class[want[v]]
                   /\ \A i \in 1 .. Len(stack[v]) : stack[v][i] \in Ids
  <2> TAKE v \in D
  <2>1. stack[v] \in Seq(Ids) /\ Len(stack[v]) \in Nat /\ Len(held[v]) \in Nat
        /\ \A i \in 1 .. Len(stack[v]) : stack[v][i] \in Ids
    BY <1>1, ThreadFacts
  <2>2. Len(stack[v]) = Len(held[v]) + 1 /\ known[Top(v)] = Class[want[v]]
    BY <1>1 DEF Inv, GuardsMatch
  <2> QED BY <2>1, <2>2
<1>3. Top(t) # Top(u)
  BY <1>2
<1>4. S \subseteq Ids /\ S # {}
  <2>1. \A x \in S : x \in Ids
    BY <1>2
  <2>2. Top(t) \in S
    <3>1. Top(t) \in {stack[t][i] : i \in 1 .. Len(stack[t])}
      BY <1>2
    <3> QED BY <3>1
  <2> QED BY <2>1, <2>2
<1>5. ASSUME NEW x \in S PROVE \E y \in S : <<x, y>> \in Passed
  <2>1. PICK w \in D : \E i \in 1 .. Len(stack[w]) : stack[w][i] = x
    OBVIOUS
  <2>2. ASSUME NEW v \in D, NEW j \in 1 .. Len(stack[v]), stack[v][j] = x, Top(v) # x
        PROVE  \E y \in S : <<x, y>> \in Passed
    <3>1. PICK i \in 1 .. Len(stack[v]) - 1 : stack[v][i] = x /\ stack[v][i + 1] # x
      BY <1>2, <2>2, LastPlace
    <3>2. <<stack[v][i], stack[v][i + 1]>> \in Passed
      BY <1>1, <3>1 DEF Inv, Orders
    <3>3. i + 1 \in 1 .. Len(stack[v])
      BY <1>2
    <3>4. stack[v][i + 1] \in S
      BY <3>3
    <3> QED BY <3>1, <3>2, <3>4
  <2>3. \E v \in D : \E j \in 1 .. Len(stack[v]) : stack[v][j] = x /\ Top(v) # x
    <3>1. CASE Top(w) # x
      BY <2>1, <3>1
    <3>2. CASE Top(w) = x
      <4> PICK E : E = {v \in D : Top(v) = x}
        OBVIOUS
      <4>1. E # {} /\ E \in SUBSET D /\ E # D
        BY <1>3, <3>2
      <4>2. PICK v \in E : Blockers(v) \cap E = {}
        BY <4>1 DEF IsDeadlock, IsKnot
      <4>3. PICK b \in D : b \in Blockers(v)
        BY <4>1 DEF IsDeadlock, IsKnot
      <4>4. \E i \in 1 .. Len(stack[b]) : stack[b][i] = Top(v)
        BY <1>1, <4>1, <4>3, BlockerHasId
      <4>5. Top(b) # x
        BY <4>2, <4>3
      <4> QED BY <4>4, <4>5
    <3> QED BY <3>1, <3>2
  <2> QED BY <2>2, <2>3
<1>6. DOMAIN known = Ids
  BY DEF Inv, Typed, Ids
<1> QED BY <1>4, <1>5, <1>6 DEF Cyclic

\* Locks of two classes cannot deadlock unless the profiler has crashed before: no
\* deadlock gets past it unless its locks have one name.
THEOREM DeadlocksHaveOneClass == Spec => []OnlyOneClassDeadlocks
<1>1. Inv => OnlyOneClassDeadlocks
  <2> SUFFICES ASSUME Inv, NEW D \in SUBSET Threads, IsDeadlock(D), NEW t \in D, NEW u \in D,
                      Class[want[t]] # Class[want[u]]
               PROVE  FALSE
    BY DEF OnlyOneClassDeadlocks
  <2>1. Cyclic(Passed)
    BY DeadlockHasCycle
  <2> QED BY <2>1 DEF Inv, Orders
<1> QED BY <1>1, InvHolds, PTL
=============================================================================
