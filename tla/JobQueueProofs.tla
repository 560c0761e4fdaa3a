--------------------------- MODULE JobQueueProofs ---------------------------
(***************************************************************************)
(* Proofs about JobQueue for any finite set of threads and any queues,     *)
(* jobs and calls: the types, the custody of queues, the exact count, and, *)
(* from these, that a queue is never executed by two threads at a time and *)
(* that its jobs are begun in their order; and then that the scheduler     *)
(* implements SerialExecutor.                                              *)
(***************************************************************************)
EXTENDS JobQueue, FiniteSetTheorems, SequenceTheorems, TLAPS

\* A null pointer is neither a queue nor a job.
LEMMA NoneApart == (\A q \in Queues : q # None) /\ (\A j \in Jobs : j # None)
BY JobQueueAssumption DEF JobQueueAssumption

\* A job is pushed to a queue.
LEMMA TargetType == \A j \in Jobs : Target[j] \in Queues
BY JobQueueAssumption DEF JobQueueAssumption

\* A job submits jobs.
LEMMA CallsType == \A j \in Jobs : Calls[j] \in Seq(Jobs)
BY JobQueueAssumption DEF JobQueueAssumption

-----------------------------------------------------------------------------
(* The variables are well typed and the locals of a thread go together;    *)
(* this much is inductive on its own.                                      *)
TypeInv == TypeOK /\ Shape

\* Types and shape hold initially.
LEMMA InitTypeInv == Init => TypeInv
<1>1. Init => TypeOK
  BY DEF Init, TypeOK, Pcs, Slices
<1>2. Init => Shape
  BY DEF Init, Shape
<1> QED BY <1>1, <1>2 DEF TypeInv

\* Every step keeps types and shape.
LEMMA NextTypeInv == TypeInv /\ [Next]_vars => TypeInv'
<1> SUFFICES ASSUME TypeOK, Shape, [Next]_vars PROVE TypeOK' /\ Shape'
  BY DEF TypeInv
<1> USE DEF shared, history
<1>1. ASSUME NEW t \in Threads, Tick(t) PROVE TypeOK' /\ Shape'
  <2>1. TypeOK'
    BY <1>1 DEF Tick, TypeOK, Slices
  <2>2. Shape'
    BY <1>1 DEF Tick, Shape
  <2> QED BY <2>1, <2>2
<1>2. ASSUME NEW t \in Threads, Handler(t) PROVE TypeOK' /\ Shape'
  <2>1. TypeOK'
    BY <1>2 DEF Handler, TypeOK, Pcs, Roots
  <2>2. Shape'
    BY <1>2, NoneApart DEF Handler, Shape, TypeOK, Roots
  <2> QED BY <2>1, <2>2
<1>3. ASSUME NEW t \in Threads, EndDispatch(t) PROVE TypeOK' /\ Shape'
  <2>1. TypeOK'
    BY <1>3 DEF EndDispatch, TypeOK, Pcs
  <2>2. Shape'
    BY <1>3 DEF EndDispatch, Shape, TypeOK
  <2> QED BY <2>1, <2>2
<1>4. ASSUME NEW t \in Threads, TakeGlobal(t) PROVE TypeOK' /\ Shape'
  <2>1. Head(globalQueue) \in Queues /\ Tail(globalQueue) \in Seq(Queues)
    BY <1>4 DEF TakeGlobal, TypeOK
  <2>2. TypeOK'
    BY <1>4, <2>1 DEF TakeGlobal, TypeOK, Pcs
  <2>3. Shape'
    BY <1>4, <2>1, NoneApart DEF TakeGlobal, Shape, TypeOK
  <2> QED BY <2>2, <2>3
<1>5. ASSUME NEW t \in Threads, EndGlobal(t) PROVE TypeOK' /\ Shape'
  <2>1. TypeOK'
    BY <1>5 DEF EndGlobal, TypeOK, Pcs, Slices
  <2>2. Shape'
    BY <1>5 DEF EndGlobal, Shape, TypeOK
  <2> QED BY <2>1, <2>2
<1>6. ASSUME NEW t \in Threads, CountJob(t) PROVE TypeOK' /\ Shape'
  <2>1. Target[pushing[t]] \in Queues
    BY <1>6, TargetType DEF CountJob, TypeOK, Shape
  <2>2. first' \in [Threads -> BOOLEAN]
    BY <1>6 DEF CountJob, TypeOK
  <2>3. jobCount' \in [Queues -> Int]
    BY <1>6, <2>1 DEF CountJob, TypeOK
  <2>4. pc' \in [Threads -> Pcs]
    BY <1>6 DEF CountJob, TypeOK, Pcs
  <2>5. TypeOK'
    BY <1>6, <2>2, <2>3, <2>4 DEF CountJob, TypeOK
  <2>6. Shape'
    BY <1>6 DEF CountJob, Shape, TypeOK
  <2> QED BY <2>5, <2>6
<1>7. ASSUME NEW t \in Threads, EnqueueJob(t) PROVE TypeOK' /\ Shape'
  <2>1. pushing[t] \in Jobs /\ pushing[t] # None
    BY <1>7, NoneApart DEF EnqueueJob, TypeOK, Shape
  <2>2. Target[pushing[t]] \in Queues /\ Target[pushing[t]] # None
    BY <2>1, TargetType, NoneApart
  <2>3. TypeOK'
    <3>1. jobs' \in [Queues -> Seq(Jobs)]
      BY <1>7, <2>1, <2>2 DEF EnqueueJob, TypeOK
    <3>2. arrived' \in [Queues -> Seq(Jobs)]
      BY <1>7, <2>1, <2>2 DEF EnqueueJob, TypeOK
    <3>3. /\ pushing' \in [Threads -> Jobs \cup {None}]
          /\ first' \in [Threads -> BOOLEAN]
      BY <1>7 DEF EnqueueJob, TypeOK
    <3>4. pc' \in [Threads -> Pcs]
      BY <1>7 DEF EnqueueJob, TypeOK, Pcs
    <3>5. /\ current' \in [Threads -> Queues \cup {None}]
          /\ handing' \in [Threads -> Queues \cup {None}]
      BY <1>7, <2>2 DEF EnqueueJob, TypeOK
    <3> QED BY <1>7, <3>1, <3>2, <3>3, <3>4, <3>5 DEF EnqueueJob, TypeOK
  <2> SUFFICES Shape'
    BY <2>3
  <2>4. CASE ~first[t]
    BY <1>7, <2>1, <2>2, <2>4 DEF EnqueueJob, TypeOK, Shape
  <2>5. CASE first[t] /\ current[t] = None
    <3>1. batch[t] = <<>> /\ handing[t] = None /\ ran[t] <= 0
      BY <1>7, <2>5 DEF EnqueueJob, Shape
    <3>2. /\ pc' = [pc EXCEPT ![t] = "pop"]
          /\ current' = [current EXCEPT ![t] = Target[pushing[t]]]
          /\ pushing' = [pushing EXCEPT ![t] = None]
          /\ first' = [first EXCEPT ![t] = FALSE]
          /\ UNCHANGED <<handing, batch, ran>>
      BY <1>7, <2>5 DEF EnqueueJob
    <3> QED BY <2>2, <3>1, <3>2 DEF TypeOK, Shape
  <2>6. CASE first[t] /\ current[t] # None
    BY <1>7, <2>1, <2>2, <2>6 DEF EnqueueJob, TypeOK, Shape
  <2> QED BY <2>4, <2>5, <2>6
<1>8. ASSUME NEW t \in Threads, HandOver(t) PROVE TypeOK' /\ Shape'
  <2>1. handing[t] \in Queues
    BY <1>8 DEF HandOver, TypeOK, Shape
  <2>2. TypeOK'
    BY <1>8, <2>1 DEF HandOver, TypeOK, Pcs
  <2>3. Shape'
    BY <1>8 DEF HandOver, Shape, TypeOK
  <2> QED BY <2>2, <2>3
<1>9. ASSUME NEW t \in Threads, PopAll(t) PROVE TypeOK' /\ Shape'
  <2>1. current[t] \in Queues
    BY <1>9 DEF PopAll, TypeOK, Shape
  <2>2. TypeOK'
    BY <1>9, <2>1 DEF PopAll, TypeOK, Pcs
  <2>3. Shape'
    BY <1>9, <2>1 DEF PopAll, Shape, TypeOK
  <2> QED BY <2>2, <2>3
<1>10. ASSUME NEW t \in Threads, StartJob(t) PROVE TypeOK' /\ Shape'
  <2>1. /\ current[t] \in Queues
        /\ ran[t] + 1 \in 1 .. Len(batch[t])
    BY <1>10 DEF StartJob, TypeOK, Shape
  <2>2. batch[t][ran[t] + 1] \in Jobs
    BY <2>1 DEF TypeOK
  <2>3. Calls[batch[t][ran[t] + 1]] \in Seq(Jobs)
    BY <2>2, CallsType
  <2>4. TypeOK'
    <3>1. calls' \in [Threads -> Seq(Jobs)]
      BY <1>10, <2>3 DEF StartJob, TypeOK
    <3>2. started' \in [Queues -> Seq(Jobs)]
      BY <1>10, <2>1, <2>2 DEF StartJob, TypeOK
    <3>3. ran' \in [Threads -> Nat] /\ pc' \in [Threads -> Pcs]
      BY <1>10 DEF StartJob, TypeOK, Pcs
    <3> QED BY <1>10, <3>1, <3>2, <3>3 DEF StartJob, TypeOK
  <2>5. Shape'
    BY <1>10, <2>1 DEF StartJob, Shape, TypeOK
  <2> QED BY <2>4, <2>5
<1>11. ASSUME NEW t \in Threads, CallDoAsync(t) PROVE TypeOK' /\ Shape'
  <2>1. Head(calls[t]) \in Jobs /\ Tail(calls[t]) \in Seq(Jobs)
    BY <1>11 DEF CallDoAsync, TypeOK
  <2>2. TypeOK'
    BY <1>11, <2>1 DEF CallDoAsync, TypeOK, Pcs
  <2>3. Shape'
    BY <1>11, <2>1, NoneApart DEF CallDoAsync, Shape, TypeOK
  <2> QED BY <2>2, <2>3
<1>12. ASSUME NEW t \in Threads, EndJob(t) PROVE TypeOK' /\ Shape'
  <2>1. TypeOK'
    BY <1>12 DEF EndJob, TypeOK, Pcs
  <2>2. Shape'
    BY <1>12 DEF EndJob, Shape, TypeOK
  <2> QED BY <2>1, <2>2
<1>13. ASSUME NEW t \in Threads, Settle(t) PROVE TypeOK' /\ Shape'
  <2> DEFINE left == jobCount[current[t]] - Len(batch[t])
  <2>1. /\ current[t] \in Queues
        /\ current[t] # None
        /\ caller[t] \in {"dispatch", "global"}
        /\ handing[t] = None
        /\ pushing[t] = None
    BY <1>13, NoneApart DEF Settle, SettleAt, TypeOK, Shape
  <2>2. TypeOK'
    <3>1. jobCount' \in [Queues -> Int]
      BY <1>13, <2>1 DEF Settle, SettleAt, TypeOK
    <3>2. batch' \in [Threads -> Seq(Jobs)] /\ ran' \in [Threads -> Nat]
      BY <1>13 DEF Settle, SettleAt, TypeOK
    <3>3. pc' \in [Threads -> Pcs]
      BY <1>13, <2>1 DEF Settle, SettleAt, TypeOK, Pcs
    <3>4. /\ current' \in [Threads -> Queues \cup {None}]
          /\ handing' \in [Threads -> Queues \cup {None}]
      BY <1>13, <2>1 DEF Settle, SettleAt, TypeOK
    <3> QED BY <1>13, <3>1, <3>2, <3>3, <3>4 DEF Settle, SettleAt, TypeOK
  <2> SUFFICES Shape'
    BY <2>2
  <2>3. CASE left = 0
    BY <1>13, <2>1, <2>3 DEF Settle, SettleAt, TypeOK, Shape
  <2>4. CASE left # 0 /\ slice[t] = "before"
    <3>1. first[t] = FALSE
      BY <1>13 DEF Settle, SettleAt, Shape, TypeOK
    <3>2. /\ pc' = [pc EXCEPT ![t] = "pop"]
          /\ batch' = [batch EXCEPT ![t] = <<>>]
          /\ ran' = [ran EXCEPT ![t] = 0]
          /\ UNCHANGED <<current, handing, pushing, first>>
      BY <1>13, <2>4 DEF Settle, SettleAt
    <3> QED BY <2>1, <3>1, <3>2 DEF TypeOK, Shape
  <2>5. CASE left # 0 /\ slice[t] # "before"
    <3>1. first[t] = FALSE
      BY <1>13 DEF Settle, SettleAt, Shape, TypeOK
    <3>2. /\ pc' = [pc EXCEPT ![t] = "hand"]
          /\ current' = [current EXCEPT ![t] = None]
          /\ handing' = [handing EXCEPT ![t] = current[t]]
          /\ batch' = [batch EXCEPT ![t] = <<>>]
          /\ ran' = [ran EXCEPT ![t] = 0]
          /\ UNCHANGED <<pushing, first>>
      BY <1>13, <2>5 DEF Settle, SettleAt
    <3> QED BY <2>1, <3>1, <3>2 DEF TypeOK, Shape
  <2> QED BY <2>3, <2>4, <2>5
<1>14. ASSUME NEW q \in Queues, ClearJob(q) PROVE TypeOK' /\ Shape'
  <2>1. cleared[q] \o jobs[q] \in Seq(Jobs)
    BY DEF TypeOK
  <2>2. SubSeq(arrived[q], 1, Len(arrived[q]) - Len(jobs[q])) \in Seq(Jobs)
    BY DEF TypeOK
  <2>3. TypeOK'
    BY <1>14, <2>1, <2>2 DEF ClearJob, TypeOK
  <2>4. Shape'
    BY <1>14 DEF ClearJob, Shape
  <2> QED BY <2>3, <2>4
<1>15. CASE UNCHANGED vars
  <2>1. TypeOK'
    BY <1>15 DEF vars, TypeOK
  <2>2. Shape'
    BY <1>15 DEF vars, Shape
  <2> QED BY <2>1, <2>2
<1> QED
  BY <1>1, <1>2, <1>3, <1>4, <1>5, <1>6, <1>7, <1>8, <1>9, <1>10, <1>11,
     <1>12, <1>13, <1>14, <1>15 DEF Next, Step

\* Every variable has its type in every reachable state: in particular the
\* pointers that JobQueue::Push and Execute follow are never null.
THEOREM TypeCorrect == Spec => [](TypeOK /\ Shape)
<1>1. Spec => []TypeInv
  BY InitTypeInv, NextTypeInv, PTL DEF Spec, SafetySpec
<1> QED BY <1>1, PTL DEF TypeInv

-----------------------------------------------------------------------------
(* Custody of a queue, and its count.  Custody says with predicates what   *)
(* OneCustodian says with a set of tagged holders.                         *)

\* Thread s has to see q executed.
Duty(s, q) ==
  \/ current[s] = q
  \/ first[s] /\ Target[pushing[s]] = q
  \/ handing[s] = q

CustodyOf(q) ==
  /\ jobCount[q] # 0 => \/ \E s \in Threads : Duty(s, q)
                        \/ \E k \in DOMAIN globalQueue : globalQueue[k] = q
  /\ \A s \in Threads : Duty(s, q) => jobCount[q] # 0
  /\ \A k \in DOMAIN globalQueue : globalQueue[k] = q => jobCount[q] # 0
  /\ \A s, u \in Threads : Duty(s, q) /\ Duty(u, q) => s = u
  /\ \A s \in Threads : current[s] = q => ~ (first[s] /\ Target[pushing[s]] = q)
  /\ \A s \in Threads : current[s] = q => handing[s] # q
  /\ \A k, l \in DOMAIN globalQueue : globalQueue[k] = q /\ globalQueue[l] = q => k = l
  /\ \A s \in Threads : \A k \in DOMAIN globalQueue : Duty(s, q) => globalQueue[k] # q

Custody == \A q \in Queues : CustodyOf(q)

Bookkeeping == Custody /\ CountExact

\* Popping a queue moves its other elements one place down.
LEMMA TailPlaces ==
  ASSUME NEW S, NEW s \in Seq(S), s # <<>>
  PROVE  /\ \A k \in DOMAIN Tail(s) :
              k \in Int /\ k + 1 \in DOMAIN s /\ Tail(s)[k] = s[k + 1] /\ k + 1 # 1
         /\ \A k \in DOMAIN s :
              k = 1 \/ (k - 1 \in DOMAIN Tail(s) /\ Tail(s)[k - 1] = s[k])
OBVIOUS

\* Pushing a queue leaves the places of the others.
LEMMA AppendPlaces ==
  ASSUME NEW S, NEW s \in Seq(S), NEW e
  PROVE  /\ DOMAIN Append(s, e) = DOMAIN s \cup {Len(s) + 1}
         /\ \A k \in DOMAIN s : Append(s, e)[k] = s[k]
         /\ Append(s, e)[Len(s) + 1] = e
         /\ Len(s) + 1 \notin DOMAIN s
<1>1. DOMAIN s = 1 .. Len(s) /\ DOMAIN Append(s, e) = 1 .. (Len(s) + 1) /\ Len(s) \in Nat
  OBVIOUS
<1>2. 1 .. (Len(s) + 1) = (1 .. Len(s)) \cup {Len(s) + 1} /\ Len(s) + 1 \notin 1 .. Len(s)
  BY <1>1
<1>3. \A k \in DOMAIN s : Append(s, e)[k] = s[k]
  OBVIOUS
<1>4. Append(s, e)[Len(s) + 1] = e
  OBVIOUS
<1> QED BY <1>1, <1>2, <1>3, <1>4

\* Only finitely many threads are in the middle of a Push.
LEMMA MidCardinality ==
  ASSUME NEW q \in Queues
  PROVE  IsFiniteSet(Mid(q)) /\ Cardinality(Mid(q)) \in Nat
<1>1. IsFiniteSet(Threads)
  BY JobQueueAssumption DEF JobQueueAssumption
<1>2. Mid(q) \subseteq Threads
  BY DEF Mid
<1> QED BY <1>1, <1>2, FS_Subset, FS_CardinalityType

\* A step that leaves the executors, the pushers, the handers and the global
\* queue alone leaves custody alone.
LEMMA SameCustody ==
  ASSUME Custody,
         UNCHANGED <<jobCount, current, first, handing, globalQueue>>,
         \A s \in Threads : first[s] => pushing'[s] = pushing[s]
  PROVE  Custody'
<1>1. \A s \in Threads, q \in Queues : Duty(s, q)' <=> Duty(s, q)
  BY DEF Duty
<1> QED BY <1>1 DEF Custody, CustodyOf

\* A step that leaves the queues, the batches and the threads inside a Push
\* alone leaves the count exact.
LEMMA SameCount ==
  ASSUME CountExact,
         UNCHANGED <<jobs, jobCount, cleared, current, batch>>,
         \A s \in Threads : (pc'[s] = "enqueue") <=> (pc[s] = "enqueue"),
         \A s \in Threads : pc[s] = "enqueue" => pushing'[s] = pushing[s]
  PROVE  CountExact'
<1>1. \A q \in Queues : Mid(q)' = Mid(q)
  BY DEF Mid
<1>2. \A q \in Queues : Executors(q)' = Executors(q)
  BY DEF Executors
<1> QED BY <1>1, <1>2 DEF CountExact, CountExactOf, KnownJobs

\* Nobody has custody initially, and the counts are zero.
LEMMA InitBookkeeping == Init => Bookkeeping
<1> SUFFICES ASSUME Init PROVE Bookkeeping
  OBVIOUS
<1>1. \A q \in Queues : Mid(q) = {}
  BY DEF Init, Mid
<1>2. \A q \in Queues : Executors(q) = {}
  BY NoneApart DEF Init, Executors
<1>3. \A s \in Threads, q \in Queues : ~ Duty(s, q)
  BY NoneApart DEF Init, Duty
<1>4. Custody
  BY <1>3 DEF Custody, CustodyOf, Init, Duty
<1>5. CountExact
  <2>1. \A q \in Queues : Cardinality(Mid(q)) = 0
    BY <1>1, FS_EmptySet
  <2>2. \A q \in Queues : jobCount[q] = 0 /\ Len(jobs[q]) = 0 /\ Len(cleared[q]) = 0
    BY DEF Init
  <2> QED BY <1>2, <2>1, <2>2 DEF CountExact, CountExactOf, KnownJobs
<1> QED BY <1>4, <1>5 DEF Bookkeeping

\* The parts of what a queue's count should be are natural numbers.
LEMMA KnownParts ==
  ASSUME TypeOK, NEW q \in Queues
  PROVE  /\ Len(jobs[q]) \in Nat /\ Len(cleared[q]) \in Nat
         /\ Cardinality(Mid(q)) \in Nat
         /\ KnownJobs(q) \in Nat
         /\ \A t \in Threads : Len(batch[t]) \in Nat
<1>1. Cardinality(Mid(q)) \in Nat
  BY MidCardinality
<1>2. Len(jobs[q]) \in Nat /\ Len(cleared[q]) \in Nat
  BY DEF TypeOK
<1>3. \A t \in Threads : Len(batch[t]) \in Nat
  BY DEF TypeOK
<1>4. KnownJobs(q) \in Nat
  BY <1>1, <1>2 DEF KnownJobs
<1> QED BY <1>1, <1>2, <1>3, <1>4

\* A count is never negative, and counts at least the executor's batch.
LEMMA CountBounds ==
  ASSUME TypeOK, CountExact, NEW q \in Queues
  PROVE  /\ jobCount[q] \in Nat
         /\ \A t \in Executors(q) : Len(batch[t]) <= jobCount[q]
<1>1. KnownJobs(q) \in Nat
  BY KnownParts
<1>2. CASE Executors(q) = {}
  BY <1>1, <1>2 DEF CountExact, CountExactOf
<1>3. ASSUME NEW t \in Executors(q)
      PROVE  jobCount[q] \in Nat /\ Len(batch[t]) <= jobCount[q]
  <2>1. Len(batch[t]) \in Nat
    BY KnownParts DEF Executors
  <2>2. jobCount[q] = KnownJobs(q) + Len(batch[t])
    BY DEF CountExact, CountExactOf
  <2> QED BY <1>1, <2>1, <2>2
<1> QED BY <1>2, <1>3

\* Every step keeps custody and counts right.
LEMMA NextBookkeeping ==
  TypeInv /\ TypeInv' /\ Bookkeeping /\ [Next]_vars => Bookkeeping'
<1> SUFFICES ASSUME TypeOK, Shape, TypeOK', Shape', Custody, CountExact,
                    [Next]_vars
             PROVE  Custody' /\ CountExact'
  BY DEF TypeInv, Bookkeeping
<1> USE DEF shared, history
<1>1. ASSUME NEW t \in Threads, Tick(t) PROVE Custody' /\ CountExact'
  BY <1>1, SameCustody, SameCount DEF Tick
<1>2. ASSUME NEW t \in Threads, Handler(t) PROVE Custody' /\ CountExact'
  <2>1. \A s \in Threads : pc[s] = "enqueue" \/ first[s] => pushing'[s] = pushing[s]
    BY <1>2 DEF Handler, Shape, TypeOK
  <2>2. \A s \in Threads : pc'[s] = "enqueue" <=> pc[s] = "enqueue"
    BY <1>2 DEF Handler, TypeOK
  <2> QED BY <1>2, <2>1, <2>2, SameCustody, SameCount DEF Handler
<1>3. ASSUME NEW t \in Threads, EndDispatch(t) PROVE Custody' /\ CountExact'
  <2>1. \A s \in Threads : pc'[s] = "enqueue" <=> pc[s] = "enqueue"
    BY <1>3 DEF EndDispatch, TypeOK
  <2> QED BY <1>3, <2>1, SameCustody, SameCount DEF EndDispatch
<1>4. ASSUME NEW t \in Threads, TakeGlobal(t) PROVE Custody' /\ CountExact'
  <2> PICK q \in Queues : q = Head(globalQueue)
    BY <1>4 DEF TakeGlobal, TypeOK
  <2>1. q # None /\ globalQueue[1] = q /\ 1 \in DOMAIN globalQueue
    BY <1>4, NoneApart DEF TakeGlobal, TypeOK
  <2>2. /\ current[t] = None
        /\ batch[t] = <<>>
        /\ \A s \in Threads : s # t => current'[s] = current[s]
        /\ \A s \in Threads : pc'[s] = "enqueue" <=> pc[s] = "enqueue"
        /\ current'[t] = q
        /\ first[t] = FALSE /\ handing[t] = None
        /\ UNCHANGED <<first, pushing, handing, jobCount, jobs, batch, cleared>>
    BY <1>4 DEF TakeGlobal, TypeOK, Shape
  <2>3. globalQueue \in Seq(Queues) /\ globalQueue # <<>> /\ globalQueue' = Tail(globalQueue)
    BY <1>4 DEF TakeGlobal, TypeOK
  <2>4. \A k \in DOMAIN globalQueue' :
           /\ k \in Int /\ k + 1 \in DOMAIN globalQueue /\ k + 1 # 1
           /\ globalQueue'[k] = globalQueue[k + 1]
    BY <2>3, TailPlaces
  <2>5. \A k \in DOMAIN globalQueue :
           k = 1 \/ (k - 1 \in DOMAIN globalQueue' /\ globalQueue'[k - 1] = globalQueue[k])
    BY <2>3, TailPlaces
  <2>6. \A s \in Threads, r \in Queues :
           Duty(s, r)' <=> Duty(s, r) \/ (s = t /\ r = q)
    BY <2>1, <2>2, NoneApart DEF Duty
  <2>7. Custody'
    <3>1. ASSUME NEW r \in Queues, r # q PROVE CustodyOf(r)'
      <4>1. CustodyOf(r)
        BY DEF Custody
      <4> QED BY <2>1, <2>2, <2>4, <2>5, <2>6, <3>1, <4>1 DEF CustodyOf
    <3>2. CustodyOf(q)'
      <4>1. CustodyOf(q)
        BY <2>1 DEF Custody
      <4>2. \A s \in Threads : ~ Duty(s, q)
        BY <2>1, <4>1 DEF CustodyOf
      <4>3. \A k \in DOMAIN globalQueue' : globalQueue'[k] # q
        BY <2>1, <2>4, <4>1 DEF CustodyOf
      <4>4. jobCount'[q] # 0
        BY <2>1, <2>2, <4>1 DEF CustodyOf
      <4>5. \A s \in Threads : Duty(s, q)' <=> s = t
        BY <2>6, <4>2
      <4>6. \A s \in Threads : current'[s] = q => s = t
        BY <4>5 DEF Duty
      <4> QED BY <2>1, <2>2, <4>3, <4>4, <4>5, <4>6 DEF CustodyOf
    <3> QED BY <3>1, <3>2 DEF Custody
  <2>8. \A r \in Queues : Mid(r)' = Mid(r)
    BY <2>2 DEF Mid
  <2>9. CountExact'
    <3>1. ASSUME NEW r \in Queues, r # q PROVE CountExactOf(r)'
      <4>1. Executors(r)' = Executors(r)
        BY <2>2, <3>1, NoneApart DEF Executors
      <4>2. CountExactOf(r)
        BY DEF CountExact
      <4> QED BY <2>2, <2>8, <4>1, <4>2 DEF CountExactOf, KnownJobs
    <3>2. CountExactOf(q)'
      <4>1. \A s \in Threads : current[s] # q
        BY <2>1 DEF Custody, CustodyOf, Duty
      <4>2. Executors(q) = {} /\ Executors(q)' = {t}
        BY <2>2, <4>1 DEF Executors
      <4>3. jobCount'[q] = KnownJobs(q)' /\ jobCount'[q] \in Int
        BY <2>2, <2>8, <4>2 DEF CountExact, CountExactOf, KnownJobs, TypeOK
      <4> QED BY <2>2, <4>2, <4>3 DEF CountExactOf
    <3> QED BY <3>1, <3>2 DEF CountExact
  <2> QED BY <2>7, <2>9
<1>5. ASSUME NEW t \in Threads, EndGlobal(t) PROVE Custody' /\ CountExact'
  <2>1. \A s \in Threads : pc'[s] = "enqueue" <=> pc[s] = "enqueue"
    BY <1>5 DEF EndGlobal, TypeOK
  <2> QED BY <1>5, <2>1, SameCustody, SameCount DEF EndGlobal
<1>6. ASSUME NEW t \in Threads, CountJob(t) PROVE Custody' /\ CountExact'
  <2> PICK q \in Queues : q = Target[pushing[t]]
    BY <1>6, TargetType DEF CountJob, TypeOK, Shape
  <2>1. /\ first' = [first EXCEPT ![t] = jobCount[q] = 0]
        /\ jobCount' = [jobCount EXCEPT ![q] = @ + 1]
        /\ pc' = [pc EXCEPT ![t] = "enqueue"]
        /\ pc[t] = "count"
        /\ first[t] = FALSE
        /\ handing[t] = None
        /\ UNCHANGED <<jobs, globalQueue, current, pushing, handing, batch, cleared>>
    BY <1>6 DEF CountJob, Shape, TypeOK
  <2>2. jobCount[q] \in Nat /\ jobCount'[q] = jobCount[q] + 1
    BY <2>1, CountBounds DEF TypeOK
  <2>3. jobCount'[q] # 0
    BY <2>2
  <2>4. /\ first'[t] <=> jobCount[q] = 0
        /\ \A s \in Threads : s # t => first'[s] = first[s]
    BY <2>1 DEF TypeOK
  <2>5. \A s \in Threads, r \in Queues :
           Duty(s, r)' <=> Duty(s, r) \/ (s = t /\ r = q /\ jobCount[q] = 0)
    BY <2>1, <2>4 DEF Duty
  <2>6. ASSUME NEW r \in Queues, r # q PROVE CustodyOf(r)'
    <3>1. CustodyOf(r) /\ jobCount'[r] = jobCount[r]
      BY <2>1, <2>6 DEF Custody, TypeOK
    <3>2. \A s \in Threads : Duty(s, r)' <=> Duty(s, r)
      BY <2>5, <2>6
    <3> QED BY <2>1, <2>4, <2>6, <3>1, <3>2 DEF CustodyOf
  <2>7. CustodyOf(q)'
    <3>1. CustodyOf(q)
      BY DEF Custody
    <3>2. CASE jobCount[q] = 0
      <4>1. /\ \A s \in Threads : ~ Duty(s, q)
            /\ \A k \in DOMAIN globalQueue : globalQueue[k] # q
        BY <3>1, <3>2 DEF CustodyOf
      <4>2. \A s \in Threads : current[s] # q
        BY <4>1 DEF Duty
      <4>3. \A s \in Threads : Duty(s, q)' <=> s = t
        BY <2>5, <3>2, <4>1
      <4> QED BY <2>1, <2>3, <4>1, <4>2, <4>3 DEF CustodyOf
    <3>3. CASE jobCount[q] # 0
      <4>1. \A s \in Threads : Duty(s, q)' <=> Duty(s, q)
        BY <2>5, <3>3
      <4> QED BY <2>1, <2>3, <2>4, <3>1, <3>3, <4>1 DEF CustodyOf
    <3> QED BY <3>2, <3>3
  <2>8. ASSUME NEW r \in Queues, r # q PROVE CountExactOf(r)'
    <3>1. Mid(r)' = Mid(r)
      BY <2>1, <2>8 DEF Mid, TypeOK
    <3>2. Executors(r)' = Executors(r) /\ jobCount'[r] = jobCount[r]
      BY <2>1, <2>8 DEF Executors, TypeOK
    <3> QED BY <2>1, <3>1, <3>2 DEF CountExact, CountExactOf, KnownJobs
  <2>9. CountExactOf(q)'
    <3>1. Mid(q)' = Mid(q) \cup {t} /\ t \notin Mid(q)
      <4>1. \A s \in Threads : pc'[s] = "enqueue" <=> pc[s] = "enqueue" \/ s = t
        BY <2>1 DEF TypeOK
      <4>2. \A s \in Threads : pushing'[s] = pushing[s]
        BY <2>1
      <4> QED BY <2>1, <4>1, <4>2 DEF Mid
    <3>2. Cardinality(Mid(q)') = Cardinality(Mid(q)) + 1
      BY <3>1, MidCardinality, FS_AddElement
    <3>3. Executors(q)' = Executors(q)
      BY <2>1 DEF Executors
    <3>4. KnownJobs(q) \in Nat /\ \A s \in Threads : Len(batch[s]) \in Nat
      BY KnownParts
    <3>5. KnownJobs(q)' = KnownJobs(q) + 1
      <4> DEFINE a == Len(jobs[q])
                 b == Cardinality(Mid(q))
                 c == Len(cleared[q])
      <4>1. a \in Nat /\ b \in Nat /\ c \in Nat /\ KnownJobs(q) = a + b + c
        BY KnownParts DEF KnownJobs
      <4>2. KnownJobs(q)' = a + (b + 1) + c
        BY <2>1, <3>2 DEF KnownJobs
      <4> HIDE DEF a, b, c
      <4> QED BY <4>1, <4>2
    <3>6. CountExactOf(q)
      BY DEF CountExact
    <3>7. ASSUME Executors(q) = {} PROVE jobCount'[q] = KnownJobs(q)'
      BY <2>2, <3>4, <3>5, <3>6, <3>7 DEF CountExactOf
    <3>8. ASSUME NEW s \in Executors(q)
          PROVE  jobCount'[q] = KnownJobs(q)' + Len(batch[s])
      <4>1. Len(batch[s]) \in Nat
        BY <3>4 DEF Executors
      <4> QED BY <2>2, <3>4, <3>5, <3>6, <4>1 DEF CountExactOf
    <3> QED BY <2>1, <3>3, <3>7, <3>8 DEF CountExactOf
  <2> QED BY <2>6, <2>7, <2>8, <2>9 DEF Custody, CountExact
<1>7. ASSUME NEW t \in Threads, EnqueueJob(t) PROVE Custody' /\ CountExact'
  <2> PICK q \in Queues : q = Target[pushing[t]]
    BY <1>7, TargetType DEF EnqueueJob, TypeOK, Shape
  <2>1. /\ jobs' = [jobs EXCEPT ![q] = Append(@, pushing[t])]
        /\ pushing' = [pushing EXCEPT ![t] = None]
        /\ first' = [first EXCEPT ![t] = FALSE]
        /\ pc[t] = "enqueue"
        /\ handing[t] = None
        /\ q # None
        /\ UNCHANGED <<globalQueue, jobCount, batch, cleared>>
    BY <1>7, NoneApart DEF EnqueueJob, Shape
  <2>2. /\ first'[t] = FALSE
        /\ \A s \in Threads : s # t => first'[s] = first[s] /\ pushing'[s] = pushing[s]
        /\ pc'[t] # "enqueue"
        /\ \A s \in Threads : s # t => pc'[s] = pc[s]
    <3>1. /\ first' = [first EXCEPT ![t] = FALSE]
          /\ pushing' = [pushing EXCEPT ![t] = None]
      BY <1>7 DEF EnqueueJob
    <3>2. \E p \in {"dispatch", "body", "pop", "hand"} : pc' = [pc EXCEPT ![t] = p]
      BY <1>7, Zenon DEF EnqueueJob
    <3>3. /\ first \in [Threads -> BOOLEAN] /\ pc \in [Threads -> Pcs]
          /\ pushing \in [Threads -> Jobs \cup {None}]
      BY DEF TypeOK
    <3> QED BY <3>1, <3>2, <3>3
  <2>3. /\ \A r \in Queues : r # q => Mid(r)' = Mid(r)
        /\ Mid(q)' = Mid(q) \ {t}
        /\ t \in Mid(q)
    BY <2>1, <2>2 DEF Mid
  <2>4. /\ \A r \in Queues : r # q => KnownJobs(r)' = KnownJobs(r)
        /\ KnownJobs(q)' = KnownJobs(q)
    <3>1. Cardinality(Mid(q)') = Cardinality(Mid(q)) - 1
      BY <2>3, MidCardinality, FS_RemoveElement
    <3>2. Len(jobs'[q]) = Len(jobs[q]) + 1
      BY <2>1, <1>7, NoneApart DEF TypeOK, Shape
    <3>3. Len(jobs[q]) \in Nat /\ Len(cleared[q]) \in Nat /\ Cardinality(Mid(q)) \in Nat
      BY KnownParts
    <3>4. \A r \in Queues : r # q => jobs'[r] = jobs[r]
      BY <2>1 DEF TypeOK
    <3>5. \A r \in Queues : Len(cleared'[r]) = Len(cleared[r])
      BY <2>1
    <3>6. KnownJobs(q)' = KnownJobs(q)
      <4> DEFINE a == Len(jobs[q])
                 b == Cardinality(Mid(q))
                 c == Len(cleared[q])
      <4>1. a \in Nat /\ b \in Nat /\ c \in Nat /\ KnownJobs(q) = a + b + c
        BY <3>3 DEF KnownJobs
      <4>2. KnownJobs(q)' = (a + 1) + (b - 1) + c
        BY <3>1, <3>2, <3>5 DEF KnownJobs
      <4> HIDE DEF a, b, c
      <4> QED BY <4>1, <4>2
    <3> QED BY <2>3, <3>4, <3>5, <3>6 DEF KnownJobs
  <2>5. CASE ~ first[t]
    <3>1. UNCHANGED <<current, handing, first>>
      BY <1>7, <2>1, <2>5 DEF EnqueueJob, TypeOK
    <3>2. Custody'
      BY <2>1, <2>2, <2>5, <3>1, SameCustody
    <3>3. \A r \in Queues : Executors(r)' = Executors(r) /\ KnownJobs(r)' = KnownJobs(r)
      BY <2>4, <3>1 DEF Executors
    <3>4. CountExact'
      BY <2>1, <3>3 DEF CountExact, CountExactOf
    <3> QED BY <3>2, <3>4
  <2>6. CASE first[t]
    <3>1. CustodyOf(q) /\ Duty(t, q)
      BY <2>6 DEF Custody, Duty
    <3>2. /\ jobCount[q] # 0
          /\ \A s \in Threads : Duty(s, q) => s = t
          /\ \A k \in DOMAIN globalQueue : globalQueue[k] # q
      BY <3>1 DEF CustodyOf
    <3>3. current[t] # q
      BY <2>1, <2>6, <3>1, NoneApart DEF CustodyOf
    <3>4. \A s \in Threads : current[s] # q
      BY <3>2, <3>3 DEF Duty
    <3>5. CASE current[t] = None
      <4>1. /\ current' = [current EXCEPT ![t] = q]
            /\ handing' = handing
        BY <1>7, <2>6, <3>5 DEF EnqueueJob
      <4>2. /\ current'[t] = q
            /\ \A s \in Threads : s # t => current'[s] = current[s]
        BY <4>1 DEF TypeOK
      <4>3. \A s \in Threads, r \in Queues : Duty(s, r)' <=> Duty(s, r)
        BY <2>1, <2>2, <2>6, <3>5, <4>1, <4>2, NoneApart DEF Duty
      <4>4. Custody'
        <5>1. ASSUME NEW r \in Queues PROVE CustodyOf(r)'
          <6>1. CustodyOf(r)
            BY DEF Custody
          <6> QED BY <2>1, <2>2, <4>1, <4>2, <4>3, <6>1, NoneApart DEF CustodyOf
        <5> QED BY <5>1 DEF Custody
      <4>5. CountExact'
        <5>1. Executors(q) = {} /\ Executors(q)' = {t}
          BY <3>4, <4>2 DEF Executors
        <5>2. \A r \in Queues : r # q => Executors(r)' = Executors(r)
          BY <3>5, <4>2, NoneApart DEF Executors
        <5>3. batch[t] = <<>>
          BY <3>5 DEF Shape
        <5>4. KnownJobs(q) \in Nat /\ jobCount[q] = KnownJobs(q)
          BY <5>1, KnownParts DEF CountExact, CountExactOf
        <5>5. CountExactOf(q)'
          BY <2>1, <2>4, <5>1, <5>3, <5>4 DEF CountExactOf
        <5>6. \A r \in Queues : r # q => CountExactOf(r)'
          BY <2>1, <2>4, <5>2 DEF CountExact, CountExactOf
        <5> QED BY <5>5, <5>6 DEF CountExact
      <4> QED BY <4>4, <4>5
    <3>6. CASE current[t] # None
      <4>1. /\ handing' = [handing EXCEPT ![t] = q]
            /\ current' = current
        BY <1>7, <2>6, <3>6 DEF EnqueueJob
      <4>2. /\ handing'[t] = q
            /\ \A s \in Threads : s # t => handing'[s] = handing[s]
        BY <4>1 DEF TypeOK
      <4>3. \A s \in Threads, r \in Queues : Duty(s, r)' <=> Duty(s, r)
        BY <2>1, <2>2, <2>6, <4>1, <4>2, NoneApart DEF Duty
      <4>4. Custody'
        <5>1. ASSUME NEW r \in Queues PROVE CustodyOf(r)'
          <6>1. CustodyOf(r)
            BY DEF Custody
          <6> QED BY <2>1, <2>2, <3>4, <4>1, <4>2, <4>3, <6>1 DEF CustodyOf
        <5> QED BY <5>1 DEF Custody
      <4>5. \A r \in Queues : Executors(r)' = Executors(r) /\ KnownJobs(r)' = KnownJobs(r)
        BY <2>4, <4>1 DEF Executors
      <4>6. CountExact'
        BY <2>1, <4>5 DEF CountExact, CountExactOf
      <4> QED BY <4>4, <4>6
    <3> QED BY <3>5, <3>6
  <2> QED BY <2>5, <2>6
<1>8. ASSUME NEW t \in Threads, HandOver(t) PROVE Custody' /\ CountExact'
  <2> PICK q \in Queues : q = handing[t]
    BY <1>8 DEF HandOver, TypeOK, Shape
  <2>1. /\ globalQueue' = Append(globalQueue, q)
        /\ handing' = [handing EXCEPT ![t] = None]
        /\ first[t] = FALSE
        /\ q # None
        /\ \A s \in Threads : pc'[s] = "enqueue" <=> pc[s] = "enqueue"
        /\ UNCHANGED <<jobs, jobCount, current, pushing, first, batch, cleared>>
    BY <1>8, NoneApart DEF HandOver, Shape, TypeOK
  <2>2. /\ handing'[t] = None
        /\ \A s \in Threads : s # t => handing'[s] = handing[s]
    BY <2>1 DEF TypeOK
  <2>3. CountExact'
    BY <2>1, SameCount
  <2>4. /\ jobCount[q] # 0
        /\ \A s \in Threads : Duty(s, q) <=> s = t
        /\ \A k \in DOMAIN globalQueue : globalQueue[k] # q
        /\ current[t] # q
    BY DEF Custody, CustodyOf, Duty
  <2>5. \A s \in Threads, r \in Queues : r # q => (Duty(s, r)' <=> Duty(s, r))
    BY <2>1, <2>2, NoneApart DEF Duty
  <2>6. \A s \in Threads : ~ Duty(s, q)'
    BY <2>1, <2>2, <2>4, NoneApart DEF Duty
  <2>7. \A s \in Threads : current'[s] # q
    BY <2>6 DEF Duty
  <2>8. /\ DOMAIN globalQueue' = DOMAIN globalQueue \cup {Len(globalQueue) + 1}
        /\ \A k \in DOMAIN globalQueue : globalQueue'[k] = globalQueue[k]
        /\ globalQueue'[Len(globalQueue) + 1] = q
        /\ Len(globalQueue) + 1 \notin DOMAIN globalQueue
    <3>1. globalQueue \in Seq(Queues)
      BY DEF TypeOK
    <3> QED BY <2>1, <3>1, AppendPlaces
  <2>9. ASSUME NEW r \in Queues, r # q PROVE CustodyOf(r)'
    <3>1. CustodyOf(r)
      BY DEF Custody
    <3> QED BY <2>1, <2>2, <2>5, <2>8, <2>9, <3>1, NoneApart DEF CustodyOf
  <2>10. CustodyOf(q)'
    BY <2>1, <2>4, <2>6, <2>7, <2>8 DEF CustodyOf
  <2> QED BY <2>3, <2>9, <2>10 DEF Custody
<1>9. ASSUME NEW t \in Threads, PopAll(t) PROVE Custody' /\ CountExact'
  <2> PICK q \in Queues : q = current[t]
    BY <1>9 DEF PopAll, TypeOK, Shape
  <2>1. /\ batch' = [batch EXCEPT ![t] = jobs[q]]
        /\ jobs' = [jobs EXCEPT ![q] = <<>>]
        /\ batch[t] = <<>>
        /\ \A s \in Threads : pc'[s] = "enqueue" <=> pc[s] = "enqueue"
        /\ UNCHANGED <<jobCount, globalQueue, current, pushing, first, handing, cleared>>
    BY <1>9 DEF PopAll, Shape, TypeOK
  <2>2. Custody'
    BY <2>1, SameCustody
  <2>3. \A r \in Queues : Executors(r)' = Executors(r) /\ Mid(r)' = Mid(r)
    BY <2>1 DEF Executors, Mid
  <2>4. ASSUME NEW r \in Queues, r # q PROVE CountExactOf(r)'
    <3>1. jobs'[r] = jobs[r] /\ t \notin Executors(r)
      BY <2>1, <2>4 DEF TypeOK, Executors
    <3>2. KnownJobs(r)' = KnownJobs(r)
      BY <2>1, <2>3, <3>1 DEF KnownJobs
    <3>3. \A s \in Executors(r) : batch'[s] = batch[s]
      BY <2>1, <3>1 DEF TypeOK, Executors
    <3> QED BY <2>1, <2>3, <3>2, <3>3 DEF CountExact, CountExactOf
  <2>5. CountExactOf(q)'
    <3> DEFINE a == Len(jobs[q])
               b == Cardinality(Mid(q))
               c == Len(cleared[q])
    <3>1. a \in Nat /\ b \in Nat /\ c \in Nat /\ KnownJobs(q) = a + b + c
      BY KnownParts DEF KnownJobs
    <3>2. t \in Executors(q) /\ Executors(q)' = {t}
      BY <2>3 DEF Executors, Custody, CustodyOf, Duty
    <3>3. jobCount'[q] = KnownJobs(q) + 0
      BY <2>1, <3>2 DEF CountExact, CountExactOf
    <3>4. KnownJobs(q)' = 0 + b + c
      BY <2>1, <2>3 DEF KnownJobs, TypeOK
    <3>5. Len(batch'[t]) = a
      BY <2>1 DEF TypeOK
    <3>6. jobCount'[q] = KnownJobs(q)' + a
      <4> HIDE DEF a, b, c
      <4> QED BY <3>1, <3>3, <3>4
    <3> QED BY <3>2, <3>5, <3>6 DEF CountExactOf
  <2> QED BY <2>2, <2>4, <2>5 DEF CountExact
<1>10. ASSUME NEW t \in Threads, StartJob(t) PROVE Custody' /\ CountExact'
  <2>1. \A s \in Threads : pc'[s] = "enqueue" <=> pc[s] = "enqueue"
    BY <1>10 DEF StartJob, TypeOK
  <2> QED BY <1>10, <2>1, SameCustody, SameCount DEF StartJob
<1>11. ASSUME NEW t \in Threads, CallDoAsync(t) PROVE Custody' /\ CountExact'
  <2>1. \A s \in Threads : pc[s] = "enqueue" \/ first[s] => pushing'[s] = pushing[s]
    BY <1>11 DEF CallDoAsync, Shape, TypeOK
  <2>2. \A s \in Threads : pc'[s] = "enqueue" <=> pc[s] = "enqueue"
    BY <1>11 DEF CallDoAsync, TypeOK
  <2> QED BY <1>11, <2>1, <2>2, SameCustody, SameCount DEF CallDoAsync
<1>12. ASSUME NEW t \in Threads, EndJob(t) PROVE Custody' /\ CountExact'
  <2>1. \A s \in Threads : pc'[s] = "enqueue" <=> pc[s] = "enqueue"
    BY <1>12 DEF EndJob, TypeOK
  <2> QED BY <1>12, <2>1, SameCustody, SameCount DEF EndJob
<1>13. ASSUME NEW t \in Threads, Settle(t) PROVE Custody' /\ CountExact'
  <2> PICK q \in Queues : q = current[t]
    BY <1>13 DEF Settle, SettleAt, TypeOK, Shape
  <2> DEFINE left == jobCount[q] - Len(batch[t])
  <2>1. /\ jobCount' = [jobCount EXCEPT ![q] = left]
        /\ batch' = [batch EXCEPT ![t] = <<>>]
        /\ first[t] = FALSE
        /\ handing[t] = None
        /\ q # None
        /\ \A s \in Threads : pc'[s] = "enqueue" <=> pc[s] = "enqueue"
        /\ UNCHANGED <<jobs, globalQueue, pushing, first, cleared>>
    BY <1>13, NoneApart DEF Settle, SettleAt, Shape, TypeOK
  <2>2. /\ jobCount'[q] = left
        /\ \A r \in Queues : r # q => jobCount'[r] = jobCount[r]
        /\ batch'[t] = <<>>
        /\ \A s \in Threads : s # t => batch'[s] = batch[s]
    BY <2>1 DEF TypeOK
  <2>3. \A r \in Queues : KnownJobs(r)' = KnownJobs(r)
    <3>1. \A r \in Queues : Mid(r)' = Mid(r)
      BY <2>1 DEF Mid
    <3> QED BY <2>1, <3>1 DEF KnownJobs
  <2>4. /\ Executors(q) = {t}
        /\ \A s \in Threads : Duty(s, q) <=> s = t
        /\ \A k \in DOMAIN globalQueue : globalQueue[k] # q
    BY DEF Custody, CustodyOf, Duty, Executors
  <2>5. left = KnownJobs(q) /\ left \in Nat
    <3>1. jobCount[q] = KnownJobs(q) + Len(batch[t])
      BY <2>4 DEF CountExact, CountExactOf
    <3>2. KnownJobs(q) \in Nat /\ Len(batch[t]) \in Nat
      BY KnownParts
    <3> DEFINE n == Len(batch[t])
    <3>3. jobCount[q] = KnownJobs(q) + n /\ n \in Nat
      BY <3>1, <3>2
    <3> HIDE DEF n
    <3>4. jobCount[q] - n = KnownJobs(q)
      BY <3>2, <3>3
    <3> QED BY <3>2, <3>4 DEF n
  <2> HIDE DEF left
  <2>6. CASE left = 0
    <3>1. /\ current' = [current EXCEPT ![t] = None]
          /\ handing' = handing
      BY <1>13, <2>6 DEF Settle, SettleAt, left
    <3>2. current'[t] = None /\ \A s \in Threads : s # t => current'[s] = current[s]
      BY <3>1 DEF TypeOK
    <3>3. /\ \A s \in Threads : ~ Duty(s, q)'
          /\ \A s \in Threads, r \in Queues : r # q => (Duty(s, r)' <=> Duty(s, r))
      BY <2>1, <2>4, <3>1, <3>2, NoneApart DEF Duty
    <3>4. CustodyOf(q)'
      <4>1. \A s \in Threads : current'[s] # q
        BY <3>3 DEF Duty
      <4> QED BY <2>1, <2>2, <2>4, <2>6, <3>3, <4>1 DEF CustodyOf
    <3>5. ASSUME NEW r \in Queues, r # q PROVE CustodyOf(r)'
      <4>1. CustodyOf(r)
        BY DEF Custody
      <4> QED BY <2>1, <2>2, <3>1, <3>2, <3>3, <3>5, <4>1, NoneApart DEF CustodyOf
    <3>6. CountExactOf(q)'
      <4>1. Executors(q)' = {}
        BY <2>4, <3>2, <2>1 DEF Executors
      <4> QED BY <2>2, <2>3, <2>5, <4>1 DEF CountExactOf
    <3>7. ASSUME NEW r \in Queues, r # q PROVE CountExactOf(r)'
      <4>1. Executors(r)' = Executors(r) /\ t \notin Executors(r)
        BY <3>2, <3>7, NoneApart DEF Executors
      <4>2. \A s \in Executors(r) : batch'[s] = batch[s]
        BY <2>2, <4>1 DEF Executors
      <4> QED BY <2>2, <2>3, <3>7, <4>1, <4>2 DEF CountExact, CountExactOf
    <3> QED BY <3>4, <3>5, <3>6, <3>7 DEF Custody, CountExact
  <2>7. CASE left # 0 /\ slice[t] = "before"
    <3>1. UNCHANGED <<current, handing>>
      BY <1>13, <2>7 DEF Settle, SettleAt, left
    <3>2. \A s \in Threads, r \in Queues : Duty(s, r)' <=> Duty(s, r)
      BY <2>1, <3>1 DEF Duty
    <3>3. ASSUME NEW r \in Queues PROVE CustodyOf(r)'
      <4>1. CustodyOf(r) /\ (jobCount'[r] # 0 <=> jobCount[r] # 0)
        BY <2>2, <2>4, <2>7 DEF Custody, CustodyOf
      <4> QED BY <2>1, <3>1, <3>2, <4>1 DEF CustodyOf
    <3>4. ASSUME NEW r \in Queues PROVE CountExactOf(r)'
      <4>1. Executors(r)' = Executors(r)
        BY <3>1 DEF Executors
      <4>2. CASE r = q
        <5>1. KnownJobs(q) \in Nat /\ Len(batch'[t]) = 0
          BY KnownParts, <2>2
        <5> QED BY <2>2, <2>3, <2>4, <2>5, <4>1, <4>2, <5>1 DEF CountExactOf
      <4>3. CASE r # q
        <5>1. \A s \in Executors(r) : batch'[s] = batch[s]
          BY <2>2, <4>3 DEF Executors
        <5> QED BY <2>2, <2>3, <4>1, <4>3, <5>1 DEF CountExact, CountExactOf
      <4> QED BY <4>2, <4>3
    <3> QED BY <3>3, <3>4 DEF Custody, CountExact
  <2>8. CASE left # 0 /\ slice[t] # "before"
    <3>1. /\ current' = [current EXCEPT ![t] = None]
          /\ handing' = [handing EXCEPT ![t] = q]
      BY <1>13, <2>8 DEF Settle, SettleAt, left
    <3>2. /\ current'[t] = None /\ handing'[t] = q
          /\ \A s \in Threads : s # t => current'[s] = current[s] /\ handing'[s] = handing[s]
      BY <3>1 DEF TypeOK
    <3>3. \A s \in Threads, r \in Queues : Duty(s, r)' <=> Duty(s, r)
      BY <2>1, <2>4, <3>2, NoneApart DEF Duty
    <3>4. ASSUME NEW r \in Queues PROVE CustodyOf(r)'
      <4>1. CustodyOf(r) /\ (jobCount'[r] # 0 <=> jobCount[r] # 0)
        BY <2>2, <2>4, <2>8 DEF Custody, CustodyOf
      <4>2. \A s \in Threads : current'[s] = r => s # t /\ current[s] = r
        BY <3>2, NoneApart
      <4> QED BY <2>1, <3>2, <3>3, <4>1, <4>2 DEF CustodyOf
    <3>5. ASSUME NEW r \in Queues PROVE CountExactOf(r)'
      <4>1. CASE r = q
        <5>1. Executors(q)' = {}
          BY <2>4, <3>2, <2>1 DEF Executors
        <5> QED BY <2>2, <2>3, <2>5, <4>1, <5>1 DEF CountExactOf
      <4>2. CASE r # q
        <5>1. Executors(r)' = Executors(r) /\ t \notin Executors(r)
          BY <3>2, <4>2, NoneApart DEF Executors
        <5>2. \A s \in Executors(r) : batch'[s] = batch[s]
          BY <2>2, <5>1 DEF Executors
        <5> QED BY <2>2, <2>3, <4>2, <5>1, <5>2 DEF CountExact, CountExactOf
      <4> QED BY <4>1, <4>2
    <3> QED BY <3>4, <3>5 DEF Custody, CountExact
  <2> QED BY <2>6, <2>7, <2>8
<1>14. ASSUME NEW q \in Queues, ClearJob(q) PROVE Custody' /\ CountExact'
  <2>1. /\ jobs' = [jobs EXCEPT ![q] = <<>>]
        /\ cleared' = [cleared EXCEPT ![q] = @ \o jobs[q]]
        /\ UNCHANGED <<jobCount, globalQueue, current, pc, pushing, first, handing, batch>>
    BY <1>14 DEF ClearJob
  <2>2. Custody'
    BY <2>1, SameCustody
  <2>3. \A r \in Queues : Executors(r)' = Executors(r) /\ Mid(r)' = Mid(r)
    BY <2>1 DEF Executors, Mid
  <2>4. KnownJobs(q)' = KnownJobs(q)
    <3> DEFINE a == Len(jobs[q])
               b == Cardinality(Mid(q))
               c == Len(cleared[q])
    <3>1. a \in Nat /\ b \in Nat /\ c \in Nat /\ KnownJobs(q) = a + b + c
      BY KnownParts DEF KnownJobs
    <3>2. Len(jobs'[q]) = 0 /\ Len(cleared'[q]) = c + a
      BY <2>1 DEF TypeOK
    <3>3. KnownJobs(q)' = 0 + b + (c + a)
      BY <2>3, <3>2 DEF KnownJobs
    <3> HIDE DEF a, b, c
    <3> QED BY <3>1, <3>3
  <2>5. \A r \in Queues : r # q => KnownJobs(r)' = KnownJobs(r)
    <3>1. \A r \in Queues : r # q => jobs'[r] = jobs[r] /\ cleared'[r] = cleared[r]
      BY <2>1 DEF TypeOK
    <3> QED BY <2>3, <3>1 DEF KnownJobs
  <2>6. CountExact'
    BY <2>1, <2>3, <2>4, <2>5 DEF CountExact, CountExactOf
  <2> QED BY <2>2, <2>6
<1>15. CASE UNCHANGED vars
  BY <1>15, SameCustody, SameCount DEF vars
<1> QED
  BY <1>1, <1>2, <1>3, <1>4, <1>5, <1>6, <1>7, <1>8, <1>9, <1>10, <1>11,
     <1>12, <1>13, <1>14, <1>15 DEF Next, Step

\* The inductive invariant holds in every reachable state.
LEMMA Invariance == Spec => [](TypeInv /\ Bookkeeping)
<1>1. Init => TypeInv /\ Bookkeeping
  BY InitTypeInv, InitBookkeeping
<1>2. (TypeInv /\ Bookkeeping) /\ [Next]_vars => (TypeInv /\ Bookkeeping)'
  BY NextTypeInv, NextBookkeeping
<1> QED BY <1>1, <1>2, PTL DEF Spec, SafetySpec

\* No queue is ever executed by two threads at a time, whatever the number of
\* threads, queues and jobs: a Room needs no lock of its own (Room.h:7).
THEOREM SerialExecution == Spec => []Serial
<1>1. TypeInv /\ Bookkeeping => Serial
  <2> SUFFICES ASSUME TypeOK, Custody, NEW s \in Threads, NEW t \in Threads,
                      current[s] = current[t], current[s] # None
               PROVE  s = t
    BY DEF Serial, TypeInv, Bookkeeping
  <2>1. current[s] \in Queues
    BY DEF TypeOK
  <2> QED BY <2>1 DEF Custody, CustodyOf, Duty
<1> QED BY <1>1, Invariance, PTL

\* _jobCount is exact in every reachable state, hence never negative and never
\* below what Execute subtracts from it.
THEOREM CountIsExact == Spec => []CountExact
<1>1. TypeInv /\ Bookkeeping => CountExact
  BY DEF Bookkeeping
<1> QED BY <1>1, Invariance, PTL

\* Who holds a tag of a queue.
LEMMA Holders ==
  ASSUME Shape, NEW q \in Queues, NEW c
  PROVE  c \in Custodians(q) <=>
           \/ \E s \in Threads : c = <<"exec", s>> /\ current[s] = q
           \/ \E s \in Threads : c = <<"push", s>> /\ first[s] /\ Target[pushing[s]] = q
           \/ \E s \in Threads : c = <<"hand", s>> /\ handing[s] = q
           \/ \E k \in DOMAIN globalQueue : c = <<"global", k>> /\ globalQueue[k] = q
BY DEF Custodians, Executors, Mid, Shape

\* A queue with jobs to do has exactly one custodian, any other none: no queue
\* is lost between the threads and none is handed to two of them.
THEOREM QueueHasOneCustodian == Spec => []OneCustodian
<1>1. ASSUME TypeOK, Shape, Custody PROVE OneCustodian
  <2> SUFFICES ASSUME NEW q \in Queues
               PROVE  IF jobCount[q] = 0 THEN Custodians(q) = {}
                      ELSE \E c \in Custodians(q) : Custodians(q) = {c}
    BY DEF OneCustodian
  <2>1. CustodyOf(q)
    BY <1>1 DEF Custody
  <2>2. CASE jobCount[q] = 0
    <3>1. /\ \A s \in Threads : ~ Duty(s, q)
          /\ \A k \in DOMAIN globalQueue : globalQueue[k] # q
      BY <2>1, <2>2 DEF CustodyOf
    <3>2. \A c : c \notin Custodians(q)
      BY <1>1, <3>1, Holders DEF Duty
    <3> QED BY <2>2, <3>2
  <2>3. CASE jobCount[q] # 0
    <3>1. \A c, d \in Custodians(q) : c = d
      <4>1. ASSUME NEW t \in Threads, Duty(t, q)
            PROVE  \A c, d \in Custodians(q) : c = d
        <5>1. /\ \A s \in Threads : Duty(s, q) => s = t
              /\ \A k \in DOMAIN globalQueue : globalQueue[k] # q
          BY <2>1, <4>1 DEF CustodyOf
        <5>2. \A c \in Custodians(q) :
                \/ c = <<"exec", t>> /\ current[t] = q
                \/ c = <<"push", t>> /\ first[t] /\ Target[pushing[t]] = q
                \/ c = <<"hand", t>> /\ handing[t] = q
          BY <1>1, <5>1, Holders DEF Duty
        <5>3. /\ ~ (current[t] = q /\ first[t] /\ Target[pushing[t]] = q)
              /\ ~ (current[t] = q /\ handing[t] = q)
          BY <2>1 DEF CustodyOf
        <5>4. ~ (first[t] /\ handing[t] = q)
          BY <1>1, NoneApart DEF Shape
        <5> QED BY <5>2, <5>3, <5>4
      <4>2. CASE \A s \in Threads : ~ Duty(s, q)
        <5>1. \A c \in Custodians(q) :
                \E k \in DOMAIN globalQueue : c = <<"global", k>> /\ globalQueue[k] = q
          BY <1>1, <4>2, Holders DEF Duty
        <5>2. \A k, l \in DOMAIN globalQueue :
                globalQueue[k] = q /\ globalQueue[l] = q => k = l
          BY <2>1 DEF CustodyOf
        <5> QED BY <5>1, <5>2
      <4> QED BY <4>1, <4>2
    <3>2. \E c : c \in Custodians(q)
      BY <1>1, <2>1, <2>3, Holders DEF CustodyOf, Duty
    <3> QED BY <2>3, <3>1, <3>2
  <2> QED BY <2>2, <2>3
<1>2. TypeInv /\ Bookkeeping => OneCustodian
  BY <1>1 DEF TypeInv, Bookkeeping
<1> QED BY <1>2, Invariance, PTL
-----------------------------------------------------------------------------
(* The order of the jobs of a queue.  FifoOf says of each executor what    *)
(* FifoOnce says of the one it chooses.                                    *)

FifoOf(q) ==
  /\ Executors(q) = {} => arrived[q] = started[q] \o jobs[q]
  /\ \A t \in Executors(q) : arrived[q] = (started[q] \o Rest(t)) \o jobs[q]

Fifo == \A q \in Queues : FifoOf(q)

\* Dropping the back of a sequence leaves its front.
LEMMA DropBack ==
  ASSUME NEW S, NEW front \in Seq(S), NEW back \in Seq(S)
  PROVE  SubSeq(front \o back, 1, Len(front \o back) - Len(back)) = front
<1>1. /\ Len(front) \in Nat /\ Len(back) \in Nat
      /\ front \o back \in Seq(S)
      /\ Len(front \o back) = Len(front) + Len(back)
  BY ConcatProperties, LenProperties
<1> DEFINE n == Len(front \o back) - Len(back)
<1>2. n = Len(front) /\ n \in Int
  BY <1>1
<1>3. CASE Len(front) = 0
  <2>1. SubSeq(front \o back, 1, n) = <<>>
    BY <1>2, <1>3, SubSeqEmpty
  <2> QED BY <1>3, <2>1, EmptySeq
<1>4. CASE Len(front) # 0
  <2>1. SubSeq(front \o back, 1, n) = SubSeq(front, 1, Len(front))
    BY <1>1, <1>2, <1>4, SubSeqOfConcat1
  <2> QED BY <2>1, SubSeqFull
<1> QED BY <1>3, <1>4

\* What is appended to the back of a line of jobs is appended to the line.
LEMMA AppendBehind ==
  ASSUME NEW front \in Seq(Jobs), NEW back \in Seq(Jobs), NEW x \in Jobs
  PROVE  Append(front \o back, x) = front \o Append(back, x)
<1>1. front \o back \in Seq(Jobs) /\ <<x>> \in Seq(Jobs)
  BY ConcatProperties
<1>2. Append(front \o back, x) = (front \o back) \o <<x>>
  BY <1>1, AppendIsConcat
<1>3. Append(back, x) = back \o <<x>>
  BY AppendIsConcat
<1> QED BY <1>1, <1>2, <1>3, ConcatAssociative

\* The first job of the back may as well be the last of the front.
LEMMA MoveOver ==
  ASSUME NEW front \in Seq(Jobs), NEW back \in Seq(Jobs), NEW x \in Jobs
  PROVE  front \o (<<x>> \o back) = Append(front, x) \o back
<1>1. <<x>> \in Seq(Jobs)
  OBVIOUS
<1>2. Append(front, x) = front \o <<x>>
  BY AppendIsConcat
<1> QED BY <1>1, <1>2, ConcatAssociative

\* A thread that has no batch has nothing left of it.
LEMMA RestEmpty ==
  ASSUME TypeOK, Shape, NEW t \in Threads, ran[t] = Len(batch[t])
  PROVE  Rest(t) = <<>>
<1>1. Len(batch[t]) \in Nat
  BY DEF TypeOK
<1>2. ran[t] + 1 \in Int /\ Len(batch[t]) < ran[t] + 1
  BY <1>1
<1> QED BY <1>1, <1>2, SubSeqEmpty DEF Rest

\* What is left of a batch is a sequence of jobs.
LEMMA RestType ==
  ASSUME TypeOK, NEW t \in Threads
  PROVE  Rest(t) \in Seq(Jobs)
<1>1. batch[t] \in Seq(Jobs) /\ ran[t] \in Nat
  BY DEF TypeOK
<1>2. \A i \in ran[t] + 1 .. Len(batch[t]) : batch[t][i] \in Jobs
  BY <1>1
<1> QED BY <1>1, <1>2, SubSeqProperties DEF Rest

\* A queue is executed by one thread at most.
LEMMA OneExecutor ==
  ASSUME TypeOK, Custody, NEW q \in Queues, NEW s \in Executors(q), NEW t \in Executors(q)
  PROVE  s = t
BY DEF Custody, CustodyOf, Duty, Executors

\* A queue that nobody executes and one whose executor has nothing left look alike.
LEMMA FifoIdle ==
  ASSUME TypeOK, Shape, Custody, NEW q \in Queues,
         \A t \in Executors(q) : ran[t] = Len(batch[t])
  PROVE  FifoOf(q) <=> arrived[q] = started[q] \o jobs[q]
<1>1. \A t \in Executors(q) : Rest(t) = <<>>
  BY RestEmpty DEF Executors
<1>2. started[q] \o <<>> = started[q]
  BY ConcatEmptySeq DEF TypeOK
<1> QED BY <1>1, <1>2 DEF FifoOf

\* A step that leaves the jobs, the batches and the executors of q alone leaves
\* its order alone.
LEMMA SameFifo ==
  ASSUME NEW q \in Queues, FifoOf(q),
         arrived'[q] = arrived[q], started'[q] = started[q], jobs'[q] = jobs[q],
         Executors(q)' = Executors(q),
         \A t \in Executors(q) : batch'[t] = batch[t] /\ ran'[t] = ran[t]
  PROVE  FifoOf(q)'
BY DEF FifoOf, Rest

\* The order holds initially.
LEMMA InitFifo == Init => Fifo
<1> SUFFICES ASSUME Init, NEW q \in Queues PROVE FifoOf(q)
  BY DEF Fifo
<1>1. Executors(q) = {}
  BY NoneApart DEF Init, Executors
<1>2. arrived[q] = <<>> /\ started[q] = <<>> /\ jobs[q] = <<>>
  BY DEF Init
<1> QED BY <1>1, <1>2 DEF FifoOf

\* Every step keeps the order.
LEMMA NextFifo ==
  ASSUME TypeOK, Shape, Custody, TypeOK', Shape', Custody', Fifo, [Next]_vars
  PROVE  Fifo'
<1> USE DEF shared, history
<1> SUFFICES ASSUME NEW q \in Queues PROVE FifoOf(q)'
  BY DEF Fifo
<1>0. /\ FifoOf(q)
      /\ arrived[q] \in Seq(Jobs) /\ started[q] \in Seq(Jobs) /\ jobs[q] \in Seq(Jobs)
  BY DEF Fifo, TypeOK
<1>1. ASSUME UNCHANGED <<jobs, arrived, started, current, batch, ran>>
      PROVE  FifoOf(q)'
  <2>1. Executors(q)' = Executors(q)
    BY <1>1 DEF Executors
  <2> QED BY <1>0, <1>1, <2>1, SameFifo
<1>2. ASSUME NEW t \in Threads,
             Tick(t) \/ Handler(t) \/ EndDispatch(t) \/ EndGlobal(t) \/ CountJob(t)
               \/ HandOver(t) \/ CallDoAsync(t) \/ EndJob(t)
      PROVE  FifoOf(q)'
  BY <1>1, <1>2 DEF Tick, Handler, EndDispatch, EndGlobal, CountJob, HandOver,
                    CallDoAsync, EndJob
<1>3. ASSUME NEW t \in Threads, TakeGlobal(t) PROVE FifoOf(q)'
  <2>1. /\ UNCHANGED <<jobs, arrived, started, batch, ran>>
        /\ \A s \in Threads : s # t => current'[s] = current[s]
        /\ current[t] = None /\ batch[t] = <<>> /\ ran[t] <= Len(batch[t])
    BY <1>3 DEF TakeGlobal, Shape, TypeOK
  <2>2. ran[t] = Len(batch[t])
    BY <2>1 DEF TypeOK
  <2>3. CASE current'[t] # q
    <3>1. Executors(q)' = Executors(q)
      BY <2>1, <2>3, NoneApart DEF Executors
    <3> QED BY <1>0, <2>1, <3>1, SameFifo
  <2>4. CASE current'[t] = q
    <3>1. t \in Executors(q)'
      BY <2>4 DEF Executors
    <3>2. \A s \in Executors(q)' : s = t
      BY <3>1 DEF Custody, CustodyOf, Duty, Executors
    <3>3. Executors(q) = {}
      BY <2>1, <3>2, NoneApart DEF Executors
    <3>4. Rest(t)' = <<>>
      BY <2>1, <2>2, RestEmpty DEF Rest
    <3>5. arrived'[q] = (started'[q] \o <<>>) \o jobs'[q]
      BY <1>0, <2>1, <3>3, ConcatEmptySeq DEF FifoOf
    <3> QED BY <3>1, <3>2, <3>4, <3>5 DEF FifoOf
  <2> QED BY <2>3, <2>4
<1>4. ASSUME NEW t \in Threads, EnqueueJob(t) PROVE FifoOf(q)'
  <2> PICK j \in Jobs : j = pushing[t] /\ Target[j] \in Queues
    BY <1>4, TargetType DEF EnqueueJob, Shape, TypeOK
  <2>1. /\ jobs' = [jobs EXCEPT ![Target[j]] = Append(@, j)]
        /\ arrived' = [arrived EXCEPT ![Target[j]] = Append(@, j)]
        /\ UNCHANGED <<started, batch, ran>>
        /\ \A s \in Threads : s # t => current'[s] = current[s]
        /\ current'[t] = current[t] \/ (current[t] = None /\ current'[t] = Target[j])
    BY <1>4 DEF EnqueueJob, TypeOK
  <2>2. CASE Target[j] # q
    <3>1. arrived'[q] = arrived[q] /\ jobs'[q] = jobs[q]
      BY <2>1, <2>2 DEF TypeOK
    <3>2. Executors(q)' = Executors(q)
      BY <2>1, <2>2, NoneApart DEF Executors
    <3> QED BY <1>0, <2>1, <3>1, <3>2, SameFifo
  <2>3. CASE Target[j] = q
    <3>1. /\ jobs'[q] = Append(jobs[q], j)
          /\ arrived'[q] = Append(arrived[q], j)
          /\ started'[q] = started[q]
      BY <2>1, <2>3 DEF TypeOK
    <3>2. CASE Executors(q)' = Executors(q)
      <4>1. Executors(q) = {} => arrived'[q] = started'[q] \o jobs'[q]
        <5>1. started[q] \o Append(jobs[q], j) = Append(started[q] \o jobs[q], j)
          BY <1>0, AppendBehind
        <5> QED BY <1>0, <3>1, <5>1 DEF FifoOf
      <4>2. ASSUME NEW s \in Executors(q)
            PROVE  arrived'[q] = (started'[q] \o Rest(s)') \o jobs'[q]
        <5>1. Rest(s)' = Rest(s) /\ Rest(s) \in Seq(Jobs)
          BY <2>1, RestType DEF Rest, Executors
        <5>2. started[q] \o Rest(s) \in Seq(Jobs)
          BY <1>0, <5>1, ConcatProperties
        <5>3. arrived[q] = (started[q] \o Rest(s)) \o jobs[q]
          BY <1>0 DEF FifoOf
        <5>4. Append((started[q] \o Rest(s)) \o jobs[q], j)
                = (started[q] \o Rest(s)) \o Append(jobs[q], j)
          BY <1>0, <5>2, AppendBehind
        <5> QED BY <3>1, <5>1, <5>3, <5>4
      <4> QED BY <3>2, <4>1, <4>2 DEF FifoOf
    <3>3. CASE Executors(q)' # Executors(q)
      <4>1. current[t] = None /\ current'[t] = q
        BY <2>1, <2>3, <3>3 DEF Executors
      <4>2. t \in Executors(q)'
        BY <4>1 DEF Executors
      <4>3. \A s \in Executors(q)' : s = t
        BY <4>2 DEF Custody, CustodyOf, Duty, Executors
      <4>4. Executors(q) = {}
        BY <2>1, <4>1, <4>3, NoneApart DEF Executors
      <4>5. batch[t] = <<>> /\ ran[t] <= Len(batch[t]) /\ ran[t] \in Nat
        BY <4>1 DEF Shape, TypeOK
      <4>6. Rest(t)' = <<>>
        BY <2>1, <4>5, RestEmpty DEF Rest
      <4>7. arrived[q] = started[q] \o jobs[q]
        BY <1>0, <4>4 DEF FifoOf
      <4>8. arrived'[q] = (started'[q] \o <<>>) \o jobs'[q]
        <5>1. started[q] \o Append(jobs[q], j) = Append(started[q] \o jobs[q], j)
          BY <1>0, AppendBehind
        <5>2. started[q] \o <<>> = started[q]
          BY <1>0, ConcatEmptySeq
        <5> QED BY <3>1, <4>7, <5>1, <5>2
      <4> QED BY <4>2, <4>3, <4>6, <4>8 DEF FifoOf
    <3> QED BY <3>2, <3>3
  <2> QED BY <2>2, <2>3
<1>5. ASSUME NEW t \in Threads, PopAll(t) PROVE FifoOf(q)'
  <2>1. /\ current[t] \in Queues /\ batch[t] = <<>> /\ ran[t] = 0
        /\ batch' = [batch EXCEPT ![t] = jobs[current[t]]]
        /\ ran' = [ran EXCEPT ![t] = 0]
        /\ jobs' = [jobs EXCEPT ![current[t]] = <<>>]
        /\ UNCHANGED <<arrived, started, current>>
    BY <1>5 DEF PopAll, Shape, TypeOK
  <2>2. Executors(q)' = Executors(q)
    BY <2>1 DEF Executors
  <2>3. CASE current[t] # q
    <3>1. \A s \in Executors(q) : batch'[s] = batch[s] /\ ran'[s] = ran[s]
      BY <2>1, <2>3 DEF Executors, TypeOK
    <3>2. jobs'[q] = jobs[q]
      BY <2>1, <2>3 DEF TypeOK
    <3> QED BY <1>0, <2>1, <2>2, <3>1, <3>2, SameFifo
  <2>4. CASE current[t] = q
    <3>1. t \in Executors(q) /\ \A s \in Executors(q) : s = t
      BY <2>4, OneExecutor DEF Executors
    <3>2. arrived[q] = started[q] \o jobs[q]
      <4>1. \A s \in Executors(q) : ran[s] = Len(batch[s])
        BY <2>1, <3>1
      <4> QED BY <1>0, <4>1, FifoIdle
    <3>3. batch'[t] = jobs[q] /\ ran'[t] = 0 /\ jobs'[q] = <<>>
      BY <2>1, <2>4 DEF TypeOK
    <3>4. Rest(t)' = jobs[q]
      BY <1>0, <3>3, SubSeqFull DEF Rest
    <3>5. arrived'[q] = (started'[q] \o jobs[q]) \o jobs'[q]
      BY <1>0, <2>1, <3>2, <3>3, ConcatEmptySeq, ConcatProperties
    <3> QED BY <2>2, <3>1, <3>4, <3>5 DEF FifoOf
  <2> QED BY <2>3, <2>4
<1>6. ASSUME NEW t \in Threads, StartJob(t) PROVE FifoOf(q)'
  <2>1. /\ current[t] \in Queues /\ ran[t] < Len(batch[t])
        /\ ran' = [ran EXCEPT ![t] = @ + 1]
        /\ started' = [started EXCEPT ![current[t]] = Append(@, batch[t][ran[t] + 1])]
        /\ UNCHANGED <<jobs, arrived, current, batch>>
    BY <1>6 DEF StartJob, Shape, TypeOK
  <2>2. Executors(q)' = Executors(q)
    BY <2>1 DEF Executors
  <2>3. CASE current[t] # q
    <3>1. \A s \in Executors(q) : batch'[s] = batch[s] /\ ran'[s] = ran[s]
      BY <2>1, <2>3 DEF Executors, TypeOK
    <3>2. started'[q] = started[q]
      BY <2>1, <2>3 DEF TypeOK
    <3> QED BY <1>0, <2>1, <2>2, <3>1, <3>2, SameFifo
  <2>4. CASE current[t] = q
    <3>1. t \in Executors(q) /\ \A s \in Executors(q) : s = t
      BY <2>4, OneExecutor DEF Executors
    <3> PICK b \in Seq(Jobs), n \in Nat : b = batch[t] /\ n = ran[t]
      BY DEF TypeOK
    <3> DEFINE j == b[n + 1]
    <3>2. n + 1 \in 1 .. Len(b) /\ Len(b) \in n + 1 .. Len(b) /\ j \in Jobs
      BY <2>1
    <3>3. SubSeq(b, n + 1, Len(b)) = <<j>> \o SubSeq(b, (n + 1) + 1, Len(b))
      BY <3>2, SubSeqRecursiveFirst
    <3>4. Rest(t) = <<j>> \o Rest(t)'
      BY <2>1, <3>3 DEF Rest, TypeOK
    <3>5. Rest(t)' \in Seq(Jobs) /\ Rest(t) \in Seq(Jobs) /\ <<j>> \in Seq(Jobs)
      <4>1. Rest(t) \in Seq(Jobs)
        BY RestType
      <4>2. Rest(t)' = SubSeq(b, (n + 1) + 1, Len(b))
        BY <2>1 DEF TypeOK, Rest
      <4>3. \A i \in (n + 1) + 1 .. Len(b) : b[i] \in Jobs
        OBVIOUS
      <4>4. SubSeq(b, (n + 1) + 1, Len(b)) \in Seq(Jobs)
        BY <4>3, SubSeqProperties
      <4> QED BY <3>2, <4>1, <4>2, <4>4
    <3>6. started'[q] = Append(started[q], j)
      BY <2>1, <2>4 DEF TypeOK
    <3>7. started[q] \o Rest(t) = started'[q] \o Rest(t)'
      <4> PICK r \in Seq(Jobs), s \in Seq(Jobs) : r = Rest(t)' /\ s = started[q]
        BY <1>0, <3>5
      <4>1. s \o (<<j>> \o r) = Append(s, j) \o r
        BY <3>2, MoveOver
      <4> QED BY <3>4, <3>6, <4>1
    <3>8. arrived'[q] = (started'[q] \o Rest(t)') \o jobs'[q]
      BY <1>0, <2>1, <3>1, <3>7 DEF FifoOf
    <3> QED BY <2>2, <3>1, <3>8 DEF FifoOf
  <2> QED BY <2>3, <2>4
<1>7. ASSUME NEW t \in Threads, Settle(t) PROVE FifoOf(q)'
  <2>1. /\ current[t] \in Queues /\ ran[t] = Len(batch[t])
        /\ batch' = [batch EXCEPT ![t] = <<>>]
        /\ ran' = [ran EXCEPT ![t] = 0]
        /\ current'[t] \in {current[t], None}
        /\ \A s \in Threads : s # t => current'[s] = current[s]
        /\ UNCHANGED <<jobs, arrived, started>>
    BY <1>7 DEF Settle, SettleAt, TypeOK
  <2>2. CASE current[t] # q
    <3>1. Executors(q)' = Executors(q)
      BY <2>1, <2>2, NoneApart DEF Executors
    <3>2. \A s \in Executors(q) : batch'[s] = batch[s] /\ ran'[s] = ran[s]
      BY <2>1, <2>2 DEF Executors, TypeOK
    <3> QED BY <1>0, <2>1, <3>1, <3>2, SameFifo
  <2>3. CASE current[t] = q
    <3>1. \A s \in Executors(q) : s = t
      BY <2>3, OneExecutor DEF Executors
    <3>2. arrived[q] = started[q] \o jobs[q]
      BY <1>0, <2>1, <3>1, FifoIdle
    <3>3. \A s \in Executors(q)' : s = t
      BY <2>1, <3>1 DEF Executors
    <3>4. batch'[t] = <<>> /\ ran'[t] = 0
      BY <2>1 DEF TypeOK
    <3>5. Rest(t)' = <<>>
      BY <3>4, SubSeqEmpty DEF Rest
    <3>6. arrived'[q] = (started'[q] \o <<>>) \o jobs'[q] /\ arrived'[q] = started'[q] \o jobs'[q]
      BY <1>0, <2>1, <3>2, ConcatEmptySeq
    <3> QED BY <3>3, <3>5, <3>6 DEF FifoOf
  <2> QED BY <2>2, <2>3
<1>8. ASSUME NEW r \in Queues, ClearJob(r) PROVE FifoOf(q)'
  <2>1. /\ jobs' = [jobs EXCEPT ![r] = <<>>]
        /\ arrived' = [arrived EXCEPT ![r] = SubSeq(@, 1, Len(@) - Len(jobs[r]))]
        /\ UNCHANGED <<started, current, batch, ran>>
    BY <1>8 DEF ClearJob
  <2>2. Executors(q)' = Executors(q)
    BY <2>1 DEF Executors
  <2>3. CASE r # q
    <3>1. arrived'[q] = arrived[q] /\ jobs'[q] = jobs[q]
      BY <2>1, <2>3 DEF TypeOK
    <3> QED BY <1>0, <2>1, <2>2, <3>1, SameFifo
  <2>4. CASE r = q
    <3>1. jobs'[q] = <<>> /\ arrived'[q] = SubSeq(arrived[q], 1, Len(arrived[q]) - Len(jobs[q]))
      BY <2>1, <2>4 DEF TypeOK
    <3>2. CASE Executors(q) = {}
      <4>1. arrived'[q] = started[q]
        BY <1>0, <3>1, <3>2, DropBack DEF FifoOf
      <4> QED BY <1>0, <2>1, <2>2, <3>1, <3>2, <4>1, ConcatEmptySeq DEF FifoOf
    <3>3. ASSUME NEW s \in Executors(q)
          PROVE  arrived'[q] = (started'[q] \o Rest(s)') \o jobs'[q]
      <4>1. Rest(s)' = Rest(s) /\ Rest(s) \in Seq(Jobs)
        BY <2>1, RestType DEF Rest, Executors
      <4>2. started[q] \o Rest(s) \in Seq(Jobs)
        BY <1>0, <4>1, ConcatProperties
      <4>3. arrived'[q] = started[q] \o Rest(s)
        BY <1>0, <3>1, <4>2, DropBack DEF FifoOf
      <4> QED BY <2>1, <3>1, <4>1, <4>2, <4>3, ConcatEmptySeq
    <3> QED BY <2>2, <3>2, <3>3 DEF FifoOf
  <2> QED BY <2>3, <2>4
<1>9. CASE UNCHANGED vars
  BY <1>1, <1>9 DEF vars
<1> QED
  BY <1>2, <1>3, <1>4, <1>5, <1>6, <1>7, <1>8, <1>9 DEF Next, Step

\* The order holds of the executor that FifoOnce chooses.
LEMMA FifoChosen == TypeOK /\ Fifo => FifoOnce
<1> SUFFICES ASSUME TypeOK, Fifo, NEW q \in Queues
             PROVE  arrived[q] = started[q]
                      \o (IF Executors(q) = {} THEN <<>>
                          ELSE Rest(CHOOSE t \in Executors(q) : TRUE))
                      \o jobs[q]
  BY DEF FifoOnce
<1>1. FifoOf(q)
  BY DEF Fifo
<1>2. CASE Executors(q) = {}
  <2>1. started[q] \o <<>> = started[q]
    BY ConcatEmptySeq DEF TypeOK
  <2> QED BY <1>1, <1>2, <2>1 DEF FifoOf
<1>3. CASE Executors(q) # {}
  <2>1. (CHOOSE t \in Executors(q) : TRUE) \in Executors(q)
    BY <1>3
  <2> QED BY <1>1, <1>3, <2>1 DEF FifoOf
<1> QED BY <1>2, <1>3

\* The jobs of a queue are begun in the order they were enqueued, each exactly
\* once, across batches, threads and trips through the global queue, whatever
\* the number of threads, queues and jobs.
THEOREM JobsRunInOrder == Spec => []FifoOnce
<1>1. Init => TypeInv /\ Bookkeeping /\ Fifo
  BY InitTypeInv, InitBookkeeping, InitFifo
<1>2. (TypeInv /\ Bookkeeping /\ Fifo) /\ [Next]_vars => (TypeInv /\ Bookkeeping /\ Fifo)'
  BY NextTypeInv, NextBookkeeping, NextFifo DEF TypeInv, Bookkeeping
<1>3. TypeInv /\ Fifo => FifoOnce
  BY FifoChosen DEF TypeInv
<1> QED BY <1>1, <1>2, <1>3, PTL DEF Spec, SafetySpec
-----------------------------------------------------------------------------
(* The scheduler implements SerialExecutor: what is shown above of the     *)
(* order (what arrived is what was begun, then what is in hand, then what  *)
(* is enqueued) makes every step a step of the executors, once no job is   *)
(* known to be submitted twice.                                            *)

(* No job is submitted twice.                                              *)

Accepted == UNION {Range(arrived[q]) \cup Range(cleared[q]) : q \in Queues}

Begun == UNION {Range(started[q]) : q \in Queues}

\* A job enters the line of its own queue, once.
Once ==
  /\ \A q \in Queues : \A i, k \in DOMAIN arrived[q] : arrived[q][i] = arrived[q][k] => i = k
  /\ \A q \in Queues : \A i \in DOMAIN arrived[q] : Target[arrived[q][i]] = q
  /\ \A t \in Threads : pushing[t] \notin Accepted
  /\ \A t, u \in Threads : pushing[t] = pushing[u] /\ pushing[t] # None => t = u

\* What the body of a job submits is submitted only by that body, once it has begun.
Fresh ==
  /\ \A k \in Jobs : \A i \in DOMAIN Calls[k] : Calls[k][i] \in Submitted => k \in Begun
  /\ \A t \in Threads : \A i \in DOMAIN calls[t] :
       /\ calls[t][i] \notin Submitted
       /\ \E k \in Begun : \E l \in DOMAIN Calls[k] : calls[t][i] = Calls[k][l]
  /\ \A t, u \in Threads : \A i \in DOMAIN calls[t], l \in DOMAIN calls[u] :
       calls[t][i] = calls[u][l] => t = u /\ i = l

\* A thread inside a body has begun a job of its batch.
Bodies == \A t \in Threads : Inside(t) => ran[t] # 0

JobOnce == Once /\ Fresh /\ Bodies

\* What the executor of q has left of its batch.
InHand(q) == IF Executors(q) = {} THEN <<>> ELSE Rest(CHOOSE t \in Executors(q) : TRUE)

\* Concatenation of jobs is associative.
LEMMA Regroup ==
  \A s, x, j \in Seq(Jobs) : (s \o x) \o j = s \o (x \o j) /\ x \o j \in Seq(Jobs)
BY ConcatAssociative, ConcatProperties

\* What is in hand is a sequence of jobs, between what was begun and what is enqueued.
LEMMA Hand ==
  ASSUME TypeOK, FifoOnce, NEW q \in Queues
  PROVE  /\ InHand(q) \in Seq(Jobs) /\ WaitingJobs(q) = InHand(q) \o jobs[q]
         /\ started[q] \in Seq(Jobs) /\ jobs[q] \in Seq(Jobs)
         /\ arrived[q] = (started[q] \o InHand(q)) \o jobs[q]
<1>1. InHand(q) \in Seq(Jobs)
  <2>1. CASE Executors(q) = {}
    <3>1. <<>> \in Seq(Jobs)
      OBVIOUS
    <3> QED BY <2>1, <3>1 DEF InHand
  <2>2. CASE Executors(q) # {}
    <3>1. (CHOOSE t \in Executors(q) : TRUE) \in Executors(q)
      BY <2>2
    <3>2. \A t \in Executors(q) : Rest(t) \in Seq(Jobs)
      BY RestType DEF Executors
    <3> QED BY <2>2, <3>1, <3>2 DEF InHand
  <2> QED BY <2>1, <2>2
<1>2. started[q] \in Seq(Jobs) /\ jobs[q] \in Seq(Jobs)
  BY DEF TypeOK
<1>3. WaitingJobs(q) = InHand(q) \o jobs[q]
  BY Zenon DEF WaitingJobs, InHand
<1>4. arrived[q] = (started[q] \o InHand(q)) \o jobs[q]
  BY Zenon DEF FifoOnce, InHand
<1> QED BY <1>1, <1>2, <1>3, <1>4, Zenon

\* The jobs that wait, as what was begun of the jobs that arrived leaves them.
LEMMA Line ==
  TypeOK /\ FifoOnce => \A q \in Queues :
    WaitingJobs(q) \in Seq(Jobs) /\ arrived[q] = started[q] \o WaitingJobs(q)
<1> SUFFICES ASSUME TypeOK, FifoOnce, NEW q \in Queues
             PROVE  WaitingJobs(q) \in Seq(Jobs) /\ arrived[q] = started[q] \o WaitingJobs(q)
  OBVIOUS
<1>1. /\ InHand(q) \in Seq(Jobs) /\ WaitingJobs(q) = InHand(q) \o jobs[q]
      /\ started[q] \in Seq(Jobs) /\ jobs[q] \in Seq(Jobs)
      /\ arrived[q] = (started[q] \o InHand(q)) \o jobs[q]
  BY Hand
<1>2. /\ (started[q] \o InHand(q)) \o jobs[q] = started[q] \o (InHand(q) \o jobs[q])
      /\ InHand(q) \o jobs[q] \in Seq(Jobs)
  BY <1>1, Regroup, Zenon
<1> QED BY <1>1, <1>2, Zenon

\* The same after a step.
LEMMA LineNext ==
  (TypeOK /\ FifoOnce)' => (\A q \in Queues :
    WaitingJobs(q) \in Seq(Jobs) /\ arrived[q] = started[q] \o WaitingJobs(q))'
BY Line, PTL

\* The jobs that were accepted are jobs, and what else was submitted is on its way.
LEMMA AcceptedFacts ==
  ASSUME TypeOK
  PROVE  /\ Accepted \subseteq Jobs /\ Begun \subseteq Jobs
         /\ Submitted = {pushing[t] : t \in Threads} \cup Accepted
<1>1. \A q \in Queues : /\ Range(arrived[q]) \subseteq Jobs
                        /\ Range(cleared[q]) \subseteq Jobs
                        /\ Range(started[q]) \subseteq Jobs
  <2> TAKE q \in Queues
  <2>1. arrived[q] \in Seq(Jobs) /\ cleared[q] \in Seq(Jobs) /\ started[q] \in Seq(Jobs)
    BY DEF TypeOK
  <2> QED BY <2>1, RangeOfSeq
<1>2. Accepted \subseteq Jobs /\ Begun \subseteq Jobs
  BY <1>1 DEF Accepted, Begun
<1>3. Submitted = {pushing[t] : t \in Threads} \cup Accepted
  BY DEF Submitted, Accepted
<1> QED BY <1>2, <1>3

\* The same after a step.
LEMMA AcceptedNext ==
  TypeOK' => /\ Accepted' \subseteq Jobs /\ Begun' \subseteq Jobs
             /\ Submitted' = {pushing'[t] : t \in Threads} \cup Accepted'
<1>1. TypeOK => /\ Accepted \subseteq Jobs /\ Begun \subseteq Jobs
                /\ Submitted = {pushing[t] : t \in Threads} \cup Accepted
  BY AcceptedFacts
<1>2. (TypeOK => /\ Accepted \subseteq Jobs /\ Begun \subseteq Jobs
                 /\ Submitted = {pushing[t] : t \in Threads} \cup Accepted)'
  BY <1>1, PTL
<1> QED BY <1>2

\* A job is submitted by one body, at one place.
LEMMA CalledOnce ==
  ASSUME NEW j \in Jobs, NEW k \in Jobs, NEW i \in DOMAIN Calls[j], NEW l \in DOMAIN Calls[k],
         Calls[j][i] = Calls[k][l]
  PROVE  j = k /\ i = l
BY JobQueueAssumption DEF JobQueueAssumption

\* No job has been submitted initially.
LEMMA InitJobOnce == Init => JobOnce
<1> SUFFICES ASSUME Init PROVE JobOnce
  OBVIOUS
<1>1. /\ \A q \in Queues : arrived[q] = <<>> /\ cleared[q] = <<>>
      /\ \A t \in Threads : pushing[t] = None /\ calls[t] = <<>> /\ current[t] = None
  BY DEF Init
<1>2. \A q \in Queues : Range(arrived[q]) = {} /\ Range(cleared[q]) = {}
  BY <1>1 DEF Range
<1>3. Accepted = {}
  BY <1>2 DEF Accepted
<1>4. Submitted \subseteq {None}
  BY <1>1, <1>2 DEF Submitted
<1>5. Once
  BY <1>1, <1>3 DEF Once
<1>6. \A k \in Jobs : \A i \in DOMAIN Calls[k] : Calls[k][i] # None
  BY CallsType, NoneApart
<1>7. Fresh
  BY <1>1, <1>4, <1>6 DEF Fresh
<1>8. Bodies
  BY <1>1 DEF Bodies, Inside
<1> QED BY <1>5, <1>7, <1>8 DEF JobOnce

\* A step that submits, begins and drops nothing.
LEMMA SameOnce ==
  ASSUME Once, Fresh, UNCHANGED <<arrived, cleared, started, pushing, calls>>
  PROVE  Once' /\ Fresh'
<1>1. Accepted' = Accepted /\ Submitted' = Submitted /\ Begun' = Begun
  BY DEF Accepted, Submitted, Begun
<1> QED BY <1>1 DEF Once, Fresh

\* A job that was not submitted is.
LEMMA NewPush ==
  ASSUME TypeOK, TypeOK', Once, NEW t \in Threads, NEW j \in Jobs, j \notin Submitted,
         pushing' = [pushing EXCEPT ![t] = j], UNCHANGED <<arrived, cleared>>
  PROVE  Once' /\ Submitted' \subseteq Submitted \cup {j}
<1>1. Accepted' = Accepted
  BY DEF Accepted
<1>2. /\ Submitted = {pushing[u] : u \in Threads} \cup Accepted
      /\ Submitted' = {pushing'[u] : u \in Threads} \cup Accepted'
  BY AcceptedFacts, AcceptedNext
<1>3. pushing'[t] = j /\ \A u \in Threads : u # t => pushing'[u] = pushing[u]
  BY DEF TypeOK
<1>4. Submitted' \subseteq Submitted \cup {j}
  BY <1>1, <1>2, <1>3
<1>5. j \notin Accepted /\ \A u \in Threads : pushing[u] # j
  BY <1>2
<1>6. Once'
  BY <1>1, <1>3, <1>5 DEF Once
<1> QED BY <1>4, <1>6

\* A packet handler submits a job of its own.
LEMMA HandlerOnce ==
  ASSUME TypeOK, TypeOK', Shape, JobOnce, NEW t \in Threads, Handler(t)
  PROVE  JobOnce'
<1>1. PICK j \in Roots \ Submitted : pushing' = [pushing EXCEPT ![t] = j]
  BY DEF Handler
<1>2. /\ j \in Jobs /\ j \notin Submitted /\ \A k \in Jobs : \A i \in DOMAIN Calls[k] : Calls[k][i] # j
  BY DEF Roots, Range
<1>3. UNCHANGED <<arrived, cleared, started, calls, current, ran>> /\ current[t] = None
      /\ pc' = [pc EXCEPT ![t] = "count"]
  BY DEF Handler, history, Shape
<1>4. Once' /\ Submitted' \subseteq Submitted \cup {j}
  BY <1>1, <1>2, <1>3, NewPush DEF JobOnce
<1>5. Begun' = Begun /\ Begun \subseteq Jobs
  BY <1>3, AcceptedFacts DEF Begun
<1>6. Fresh'
  <2>1. \A k \in Jobs : \A i \in DOMAIN Calls[k] : Calls[k][i] \in Submitted' => k \in Begun'
    BY <1>2, <1>4, <1>5 DEF JobOnce, Fresh
  <2>2. \A u \in Threads : \A i \in DOMAIN calls[u] :
          /\ calls[u][i] \notin Submitted'
          /\ \E k \in Begun' : \E l \in DOMAIN Calls[k] : calls[u][i] = Calls[k][l]
    BY <1>2, <1>4, <1>5 DEF JobOnce, Fresh
  <2> QED BY <1>3, <2>1, <2>2 DEF JobOnce, Fresh
<1>7. Bodies'
  BY <1>3 DEF JobOnce, Bodies, Inside, TypeOK
<1> QED BY <1>4, <1>6, <1>7 DEF JobOnce

\* The body of a job submits the next of its jobs.
LEMMA CallOnce ==
  ASSUME TypeOK, TypeOK', JobOnce, NEW t \in Threads, CallDoAsync(t)
  PROVE  JobOnce'
<1> PICK j, c : j = Head(calls[t]) /\ c = calls[t]
  OBVIOUS
<1>1. /\ c # <<>> /\ c \in Seq(Jobs)
      /\ pushing' = [pushing EXCEPT ![t] = j]
      /\ calls' = [calls EXCEPT ![t] = Tail(c)]
      /\ UNCHANGED <<arrived, cleared, started, current, ran>>
      /\ pc[t] = "body" /\ pc' = [pc EXCEPT ![t] = "count"]
  BY DEF CallDoAsync, history, TypeOK
<1>2. /\ 1 \in DOMAIN c /\ j = c[1] /\ j \in Jobs
      /\ \A i \in DOMAIN Tail(c) : i \in Nat /\ i + 1 \in DOMAIN c /\ i + 1 # 1 /\ Tail(c)[i] = c[i + 1]
  BY <1>1
<1>3. calls'[t] = Tail(c) /\ \A u \in Threads : u # t => calls'[u] = calls[u]
  BY <1>1 DEF TypeOK
<1>4. /\ \A k \in Jobs : \A i \in DOMAIN Calls[k] : Calls[k][i] \in Submitted => k \in Begun
      /\ \A u \in Threads : \A i \in DOMAIN calls[u] :
           /\ calls[u][i] \notin Submitted
           /\ \E k \in Begun : \E l \in DOMAIN Calls[k] : calls[u][i] = Calls[k][l]
      /\ \A u, v \in Threads : \A i \in DOMAIN calls[u], l \in DOMAIN calls[v] :
           calls[u][i] = calls[v][l] => u = v /\ i = l
  BY DEF JobOnce, Fresh
<1>5. j \notin Submitted /\ \E k \in Begun : \E l \in DOMAIN Calls[k] : j = Calls[k][l]
  BY <1>2, <1>4
<1>6. Once' /\ Submitted' \subseteq Submitted \cup {j}
  BY <1>1, <1>2, <1>5, NewPush DEF JobOnce
<1>7. Begun' = Begun /\ Begun \subseteq Jobs
  BY <1>1, AcceptedFacts DEF Begun
<1>8. Fresh'
  <2>1. ASSUME NEW k \in Jobs, NEW i \in DOMAIN Calls[k], Calls[k][i] \in Submitted'
        PROVE  k \in Begun'
    <3>1. CASE Calls[k][i] \in Submitted
      BY <1>4, <1>7, <3>1
    <3>2. CASE Calls[k][i] = j
      <4>1. PICK k2 \in Begun : \E l \in DOMAIN Calls[k2] : j = Calls[k2][l]
        BY <1>5
      <4>2. k = k2
        BY <1>7, <3>2, <4>1, CalledOnce
      <4> QED BY <1>7, <4>2
    <3> QED BY <1>6, <2>1, <3>1, <3>2
  <2>2. ASSUME NEW u \in Threads, NEW i \in DOMAIN calls'[u]
        PROVE  \E n \in DOMAIN calls[u] : /\ calls'[u][i] = calls[u][n]
                                          /\ n = IF u = t THEN i + 1 ELSE i
                                          /\ calls[u][n] # j
    <3>1. CASE u = t
      <4>1. i + 1 \in DOMAIN c /\ i + 1 # 1 /\ calls'[u][i] = c[i + 1]
        BY <1>2, <1>3, <2>2, <3>1
      <4>2. c[i + 1] # j
        BY <1>2, <1>4, <4>1
      <4> QED BY <3>1, <4>1, <4>2
    <3>2. CASE u # t
      <4>1. calls'[u] = calls[u]
        BY <1>3, <3>2
      <4>2. calls[u][i] # j
        BY <1>2, <1>4, <2>2, <3>2, <4>1
      <4> QED BY <2>2, <3>2, <4>1, <4>2
    <3> QED BY <3>1, <3>2
  <2>3. ASSUME NEW u \in Threads, NEW i \in DOMAIN calls'[u]
        PROVE  /\ calls'[u][i] \notin Submitted'
               /\ \E k \in Begun' : \E l \in DOMAIN Calls[k] : calls'[u][i] = Calls[k][l]
    BY <1>4, <1>6, <1>7, <2>2
  <2>4. ASSUME NEW u \in Threads, NEW v \in Threads, NEW i \in DOMAIN calls'[u], NEW l \in DOMAIN calls'[v],
               calls'[u][i] = calls'[v][l]
        PROVE  u = v /\ i = l
    <3>1. PICK n \in DOMAIN calls[u] : calls'[u][i] = calls[u][n] /\ n = IF u = t THEN i + 1 ELSE i
      BY <2>2
    <3>2. PICK m \in DOMAIN calls[v] : calls'[v][l] = calls[v][m] /\ m = IF v = t THEN l + 1 ELSE l
      BY <2>2
    <3>3. u = v /\ n = m
      <4>1. calls[u][n] = calls[v][m]
        BY <2>4, <3>1, <3>2
      <4>2. \A y, z \in Threads : \A e \in DOMAIN calls[y], f \in DOMAIN calls[z] :
              calls[y][e] = calls[z][f] => y = z /\ e = f
        BY <1>4
      <4> QED BY <3>1, <3>2, <4>1, <4>2
    <3>4. i = l
      <4>1. CASE u = t
        <5>1. i \in Nat /\ l \in Nat
          BY <1>2, <1>3, <3>3, <4>1
        <5> QED BY <3>1, <3>2, <3>3, <4>1, <5>1
      <4>2. CASE u # t
        BY <3>1, <3>2, <3>3, <4>2
      <4> QED BY <4>1, <4>2
    <3> QED BY <3>3, <3>4
  <2> QED BY <2>1, <2>3, <2>4 DEF Fresh
<1>9. Bodies'
  BY <1>1 DEF JobOnce, Bodies, Inside, TypeOK
<1> QED BY <1>6, <1>8, <1>9 DEF JobOnce


\* A job that arrived was accepted.
LEMMA ArrivedAccepted == \A q \in Queues : \A i \in DOMAIN arrived[q] : arrived[q][i] \in Accepted
BY DEF Accepted, Range

\* Appending to a sequence appends to its range.
LEMMA RangeAppend ==
  ASSUME NEW S, NEW s \in Seq(S), NEW x \in S
  PROVE  Range(Append(s, x)) = Range(s) \cup {x}
<1>1. /\ DOMAIN Append(s, x) = DOMAIN s \cup {Len(s) + 1}
      /\ \A k \in DOMAIN s : Append(s, x)[k] = s[k]
      /\ Append(s, x)[Len(s) + 1] = x
  BY AppendPlaces
<1> PICK a : a = Append(s, x)
  OBVIOUS
<1> QED BY <1>1 DEF Range

\* A job that enters its queue is accepted, for the first time.
LEMMA EnqueueOnce ==
  ASSUME TypeOK, TypeOK', Shape, JobOnce, NEW t \in Threads, EnqueueJob(t)
  PROVE  /\ JobOnce'
         /\ pushing[t] \in Jobs /\ pushing[t] \notin Accepted
         /\ Accepted' = Accepted \cup {pushing[t]}
<1> PICK j \in Jobs, r \in Queues : j = pushing[t] /\ r = Target[j]
  BY TargetType DEF EnqueueJob, Shape, TypeOK
<1>1. /\ arrived' = [arrived EXCEPT ![r] = Append(@, j)]
      /\ pushing' = [pushing EXCEPT ![t] = None]
      /\ UNCHANGED <<cleared, started, calls, ran>>
  BY DEF EnqueueJob
<1>2. /\ arrived[r] \in Seq(Jobs)
      /\ arrived'[r] = Append(arrived[r], j)
      /\ \A q \in Queues : q # r => arrived'[q] = arrived[q]
      /\ pushing'[t] = None
      /\ \A u \in Threads : u # t => pushing'[u] = pushing[u]
  BY <1>1 DEF TypeOK
<1>3. Range(arrived'[r]) = Range(arrived[r]) \cup {j}
  BY <1>2, RangeAppend
<1>4. Accepted' = Accepted \cup {j}
  BY <1>1, <1>2, <1>3 DEF Accepted
<1>5. Once /\ j \notin Accepted /\ \A u \in Threads : u # t => pushing[u] # j
  BY NoneApart DEF JobOnce, Once
<1>6. Once'
  <2>1. ASSUME NEW q \in Queues, NEW i \in DOMAIN arrived'[q], NEW k \in DOMAIN arrived'[q],
               arrived'[q][i] = arrived'[q][k]
        PROVE  i = k
    <3>1. CASE q # r
      <4>1. arrived'[q] = arrived[q]
        BY <1>2, <3>1
      <4> QED BY <1>5, <2>1, <4>1 DEF Once
    <3>2. CASE q = r
      <4> PICK a, n : a = arrived[q] /\ n = Len(a) + 1
        OBVIOUS
      <4>1. /\ DOMAIN arrived'[q] = DOMAIN a \cup {n}
            /\ \A m \in DOMAIN a : arrived'[q][m] = a[m]
            /\ arrived'[q][n] = j
        BY <1>2, <3>2, AppendPlaces
      <4>2. \A m \in DOMAIN a : a[m] # j
        BY <1>5, ArrivedAccepted
      <4>3. \A m, l \in DOMAIN a : a[m] = a[l] => m = l
        BY <1>5 DEF Once
      <4> QED BY <2>1, <4>1, <4>2, <4>3
    <3> QED BY <3>1, <3>2
  <2>2. ASSUME NEW q \in Queues, NEW i \in DOMAIN arrived'[q]
        PROVE  Target[arrived'[q][i]] = q
    <3>1. CASE q # r
      <4>1. arrived'[q] = arrived[q]
        BY <1>2, <3>1
      <4> QED BY <1>5, <4>1 DEF Once
    <3>2. CASE q = r
      <4>1. arrived'[q][i] \in Range(arrived[q]) \cup {j}
        BY <1>3, <3>2 DEF Range
      <4>2. \A m \in DOMAIN arrived[q] : Target[arrived[q][m]] = q
        BY <1>5 DEF Once
      <4> QED BY <3>2, <4>1, <4>2 DEF Range
    <3> QED BY <3>1, <3>2
  <2>3. \A u \in Threads : pushing'[u] \notin Accepted'
    <3>1. Accepted' \subseteq Jobs
      BY AcceptedNext
    <3>2. None \notin Accepted'
      BY <3>1, NoneApart
    <3>3. \A u \in Threads : pushing[u] \notin Accepted
      BY <1>5 DEF Once
    <3> QED BY <1>2, <1>4, <1>5, <3>2, <3>3
  <2>4. \A u, v \in Threads : pushing'[u] = pushing'[v] /\ pushing'[u] # None => u = v
    BY <1>2, <1>5 DEF Once
  <2> QED BY <2>1, <2>2, <2>3, <2>4 DEF Once
<1>7. Submitted' \subseteq Submitted \cup {None}
  <2>1. /\ Submitted = {pushing[u] : u \in Threads} \cup Accepted
        /\ Submitted' = {pushing'[u] : u \in Threads} \cup Accepted'
    BY AcceptedFacts, AcceptedNext
  <2> QED BY <1>2, <1>4, <2>1
<1>8. Fresh'
  <2>1. Begun' = Begun
    BY <1>1 DEF Begun
  <2>2. \A k \in Jobs : \A i \in DOMAIN Calls[k] : Calls[k][i] # None
    BY CallsType, NoneApart
  <2>3. \A u \in Threads : \A i \in DOMAIN calls[u] : calls[u][i] # None
    BY NoneApart DEF TypeOK
  <2>4. \A k \in Jobs : \A i \in DOMAIN Calls[k] : Calls[k][i] \in Submitted' => k \in Begun'
    BY <1>7, <2>1, <2>2 DEF JobOnce, Fresh
  <2>5. \A u \in Threads : \A i \in DOMAIN calls[u] : calls[u][i] \notin Submitted'
    BY <1>7, <2>3 DEF JobOnce, Fresh
  <2> QED BY <1>1, <2>1, <2>4, <2>5 DEF JobOnce, Fresh
<1>9. Bodies'
  <2>1. \A u \in Threads : Inside(u)' => Inside(u)
    BY DEF EnqueueJob, Inside, TypeOK
  <2> QED BY <1>1, <2>1 DEF JobOnce, Bodies
<1> QED BY <1>4, <1>5, <1>6, <1>8, <1>9 DEF JobOnce


\* In a, x comes in the place after those of s.
ComesAfter(x, s, a) ==
  /\ \A i \in DOMAIN s : i # Len(s) + 1
  /\ Len(s) + 1 \in DOMAIN a /\ a[Len(s) + 1] = x

\* What follows s comes in the place after those of s.
LEMMA Places ==
  \A s \in Seq(Jobs), r \in Seq(Jobs), j \in Seq(Jobs), x \in Jobs :
    ComesAfter(x, s, (s \o (<<x>> \o r)) \o j)
<1> TAKE s \in Seq(Jobs), r \in Seq(Jobs), j \in Seq(Jobs), x \in Jobs
<1> PICK a : a = (s \o (<<x>> \o r)) \o j
  OBVIOUS
<1>1. s \o (<<x>> \o r) = Append(s, x) \o r
  BY MoveOver
<1>0. Append(s, x) \in Seq(Jobs)
  OBVIOUS
<1> PICK f \in Seq(Jobs) : f = Append(s, x)
  BY <1>0
<1>2. (f \o r) \o j = f \o (r \o j) /\ r \o j \in Seq(Jobs)
  BY Regroup
<1> PICK b \in Seq(Jobs) : b = r \o j
  BY <1>2
<1>3. a = f \o b
  BY <1>1, <1>2, Zenon
<1>4. Len(f) = Len(s) + 1 /\ f[Len(s) + 1] = x
      /\ Len(s) \in Nat /\ Len(b) \in Nat /\ DOMAIN s = 1 .. Len(s)
  BY AppendProperties
<1>5. Len(f \o b) = Len(f) + Len(b) /\ f \o b \in Seq(Jobs)
      /\ \A i \in 1 .. Len(f) : (f \o b)[i] = f[i]
  BY ConcatProperties
<1>6. Len(s) + 1 \in 1 .. Len(f) /\ DOMAIN (f \o b) = 1 .. Len(f \o b)
  BY <1>4, <1>5
<1> QED BY <1>3, <1>4, <1>5, <1>6 DEF ComesAfter

\* The places of the front of a sequence.
LEMMA ConcatFront ==
  ASSUME NEW s \in Seq(Jobs), NEW w \in Seq(Jobs)
  PROVE  \A i \in DOMAIN s : i \in DOMAIN (s \o w) /\ (s \o w)[i] = s[i]
<1>1. s \o w \in Seq(Jobs) /\ Len(s \o w) = Len(s) + Len(w) /\ Len(s) \in Nat /\ Len(w) \in Nat
      /\ \A i \in 1 .. Len(s) : (s \o w)[i] = s[i]
  BY ConcatProperties
<1>2. DOMAIN s = 1 .. Len(s) /\ DOMAIN (s \o w) = 1 .. Len(s \o w)
  BY <1>1
<1> QED BY <1>1, <1>2

\* A job that was begun has its place in the line of arrivals.
LEMMA StartedArrived ==
  ASSUME TypeOK, FifoOnce, NEW q \in Queues, NEW i \in DOMAIN started[q]
  PROVE  i \in DOMAIN arrived[q] /\ arrived[q][i] = started[q][i]
<1> PICK s \in Seq(Jobs), w \in Seq(Jobs) : s = started[q] /\ w = WaitingJobs(q)
  BY Line DEF TypeOK
<1>1. arrived[q] = s \o w
  BY Line
<1>2. i \in DOMAIN (s \o w) /\ (s \o w)[i] = s[i]
  BY ConcatProperties
<1> QED BY <1>1, <1>2

\* The first of what is left of a batch, and the others.
LEMMA RestSplits ==
  ASSUME TypeOK, NEW t \in Threads, ran[t] < Len(batch[t])
  PROVE  \E k \in Jobs, r \in Seq(Jobs) :
           /\ k = batch[t][ran[t] + 1] /\ r = SubSeq(batch[t], (ran[t] + 1) + 1, Len(batch[t]))
           /\ Rest(t) = <<k>> \o r
<1> PICK b \in Seq(Jobs), n \in Nat : b = batch[t] /\ n = ran[t]
  BY DEF TypeOK
<1>1. n + 1 \in 1 .. Len(b) /\ Len(b) \in n + 1 .. Len(b) /\ b[n + 1] \in Jobs
  OBVIOUS
<1>2. SubSeq(b, n + 1, Len(b)) = <<b[n + 1]>> \o SubSeq(b, (n + 1) + 1, Len(b))
  BY <1>1, SubSeqRecursiveFirst
<1>3. SubSeq(b, (n + 1) + 1, Len(b)) \in Seq(Jobs)
  <2>1. \A i \in (n + 1) + 1 .. Len(b) : b[i] \in Jobs
    OBVIOUS
  <2> QED BY <1>1, <2>1, SubSeqProperties
<1> WITNESS b[n + 1] \in Jobs, SubSeq(b, (n + 1) + 1, Len(b)) \in Seq(Jobs)
<1> QED BY <1>2 DEF Rest

\* The job that is begun: it was not begun before, and it was the first of those that waited.
LEMMA StartFacts ==
  ASSUME TypeOK, Shape, FifoOnce, Fifo, Once, NEW t \in Threads, StartJob(t)
  PROVE  \E q \in Queues, k \in Jobs :
           /\ q = current[t] /\ k = batch[t][ran[t] + 1] /\ k \notin Begun
           /\ started' = [started EXCEPT ![q] = Append(@, k)]
           /\ calls' = [calls EXCEPT ![t] = Calls[k]]
           /\ Begun' = Begun \cup {k}
<1>1. ran[t] < Len(batch[t]) /\ current[t] \in Queues
  BY DEF StartJob, Shape, TypeOK
<1>2. PICK k \in Jobs, r \in Seq(Jobs) : k = batch[t][ran[t] + 1] /\ Rest(t) = <<k>> \o r
  BY <1>1, RestSplits
<1>3. PICK q \in Queues : q = current[t]
  BY <1>1
<1>4. started' = [started EXCEPT ![q] = Append(@, k)] /\ calls' = [calls EXCEPT ![t] = Calls[k]]
  BY <1>2, <1>3 DEF StartJob
<1>5. started[q] \in Seq(Jobs) /\ jobs[q] \in Seq(Jobs) /\ r \in Seq(Jobs) /\ k \in Jobs
  BY DEF TypeOK
<1>6. k \notin Begun
  <2>1. arrived[q] = (started[q] \o (<<k>> \o r)) \o jobs[q]
    <3>1. t \in Executors(q) /\ FifoOf(q)
      BY <1>3 DEF Executors, Fifo
    <3>2. arrived[q] = (started[q] \o Rest(t)) \o jobs[q]
      BY <3>1, Zenon DEF FifoOf
    <3> QED BY <1>2, <3>2, Zenon
  <2>2. /\ \A i \in DOMAIN started[q] : i # Len(started[q]) + 1
        /\ Len(started[q]) + 1 \in DOMAIN arrived[q] /\ arrived[q][Len(started[q]) + 1] = k
    <3>1. ComesAfter(k, started[q], (started[q] \o (<<k>> \o r)) \o jobs[q])
      BY <1>5, Places, Zenon
    <3>2. ComesAfter(k, started[q], arrived[q])
      BY <2>1, <3>1, Zenon
    <3> QED BY <3>2 DEF ComesAfter
  <2>3. ASSUME NEW p \in Queues, NEW i \in DOMAIN started[p], started[p][i] = k
        PROVE  FALSE
    <3>1. i \in DOMAIN arrived[p] /\ arrived[p][i] = k
      BY <2>3, StartedArrived
    <3>2. Target[k] = p /\ Target[k] = q
      BY <2>2, <3>1 DEF Once
    <3>3. i = Len(started[q]) + 1
      BY <2>2, <3>1, <3>2 DEF Once
    <3> QED BY <2>2, <2>3, <3>2, <3>3
  <2> QED BY <2>3 DEF Begun, Range
<1>7. Begun' = Begun \cup {k}
  <2>1. started[q] \in Seq(Jobs) /\ started'[q] = Append(started[q], k)
        /\ \A p \in Queues : p # q => started'[p] = started[p]
    BY <1>4 DEF TypeOK
  <2>2. Range(started'[q]) = Range(started[q]) \cup {k}
    BY <2>1, RangeAppend
  <2>3. \A x : (\E p \in Queues : x \in Range(started'[p])) <=> (\E p \in Queues : x \in Range(started[p])) \/ x = k
    BY <2>1, <2>2
  <2>4. \A x : x \in Begun' <=> x \in Begun \cup {k}
    BY <2>3 DEF Begun
  <2> QED BY <2>4
<1> QED BY <1>2, <1>3, <1>4, <1>6, <1>7

\* A job that is begun has calls to make that nobody made or has still to make.
LEMMA StartOnce ==
  ASSUME TypeOK, TypeOK', Shape, FifoOnce, Fifo, JobOnce, NEW t \in Threads, StartJob(t)
  PROVE  JobOnce'
<1> PICK q \in Queues, k \in Jobs :
         /\ k \notin Begun /\ calls' = [calls EXCEPT ![t] = Calls[k]] /\ Begun' = Begun \cup {k}
  BY StartFacts DEF JobOnce
<1>1. UNCHANGED <<arrived, cleared, pushing, current>> /\ ran' = [ran EXCEPT ![t] = @ + 1]
      /\ pc' = [pc EXCEPT ![t] = "body"]
  BY DEF StartJob
<1>2. Accepted' = Accepted /\ Submitted' = Submitted
  BY <1>1 DEF Accepted, Submitted
<1>3. Once'
  BY <1>1, <1>2 DEF JobOnce, Once
<1>4. calls'[t] = Calls[k] /\ \A u \in Threads : u # t => calls'[u] = calls[u]
  BY DEF TypeOK
<1>5. /\ \A j \in Jobs : \A i \in DOMAIN Calls[j] : Calls[j][i] \in Submitted => j \in Begun
      /\ \A u \in Threads : \A i \in DOMAIN calls[u] :
           /\ calls[u][i] \notin Submitted
           /\ \E j \in Begun : \E l \in DOMAIN Calls[j] : calls[u][i] = Calls[j][l]
      /\ \A u, v \in Threads : \A i \in DOMAIN calls[u], l \in DOMAIN calls[v] :
           calls[u][i] = calls[v][l] => u = v /\ i = l
  BY DEF JobOnce, Fresh
<1>6. ASSUME NEW u \in Threads, NEW i \in DOMAIN calls'[u]
      PROVE  /\ calls'[u][i] \notin Submitted
             /\ \E j \in Begun' : \E l \in DOMAIN Calls[j] : calls'[u][i] = Calls[j][l]
  <2>1. CASE u = t
    BY <1>4, <1>5, <1>6, <2>1
  <2>2. CASE u # t
    BY <1>4, <1>5, <1>6, <2>2
  <2> QED BY <2>1, <2>2
<1>7. ASSUME NEW u \in Threads, u # t, NEW i \in DOMAIN calls[u], NEW l \in DOMAIN Calls[k],
             calls[u][i] = Calls[k][l]
      PROVE  FALSE
  <2>1. Begun \subseteq Jobs
    BY AcceptedFacts
  <2>2. PICK j \in Begun : \E n \in DOMAIN Calls[j] : calls[u][i] = Calls[j][n]
    BY <1>5, <1>7
  <2>3. j = k
    BY <1>7, <2>1, <2>2, CalledOnce
  <2> QED BY <2>3
<1>8. ASSUME NEW u \in Threads, NEW v \in Threads, NEW i \in DOMAIN calls'[u], NEW l \in DOMAIN calls'[v],
             calls'[u][i] = calls'[v][l]
      PROVE  u = v /\ i = l
  <2>1. CASE u = t /\ v = t
    BY <1>4, <1>8, <2>1, CalledOnce
  <2>2. CASE u # t /\ v = t
    BY <1>4, <1>7, <1>8, <2>2
  <2>3. CASE u = t /\ v # t
    BY <1>4, <1>7, <1>8, <2>3
  <2>4. CASE u # t /\ v # t
    BY <1>4, <1>5, <1>8, <2>4
  <2> QED BY <2>1, <2>2, <2>3, <2>4
<1>9. Fresh'
  BY <1>2, <1>5, <1>6, <1>8 DEF Fresh
<1>10. Bodies'
  <2>1. /\ ran[t] \in Nat /\ ran'[t] = ran[t] + 1
        /\ \A u \in Threads : u # t => ran'[u] = ran[u] /\ pc'[u] = pc[u] /\ current'[u] = current[u]
    BY <1>1 DEF TypeOK
  <2>2. ran'[t] # 0
    BY <2>1
  <2>3. \A u \in Threads : u # t => (Inside(u)' => Inside(u))
    BY <2>1 DEF Inside
  <2> QED BY <2>1, <2>2, <2>3 DEF JobOnce, Bodies
<1> QED BY <1>3, <1>9, <1>10 DEF JobOnce

\* ClearJob drops the back of the line; what it drops was accepted all the same.
LEMMA ClearOnce ==
  ASSUME TypeOK, TypeOK', FifoOnce, JobOnce, NEW r \in Queues, ClearJob(r)
  PROVE  JobOnce' /\ Accepted' = Accepted
<1> DEFINE f == started[r] \o InHand(r)
           j == jobs[r]
<1>0. f \in Seq(Jobs) /\ j \in Seq(Jobs)
  BY Hand, ConcatProperties
<1>1. arrived[r] = f \o j
  BY Hand
<1>2. /\ arrived' = [arrived EXCEPT ![r] = SubSeq(@, 1, Len(@) - Len(j))]
      /\ cleared' = [cleared EXCEPT ![r] = @ \o j]
      /\ UNCHANGED <<started, pushing, calls, current, pc, ran>>
  BY DEF ClearJob
<1>3. /\ arrived'[r] = SubSeq(f \o j, 1, Len(f \o j) - Len(j))
      /\ cleared[r] \in Seq(Jobs) /\ cleared'[r] = cleared[r] \o j
      /\ \A q \in Queues : q # r => arrived'[q] = arrived[q] /\ cleared'[q] = cleared[q]
  BY <1>1, <1>2 DEF TypeOK
<1>4. arrived'[r] = f
  BY <1>0, <1>3, DropBack
<1>5. /\ Range(arrived[r]) = Range(f) \cup Range(j)
      /\ Range(cleared'[r]) = Range(cleared[r]) \cup Range(j)
  <2>1. \A x, y \in Seq(Jobs) : Range(x \o y) = Range(x) \cup Range(y)
    BY RangeConcatenation
  <2> HIDE DEF f, j
  <2> QED BY <1>0, <1>1, <1>3, <2>1, Zenon
<1>6. \A q \in Queues : Range(arrived'[q]) \cup Range(cleared'[q]) = Range(arrived[q]) \cup Range(cleared[q])
  BY <1>3, <1>4, <1>5
<1>7. Accepted' = Accepted
  BY <1>6 DEF Accepted
<1>8. Submitted' = Submitted /\ Begun' = Begun
  BY <1>2, <1>7 DEF Submitted, Accepted, Begun
<1>9. \A q \in Queues : \A i \in DOMAIN arrived'[q] : i \in DOMAIN arrived[q] /\ arrived'[q][i] = arrived[q][i]
  <2>1. \A i \in DOMAIN f : i \in DOMAIN (f \o j) /\ (f \o j)[i] = f[i]
    BY <1>0, ConcatFront
  <2> QED BY <1>1, <1>3, <1>4, <2>1
<1>10. Once'
  <2>1. Once
    BY DEF JobOnce
  <2>2. \A q \in Queues : \A i, k \in DOMAIN arrived'[q] : arrived'[q][i] = arrived'[q][k] => i = k
    BY <1>9, <2>1 DEF Once
  <2>3. \A q \in Queues : \A i \in DOMAIN arrived'[q] : Target[arrived'[q][i]] = q
    BY <1>9, <2>1 DEF Once
  <2>4. UNCHANGED pushing
    BY <1>2
  <2>5. \A t \in Threads : pushing'[t] \notin Accepted'
    BY <1>7, <2>1, <2>4 DEF Once
  <2>6. \A t, u \in Threads : pushing'[t] = pushing'[u] /\ pushing'[t] # None => t = u
    BY <2>1, <2>4 DEF Once
  <2> QED BY <2>2, <2>3, <2>5, <2>6 DEF Once
<1>11. Fresh'
  BY <1>2, <1>8 DEF JobOnce, Fresh
<1>12. Bodies'
  BY <1>2 DEF JobOnce, Bodies, Inside
<1> QED BY <1>7, <1>10, <1>11, <1>12 DEF JobOnce


\* A step that submits, begins and drops nothing, and brings nobody into a body.
LEMMA QuietOnce ==
  ASSUME JobOnce, UNCHANGED <<arrived, cleared, started, pushing, calls>>,
         \A u \in Threads : Inside(u)' => Inside(u) /\ ran'[u] = ran[u]
  PROVE  JobOnce'
<1>1. Once' /\ Fresh'
  BY SameOnce DEF JobOnce
<1>2. Bodies'
  BY DEF JobOnce, Bodies
<1> QED BY <1>1, <1>2 DEF JobOnce

\* Every step submits a job at most once.
LEMMA NextJobOnce ==
  ASSUME TypeOK, Shape, Fifo, JobOnce, TypeOK', [Next]_vars
  PROVE  JobOnce'
<1> USE DEF shared, history
<1>0. FifoOnce
  BY FifoChosen
<1>1. ASSUME NEW t \in Threads, Tick(t) \/ EndDispatch(t) \/ TakeGlobal(t) \/ EndGlobal(t) PROVE JobOnce'
  <2>1. UNCHANGED <<arrived, cleared, started, pushing, calls, ran>>
    BY <1>1 DEF Tick, EndDispatch, TakeGlobal, EndGlobal
  <2>2. \A u \in Threads : Inside(u)' => Inside(u)
    BY <1>1 DEF Tick, EndDispatch, TakeGlobal, EndGlobal, Inside, Shape, TypeOK
  <2> QED BY <2>1, <2>2, QuietOnce
<1>2. ASSUME NEW t \in Threads, CountJob(t) \/ HandOver(t) PROVE JobOnce'
  <2>1. UNCHANGED <<arrived, cleared, started, pushing, calls, ran>>
    BY <1>2 DEF CountJob, HandOver
  <2>2. \A u \in Threads : Inside(u)' => Inside(u)
    BY <1>2 DEF CountJob, HandOver, Inside, Shape, TypeOK
  <2> QED BY <2>1, <2>2, QuietOnce
<1>3. ASSUME NEW t \in Threads, PopAll(t) \/ EndJob(t) PROVE JobOnce'
  <2>1. UNCHANGED <<arrived, cleared, started, pushing, calls>>
    BY <1>3 DEF PopAll, EndJob
  <2>2. \A u \in Threads : Inside(u)' => Inside(u) /\ ran'[u] = ran[u]
    BY <1>3 DEF PopAll, EndJob, Inside, Shape, TypeOK
  <2> QED BY <2>1, <2>2, QuietOnce
<1>4. ASSUME NEW t \in Threads, Settle(t) PROVE JobOnce'
  <2>1. UNCHANGED <<arrived, cleared, started, pushing, calls>>
    BY <1>4 DEF Settle, SettleAt
  <2>2. \A u \in Threads : u # t => UNCHANGED <<pc[u], current[u], ran[u]>>
    BY <1>4 DEF Settle, SettleAt, TypeOK
  <2>3. current'[t] = None \/ pc'[t] = "pop"
    BY <1>4 DEF Settle, SettleAt, TypeOK
  <2>4. \A u \in Threads : Inside(u)' => Inside(u) /\ ran'[u] = ran[u]
    BY <2>2, <2>3 DEF Inside
  <2> QED BY <2>1, <2>4, QuietOnce
<1>5. CASE UNCHANGED vars
  <2>1. UNCHANGED <<arrived, cleared, started, pushing, calls, ran, pc, current>>
    BY <1>5 DEF vars
  <2> QED BY <2>1, QuietOnce DEF Inside
<1>6. ASSUME NEW t \in Threads, Handler(t) \/ CallDoAsync(t) PROVE JobOnce'
  BY <1>6, HandlerOnce, CallOnce
<1>7. ASSUME NEW t \in Threads, EnqueueJob(t) \/ StartJob(t) PROVE JobOnce'
  BY <1>0, <1>7, EnqueueOnce, StartOnce
<1>8. ASSUME NEW q \in Queues, ClearJob(q) PROVE JobOnce'
  BY <1>0, <1>8, ClearOnce
<1> QED BY <1>1, <1>2, <1>3, <1>4, <1>5, <1>6, <1>7, <1>8 DEF Next, Step

-----------------------------------------------------------------------------
(* Every queue is a one-at-a-time executor.                                *)

Strong == TypeInv /\ Bookkeeping /\ Fifo /\ JobOnce

\* What the refinement needs holds in every reachable state.
LEMMA StrongHolds == SafetySpec => []Strong
<1>1. Init => Strong
  BY InitTypeInv, InitBookkeeping, InitFifo, InitJobOnce DEF Strong
<1>2. Strong /\ [Next]_vars => Strong'
  BY NextTypeInv, NextBookkeeping, NextFifo, NextJobOnce DEF Strong, TypeInv, Bookkeeping
<1> QED BY <1>1, <1>2, PTL DEF SafetySpec

\* What it has in it.
LEMMA StrongParts == Strong => TypeOK /\ Shape /\ Custody /\ Fifo /\ FifoOnce /\ JobOnce
BY FifoChosen DEF Strong, TypeInv, Bookkeeping

\* The same after a step.
LEMMA StrongPartsNext == Strong' => (TypeOK /\ Shape /\ Custody /\ Fifo /\ FifoOnce /\ JobOnce)'
BY StrongParts, PTL

\* The job that is being run is the one its queue's executor is in the body of.
LEMMA RunningIs ==
  TypeOK /\ Custody => \A q \in Queues :
    /\ \A t \in Threads : current[t] = q /\ Inside(t) => RunningJob(q) = batch[t][ran[t]]
    /\ (\A t \in Threads : current[t] = q => ~ Inside(t)) => RunningJob(q) = None
<1> SUFFICES ASSUME TypeOK, Custody, NEW q \in Queues
             PROVE  /\ \A t \in Threads : current[t] = q /\ Inside(t) => RunningJob(q) = batch[t][ran[t]]
                    /\ (\A t \in Threads : current[t] = q => ~ Inside(t)) => RunningJob(q) = None
  OBVIOUS
<1> DEFINE inside == {t \in Executors(q) : Inside(t)}
<1>1. ASSUME NEW t \in Threads, current[t] = q, Inside(t)
      PROVE  RunningJob(q) = batch[t][ran[t]]
  <2>1. t \in inside
    BY <1>1 DEF Executors
  <2>2. \A u \in inside : u = t
    BY <2>1, OneExecutor
  <2>3. (CHOOSE u \in inside : TRUE) = t
    BY <2>1, <2>2
  <2> QED BY <2>1, <2>3, Zenon DEF RunningJob
<1>2. ASSUME \A t \in Threads : current[t] = q => ~ Inside(t)
      PROVE  RunningJob(q) = None
  <2>1. inside = {}
    BY <1>2 DEF Executors
  <2> QED BY <2>1, Zenon DEF RunningJob
<1> QED BY <1>1, <1>2

\* The same after a step.
LEMMA RunningNext ==
  (TypeOK /\ Custody)' => (\A q \in Queues :
    /\ \A t \in Threads : current[t] = q /\ Inside(t) => RunningJob(q) = batch[t][ran[t]]
    /\ (\A t \in Threads : current[t] = q => ~ Inside(t)) => RunningJob(q) = None)'
BY RunningIs, PTL

\* A step of t that neither begins nor ends a body.
LEMMA SameRunning ==
  ASSUME TypeOK, Custody, TypeOK', Custody', NEW t \in Threads,
         \A u \in Threads : u # t => UNCHANGED <<pc[u], current[u], batch[u], ran[u]>>,
         Inside(t)' <=> Inside(t),
         Inside(t) => UNCHANGED <<current[t], batch[t], ran[t]>>
  PROVE  \A q \in Queues : RunningJob(q)' = RunningJob(q)
<1> TAKE q \in Queues
<1>1. \A u \in Threads : /\ Inside(u)' <=> Inside(u)
                         /\ Inside(u) => UNCHANGED <<current[u], batch[u], ran[u]>>
  BY DEF Inside
<1>2. CASE \E u \in Threads : current[u] = q /\ Inside(u)
  <2> PICK u \in Threads : current[u] = q /\ Inside(u)
    BY <1>2
  <2>1. RunningJob(q) = batch[u][ran[u]]
    BY RunningIs
  <2>2. RunningJob(q)' = batch'[u][ran'[u]]
    BY <1>1, RunningNext
  <2> QED BY <1>1, <2>1, <2>2
<1>3. CASE \A u \in Threads : current[u] = q => ~ Inside(u)
  <2>1. RunningJob(q) = None
    BY <1>3, RunningIs
  <2>2. \A u \in Threads : current'[u] = q => ~ Inside(u)'
    BY <1>1, <1>3
  <2>3. RunningJob(q)' = None
    BY <2>2, RunningNext
  <2> QED BY <2>1, <2>3
<1> QED BY <1>2, <1>3

\* What is behind the same front in the same line is the same.
LEMMA Behind == \A s, x, y \in Seq(Jobs) : s \o x = s \o y => x = y
BY ConcatSimplifications

\* A queue where nothing arrives, is begun or is dropped keeps its waiting line.
LEMMA SameWaiting ==
  ASSUME TypeOK, FifoOnce, TypeOK', FifoOnce', NEW q \in Queues,
         arrived'[q] = arrived[q], started'[q] = started[q]
  PROVE  WaitingJobs(q)' = WaitingJobs(q)
<1>1. WaitingJobs(q) \in Seq(Jobs) /\ arrived[q] = started[q] \o WaitingJobs(q)
  BY Line
<1>2. WaitingJobs(q)' \in Seq(Jobs) /\ arrived'[q] = started'[q] \o WaitingJobs(q)'
  BY LineNext
<1>3. started[q] \in Seq(Jobs)
  BY DEF TypeOK
<1>4. started[q] \o WaitingJobs(q)' = started[q] \o WaitingJobs(q)
  BY <1>1, <1>2, Zenon
<1> QED BY <1>1, <1>2, <1>3, <1>4, Behind, Zenon


\* A step that moves no job and touches no job that is being run.
LEMMA Stutters ==
  ASSUME \A q \in Queues : WaitingJobs(q)' = WaitingJobs(q) /\ RunningJob(q)' = RunningJob(q),
         UNCHANGED <<arrived, cleared>>
  PROVE  UNCHANGED Executor!vars
<1>1. [q \in Queues |-> WaitingJobs(q)]' = [q \in Queues |-> WaitingJobs(q)]
  OBVIOUS
<1>2. [q \in Queues |-> RunningJob(q)]' = [q \in Queues |-> RunningJob(q)]
  OBVIOUS
<1>3. (UNION {Range(arrived[q]) \cup Range(cleared[q]) : q \in Queues})'
        = UNION {Range(arrived[q]) \cup Range(cleared[q]) : q \in Queues}
  OBVIOUS
<1> QED BY <1>1, <1>2, <1>3 DEF Executor!vars

\* Nothing waits and nothing runs initially.
LEMMA InitImplements == Init => Executor!Init
<1> SUFFICES ASSUME Init PROVE Executor!Init
  OBVIOUS
<1>1. \A q \in Queues : /\ arrived[q] = <<>> /\ cleared[q] = <<>> /\ jobs[q] = <<>>
                        /\ Executors(q) = {}
  BY NoneApart DEF Init, Executors
<1>2. \A q \in Queues : WaitingJobs(q) = <<>>
  <2> TAKE q \in Queues
  <2>1. WaitingJobs(q) = <<>> \o <<>>
    BY <1>1, Zenon DEF WaitingJobs
  <2>2. <<>> \o <<>> = <<>>
    OBVIOUS
  <2> QED BY <2>1, <2>2
<1>3. \A q \in Queues : RunningJob(q) = None
  <2> TAKE q \in Queues
  <2>1. {t \in Executors(q) : Inside(t)} = {}
    BY <1>1
  <2> QED BY <2>1, Zenon DEF RunningJob
<1>4. \A q \in Queues : Range(arrived[q]) \cup Range(cleared[q]) = {}
  BY <1>1 DEF Range
<1>5. UNION {Range(arrived[q]) \cup Range(cleared[q]) : q \in Queues} = {}
  BY <1>4
<1> QED BY <1>2, <1>3, <1>5 DEF Executor!Init

\* The steps of a thread between the jobs, and those of a Push before its end.
LEMMA QuietStep ==
  ASSUME Strong, Strong', NEW t \in Threads,
         \/ Tick(t) \/ Handler(t) \/ EndDispatch(t) \/ TakeGlobal(t) \/ EndGlobal(t)
         \/ CountJob(t) \/ HandOver(t) \/ PopAll(t) \/ CallDoAsync(t) \/ Settle(t)
  PROVE  UNCHANGED Executor!vars
<1> USE DEF shared, history
<1>1. /\ TypeOK /\ Shape /\ FifoOnce /\ Custody
      /\ TypeOK' /\ Custody' /\ FifoOnce'
  BY StrongParts, StrongPartsNext
<1>2. UNCHANGED <<arrived, started, cleared>>
  BY DEF Tick, Handler, EndDispatch, TakeGlobal, EndGlobal, CountJob, HandOver, PopAll,
         CallDoAsync, Settle, SettleAt
<1>3. \A u \in Threads : u # t => UNCHANGED <<pc[u], current[u], batch[u], ran[u]>>
  <2>1. CASE Tick(t) \/ Handler(t) \/ EndDispatch(t) \/ EndGlobal(t)
    BY <1>1, <2>1 DEF Tick, Handler, EndDispatch, EndGlobal, TypeOK
  <2>2. CASE CountJob(t) \/ HandOver(t) \/ CallDoAsync(t)
    BY <1>1, <2>2 DEF CountJob, HandOver, CallDoAsync, TypeOK
  <2>3. CASE TakeGlobal(t) \/ PopAll(t)
    BY <1>1, <2>3 DEF TakeGlobal, PopAll, TypeOK
  <2>4. CASE Settle(t)
    BY <1>1, <2>4 DEF Settle, SettleAt, TypeOK
  <2> QED BY <2>1, <2>2, <2>3, <2>4
<1>4. (Inside(t)' <=> Inside(t)) /\ (Inside(t) => UNCHANGED <<current[t], batch[t], ran[t]>>)
  <2>1. CASE Tick(t) \/ Handler(t) \/ EndDispatch(t) \/ EndGlobal(t)
    BY <1>1, <2>1 DEF Tick, Handler, EndDispatch, EndGlobal, TypeOK, Shape, Inside
  <2>2. CASE CountJob(t) \/ HandOver(t) \/ CallDoAsync(t)
    BY <1>1, <2>2 DEF CountJob, HandOver, CallDoAsync, TypeOK, Shape, Inside
  <2>3. CASE TakeGlobal(t) \/ PopAll(t)
    BY <1>1, <2>3 DEF TakeGlobal, PopAll, TypeOK, Shape, Inside
  <2>4. CASE Settle(t)
    BY <1>1, <2>4 DEF Settle, SettleAt, TypeOK, Inside
  <2> QED BY <2>1, <2>2, <2>3, <2>4
<1>5. \A q \in Queues : RunningJob(q)' = RunningJob(q)
  BY <1>1, <1>3, <1>4, SameRunning
<1>6. \A q \in Queues : WaitingJobs(q)' = WaitingJobs(q)
  <2> TAKE q \in Queues
  <2>1. arrived'[q] = arrived[q] /\ started'[q] = started[q]
    BY <1>2
  <2> QED BY <1>1, <2>1, SameWaiting
<1> QED BY <1>2, <1>5, <1>6, Stutters


\* The first and the others of a line that a job was put in front of.
LEMMA HeadTailOfFirst ==
  ASSUME NEW k \in Jobs, NEW w \in Seq(Jobs)
  PROVE  <<k>> \o w # <<>> /\ Head(<<k>> \o w) = k /\ Tail(<<k>> \o w) = w
<1> PICK x : x = <<k>> \o w
  OBVIOUS
<1>1. <<k>> \in Seq(Jobs) /\ Len(<<k>>) = 1 /\ Len(w) \in Nat
  OBVIOUS
<1>2. /\ x \in Seq(Jobs) /\ Len(x) = 1 + Len(w)
      /\ x[1] = k /\ \A i \in 1 .. Len(w) : x[i + 1] = w[i]
  BY <1>1, ConcatProperties
<1>3. x # <<>> /\ Head(x) = k
  BY <1>1, <1>2
<1>4. Tail(x) \in Seq(Jobs) /\ Len(Tail(x)) = Len(w) /\ \A i \in 1 .. Len(Tail(x)) : Tail(x)[i] = w[i]
  BY <1>1, <1>2, <1>3, HeadTailProperties
<1>5. Tail(x) = w
  BY <1>4, SeqEqual
<1> QED BY <1>3, <1>5

\* A step of the executor of q leaves alone what other queues run.
LEMMA OtherRunning ==
  ASSUME TypeOK, Custody, TypeOK', Custody', NEW t \in Threads, NEW q \in Queues,
         current[t] = q, UNCHANGED <<current, batch>>,
         \A u \in Threads : u # t => UNCHANGED <<pc[u], ran[u]>>
  PROVE  \A p \in Queues : p # q => RunningJob(p)' = RunningJob(p)
<1> TAKE p \in Queues
<1> HAVE p # q
<1>1. \A u \in Threads : current[u] = p => /\ current'[u] = p
                                           /\ Inside(u)' <=> Inside(u)
                                           /\ batch'[u] = batch[u] /\ ran'[u] = ran[u]
  BY DEF Inside
<1>2. CASE \E u \in Threads : current[u] = p /\ Inside(u)
  <2> PICK u \in Threads : current[u] = p /\ Inside(u)
    BY <1>2
  <2>1. RunningJob(p) = batch[u][ran[u]]
    BY RunningIs
  <2>2. RunningJob(p)' = batch'[u][ran'[u]]
    BY <1>1, RunningNext
  <2> QED BY <1>1, <2>1, <2>2
<1>3. CASE \A u \in Threads : current[u] = p => ~ Inside(u)
  <2>1. RunningJob(p) = None
    BY <1>3, RunningIs
  <2>2. \A u \in Threads : current'[u] = p => ~ Inside(u)'
    BY <1>1, <1>3
  <2>3. RunningJob(p)' = None
    BY <2>2, RunningNext
  <2> QED BY <2>1, <2>3
<1> QED BY <1>2, <1>3


\* A job that enters its queue is submitted.
LEMMA Submits ==
  ASSUME Strong, Strong', NEW t \in Threads, EnqueueJob(t)
  PROVE  Executor!Submit(pushing[t]) /\ pushing[t] \in Jobs
<1>1. /\ TypeOK /\ Shape /\ FifoOnce /\ Custody /\ JobOnce
      /\ TypeOK' /\ Custody' /\ FifoOnce'
  BY StrongParts, StrongPartsNext
<1>2. PICK j \in Jobs, r \in Queues : j = pushing[t] /\ r = Target[j]
  BY <1>1, TargetType DEF EnqueueJob, Shape, TypeOK
<1>3. j \notin Accepted /\ Accepted' = Accepted \cup {j}
  BY <1>1, <1>2, EnqueueOnce
<1>4. /\ arrived' = [arrived EXCEPT ![r] = Append(@, j)]
      /\ UNCHANGED <<started, batch, ran>>
  BY <1>2 DEF EnqueueJob
<1>5. \A q \in Queues : q # r => WaitingJobs(q)' = WaitingJobs(q)
  <2> TAKE q \in Queues
  <2> HAVE q # r
  <2>1. arrived'[q] = arrived[q] /\ started'[q] = started[q]
    BY <1>1, <1>4 DEF TypeOK
  <2> QED BY <1>1, <2>1, SameWaiting
<1>6. WaitingJobs(r)' = Append(WaitingJobs(r), j)
  <2>1. WaitingJobs(r) \in Seq(Jobs) /\ arrived[r] = started[r] \o WaitingJobs(r)
    BY <1>1, Line
  <2>2. WaitingJobs(r)' \in Seq(Jobs) /\ arrived'[r] = started'[r] \o WaitingJobs(r)'
    BY <1>1, LineNext
  <2>3. arrived'[r] = Append(arrived[r], j) /\ started'[r] = started[r] /\ started[r] \in Seq(Jobs)
    BY <1>1, <1>4 DEF TypeOK
  <2>4. Append(started[r] \o WaitingJobs(r), j) = started[r] \o Append(WaitingJobs(r), j)
    BY <2>1, <2>3, AppendBehind
  <2>5. Append(WaitingJobs(r), j) \in Seq(Jobs)
    BY <2>1
  <2>6. started[r] \o WaitingJobs(r)' = started[r] \o Append(WaitingJobs(r), j)
    BY <2>1, <2>2, <2>3, <2>4, Zenon
  <2> QED BY <2>2, <2>3, <2>5, <2>6, Behind, Zenon
<1>7. \A q \in Queues : RunningJob(q)' = RunningJob(q)
  <2>1. \A u \in Threads : u # t => UNCHANGED <<pc[u], current[u], batch[u], ran[u]>>
    BY <1>1 DEF EnqueueJob, TypeOK
  <2>2. (Inside(t)' <=> Inside(t)) /\ (Inside(t) => UNCHANGED <<current[t], batch[t], ran[t]>>)
    BY <1>1 DEF EnqueueJob, TypeOK, Shape, Inside
  <2> QED BY <1>1, <2>1, <2>2, SameRunning
<1>8. [q \in Queues |-> WaitingJobs(q)]'
        = [[q \in Queues |-> WaitingJobs(q)] EXCEPT ![Target[j]] = Append(@, j)]
  BY <1>2, <1>5, <1>6
<1>9. [q \in Queues |-> RunningJob(q)]' = [q \in Queues |-> RunningJob(q)]
  BY <1>7
<1>10. Executor!Submit(j)
  BY <1>3, <1>8, <1>9 DEF Executor!Submit, Accepted
<1> QED BY <1>2, <1>10

\* A job whose body begins is the first of those that waited, and nothing of its queue ran.
LEMMA Starts ==
  ASSUME Strong, Strong', NEW t \in Threads, StartJob(t)
  PROVE  Executor!Start(current[t]) /\ current[t] \in Queues
<1>1. /\ TypeOK /\ Shape /\ FifoOnce /\ Custody /\ JobOnce /\ Fifo /\ Once
      /\ TypeOK' /\ Custody' /\ FifoOnce'
  BY StrongParts, StrongPartsNext DEF JobOnce
<1>2. PICK q \in Queues, k \in Jobs :
        /\ q = current[t] /\ k = batch[t][ran[t] + 1]
        /\ started' = [started EXCEPT ![q] = Append(@, k)]
  BY <1>1, StartFacts
<1>3. /\ UNCHANGED <<arrived, cleared, current, batch>>
      /\ ran' = [ran EXCEPT ![t] = @ + 1] /\ pc' = [pc EXCEPT ![t] = "body"] /\ pc[t] = "run"
  BY DEF StartJob, history
<1>4. \A p \in Queues : p # q => WaitingJobs(p)' = WaitingJobs(p)
  <2> TAKE p \in Queues
  <2> HAVE p # q
  <2>1. arrived'[p] = arrived[p] /\ started'[p] = started[p]
    BY <1>1, <1>2, <1>3 DEF TypeOK
  <2> QED BY <1>1, <2>1, SameWaiting
<1>5. WaitingJobs(q) = <<k>> \o WaitingJobs(q)' /\ WaitingJobs(q)' \in Seq(Jobs)
  <2>1. WaitingJobs(q) \in Seq(Jobs) /\ arrived[q] = started[q] \o WaitingJobs(q)
    BY <1>1, Line
  <2>2. WaitingJobs(q)' \in Seq(Jobs) /\ arrived'[q] = started'[q] \o WaitingJobs(q)'
    BY <1>1, LineNext
  <2>3. started'[q] = Append(started[q], k) /\ started[q] \in Seq(Jobs) /\ arrived'[q] = arrived[q]
    BY <1>1, <1>2, <1>3 DEF TypeOK
  <2>4. started[q] \o (<<k>> \o WaitingJobs(q)') = Append(started[q], k) \o WaitingJobs(q)'
    BY <2>2, <2>3, MoveOver
  <2>5. <<k>> \o WaitingJobs(q)' \in Seq(Jobs)
    BY <2>2
  <2>6. started[q] \o WaitingJobs(q) = started[q] \o (<<k>> \o WaitingJobs(q)')
    BY <2>1, <2>2, <2>3, <2>4, Zenon
  <2>7. WaitingJobs(q) = <<k>> \o WaitingJobs(q)'
    BY <2>1, <2>3, <2>5, <2>6, Behind, Zenon
  <2> QED BY <2>2, <2>7
<1>6. WaitingJobs(q) # <<>> /\ Head(WaitingJobs(q)) = k /\ Tail(WaitingJobs(q)) = WaitingJobs(q)'
  <2>1. \A w \in Seq(Jobs) : <<k>> \o w # <<>> /\ Head(<<k>> \o w) = k /\ Tail(<<k>> \o w) = w
    BY HeadTailOfFirst
  <2> QED BY <1>5, <2>1, Zenon
<1>7. RunningJob(q) = None
  <2>1. \A u \in Threads : current[u] = q => u = t
    BY <1>1, <1>2, OneExecutor DEF Executors
  <2>2. ~ Inside(t)
    BY <1>3 DEF Inside
  <2> QED BY <1>1, <2>1, <2>2, RunningIs
<1>8. RunningJob(q)' = k
  <2>1. current'[t] = q /\ Inside(t)' /\ ran'[t] = ran[t] + 1 /\ batch'[t] = batch[t]
    BY <1>1, <1>2, <1>3, NoneApart DEF Inside, TypeOK
  <2>2. RunningJob(q)' = batch'[t][ran'[t]]
    BY <1>1, <2>1, RunningNext
  <2> QED BY <1>2, <2>1, <2>2
<1>9. \A p \in Queues : p # q => RunningJob(p)' = RunningJob(p)
  BY <1>1, <1>2, <1>3, OtherRunning
<1>10. [p \in Queues |-> WaitingJobs(p)]' = [[p \in Queues |-> WaitingJobs(p)] EXCEPT ![q] = Tail(@)]
  BY <1>4, <1>6
<1>11. [p \in Queues |-> RunningJob(p)]'
         = [[p \in Queues |-> RunningJob(p)] EXCEPT ![q] = Head([p \in Queues |-> WaitingJobs(p)][q])]
  BY <1>6, <1>8, <1>9
<1>12. Accepted' = Accepted
  BY <1>3 DEF Accepted
<1>13. Executor!Start(q)
  BY <1>6, <1>7, <1>10, <1>11, <1>12 DEF Executor!Start, Accepted
<1> QED BY <1>2, <1>13


\* A step that leaves every thread where it is leaves what runs.
LEMMA SameRunningOfAll ==
  ASSUME UNCHANGED <<current, batch, ran, pc>>
  PROVE  \A q \in Queues : RunningJob(q)' = RunningJob(q)
BY DEF RunningJob, Executors, Inside

\* A line that lost its back is its own beginning.
LEMMA FrontIsKept ==
  ASSUME NEW f \in Seq(Jobs), NEW b \in Seq(Jobs)
  PROVE  \E keep \in 0 .. Len(f \o b) : f = SubSeq(f \o b, 1, keep)
<1>1. /\ Len(f) \in Nat /\ Len(b) \in Nat
      /\ Len(f \o b) = Len(f) + Len(b)
  BY ConcatProperties
<1>2. Len(f \o b) - Len(b) \in 0 .. Len(f \o b)
  BY <1>1
<1>3. SubSeq(f \o b, 1, Len(f \o b) - Len(b)) = f
  BY DropBack
<1> QED BY <1>2, <1>3, Zenon


\* A job whose body returns was running, and is no longer.
LEMMA Finishes ==
  ASSUME Strong, Strong', NEW t \in Threads, EndJob(t)
  PROVE  Executor!Finish(current[t]) /\ current[t] \in Queues
<1>1. /\ TypeOK /\ Shape /\ FifoOnce /\ Custody /\ JobOnce
      /\ TypeOK' /\ Custody' /\ FifoOnce'
  BY StrongParts, StrongPartsNext
<1>2. PICK q \in Queues : q = current[t]
  BY <1>1 DEF EndJob, Shape, TypeOK
<1>3. /\ UNCHANGED <<arrived, cleared, started, current, batch, ran>>
      /\ pc' = [pc EXCEPT ![t] = "run"] /\ pc[t] = "body"
  BY DEF EndJob, history
<1>4. \A p \in Queues : WaitingJobs(p)' = WaitingJobs(p)
  <2> TAKE p \in Queues
  <2>1. arrived'[p] = arrived[p] /\ started'[p] = started[p]
    BY <1>3
  <2> QED BY <1>1, <2>1, SameWaiting
<1>5. RunningJob(q) # None
  <2>1. Inside(t) /\ current[t] = q
    BY <1>2, <1>3, NoneApart DEF Inside
  <2>2. RunningJob(q) = batch[t][ran[t]]
    BY <1>1, <2>1, RunningIs
  <2>3. ran[t] # 0 /\ ran[t] \in Nat /\ ran[t] <= Len(batch[t])
    BY <1>1, <2>1 DEF JobOnce, Bodies, Shape, TypeOK
  <2>4. ran[t] \in 1 .. Len(batch[t])
    BY <2>3
  <2>5. batch[t][ran[t]] \in Jobs
    BY <1>1, <2>4 DEF TypeOK
  <2> QED BY <2>2, <2>5, NoneApart
<1>6. RunningJob(q)' = None
  <2>1. \A u \in Threads : current[u] = q => u = t
    BY <1>1, <1>2, OneExecutor DEF Executors
  <2>2. ~ Inside(t)'
    BY <1>1, <1>3 DEF Inside, TypeOK
  <2>3. \A u \in Threads : current'[u] = q => ~ Inside(u)'
    BY <1>3, <2>1, <2>2
  <2> QED BY <1>1, <2>3, RunningNext
<1>7. \A p \in Queues : p # q => RunningJob(p)' = RunningJob(p)
  <2>1. \A u \in Threads : u # t => UNCHANGED <<pc[u], ran[u]>>
    BY <1>1, <1>3 DEF TypeOK
  <2> QED BY <1>1, <1>2, <1>3, <2>1, OtherRunning
<1>8. [p \in Queues |-> WaitingJobs(p)]' = [p \in Queues |-> WaitingJobs(p)]
  BY <1>4
<1>9. [p \in Queues |-> RunningJob(p)]' = [[p \in Queues |-> RunningJob(p)] EXCEPT ![q] = None]
  BY <1>6, <1>7
<1>10. Accepted' = Accepted
  BY <1>3 DEF Accepted
<1>11. Executor!Finish(q)
  BY <1>5, <1>8, <1>9, <1>10 DEF Executor!Finish, Accepted
<1> QED BY <1>2, <1>11

\* ClearJob drops what is enqueued from the back of the waiting line, and keeps what is in hand.
LEMMA Drops ==
  ASSUME Strong, Strong', NEW r \in Queues, ClearJob(r)
  PROVE  Executor!Drop(r)
<1>1. /\ TypeOK /\ Shape /\ FifoOnce /\ Custody /\ JobOnce
      /\ TypeOK' /\ Custody' /\ FifoOnce'
  BY StrongParts, StrongPartsNext
<1>2. /\ jobs' = [jobs EXCEPT ![r] = <<>>]
      /\ arrived' = [arrived EXCEPT ![r] = SubSeq(@, 1, Len(@) - Len(jobs[r]))]
      /\ UNCHANGED <<started, current, batch, ran, pc>>
  BY DEF ClearJob
<1>3. \A q \in Queues : q # r => WaitingJobs(q)' = WaitingJobs(q)
  <2> TAKE q \in Queues
  <2> HAVE q # r
  <2>1. arrived'[q] = arrived[q] /\ started'[q] = started[q]
    BY <1>1, <1>2 DEF TypeOK
  <2> QED BY <1>1, <2>1, SameWaiting
<1>4. \A q \in Queues : RunningJob(q)' = RunningJob(q)
  BY <1>2, SameRunningOfAll
<1>5. /\ InHand(r) \in Seq(Jobs) /\ WaitingJobs(r) = InHand(r) \o jobs[r]
      /\ started[r] \in Seq(Jobs) /\ jobs[r] \in Seq(Jobs)
      /\ arrived[r] = (started[r] \o InHand(r)) \o jobs[r]
  BY <1>1, Hand
<1>6. WaitingJobs(r)' = InHand(r)
  <2>1. WaitingJobs(r)' \in Seq(Jobs) /\ arrived'[r] = started'[r] \o WaitingJobs(r)'
    BY <1>1, LineNext
  <2>2. arrived'[r] = SubSeq(arrived[r], 1, Len(arrived[r]) - Len(jobs[r])) /\ started'[r] = started[r]
    BY <1>1, <1>2 DEF TypeOK
  <2>3. \A f, b \in Seq(Jobs) : SubSeq(f \o b, 1, Len(f \o b) - Len(b)) = f
    BY DropBack
  <2>4. started[r] \o InHand(r) \in Seq(Jobs)
    BY <1>5, ConcatProperties
  <2>5. arrived'[r] = started[r] \o InHand(r)
    BY <1>5, <2>2, <2>3, <2>4, Zenon
  <2>6. started[r] \o WaitingJobs(r)' = started[r] \o InHand(r)
    BY <2>1, <2>2, <2>5, Zenon
  <2> QED BY <1>5, <2>1, <2>6, Behind, Zenon
<1>7. \E keep \in 0 .. Len(WaitingJobs(r)) : WaitingJobs(r)' = SubSeq(WaitingJobs(r), 1, keep)
  <2>1. \A f, b \in Seq(Jobs) : \E keep \in 0 .. Len(f \o b) : f = SubSeq(f \o b, 1, keep)
    BY FrontIsKept
  <2>2. \E keep \in 0 .. Len(InHand(r) \o jobs[r]) : InHand(r) = SubSeq(InHand(r) \o jobs[r], 1, keep)
    BY <1>5, <2>1, Zenon
  <2> QED BY <1>5, <1>6, <2>2, Zenon
<1>8. PICK keep \in 0 .. Len(WaitingJobs(r)) : WaitingJobs(r)' = SubSeq(WaitingJobs(r), 1, keep)
  BY <1>7
<1>9. [q \in Queues |-> WaitingJobs(q)]'
        = [[q \in Queues |-> WaitingJobs(q)] EXCEPT ![r] = SubSeq(@, 1, keep)]
  BY <1>3, <1>8
<1>10. [q \in Queues |-> RunningJob(q)]' = [q \in Queues |-> RunningJob(q)]
  BY <1>4
<1>11. Accepted' = Accepted
  BY <1>1, ClearOnce
<1>12. keep \in 0 .. Len([q \in Queues |-> WaitingJobs(q)][r])
  OBVIOUS
<1> QED BY <1>9, <1>10, <1>11, <1>12 DEF Executor!Drop, Accepted

\* Every step of the scheduler is a step of the executors, or none of their business.
LEMMA StepImplements ==
  ASSUME Strong, Strong', [Next]_vars
  PROVE  [Executor!Next]_(Executor!vars)
<1>1. CASE \E t \in Threads :
             \/ Tick(t) \/ Handler(t) \/ EndDispatch(t) \/ TakeGlobal(t) \/ EndGlobal(t)
             \/ CountJob(t) \/ HandOver(t) \/ PopAll(t) \/ CallDoAsync(t) \/ Settle(t)
  BY <1>1, QuietStep
<1>2. ASSUME NEW t \in Threads, EnqueueJob(t) PROVE Executor!Next
  BY <1>2, Submits DEF Executor!Next
<1>3. ASSUME NEW t \in Threads, StartJob(t) PROVE Executor!Next
  BY <1>3, Starts DEF Executor!Next
<1>4. ASSUME NEW t \in Threads, EndJob(t) PROVE Executor!Next
  BY <1>4, Finishes DEF Executor!Next
<1>5. ASSUME NEW q \in Queues, ClearJob(q) PROVE Executor!Next
  BY <1>5, Drops DEF Executor!Next
<1>6. CASE UNCHANGED vars
  <2>1. UNCHANGED <<arrived, cleared>>
    BY <1>6 DEF vars
  <2>2. \A q \in Queues : WaitingJobs(q)' = WaitingJobs(q) /\ RunningJob(q)' = RunningJob(q)
    BY <1>6 DEF vars, WaitingJobs, RunningJob, Rest, Executors, Inside
  <2> QED BY <2>1, <2>2, Stutters
<1> QED BY <1>1, <1>2, <1>3, <1>4, <1>5, <1>6 DEF Next, Step

\* Each queue implements the abstract one-at-a-time executor: seen from the
\* callers of DoAsync, every step of the scheduler submits a job for the first
\* time, begins the first job that waits while no other of its queue runs,
\* ends the running one, drops jobs from the back of the line (ClearJob), or
\* changes nothing.
THEOREM ImplementsExecutor == Spec => Executor!SafetySpec
<1>1. Init => Executor!Init
  BY InitImplements
<1>2. Strong /\ Strong' /\ [Next]_vars => [Executor!Next]_(Executor!vars)
  BY StepImplements
<1>3. SafetySpec => []Strong
  BY StrongHolds
<1> QED BY <1>1, <1>2, <1>3, PTL DEF Spec, SafetySpec, Executor!SafetySpec
=============================================================================
