------------------------------ MODULE JobQueue ------------------------------
(***************************************************************************)
(* The job scheduler of ServerCore: JobQueue (one per Room), the           *)
(* GlobalQueue of job queues that nobody executes, and the worker threads  *)
(* that serve both (DoWorkerJob, DoGlobalQueueWork).                       *)
(*                                                                         *)
(* A thread that submits a job first counts it (_jobCount.fetch_add), then *)
(* enqueues it (LockQueue::Push).  Whoever counted the first job takes     *)
(* custody of the queue and must see it executed: by running it at once,   *)
(* or, when it is itself inside another queue's Execute, by putting the    *)
(* queue on the global queue.                                              *)
(*                                                                         *)
(* One step is one access to shared memory (an atomic or one critical      *)
(* section of a LockQueue) with the thread-local code next to it.  The     *)
(* lock inside LockQueue is modelled in SpinLock.tla; here its critical    *)
(* sections are atomic.                                                    *)
(***************************************************************************)
EXTENDS Integers, FiniteSets, Sequences, Functions

CONSTANTS
  Threads,    \* the worker threads, main included
  Queues,     \* the JobQueue objects
  Jobs,       \* the jobs that may be submitted, each at most once: DoAsync makes a new one
  Target,     \* Target[j]: the queue DoAsync pushes job j to
  Calls,      \* Calls[j]: the jobs that the body of j submits, in order
  MaxCleared, \* bound: ClearJob is not called after this many jobs were dropped
  None        \* a null pointer

ASSUME JobQueueAssumption ==
  /\ IsFiniteSet(Threads)
  /\ Target \in [Jobs -> Queues]
  /\ Calls \in [Jobs -> Seq(Jobs)]
  /\ \A j, k \in Jobs : \A i \in DOMAIN Calls[j], l \in DOMAIN Calls[k] :
       Calls[j][i] = Calls[k][l] => j = k /\ i = l
  /\ MaxCleared \in Nat
  /\ None \notin Queues \cup Jobs

VARIABLES
  jobs,         \* _jobs of each JobQueue
  jobCount,     \* _jobCount of each JobQueue
  globalQueue,  \* GGlobalQueue
  pc,           \* where each thread is, see Pcs
  current,      \* LCurrentJobQueue
  slice,        \* GetTickCount64() against LEndTickCount
  pushing,      \* the job a thread is inside JobQueue::Push with
  first,        \* prevCount == 0 in JobQueue::Push
  handing,      \* the queue a thread is inside GlobalQueue::Push with
  batch,        \* the local Vector<JobRef> jobs of Execute
  ran,          \* how many jobs of batch were begun
  calls,        \* the DoAsync calls the running job body still has to make
  caller,       \* who called Execute: an I/O handler or DoGlobalQueueWork
  \* history
  arrived,      \* the jobs of each queue in the order they entered _jobs
  started,      \* the jobs of each queue in the order they were begun
  cleared       \* the jobs of each queue that ClearJob threw away

shared  == <<jobs, jobCount, globalQueue>>
history == <<arrived, started, cleared>>
vars == <<jobs, jobCount, globalQueue, pc, current, slice, pushing, first,
          handing, batch, ran, calls, caller, arrived, started, cleared>>

Pcs == { "dispatch",  \* in IocpCore::Dispatch or an I/O handler it calls
         "global",    \* in DoGlobalQueueWork, between two queues
         "count",     \* JobQueue::Push, before the fetch_add
         "enqueue",   \* JobQueue::Push, before _jobs.Push
         "hand",      \* before GGlobalQueue->Push
         "pop",       \* Execute, before _jobs.PopAll
         "run",       \* Execute, between two jobs of the batch
         "body" }     \* inside a job

Slices == {"before", "at", "after"}

-----------------------------------------------------------------------------
(* Derived state. *)

\* The jobs whose submission has begun.
Submitted ==
  {pushing[t] : t \in Threads}
    \cup UNION {Range(arrived[q]) \cup Range(cleared[q]) : q \in Queues}

\* The jobs no other job submits: they come from packet handlers.
Roots == {j \in Jobs : \A k \in Jobs : j \notin Range(Calls[k])}

\* What is left of the batch a thread is executing.
Rest(t) == SubSeq(batch[t], ran[t] + 1, Len(batch[t]))

Executors(q) == {t \in Threads : current[t] = q}

\* Threads that counted a job of q and did not enqueue it yet.
Mid(q) == {t \in Threads : pc[t] = "enqueue" /\ Target[pushing[t]] = q}

\* The holders of the duty to see q executed.
Custodians(q) ==
  {<<"exec", t>> : t \in Executors(q)}
    \cup {<<"push", t>> : t \in {s \in Mid(q) : first[s]}}
    \cup {<<"hand", t>> : t \in {s \in Threads : handing[s] = q}}
    \cup {<<"global", i>> : i \in {k \in DOMAIN globalQueue : globalQueue[k] = q}}

\* What _jobCount of q should be.
KnownJobs(q) == Len(jobs[q]) + Cardinality(Mid(q)) + Len(cleared[q])

CountExactOf(q) ==
  /\ Executors(q) = {} => jobCount[q] = KnownJobs(q)
  /\ \A t \in Executors(q) : jobCount[q] = KnownJobs(q) + Len(batch[t])

-----------------------------------------------------------------------------
Init ==
  /\ jobs = [q \in Queues |-> <<>>]
  /\ jobCount = [q \in Queues |-> 0]
  /\ globalQueue = <<>>
  /\ pc = [t \in Threads |-> "dispatch"]
  /\ current = [t \in Threads |-> None]
  /\ slice = [t \in Threads |-> "before"]
  /\ pushing = [t \in Threads |-> None]
  /\ first = [t \in Threads |-> FALSE]
  /\ handing = [t \in Threads |-> None]
  /\ batch = [t \in Threads |-> <<>>]
  /\ ran = [t \in Threads |-> 0]
  /\ calls = [t \in Threads |-> <<>>]
  /\ caller = [t \in Threads |-> "dispatch"]
  /\ arrived = [q \in Queues |-> <<>>]
  /\ started = [q \in Queues |-> <<>>]
  /\ cleared = [q \in Queues |-> <<>>]

-----------------------------------------------------------------------------
(* The worker loop. *)

\* The clock moves on; it may jump over LEndTickCount.  Nothing in an I/O
\* handler reads the slice, so a tick there may as well come just after it.
Tick(t) ==
  /\ pc[t] # "dispatch"
  /\ \/ slice[t] = "before" /\ \E s \in {"at", "after"} : slice' = [slice EXCEPT ![t] = s]
     \/ slice[t] = "at" /\ slice' = [slice EXCEPT ![t] = "after"]
  /\ UNCHANGED <<shared, pc, current, pushing, first, handing, batch, ran,
                 calls, caller, history>>

\* A packet handler, called from Dispatch, does DoAsync(j).
Handler(t) ==
  /\ pc[t] = "dispatch"
  /\ \E j \in Roots \ Submitted : pushing' = [pushing EXCEPT ![t] = j]
  /\ pc' = [pc EXCEPT ![t] = "count"]
  /\ UNCHANGED <<shared, current, slice, first, handing, batch, ran, calls,
                 caller, history>>

\* Dispatch returns; the worker turns to the global queue.
EndDispatch(t) ==
  /\ pc[t] = "dispatch"
  /\ pc' = [pc EXCEPT ![t] = "global"]
  /\ caller' = [caller EXCEPT ![t] = "global"]
  /\ UNCHANGED <<shared, current, slice, pushing, first, handing, batch, ran,
                 calls, history>>

\* DoGlobalQueueWork pops a queue in time and calls its Execute.
TakeGlobal(t) ==
  /\ pc[t] = "global"
  /\ slice[t] # "after"
  /\ globalQueue # <<>>
  /\ current' = [current EXCEPT ![t] = Head(globalQueue)]
  /\ globalQueue' = Tail(globalQueue)
  /\ pc' = [pc EXCEPT ![t] = "pop"]
  /\ UNCHANGED <<jobs, jobCount, slice, pushing, first, handing, batch, ran,
                 calls, caller, history>>

\* DoGlobalQueueWork ends, out of time or out of queues, and DoWorkerJob
\* starts its next turn with a fresh LEndTickCount.
EndGlobal(t) ==
  /\ pc[t] = "global"
  /\ slice[t] = "after" \/ globalQueue = <<>>
  /\ pc' = [pc EXCEPT ![t] = "dispatch"]
  /\ slice' = [slice EXCEPT ![t] = "before"]
  /\ caller' = [caller EXCEPT ![t] = "dispatch"]
  /\ UNCHANGED <<shared, current, pushing, first, handing, batch, ran, calls,
                 history>>

-----------------------------------------------------------------------------
(* JobQueue::Push. *)

\* Fault: asks the queue, not the count, whether the job is the first.
CountIfEmpty(t) ==
  LET q == Target[pushing[t]] IN
  /\ pc[t] = "count"
  /\ first' = [first EXCEPT ![t] = jobs[q] = <<>>]
  /\ jobCount' = [jobCount EXCEPT ![q] = @ + 1]
  /\ pc' = [pc EXCEPT ![t] = "enqueue"]
  /\ UNCHANGED <<jobs, globalQueue, current, slice, pushing, handing, batch,
                 ran, calls, caller, history>>

\* Fault: a thread inside an Execute takes no custody of another queue.
CountUnlessInside(t) ==
  LET q == Target[pushing[t]] IN
  /\ pc[t] = "count"
  /\ first' = [first EXCEPT ![t] = jobCount[q] = 0 /\ current[t] = None]
  /\ jobCount' = [jobCount EXCEPT ![q] = @ + 1]
  /\ pc' = [pc EXCEPT ![t] = "enqueue"]
  /\ UNCHANGED <<jobs, globalQueue, current, slice, pushing, handing, batch,
                 ran, calls, caller, history>>

\* prevCount = _jobCount.fetch_add(1)
CountJob(t) ==
  /\ pc[t] = "count"
  /\ LET q == Target[pushing[t]] IN
        /\ first' = [first EXCEPT ![t] = jobCount[q] = 0]
        /\ jobCount' = [jobCount EXCEPT ![q] = @ + 1]
  /\ pc' = [pc EXCEPT ![t] = "enqueue"]
  /\ UNCHANGED <<jobs, globalQueue, current, slice, pushing, handing, batch,
                 ran, calls, caller, history>>

\* _jobs.Push(job); then the thread that counted the first job executes the
\* queue itself, unless it is inside an Execute already, in which case it
\* goes on to put the queue on the global queue.
EnqueueJob(t) ==
  LET q == Target[pushing[t]] IN
  /\ pc[t] = "enqueue"
  /\ jobs' = [jobs EXCEPT ![q] = Append(@, pushing[t])]
  /\ arrived' = [arrived EXCEPT ![q] = Append(@, pushing[t])]
  /\ pushing' = [pushing EXCEPT ![t] = None]
  /\ first' = [first EXCEPT ![t] = FALSE]
  /\ \/ /\ ~first[t]
        /\ pc' = [pc EXCEPT ![t] = IF current[t] = None THEN "dispatch" ELSE "body"]
        /\ UNCHANGED <<current, handing>>
     \/ /\ first[t]
        /\ current[t] = None
        /\ current' = [current EXCEPT ![t] = q]
        /\ pc' = [pc EXCEPT ![t] = "pop"]
        /\ UNCHANGED handing
     \/ /\ first[t]
        /\ current[t] # None
        /\ handing' = [handing EXCEPT ![t] = q]
        /\ pc' = [pc EXCEPT ![t] = "hand"]
        /\ UNCHANGED current
  /\ UNCHANGED <<jobCount, globalQueue, slice, batch, ran, calls, caller,
                 started, cleared>>

\* Fault: pushes LCurrentJobQueue instead of this.
HandOverCurrent(t) ==
  /\ pc[t] = "hand"
  /\ globalQueue' = Append(globalQueue, current[t])
  /\ handing' = [handing EXCEPT ![t] = None]
  /\ pc' = [pc EXCEPT ![t] = IF current[t] = None THEN caller[t] ELSE "body"]
  /\ UNCHANGED <<jobs, jobCount, current, slice, pushing, first, batch, ran,
                 calls, caller, history>>

\* GGlobalQueue->Push(shared_from_this()), from JobQueue::Push inside a job or
\* at the end of Execute.
HandOver(t) ==
  /\ pc[t] = "hand"
  /\ globalQueue' = Append(globalQueue, handing[t])
  /\ handing' = [handing EXCEPT ![t] = None]
  /\ pc' = [pc EXCEPT ![t] = IF current[t] = None THEN caller[t] ELSE "body"]
  /\ UNCHANGED <<jobs, jobCount, current, slice, pushing, first, batch, ran,
                 calls, caller, history>>

-----------------------------------------------------------------------------
(* JobQueue::Execute. *)

\* Fault: takes the jobs youngest first.
PopAllBackwards(t) ==
  LET q == current[t] IN
  /\ pc[t] = "pop"
  /\ batch' = [batch EXCEPT ![t] = [i \in DOMAIN jobs[q] |-> jobs[q][Len(jobs[q]) + 1 - i]]]
  /\ ran' = [ran EXCEPT ![t] = 0]
  /\ jobs' = [jobs EXCEPT ![q] = <<>>]
  /\ pc' = [pc EXCEPT ![t] = "run"]
  /\ UNCHANGED <<jobCount, globalQueue, current, slice, pushing, first,
                 handing, calls, caller, history>>

\* _jobs.PopAll(OUT jobs)
PopAll(t) ==
  /\ pc[t] = "pop"
  /\ batch' = [batch EXCEPT ![t] = jobs[current[t]]]
  /\ ran' = [ran EXCEPT ![t] = 0]
  /\ jobs' = [jobs EXCEPT ![current[t]] = <<>>]
  /\ pc' = [pc EXCEPT ![t] = "run"]
  /\ UNCHANGED <<jobCount, globalQueue, current, slice, pushing, first,
                 handing, calls, caller, history>>

\* jobs[i]->Execute() begins.
StartJob(t) ==
  /\ pc[t] = "run"
  /\ ran[t] < Len(batch[t])
  /\ ran' = [ran EXCEPT ![t] = @ + 1]
  /\ calls' = [calls EXCEPT ![t] = Calls[batch[t][ran[t] + 1]]]
  /\ started' = [started EXCEPT ![current[t]] = Append(@, batch[t][ran[t] + 1])]
  /\ pc' = [pc EXCEPT ![t] = "body"]
  /\ UNCHANGED <<shared, current, slice, pushing, first, handing, batch,
                 caller, arrived, cleared>>

\* The job's body does a DoAsync, on its own queue or on another one.
CallDoAsync(t) ==
  /\ pc[t] = "body"
  /\ calls[t] # <<>>
  /\ pushing' = [pushing EXCEPT ![t] = Head(calls[t])]
  /\ calls' = [calls EXCEPT ![t] = Tail(@)]
  /\ pc' = [pc EXCEPT ![t] = "count"]
  /\ UNCHANGED <<shared, current, slice, first, handing, batch, ran, caller,
                 history>>

\* The job's body returns.
EndJob(t) ==
  /\ pc[t] = "body"
  /\ calls[t] = <<>>
  /\ pc' = [pc EXCEPT ![t] = "run"]
  /\ UNCHANGED <<shared, current, slice, pushing, first, handing, batch, ran,
                 calls, caller, history>>

\* The batch is done, and _jobCount is left at `left`.
SettleAt(t, left) ==
  LET q == current[t] IN
  /\ pc[t] = "run"
  /\ ran[t] = Len(batch[t])
  /\ jobCount' = [jobCount EXCEPT ![q] = left]
  /\ batch' = [batch EXCEPT ![t] = <<>>]
  /\ ran' = [ran EXCEPT ![t] = 0]
  /\ \/ /\ left = 0
        /\ current' = [current EXCEPT ![t] = None]
        /\ pc' = [pc EXCEPT ![t] = caller[t]]
        /\ UNCHANGED handing
     \/ /\ left # 0
        /\ slice[t] = "before"
        /\ pc' = [pc EXCEPT ![t] = "pop"]
        /\ UNCHANGED <<current, handing>>
     \/ /\ left # 0
        /\ slice[t] # "before"
        /\ current' = [current EXCEPT ![t] = None]
        /\ handing' = [handing EXCEPT ![t] = q]
        /\ pc' = [pc EXCEPT ![t] = "hand"]
  /\ UNCHANGED <<jobs, globalQueue, slice, pushing, first, calls, caller,
                 history>>

\* Faults: sets the count to what is enqueued; past the deadline, hands the
\* queue over before it counts down.
SettleRecount(t) == current[t] # None /\ SettleAt(t, Len(jobs[current[t]]))

SettleUnlessLate(t) ==
  /\ current[t] # None
  /\ SettleAt(t, jobCount[current[t]]
                  - (IF slice[t] = "before" THEN Len(batch[t]) ELSE 0))

\* _jobCount.fetch_sub(jobCount).  Nothing left: Execute returns.  Something
\* left: another round, or, past the deadline, the queue goes to the global
\* queue.
Settle(t) == current[t] # None /\ SettleAt(t, jobCount[current[t]] - Len(batch[t]))

\* JobQueue::ClearJob, from any thread: it empties _jobs and leaves _jobCount.
ClearJob(q) ==
  /\ jobs[q] # <<>>
  /\ Cardinality(UNION {{<<r, i>> : i \in DOMAIN cleared[r]} : r \in Queues}) < MaxCleared
  /\ jobs' = [jobs EXCEPT ![q] = <<>>]
  /\ cleared' = [cleared EXCEPT ![q] = @ \o jobs[q]]
  /\ arrived' = [arrived EXCEPT ![q] = SubSeq(@, 1, Len(@) - Len(jobs[q]))]
  /\ UNCHANGED <<jobCount, globalQueue, pc, current, slice, pushing, first,
                 handing, batch, ran, calls, caller, started>>
-----------------------------------------------------------------------------
\* What a thread does without an I/O completion to handle.
Step(t) ==
  \/ EndDispatch(t) \/ TakeGlobal(t) \/ EndGlobal(t)
  \/ CountJob(t) \/ EnqueueJob(t) \/ HandOver(t)
  \/ PopAll(t) \/ StartJob(t) \/ CallDoAsync(t) \/ EndJob(t) \/ Settle(t)

Next ==
  \/ \E t \in Threads : Tick(t) \/ Handler(t) \/ Step(t)
  \/ \E q \in Queues : ClearJob(q)

\* The operating system runs every worker thread, a job's body returns, and
\* Dispatch(10) gives up after 10 ms, and the clock runs on; packets and
\* ClearJob owe nothing.  A slice lasts 64 ms (WORKER_TICK), so a thread whose
\* Dispatch had nothing to do reaches the global queue long before the
\* deadline: it is not late for the pop in every one of its turns.
Fairness ==
  \A t \in Threads :
    WF_vars(Step(t)) /\ WF_vars(Tick(t)) /\ SF_vars(TakeGlobal(t))

SafetySpec == Init /\ [][Next]_vars

Spec == SafetySpec /\ Fairness

-----------------------------------------------------------------------------
(* Properties. *)

\* The type of every variable.
TypeOK ==
  /\ jobs \in [Queues -> Seq(Jobs)]
  /\ jobCount \in [Queues -> Int]
  /\ globalQueue \in Seq(Queues)
  /\ pc \in [Threads -> Pcs]
  /\ current \in [Threads -> Queues \cup {None}]
  /\ slice \in [Threads -> Slices]
  /\ pushing \in [Threads -> Jobs \cup {None}]
  /\ first \in [Threads -> BOOLEAN]
  /\ handing \in [Threads -> Queues \cup {None}]
  /\ batch \in [Threads -> Seq(Jobs)]
  /\ ran \in [Threads -> Nat]
  /\ calls \in [Threads -> Seq(Jobs)]
  /\ caller \in [Threads -> {"dispatch", "global"}]
  /\ arrived \in [Queues -> Seq(Jobs)]
  /\ started \in [Queues -> Seq(Jobs)]
  /\ cleared \in [Queues -> Seq(Jobs)]

\* No two threads are ever inside Execute of the same queue: a Room may be
\* written as if the program had a single thread (Room.h:7).
Serial ==
  \A s, t \in Threads : current[s] = current[t] /\ current[s] # None => s = t

\* A queue whose count is not zero is in exactly one hand (the thread that is
\* executing it, a thread that is bound to execute it or to hand it over, or
\* one place of the global queue) and a queue whose count is zero in none: the
\* queue is never lost and never executed twice, in whatever order the steps
\* of JobQueue::Push and Execute interleave.
OneCustodian ==
  \A q \in Queues :
    IF jobCount[q] = 0 THEN Custodians(q) = {}
    ELSE \E c \in Custodians(q) : Custodians(q) = {c}

\* _jobCount counts what is enqueued, what is counted and about to be, what
\* the executor took and did not settle yet, and what ClearJob dropped without
\* telling the count.  So it is never below what Execute is about to subtract.
CountExact == \A q \in Queues : CountExactOf(q)

\* The jobs of a queue are begun in the order they were enqueued, each exactly
\* once, across batches, threads and trips through the global queue.
FifoOnce ==
  \A q \in Queues :
    arrived[q] = started[q]
      \o (IF Executors(q) = {} THEN <<>> ELSE Rest(CHOOSE t \in Executors(q) : TRUE))
      \o jobs[q]

\* Every job that was submitted is begun, or dropped by ClearJob: no wakeup is
\* lost between counting and enqueueing, at a deadline, or on the way through
\* the global queue, though no thread is obliged to any particular queue.
EveryJobRuns ==
  \A j \in Jobs :
    j \in Submitted ~> j \in Range(started[Target[j]]) \cup Range(cleared[Target[j]])

\* A queue with no jobs is left alone: Execute ends "when no jobs remain"
\* (JobQueue.cpp:44) and the queue leaves the hands of the threads.  ClearJob,
\* which has no caller, breaks that for good: it leaves its jobs in _jobCount.
DrainedQueueGoesIdle ==
  \A q \in Queues :
    []<>(jobs[q] # <<>> \/ Mid(q) # {} \/ Custodians(q) = {} \/ cleared[q] # <<>>)

\* How a thread's program counter and its local variables go together; with
\* the invariants above, what the proofs need.
Shape ==
  \A t \in Threads :
    /\ pc[t] \in {"count", "enqueue"} <=> pushing[t] # None
    /\ pc[t] = "hand" <=> handing[t] # None
    /\ pc[t] \in {"pop", "run", "body"} => current[t] # None
    /\ pc[t] \in {"dispatch", "global"} => current[t] = None
    /\ first[t] => pc[t] = "enqueue"
    /\ current[t] = None \/ pc[t] = "pop" => batch[t] = <<>>
    /\ ran[t] <= Len(batch[t])

\* Inside(t): the thread is in the body of a job, or in a Push called by it.
Inside(t) == current[t] # None /\ pc[t] \notin {"pop", "run"}

RunningJob(q) ==
  LET inside == {t \in Executors(q) : Inside(t)} IN
  IF inside = {} THEN None
  ELSE LET t == CHOOSE t \in inside : TRUE IN batch[t][ran[t]]

WaitingJobs(q) ==
  (IF Executors(q) = {} THEN <<>> ELSE Rest(CHOOSE t \in Executors(q) : TRUE))
    \o jobs[q]

Executor ==
  INSTANCE SerialExecutor WITH
    waiting  <- [q \in Queues |-> WaitingJobs(q)],
    running  <- [q \in Queues |-> RunningJob(q)],
    accepted <- UNION {Range(arrived[q]) \cup Range(cleared[q]) : q \in Queues}

\* Each queue implements the abstract one-at-a-time executor, its liveness
\* included: what waits is begun, what is begun ends.
ImplementsSerialExecutor == Executor!Spec
=============================================================================
