--------------------------- MODULE SerialExecutor ---------------------------
(***************************************************************************)
(* What a JobQueue promises to the code that calls DoAsync on it: each     *)
(* queue is a one-at-a-time executor.  A job that was accepted waits in    *)
(* order, is run once, and no two jobs of a queue overlap, whichever       *)
(* threads run them.  ClearJob may drop jobs from the back of the waiting  *)
(* line and nothing else may.  JobQueue.tla implements this.               *)
(***************************************************************************)
EXTENDS Naturals, Sequences

CONSTANTS
  Queues,   \* the JobQueue objects (Rooms)
  Jobs,     \* the jobs that may be submitted, each at most once
  Target,   \* Target[j]: the queue job j is for
  None      \* no job

VARIABLES
  waiting,  \* waiting[q]: jobs accepted by q and not begun, oldest first
  running,  \* running[q]: the job of q that is being run, or None
  accepted  \* the jobs ever accepted

vars == <<waiting, running, accepted>>

Init ==
  /\ waiting = [q \in Queues |-> <<>>]
  /\ running = [q \in Queues |-> None]
  /\ accepted = {}

Submit(j) ==
  /\ j \notin accepted
  /\ accepted' = accepted \cup {j}
  /\ waiting' = [waiting EXCEPT ![Target[j]] = Append(@, j)]
  /\ UNCHANGED running

Start(q) ==
  /\ running[q] = None
  /\ waiting[q] # <<>>
  /\ running' = [running EXCEPT ![q] = Head(waiting[q])]
  /\ waiting' = [waiting EXCEPT ![q] = Tail(@)]
  /\ UNCHANGED accepted

Finish(q) ==
  /\ running[q] # None
  /\ running' = [running EXCEPT ![q] = None]
  /\ UNCHANGED <<waiting, accepted>>

Drop(q) ==
  /\ \E keep \in 0 .. Len(waiting[q]) :
        waiting' = [waiting EXCEPT ![q] = SubSeq(@, 1, keep)]
  /\ UNCHANGED <<running, accepted>>

Next ==
  \/ \E j \in Jobs : Submit(j)
  \/ \E q \in Queues : Start(q) \/ Finish(q) \/ Drop(q)

SafetySpec == Init /\ [][Next]_vars

Spec ==
  /\ SafetySpec
  /\ \A q \in Queues : WF_vars(Start(q) \/ Finish(q))
=============================================================================
