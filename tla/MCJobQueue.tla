----------------------------- MODULE MCJobQueue -----------------------------
(***************************************************************************)
(* A small instance of JobQueue: two workers, two queues, and a job that   *)
(* submits one job to its own queue and one to the other queue.            *)
(***************************************************************************)
EXTENDS JobQueue, TLC

CONSTANTS qa, qb, a1, a2, b1, b2

CrossTarget == (a1 :> qa) @@ (a2 :> qa) @@ (b1 :> qb) @@ (b2 :> qb)
CrossCalls  == (a1 :> <<a2, b1>>) @@ (a2 :> <<>>) @@ (b1 :> <<>>) @@ (b2 :> <<>>)
=============================================================================
