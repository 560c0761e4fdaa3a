------------------------------- MODULE RWLock -------------------------------
(***************************************************************************)
(* What Lock promises to the code that writes WRITE_LOCK and READ_LOCK: a  *)
(* reader-writer lock whose guards nest.  held[t] are the guards thread t  *)
(* has on its stack, oldest first.  SpinLock.tla implements this.          *)
(***************************************************************************)
EXTENDS Naturals, Sequences

CONSTANTS Threads

VARIABLE held

Holds(t, kind) == \E i \in DOMAIN held[t] : held[t][i] = kind

Init == held = [t \in Threads |-> <<>>]

\* A write guard needs the lock to itself; the owner may take it again.
AcquireWrite(t) ==
  /\ \A s \in Threads \ {t} : held[s] = <<>>
  /\ Holds(t, "R") => Holds(t, "W")
  /\ held' = [held EXCEPT ![t] = Append(@, "W")]

\* A read guard needs no other thread to be writing.
AcquireRead(t) ==
  /\ \A s \in Threads \ {t} : ~ Holds(s, "W")
  /\ held' = [held EXCEPT ![t] = Append(@, "R")]

Release(t) ==
  /\ held[t] # <<>>
  /\ held' = [held EXCEPT ![t] = SubSeq(@, 1, Len(@) - 1)]

Next == \E t \in Threads : AcquireWrite(t) \/ AcquireRead(t) \/ Release(t)

Spec == Init /\ [][Next]_held
=============================================================================
