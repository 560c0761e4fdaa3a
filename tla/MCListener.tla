------------------------------ MODULE MCListener ------------------------------
(* Sessions and events are interchangeable.                                *)
EXTENDS Listener
LOCAL INSTANCE TLC
Symmetric == Permutations(Sessions) \cup Permutations(Events)
=============================================================================
