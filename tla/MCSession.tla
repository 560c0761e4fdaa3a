----------------------------- MODULE MCSession -----------------------------
(***************************************************************************)
(* Instances of Session for TLC.                                           *)
(***************************************************************************)
EXTENDS Session

Symmetric == Permutations(Workers) \cup Permutations(Senders)
=============================================================================
