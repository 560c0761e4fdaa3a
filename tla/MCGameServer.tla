----------------------------- MODULE MCGameServer -----------------------------
(* Sessions, chats and jobs are interchangeable.                           *)
EXTENDS GameServer
LOCAL INSTANCE TLC
Symmetric == Permutations(Sessions) \cup Permutations(Chats) \cup Permutations(Enters)
=============================================================================
