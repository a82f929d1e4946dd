----------------------------- MODULE MCStorage -----------------------------
(* Storage on a small instance. *)
EXTENDS Storage, TLC

Symmetric == Permutations(Chats) \cup Permutations(Ids)
=============================================================================
