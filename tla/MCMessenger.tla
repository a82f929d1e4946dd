---------------------------- MODULE MCMessenger ----------------------------
(* Messenger between two peers. *)
EXTENDS Messenger, TLC

Symmetric == Permutations(Peers)
=============================================================================
