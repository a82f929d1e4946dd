----------------------------- MODULE MCIrohNode -----------------------------
(* IrohNode between two nodes. *)
EXTENDS IrohNode, TLC

SenderSymmetry == Permutations(Senders)
=============================================================================
