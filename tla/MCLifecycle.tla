---------------------------- MODULE MCLifecycle ----------------------------
(* Instances of Lifecycle for TLC: the bounds are in the configurations. *)
EXTENDS Lifecycle

=============================================================================
