---------------------------- MODULE MCDispatcher ----------------------------
(* A small instance of Dispatcher for TLC. *)
EXTENDS Dispatcher, TLC

Symmetry == Permutations(Workers)
=============================================================================
