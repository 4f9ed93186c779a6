------------------------------- MODULE MCBridge -------------------------------
(* Instances of ManualBridge. *)
EXTENDS ManualBridge, TLC

RequestSymmetry == Permutations(Requests)
=============================================================================
