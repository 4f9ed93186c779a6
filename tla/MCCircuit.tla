------------------------------ MODULE MCCircuit ------------------------------
(* Instances of ProviderCircuit. *)
EXTENDS ProviderCircuit
=============================================================================
