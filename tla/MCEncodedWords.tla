-------------------------- MODULE MCEncodedWords --------------------------
(* An instance whose words suffice: what WordEncodingProofs supposes holds. *)
EXTENDS MCEncodedOperations

ASSUME InstanceSuffices == WordsSuffice
=============================================================================
