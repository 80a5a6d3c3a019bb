--------------------------- MODULE MCWrappedKCas ---------------------------
(* Instances of WrappedKCas for TLC: three clients on two thread ids. *)
EXTENDS WrappedKCas, MCKCas

CONSTANTS c1, c2, c3

(* Clients differ in nothing but their names. *)
ClientSymmetry == Permutations(Client)
=============================================================================
