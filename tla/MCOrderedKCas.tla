--------------------------- MODULE MCOrderedKCas ---------------------------
(* Instances of OrderedKCas for TLC. *)
EXTENDS OrderedKCas, MCKCas

Alphabetical == a :> 1 @@ b :> 2 @@ c :> 3
=============================================================================
