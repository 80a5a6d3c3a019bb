--------------------------- MODULE MCForwardKCas ---------------------------
(* Instances of ForwardKCas for TLC. *)
EXTENDS ForwardKCas, MCLinearizableKCas

ValueRank == [x \in Address |-> v0 :> 0 @@ v1 :> 1 @@ v2 :> 2 @@ v3 :> 3]

ASSUME ProgramIsForward == Forward /\ ExpectInitial
=============================================================================
