------------------------- MODULE MCLinearizableKCas -------------------------
(* Instances of LinearizableKCas for TLC. *)
EXTENDS LinearizableKCas, TLC

CONSTANTS t1, t2, t3, a, b, c, v0, v1, v2, v3

Cas(x, from, to) == [target |-> x, expected |-> from, desired |-> to]
One(x) == 0 :> x
Two(x, y) == 0 :> x @@ 1 :> y
AllZero == [x \in Address |-> Zero]

(* One call per thread; no call moves a cell back to a value that another   *)
(* has moved it from.                                                       *)
(* The calls on a and b are those of tests/common/mod.rs, where each thread *)
(* moves all targets from 0 to its own number, 0 for the first one; t2 may  *)
(* also expect what t1 writes, and t3 may have a word of each.              *)
ForwardProgram ==
  t1 :> << {Two(Cas(a, v0, v0), Cas(b, v0, v0)), Two(Cas(a, v0, v1), Cas(b, v0, v1))} >> @@
  t2 :> << {Two(Cas(a, v0, v2), Cas(b, v0, v2)), Two(Cas(b, v1, v2), Cas(c, v0, v2))} >> @@
  t3 :> << {Two(Cas(a, v0, v3), Cas(b, v0, v3)), Two(Cas(a, v0, v3), Cas(c, v0, v3))} >>

(* t2 moves the cell back to the value t1 took it from. *)
ReturningProgram ==
  t1 :> << {One(Cas(a, v0, v1))} >> @@
  t2 :> << {One(Cas(a, v1, v0))} >> @@
  t3 :> << {One(Cas(a, v0, v2))} >>
=============================================================================
