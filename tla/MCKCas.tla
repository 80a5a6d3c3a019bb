------------------------------- MODULE MCKCas -------------------------------
(* Instances of KCas for TLC: threads, cells, values and programs. *)
EXTENDS KCasInvariant, TLC

CONSTANTS t1, t2, t3, a, b, c, v0, v1, v2, v3

Cas(x, from, to) == [target |-> x, expected |-> from, desired |-> to]
One(x) == 0 :> x
Two(x, y) == 0 :> x @@ 1 :> y
AllZero == [x \in Address |-> Zero]

(* Calls overlap in one address each, all in the order a, b, c.  v3 has     *)
(* illegal top bits: t2 may put it where the others expect a value.         *)
ChainProgram ==
  t1 :> << {Two(Cas(a, v0, v1), Cas(b, v0, v1))} >> @@
  t2 :> << {Two(Cas(b, v0, v2), Cas(c, v0, v2)), Two(Cas(b, v0, v3), Cas(c, v0, v2))} >> @@
  t3 :> << {Two(Cas(a, v0, v2), Cas(c, v0, v2))} >>

(* The same words, but t3 takes c before a: any two calls still agree. *)
CyclicProgram ==
  t1 :> << {Two(Cas(a, v0, v1), Cas(b, v0, v1))} >> @@
  t2 :> << {Two(Cas(b, v0, v2), Cas(c, v0, v2))} >> @@
  t3 :> << {Two(Cas(c, v0, v3), Cas(a, v0, v3))} >>

(* Threads move the targets back and forth, on addresses that change from  *)
(* call to call: helpers meet words of a later call and values that return.*)
RepeatProgram ==
  t1 :> << {Two(Cas(a, v0, v1), Cas(b, v0, v1)), Two(Cas(a, v0, v1), Cas(c, v1, v0))},
           {Two(Cas(a, v1, v0), Cas(b, v1, v0)), Two(Cas(b, v1, v0), Cas(c, v0, v1))} >> @@
  t2 :> << {Two(Cas(a, v0, v1), Cas(b, v0, v1)), Two(Cas(a, v1, v0), Cas(c, v0, v0))},
           {Two(Cas(a, v1, v0), Cas(b, v1, v0))} >>

(* t2 completes the call of t1 for it, moves the targets back to v0, and   *)
(* calls once more.                                                        *)
BackProgram ==
  t1 :> << {Two(Cas(a, v0, v1), Cas(b, v0, v1))} >> @@
  t2 :> << {Two(Cas(a, v0, v2), Cas(b, v0, v2))}, {Two(Cas(a, v1, v0), Cas(b, v1, v0))},
           {Two(Cas(a, v0, v2), Cas(b, v0, v2))} >>

(* t1 moves b twice, with a and then with c; no call moves a cell back. *)
LeakProgram ==
  t1 :> << {Two(Cas(a, v0, v1), Cas(b, v1, v2))}, {Two(Cas(b, v0, v1), Cas(c, v0, v1))} >> @@
  t2 :> << {Two(Cas(a, v0, v2), Cas(b, v0, v2))} >>
=============================================================================
