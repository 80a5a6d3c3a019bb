------------------------------- MODULE IdPool -------------------------------
(***************************************************************************)
(* What the wrappers need of a State: a pool of thread ids from which each *)
(* wrapper has one to itself.                                              *)
(***************************************************************************)
CONSTANTS
  Client,        \* the holders of wrappers
  Index,         \* the thread indices of a State
  NoOne          \* the holder of a free index

VARIABLE holder  \* holder[i]: who has index i

Init == holder = [i \in Index |-> NoOne]

Acquire(c, i) ==
  /\ holder[i] = NoOne
  /\ \A j \in Index : holder[j] # c
  /\ holder' = [holder EXCEPT ![i] = c]

Release(c, i) ==
  /\ holder[i] = c
  /\ holder' = [holder EXCEPT ![i] = NoOne]

Next == \E c \in Client, i \in Index : Acquire(c, i) \/ Release(c, i)

Spec == Init /\ [][Next]_holder
=============================================================================
