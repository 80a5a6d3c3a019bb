----------------------------- MODULE AtomicKCas -----------------------------
(***************************************************************************)
(* What kcas promises: between its call and its return, a multi-word       *)
(* compare-and-swap either replaces all its targets in one step, or finds  *)
(* at some moment that one of them does not hold the expected value.       *)
(***************************************************************************)
CONSTANTS
  Thread, Word, Address, Null,
  InitialMemory,
  Calls          \* Calls[t]: the arguments thread t may call kcas with

VARIABLES
  mem,           \* contents of the targets
  pending,       \* the arguments of a thread's call in progress, else Null
  applied,       \* whether that call has replaced its targets
  missed,        \* whether that call has seen a target differ from what it expects
  result         \* what a thread's last call returned, Null while it runs

vars == <<mem, pending, applied, missed, result>>

Matches(ws, m) == \A w \in Word : m[ws[w].target] = ws[w].expected

(* A call that is not applied misses whenever the memory does not match it. *)
Watch == missed' = [t \in Thread |->
  /\ pending'[t] # Null
  /\ \/ missed[t]
     \/ ~applied'[t] /\ ~Matches(pending'[t], mem')]

Init ==
  /\ mem = InitialMemory
  /\ pending = [t \in Thread |-> Null]
  /\ applied = [t \in Thread |-> FALSE]
  /\ missed = [t \in Thread |-> FALSE]
  /\ result = [t \in Thread |-> Null]

Invoke(t) ==
  /\ pending[t] = Null
  /\ \E ws \in Calls[t] : pending' = [pending EXCEPT ![t] = ws]
  /\ result' = [result EXCEPT ![t] = Null]
  /\ UNCHANGED <<mem, applied>>
  /\ Watch

Apply(t) ==
  LET ws == pending[t] IN
  /\ ws # Null
  /\ ~applied[t]
  /\ Matches(ws, mem)
  /\ mem' = [x \in Address |-> IF \E w \in Word : ws[w].target = x
                               THEN ws[CHOOSE w \in Word : ws[w].target = x].desired
                               ELSE mem[x]]
  /\ applied' = [applied EXCEPT ![t] = TRUE]
  /\ UNCHANGED <<pending, result>>
  /\ Watch

Return(t) ==
  /\ pending[t] # Null
  /\ \/ applied[t] /\ result' = [result EXCEPT ![t] = "Ok"]
     \/ /\ ~applied[t] /\ missed[t]
        /\ result' = [result EXCEPT ![t] = "ValueWasNotExpectedValue"]
  /\ pending' = [pending EXCEPT ![t] = Null]
  /\ applied' = [applied EXCEPT ![t] = FALSE]
  /\ UNCHANGED mem
  /\ Watch

Next == \E t \in Thread : Invoke(t) \/ Apply(t) \/ Return(t)

Spec == Init /\ [][Next]_vars
=============================================================================
