---------------------------- MODULE WrappedKCas ----------------------------
(***************************************************************************)
(* Wrappers and kcas together (src/src/wrapper.rs on src/src/kcas/).  A    *)
(* client constructs a wrapper, calls kcas through it, and drops it when   *)
(* it likes; the thread id then goes to whoever constructs next, with the  *)
(* stage, sequence number and words the last wrapper left, and with        *)
(* helpers that still work for that wrapper's calls.  Taking and giving    *)
(* back a thread id are those of IdPool, which ThreadRegistry implements.  *)
(***************************************************************************)
EXTENDS KCasInvariant

CONSTANTS
  Client,   \* who may hold a wrapper
  NoOne     \* not a client

ASSUME ClientAssumption == NoOne \notin Client

VARIABLE holder   \* holder[t]: whose wrapper has the thread id t

Ids == INSTANCE IdPool WITH Index <- Thread

WrappedInit == Init /\ Ids!Init

Construct(c, t) == Ids!Acquire(c, t) /\ UNCHANGED vars

(* The kcas method: it borrows the wrapper until the call has returned. *)
WrapperKcas(c, t) ==
  /\ holder[t] = c
  /\ Call(t) \/ Step(t)
  /\ UNCHANGED holder

(* Deliberate bug: the stage and the sequence number start anew. *)
DropResetting(c, t) ==
  /\ frame[t].pc \in {"idle", "halted"}
  /\ Ids!Release(c, t)
  /\ frame' = [frame EXCEPT ![t].pc = "idle"]
  /\ ss' = [ss EXCEPT ![t] = [stage |-> "Inactive", seq |-> 0]]
  /\ UNCHANGED <<memory, shared, words, stack, result>>

(* Nothing of the State is reset.  A wrapper is also dropped after a fatal *)
(* error, and the next one with its id starts from what that left behind.  *)
Drop(c, t) ==
  /\ frame[t].pc \in {"idle", "halted"}
  /\ Ids!Release(c, t)
  /\ frame' = [frame EXCEPT ![t].pc = "idle"]
  /\ UNCHANGED <<memory, shared, ss, words, stack, result>>

WrappedNext == \E c \in Client, t \in Thread :
  Construct(c, t) \/ WrapperKcas(c, t) \/ Drop(c, t)

wrappedVars == <<vars, holder>>

WrappedSpec == WrappedInit /\ [][WrappedNext]_wrappedVars
-----------------------------------------------------------------------------
(* types.rs, Inactive: "there is no KCAS operation in progress".  Whoever   *)
(* had a thread id before, and whoever still helps its calls, the next call *)
(* under that id starts afresh: its marker is not in any cell, nobody works *)
(* for it, and nobody has seen it.                                          *)
NextMarkerIsFresh ==
  \A t \in Thread :
    LET next == [owner |-> t, seq |-> ss[t].seq] IN
    frame[t].pc = "idle" =>
      /\ ss[t].stage = "Inactive"
      /\ \A x \in Address : memory[x] # next
      /\ \A u \in Thread :
           /\ frame[u].op # Null => next \notin {frame[u].op, frame[u].seen}
           /\ \A i \in 1 .. Len(stack[u]) : stack[u][i].op # next

(* Thread ids that pass from wrapper to wrapper make no difference to kcas: *)
(* it behaves as if each id belonged to one thread all along.               *)
ImplementsKCas == Spec
=============================================================================
