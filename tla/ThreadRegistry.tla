--------------------------- MODULE ThreadRegistry ---------------------------
(***************************************************************************)
(* How wrappers get and give back thread ids (src/src/wrapper.rs).  All    *)
(* three wrappers construct and drop in the same way.  Every access to     *)
(* thread_index_slots and num_threads_in_use is one action.  A client may  *)
(* construct a wrapper, drop it and construct another, without end.        *)
(***************************************************************************)
EXTENDS Naturals, FiniteSets

CONSTANTS
  Client,        \* one per wrapper alive or under construction at a time
  NumThreads,    \* NUM_THREADS
  NoOne          \* not a client

ASSUME RegistryAssumption == NumThreads \in Nat \ {0} /\ NoOne \notin Client

Index == 0 .. NumThreads - 1

VARIABLES
  slots,         \* State::thread_index_slots
  inUse,         \* State::num_threads_in_use
  pc,            \* where a client is: out, scan, count, held, uncount, refused
  index,         \* the loop variable of the scan, then the index of the wrapper
  stayedFree     \* history: the slots free ever since a client began its scan

vars == <<slots, inUse, pc, index, stayedFree>>

Free(s) == {i \in Index : ~s[i]}

(* What a scan in progress could have observed. *)
Observe ==
  stayedFree' = [c \in Client |-> IF pc'[c] # "scan" THEN stayedFree[c]
                                  ELSE IF pc[c] # "scan" THEN Free(slots')
                                  ELSE stayedFree[c] \cap Free(slots')]

Init ==
  /\ slots = [i \in Index |-> FALSE]
  /\ inUse = 0
  /\ pc = [c \in Client |-> "out"]
  /\ index = [c \in Client |-> 0]
  /\ stayedFree = [c \in Client |-> {}]

(* Deliberate bug: the scan starts at the first thread id, not index. *)
ConstructFromOne(c) ==
  /\ pc[c] \in {"out", "refused"}
  /\ pc' = [pc EXCEPT ![c] = "scan"]
  /\ index' = [index EXCEPT ![c] = 1]
  /\ UNCHANGED <<slots, inUse>>
  /\ Observe

Construct(c) ==
  /\ pc[c] \in {"out", "refused"}
  /\ pc' = [pc EXCEPT ![c] = "scan"]
  /\ index' = [index EXCEPT ![c] = 0]
  /\ UNCHANGED <<slots, inUse>>
  /\ Observe

(* Deliberate bugs: the slot is set whatever it was, or the scan goes one   *)
(* slot too far.                                                            *)
ScanSlotStoring(c) ==
  /\ pc[c] = "scan"
  /\ slots' = [slots EXCEPT ![index[c]] = TRUE]
  /\ pc' = [pc EXCEPT ![c] = "count"]
  /\ UNCHANGED <<inUse, index>>
  /\ Observe
ScanSlotTooFar(c) ==
  LET i == index[c] IN
  /\ pc[c] = "scan"
  /\ IF slots[i]
     THEN index' = [index EXCEPT ![c] = i + 1] /\ UNCHANGED <<slots, pc>>
     ELSE /\ slots' = [slots EXCEPT ![i] = TRUE]
          /\ pc' = [pc EXCEPT ![c] = "count"]
          /\ UNCHANGED index
  /\ UNCHANGED inUse
  /\ Observe

(* One compare_exchange of find_next_available_thread_index. *)
ScanSlot(c) ==
  LET i == index[c] IN
  /\ pc[c] = "scan"
  /\ \/ /\ ~slots[i]
        /\ slots' = [slots EXCEPT ![i] = TRUE]
        /\ pc' = [pc EXCEPT ![c] = "count"]
        /\ UNCHANGED index
     \/ /\ slots[i]
        /\ i + 1 < NumThreads
        /\ index' = [index EXCEPT ![c] = i + 1]
        /\ UNCHANGED <<slots, pc>>
     \/ /\ slots[i]
        /\ i + 1 = NumThreads
        /\ pc' = [pc EXCEPT ![c] = "refused"]
        /\ UNCHANGED <<slots, index>>
  /\ UNCHANGED inUse
  /\ Observe

CountUp(c) ==
  /\ pc[c] = "count"
  /\ inUse' = inUse + 1
  /\ pc' = [pc EXCEPT ![c] = "held"]
  /\ UNCHANGED <<slots, index>>
  /\ Observe

(* Deliberate bug: drop takes the thread id for the thread index. *)
FreeSlotOfId(c) ==
  /\ pc[c] = "held"
  /\ slots' = [i \in Index |-> IF i = index[c] + 1 THEN FALSE ELSE slots[i]]
  /\ pc' = [pc EXCEPT ![c] = "uncount"]
  /\ UNCHANGED <<inUse, index>>
  /\ Observe

(* drop: the slot is given back before the count is touched. *)
FreeSlot(c) ==
  /\ pc[c] = "held"
  /\ slots' = [slots EXCEPT ![index[c]] = FALSE]
  /\ pc' = [pc EXCEPT ![c] = "uncount"]
  /\ UNCHANGED <<inUse, index>>
  /\ Observe

(* drop: num_threads_in_use.fetch_min(1) *)
CountDown(c) ==
  /\ pc[c] = "uncount"
  /\ inUse' = IF inUse > 1 THEN 1 ELSE inUse
  /\ pc' = [pc EXCEPT ![c] = "out"]
  /\ UNCHANGED <<slots, index>>
  /\ Observe

Next == \E c \in Client :
  Construct(c) \/ ScanSlot(c) \/ CountUp(c) \/ FreeSlot(c) \/ CountDown(c)

Spec == Init /\ [][Next]_vars
-----------------------------------------------------------------------------
(* Every variable stays in its domain. *)
TypeOK ==
  /\ slots \in [Index -> BOOLEAN]
  /\ inUse \in Nat
  /\ pc \in [Client -> {"out", "scan", "count", "held", "uncount", "refused"}]
  /\ index \in [Client -> Index]
  /\ stayedFree \in [Client -> SUBSET Index]

(* A client has its index from the compare_exchange that took the slot to   *)
(* the store that frees it.                                                 *)
Has(c, i) == pc[c] \in {"count", "held"} /\ index[c] = i

(* Whole-program safety of kcas rests on this: stage, sequence number and   *)
(* words of a thread index are written by one wrapper at a time.  A slot is *)
(* taken exactly when some wrapper has it, and then only one does.          *)
OneWrapperPerIndex ==
  \A i \in Index : Cardinality({c \in Client : Has(c, i)}) = (IF slots[i] THEN 1 ELSE 0)

(* The slots behave as a pool of ids: construct takes a free one, drop      *)
(* gives back the wrapper's own.                                            *)
HolderOf(i) ==
  IF \E c \in Client : Has(c, i) THEN CHOOSE c \in Client : Has(c, i) ELSE NoOne
Pool == INSTANCE IdPool WITH holder <- [i \in Index |-> HolderOf(i)]
ImplementsIdPool == Pool!Spec

(* The tests of wrapper.rs expect the lowest id that is free.  Against      *)
(* concurrent constructs and drops: a scan never passes over a slot that    *)
(* was free all the time, so it is not refused while one stays free.        *)
ScanPassesNoFreeSlot ==
  \A c \in Client :
    /\ pc[c] \in {"scan", "count"} => \A j \in stayedFree[c] : j >= index[c]
    /\ pc[c] = "refused" => stayedFree[c] = {}

(* mod.rs, num_threads_in_use: "The number of wrappers [...] which are      *)
(* currently assigned a [ThreadId]", at least while no wrapper is being     *)
(* constructed or dropped.                                                  *)
CountsTheWrappers ==
  (\A c \in Client : pc[c] \notin {"count", "uncount"})
    => inUse = Cardinality({c \in Client : pc[c] = "held"})
=============================================================================
