------------------------- MODULE EncodedOperations -------------------------
(***************************************************************************)
(* The calls of a few threads on one target cell, in words: what they      *)
(* store in stage_and_sequence_numbers, the markers they claim with, and   *)
(* what others make of these words, at once or late.  KCas has records in  *)
(* the place of the words; here is what that abstraction rests on.  Setting*)
(* and reverting are one step: only the words matter.                      *)
(***************************************************************************)
EXTENDS WordEncoding

CONSTANTS
  NumThreads,    \* NUM_THREADS
  Active,        \* the thread ids that call kcas
  UserValue,     \* the words user code stores in the cell
  MaxCalls,      \* bound on the calls of a thread
  None           \* no operation

ThreadId == 1 .. NumThreads

ASSUME EncodingAssumption ==
  /\ NumThreads \in Nat \ {0}
  /\ NumThreads + 1 < TwoTo[WordBits]   \* computed as a usize
  /\ Active \subseteq ThreadId
  /\ UserValue \subseteq SUBSET Bit
  /\ MaxCalls \in Nat
  /\ BitLengthOfNumThreads(NumThreads) < WordBits - 1   \* 1 % mask is 1
  /\ None \notin Active \X (0 .. MaxCalls)

(* What the words allow.  lib.rs, Limitations: the reserved bits of a value *)
(* are alike; and the sequence numbers of all calls fit beside the id in a  *)
(* marker, and beside the stage.                                            *)
UserValuesAlike ==
  \A x \in UserValue : Shr(x, ThreadShift(NumThreads))
                         \in {{}, Low(BitLengthOfNumThreads(NumThreads))}
FieldsSuffice == /\ MaxCalls <= TwoTo[ThreadShift(NumThreads)]
                 /\ MaxCalls < TwoTo[StageShift]
WordsSuffice == UserValuesAlike /\ FieldsSuffice

VARIABLES
  ss,         \* State::stage_and_sequence_numbers
  cell,       \* the word at the target address
  sequence,   \* the sequence number a call of kcas works with
  helping,    \* helping[t]: the marker for which t, in help_thread, still works
  stage,      \* history: the stage of a thread's operation, "Inactive" between calls
  calls,      \* history: the calls a thread has finished
  origin      \* history: the operation <<t, n>> whose marker is in the cell, or None

vars == <<ss, cell, sequence, helping, stage, calls, origin>>

Marker(t) == ConstructThreadAndSequence(NumThreads, t, sequence[t])
Nobody == [marker |-> {}, of |-> None]

Init ==
  /\ ss = [t \in ThreadId |-> {}]
  /\ cell \in UserValue
  /\ sequence = [t \in Active |-> {}]
  /\ helping = [t \in Active |-> Nobody]
  /\ stage = [t \in ThreadId |-> "Inactive"]
  /\ calls = [t \in ThreadId |-> 0]
  /\ origin = None

(* initialize_operation *)
Begin(t) ==
  LET q == ExtractSequenceOfStage(ss[t]) IN
  /\ stage[t] = "Inactive"
  /\ calls[t] < MaxCalls
  /\ sequence' = [sequence EXCEPT ![t] = q]
  /\ ss' = [ss EXCEPT ![t] = ConstructStageAndSequence("Claiming", q)]
  /\ stage' = [stage EXCEPT ![t] = "Claiming"]
  /\ UNCHANGED <<cell, helping, calls, origin>>

(* A claim of the thread's own call: helpers may have changed the stage    *)
(* meanwhile, which claim does not look at before its compare_exchange.    *)
Claim(t) ==
  /\ stage[t] # "Inactive"
  /\ cell \in UserValue
  /\ cell' = Marker(t)
  /\ origin' = <<t, calls[t]>>
  /\ UNCHANGED <<ss, sequence, helping, stage, calls>>

(* The compare_exchange of change_stage_and_transition on the word of t, for *)
(* an operation of t with sequence number q.                                 *)
ChangeStage(t, q, from, to) ==
  /\ ss[t] = ConstructStageAndSequence(from, q)
  /\ ss' = [ss EXCEPT ![t] = ConstructStageAndSequence(to, q)]
  /\ stage' = [stage EXCEPT ![t] = to]
  /\ UNCHANGED <<cell, sequence, helping, calls, origin>>

Decide(t, q) == ChangeStage(t, q, "Claiming", "Setting") \/ ChangeStage(t, q, "Claiming", "Reverting")
Conclude(t, q) ==
  ChangeStage(t, q, "Setting", "Successful") \/ ChangeStage(t, q, "Reverting", "Reverted")

(* The owner has no need to tell others that its operation is over. *)
OwnStageChange(t) == stage[t] # "Inactive" /\ Decide(t, sequence[t])

(* By a helper, at once or late, with what it has read out of the marker. *)
HelpStageChange(u) ==
  LET m == helping[u].marker
      t == ExtractThread(NumThreads, m)
      q == ExtractSequenceOfThread(NumThreads, m)
  IN helping[u] # Nobody /\ (Decide(t, q) \/ Conclude(t, q))

(* Take a marker away: a value is stored in its place. *)
Unmark(marker) ==
  \/ /\ cell = marker
     /\ cell' \in UserValue
     /\ origin' = None
  \/ /\ cell # marker
     /\ UNCHANGED <<cell, origin>>

(* The last set or revert of the owner, then prepare_for_next_operation. *)
Finish(t) ==
  /\ stage[t] \notin {"Inactive", "Claiming"}
  /\ Unmark(Marker(t))
  /\ ss' = [ss EXCEPT ![t] =
              ConstructStageAndSequence("Inactive", NextSequence(NumThreads, sequence[t]))]
  /\ stage' = [stage EXCEPT ![t] = "Inactive"]
  /\ calls' = [calls EXCEPT ![t] = @ + 1]
  /\ UNCHANGED <<sequence, helping>>

(* help_thread on the marker in the cell, up to the first word claimed. *)
HelpThread(u) ==
  LET t == ExtractThread(NumThreads, cell) IN
  /\ helping[u] = Nobody
  /\ IsMarker(NumThreads, cell)
  /\ ExtractSequenceOfStage(ss[t]) = ExtractSequenceOfThread(NumThreads, cell)
  /\ ExtractStage(ss[t]) = "Claiming"
  /\ helping' = [helping EXCEPT ![u] = [marker |-> cell, of |-> origin]]
  /\ UNCHANGED <<ss, cell, sequence, stage, calls, origin>>

(* The helper claims, as late as it may be. *)
LateClaim(u) ==
  /\ helping[u] # Nobody
  /\ cell \in UserValue
  /\ cell' = helping[u].marker
  /\ origin' = helping[u].of
  /\ UNCHANGED <<ss, sequence, helping, stage, calls>>

(* The helper learns how the operation ended and reverts its claims. *)
LateRevert(u) ==
  /\ helping[u] # Nobody
  /\ Unmark(helping[u].marker)
  /\ helping' = [helping EXCEPT ![u] = Nobody]
  /\ UNCHANGED <<ss, sequence, stage, calls>>

Next == \E t \in Active :
  \/ Begin(t) \/ Claim(t) \/ OwnStageChange(t) \/ Finish(t)
  \/ HelpThread(t) \/ LateClaim(t) \/ HelpStageChange(t) \/ LateRevert(t)

Spec == Init /\ [][Next]_vars
-----------------------------------------------------------------------------
(* types.rs, is_value_a_kcas_marker, and lib.rs on the bits of values: what *)
(* claim finds in a cell is a marker exactly when kcas put it there, and    *)
(* what user code stored is never an illegal value.                         *)
ValuesAreNotMarkers ==
  IF origin = None THEN IsLegalValue(NumThreads, cell) /\ ~IsMarker(NumThreads, cell)
                   ELSE IsMarker(NumThreads, cell) /\ ~IsLegalValue(NumThreads, cell)

(* The stage and the sequence number share a word and never disturb each    *)
(* other, from call to call: the stage read back is the operation's.        *)
StagesReadBack == \A t \in ThreadId : ExtractStage(ss[t]) = stage[t]

(* help_thread reads a thread id and a sequence number out of a marker and  *)
(* compares the sequence number with the thread's.  It finds the thread     *)
(* whose operation it is, and finds the numbers equal exactly while that    *)
(* operation is not over, however long ago the marker was made.             *)
MarkersNameOperations ==
  origin # None =>
    LET t == origin[1] IN
    /\ ExtractThread(NumThreads, cell) = t
    /\ ExtractSequenceOfThread(NumThreads, cell) = ExtractSequenceOfStage(ss[t])
         <=> calls[t] = origin[2]

(* types.rs: a sequence number "identifies a KCAS operation".  The markers  *)
(* of two operations that are in progress, or that a late helper works for, *)
(* are different words: neither can take the other's claim for its own.     *)
OperationsApart ==
  \A t \in Active : stage[t] # "Inactive" =>
    /\ \A u \in Active \ {t} : stage[u] # "Inactive" => Marker(t) # Marker(u)
    /\ \A u \in Active : helping[u] # Nobody /\ helping[u].of # <<t, calls[t]>>
                           => helping[u].marker # Marker(t)
-----------------------------------------------------------------------------
(* The number of a call is its sequence number: every word of the state is  *)
(* the one its history says, none a mixture of two operations.              *)
Names(marker, operation) ==
  \E t \in Active, n \in 0 .. MaxCalls - 1 :
    /\ operation = <<t, n>>
    /\ marker = ConstructThreadAndSequence(NumThreads, t, WordOf(n))

EncodingInv ==
  /\ stage \in [ThreadId -> Stage]
  /\ calls \in [ThreadId -> 0 .. MaxCalls]
  /\ ss = [t \in ThreadId |-> ConstructStageAndSequence(stage[t], WordOf(calls[t]))]
  /\ sequence \in [Active -> SUBSET Bit]
  /\ \A t \in Active : stage[t] # "Inactive" =>
       calls[t] < MaxCalls /\ sequence[t] = WordOf(calls[t])
  /\ IF origin = None THEN cell \in UserValue ELSE Names(cell, origin)
  /\ helping \in [Active -> [marker : SUBSET Bit, of : {None} \cup (Active \X (0 .. MaxCalls))]]
  /\ \A u \in Active : helping[u] # Nobody => Names(helping[u].marker, helping[u].of)
=============================================================================
