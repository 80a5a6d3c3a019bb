-------------------------------- MODULE KCas --------------------------------
(***************************************************************************)
(* The multi-word compare-and-swap of src/src/kcas/.  Threads share a      *)
(* State; each kcas call claims its target addresses one by one with a     *)
(* marker, decides its stage, and swaps the markers for the desired or the *)
(* expected values.  A thread that meets another operation's marker helps  *)
(* that operation before it goes on.                                       *)
(*                                                                         *)
(* Every load, store and compare-and-swap of the code is one action, so a  *)
(* thread can be overtaken between any two of them.  Atomics are taken as  *)
(* sequentially consistent.  Packing of markers and stages into words is   *)
(* abstracted: a marker and a stage-and-sequence are records.              *)
(***************************************************************************)
EXTENDS Naturals, Sequences

CONSTANTS
  Thread,          \* the wrappers: one per reserved thread id
  NumWords,        \* NUM_WORDS
  Address,         \* the AtomicUsize cells kcas calls may target
  Value,           \* what user code stores in them
  IllegalValue,    \* values whose top bits are neither all 0, all 1 nor a thread id
  Zero,            \* AtomicUsize::default()
  Null,            \* the null pointer, and the value of a local not in use
  InitialMemory,   \* contents of the targets before the first call
  Program,         \* Program[t][k]: the arguments thread t may pass to its k-th call
  Stalled          \* threads the scheduler may stop running for good

Word == 0 .. NumWords - 1
LastWord == NumWords - 1

(* A ThreadAndSequence: identifies one kcas call, and marks what it claimed. *)
Marker == [owner : Thread, seq : Nat]
KCasWord == [target : Address, expected : Value, desired : Value]

Stage == {"Inactive", "Claiming", "Setting", "Reverting", "Successful", "Reverted"}
Outcome == {"Ok", "ValueWasNotExpectedValue"}
FatalError == {"IllegalStageChange", "IllegalHelpeeStage",
               "TargetAddressWasNotValidPointer",
               "SequenceNumChangedByNonOriginatingThread",
               "TopBitsOfValueWereIllegal"}

ASSUME KCasAssumption ==
  /\ NumWords \in Nat \ {0}
  /\ Zero \in Value
  /\ IllegalValue \subseteq Value
  /\ Null \notin Address \cup Value \cup Marker \cup Stage \cup Outcome \cup FatalError
  /\ Null \notin [Word -> KCasWord]
  /\ Value \cap Marker = {}
  /\ InitialMemory \in [Address -> Value]
  /\ Program \in [Thread -> Seq(SUBSET [Word -> KCasWord])]
  /\ Stalled \subseteq Thread

VARIABLES
  memory,     \* the target cells: a value or a marker
  target,     \* State::target_addresses
  expected,   \* State::expected_values
  desired,    \* State::desired_values
  ss,         \* State::stage_and_sequence_numbers
  words,      \* the argument of the call a thread is executing, Null between calls
  frame,      \* the innermost function activation of a thread
  stack,      \* the claim loops of a thread suspended in help_thread, innermost last
  result      \* what a thread's last call returned, Null while it runs

shared == <<target, expected, desired>>
vars == <<memory, target, expected, desired, ss, words, frame, stack, result>>

(***************************************************************************)
(* A frame holds the locals of the function a thread is in: the operation  *)
(* it works on, the word number, what it loaded for that word, the value a *)
(* failed claim saw, and what comes after (the stage it wants, or what to  *)
(* do once every word is reverted).  Locals that are dead are Null.        *)
(***************************************************************************)
PC == {"idle", "storeTarget", "storeExpected", "storeDesired", "publish",
       "claimTarget", "claimExpected", "claimCas", "claimVerify", "helpLoad",
       "stageCas", "setTarget", "setDesired", "setCas", "setVerify",
       "revertTarget", "revertExpected", "revertCas",
       "prepare", "helpReturn", "fatal", "halted"}
HelpReturn == "helpReturn"

Frame == [pc    : PC,
          op    : Marker \cup {Null},
          word  : Word,
          addr  : Address \cup {Null},
          val   : Value \cup {Null},
          seen  : Value \cup Marker \cup {Null},
          after : Stage \cup Outcome \cup FatalError \cup {HelpReturn, Null}]

At(pc, op, word, after) ==
  [pc |-> pc, op |-> op, word |-> word, addr |-> Null, val |-> Null,
   seen |-> Null, after |-> after]

Helping(t) == stack[t] # <<>>

Init ==
  /\ memory = InitialMemory
  /\ target = [t \in Thread |-> [w \in Word |-> Null]]
  /\ expected = [t \in Thread |-> [w \in Word |-> Zero]]
  /\ desired = [t \in Thread |-> [w \in Word |-> Zero]]
  /\ ss = [t \in Thread |-> [stage |-> "Inactive", seq |-> 0]]
  /\ words = [t \in Thread |-> Null]
  /\ frame = [t \in Thread |-> At("idle", Null, 0, Null)]
  /\ stack = [t \in Thread |-> <<>>]
  /\ result = [t \in Thread |-> Null]
-----------------------------------------------------------------------------
(* kcas and initialize_operation: store the words, then publish Claiming. *)

(* Program bounds the calls: the sequence number counts the finished ones. *)
Call(t) ==
  /\ frame[t].pc = "idle"
  /\ ss[t].seq < Len(Program[t])
  /\ \E ws \in Program[t][ss[t].seq + 1] : words' = [words EXCEPT ![t] = ws]
  /\ frame' = [frame EXCEPT ![t] = At("storeTarget", Null, 0, Null)]
  /\ result' = [result EXCEPT ![t] = Null]
  /\ UNCHANGED <<memory, target, expected, desired, ss, stack>>

StoreTarget(t) ==
  /\ frame[t].pc = "storeTarget"
  /\ target' = [target EXCEPT ![t][frame[t].word] = words[t][frame[t].word].target]
  /\ frame' = [frame EXCEPT ![t].pc = "storeExpected"]
  /\ UNCHANGED <<memory, expected, desired, ss, words, stack, result>>

StoreExpected(t) ==
  /\ frame[t].pc = "storeExpected"
  /\ expected' = [expected EXCEPT ![t][frame[t].word] = words[t][frame[t].word].expected]
  /\ frame' = [frame EXCEPT ![t].pc = "storeDesired"]
  /\ UNCHANGED <<memory, target, desired, ss, words, stack, result>>

StoreDesired(t) ==
  LET w == frame[t].word IN
  /\ frame[t].pc = "storeDesired"
  /\ desired' = [desired EXCEPT ![t][w] = words[t][w].desired]
  /\ frame' = [frame EXCEPT ![t] = IF w = LastWord THEN At("publish", Null, 0, Null)
                                   ELSE At("storeTarget", Null, w + 1, Null)]
  /\ UNCHANGED <<memory, target, expected, ss, words, stack, result>>

(* One step for the load and the store: no other thread writes ss[t] while *)
(* its stage is Inactive.                                                  *)
Publish(t) ==
  /\ frame[t].pc = "publish"
  /\ ss' = [ss EXCEPT ![t].stage = "Claiming"]
  /\ frame' = [frame EXCEPT ![t] =
                 At("claimTarget", [owner |-> t, seq |-> ss[t].seq], 0, Null)]
  /\ UNCHANGED <<memory, target, expected, desired, words, stack, result>>
-----------------------------------------------------------------------------
(* What a thread does next once it knows how an operation's stage stands.  *)

Fatal(op, error) == At("fatal", op, 0, error)
Revert(op, from, after) == At("revertTarget", op, from, after)

(* The stage in which a change to a given stage may start. *)
StageBefore(goal) ==
  CASE goal \in {"Setting", "Reverting"} -> "Claiming"
    [] goal = "Successful" -> "Setting"
    [] goal = "Reverted" -> "Reverting"

(* Deliberate bug: the owner reports success of what a helper reverted. *)
AfterStageChangeReportingOk(op, actual, helping) ==
  CASE actual \in {"Inactive", "Claiming"} -> Fatal(op, "IllegalStageChange")
    [] actual = "Setting" -> At("setTarget", op, 0, Null)
    [] actual = "Reverting" ->
         Revert(op, LastWord, IF helping THEN "Reverted" ELSE "ValueWasNotExpectedValue")
    [] OTHER -> Revert(op, LastWord, IF helping THEN HelpReturn ELSE "Ok")

(* The stage of the operation is not the one this thread expected. *)
AfterStageChange(op, actual, helping) ==
  CASE actual \in {"Inactive", "Claiming"} -> Fatal(op, "IllegalStageChange")
    [] actual = "Setting" -> At("setTarget", op, 0, Null)
    [] actual = "Reverting" ->
         Revert(op, LastWord, IF helping THEN "Reverted" ELSE "ValueWasNotExpectedValue")
    [] actual = "Reverted" ->
         Revert(op, LastWord, IF helping THEN HelpReturn ELSE "ValueWasNotExpectedValue")
    [] actual = "Successful" ->
         Revert(op, LastWord, IF helping THEN HelpReturn ELSE "Ok")

(* Deliberate bug: a helper that comes too late leaves what it claimed. *)
AfterVerifyErrorWithoutRevert(op, actual, helping) ==
  CASE actual.seq = op.seq -> AfterStageChange(op, actual.stage, helping)
    [] actual.seq # op.seq /\ helping -> At(HelpReturn, op, 0, Null)
    [] OTHER -> Fatal(op, "SequenceNumChangedByNonOriginatingThread")

(* verify_stage_and_sequence_have_not_changed found a change. *)
AfterVerifyError(op, actual, helping) ==
  CASE actual.seq = op.seq -> AfterStageChange(op, actual.stage, helping)
    [] actual.seq # op.seq /\ helping -> Revert(op, LastWord, HelpReturn)
    [] OTHER -> Fatal(op, "SequenceNumChangedByNonOriginatingThread")

(* The compare-and-swap of change_stage_and_transition failed. *)
AfterStageCasFailed(op, actual, helping) ==
  CASE actual.seq = op.seq -> AfterStageChange(op, actual.stage, helping)
    [] actual.seq # op.seq /\ helping -> Revert(op, LastWord, HelpReturn)
    [] OTHER -> Revert(op, LastWord, "SequenceNumChangedByNonOriginatingThread")

(* The compare-and-swap of change_stage_and_transition succeeded.          *)
(* Reverting starts at the word whose claim failed.                        *)
AfterStageCasDone(f, helping) ==
  CASE f.after = "Setting" -> At("setTarget", f.op, 0, Null)
    [] f.after = "Reverting" ->
         Revert(f.op, f.word, IF helping THEN "Reverted" ELSE "ValueWasNotExpectedValue")
    [] f.after \in {"Successful", "Reverted"} -> At(HelpReturn, f.op, 0, Null)

(* Deliberate bugs: the claim loop ends one word early, or one word late. *)
AfterClaimSkippingLast(f) ==
  IF f.word + 1 >= LastWord THEN At("stageCas", f.op, 0, "Setting")
                            ELSE At("claimTarget", f.op, f.word + 1, Null)
AfterClaimPastLast(f) ==
  IF f.word > LastWord THEN At("stageCas", f.op, 0, "Setting")
                       ELSE At("claimTarget", f.op, f.word + 1, Null)

AfterClaim(f) ==
  IF f.word = LastWord THEN At("stageCas", f.op, 0, "Setting")
                       ELSE At("claimTarget", f.op, f.word + 1, Null)

(* Deliberate bug: the last word is not set. *)
AfterSetSkippingLast(f, helping) ==
  CASE f.word + 1 < LastWord -> At("setTarget", f.op, f.word + 1, Null)
    [] f.word + 1 >= LastWord /\ helping -> At("stageCas", f.op, 0, "Successful")
    [] OTHER -> At("prepare", f.op, 0, "Ok")

AfterSet(f, helping) ==
  CASE f.word # LastWord -> At("setTarget", f.op, f.word + 1, Null)
    [] f.word = LastWord /\ helping -> At("stageCas", f.op, 0, "Successful")
    [] OTHER -> At("prepare", f.op, 0, "Ok")

AfterRevert(f) ==
  CASE f.word # 0 -> At("revertTarget", f.op, f.word - 1, f.after)
    [] f.word = 0 /\ f.after \in Outcome -> At("prepare", f.op, 0, f.after)
    [] f.word = 0 /\ f.after = "Reverted" -> At("stageCas", f.op, 0, "Reverted")
    [] f.word = 0 /\ f.after = HelpReturn -> At(HelpReturn, f.op, 0, Null)
    [] OTHER -> Fatal(f.op, f.after)
-----------------------------------------------------------------------------
(* claim: swap the expected values for markers, in word order. *)

(* Claim, set and revert all begin a word by loading its target address. *)
LoadTarget(t, here, next) ==
  LET f == frame[t]
      x == target[f.op.owner][f.word]
  IN
  /\ f.pc = here
  /\ frame' = [frame EXCEPT ![t] =
                 IF x = Null THEN Fatal(f.op, "TargetAddressWasNotValidPointer")
                 ELSE [f EXCEPT !.pc = next, !.addr = x]]
  /\ UNCHANGED <<memory, shared, ss, words, stack, result>>

LoadValue(t, here, next, v) ==
  /\ frame[t].pc = here
  /\ frame' = [frame EXCEPT ![t].pc = next, ![t].val = v]
  /\ UNCHANGED <<memory, shared, ss, words, stack, result>>

ClaimTarget(t) == LoadTarget(t, "claimTarget", "claimExpected")

ClaimExpected(t) ==
  LoadValue(t, "claimExpected", "claimCas", expected[frame[t].op.owner][frame[t].word])

(* Deliberate bug: the operation's own marker is taken for another's. *)
ClaimCasForeign(t) ==
  LET f == frame[t] IN
  /\ f.pc = "claimCas"
  /\ \/ /\ memory[f.addr] = f.val
        /\ memory' = [memory EXCEPT ![f.addr] = f.op]
        /\ frame' = [frame EXCEPT ![t] = AfterClaim(f)]
     \/ /\ memory[f.addr] # f.val
        /\ frame' = [frame EXCEPT ![t].pc = "claimVerify", ![t].seen = memory[f.addr]]
        /\ UNCHANGED memory
  /\ UNCHANGED <<shared, ss, words, stack, result>>

(* A spurious failure of compare_exchange_weak retries: a stuttering step. *)
ClaimCas(t) ==
  LET f == frame[t] IN
  /\ f.pc = "claimCas"
  /\ \/ /\ memory[f.addr] = f.val
        /\ memory' = [memory EXCEPT ![f.addr] = f.op]
        /\ frame' = [frame EXCEPT ![t] = AfterClaim(f)]
     \/ /\ memory[f.addr] = f.op
        /\ frame' = [frame EXCEPT ![t] = AfterClaim(f)]
        /\ UNCHANGED memory
     \/ /\ memory[f.addr] \notin {f.val, f.op}
        /\ frame' = [frame EXCEPT ![t].pc = "claimVerify", ![t].seen = memory[f.addr]]
        /\ UNCHANGED memory
  /\ UNCHANGED <<shared, ss, words, stack, result>>

(* A claim failed: if the operation is still claiming, the value seen says *)
(* whether to help its owner, to give up, or to revert.                    *)
ClaimVerify(t) ==
  LET f == frame[t]
      actual == ss[f.op.owner]
  IN
  /\ f.pc = "claimVerify"
  /\ \/ /\ actual # [stage |-> "Claiming", seq |-> f.op.seq]
        /\ frame' = [frame EXCEPT ![t] = AfterVerifyError(f.op, actual, Helping(t))]
     \/ /\ actual = [stage |-> "Claiming", seq |-> f.op.seq]
        /\ \/ /\ f.seen \in Value \ IllegalValue
              /\ frame' = [frame EXCEPT ![t] = At("stageCas", f.op, f.word, "Reverting")]
           \/ /\ f.seen \in Marker
              /\ frame' = [frame EXCEPT ![t].pc = "helpLoad"]
           \/ /\ f.seen \in IllegalValue
              /\ frame' = [frame EXCEPT ![t] = Fatal(f.op, "TopBitsOfValueWereIllegal")]
  /\ UNCHANGED <<memory, shared, ss, words, stack, result>>

(* The frame in which help_thread works on the operation of a marker. *)
HelpFrame(m, stage) ==
  CASE stage = "Claiming" -> At("claimTarget", m, 0, Null)
    [] stage = "Setting" -> At("setTarget", m, 0, Null)
    [] stage = "Reverting" -> Revert(m, LastWord, "Reverted")
    [] stage = "Inactive" -> Fatal(m, "IllegalHelpeeStage")

(* Deliberate bugs: the marker's sequence number is not compared, the      *)
(* owner is waited for instead of helped, or help_thread is handed the     *)
(* marker the claim was to put down and not the one it met.                *)
HelpThreadAnySequence(t) ==
  LET f == frame[t]
      stage == ss[f.seen.owner].stage
      suspended == [f EXCEPT !.pc = "claimCas", !.seen = Null]
  IN
  /\ f.pc = "helpLoad"
  /\ IF stage \in {"Successful", "Reverted"}
     THEN frame' = [frame EXCEPT ![t] = suspended] /\ UNCHANGED stack
     ELSE /\ stack' = [stack EXCEPT ![t] = Append(@, suspended)]
          /\ frame' = [frame EXCEPT ![t] = HelpFrame(f.seen, stage)]
  /\ UNCHANGED <<memory, shared, ss, words, result>>
HelpThreadWaits(t) ==
  /\ frame[t].pc = "helpLoad"
  /\ frame' = [frame EXCEPT ![t].pc = "claimCas", ![t].seen = Null]
  /\ UNCHANGED <<memory, shared, ss, words, stack, result>>
HelpThreadOwnMarker(t) ==
  LET f == frame[t]
      actual == ss[f.op.owner]
      finished == actual.seq # f.op.seq \/ actual.stage \in {"Successful", "Reverted"}
      suspended == [f EXCEPT !.pc = "claimCas", !.seen = Null]
  IN
  /\ f.pc = "helpLoad"
  /\ \/ /\ finished
        /\ frame' = [frame EXCEPT ![t] = suspended]
        /\ UNCHANGED stack
     \/ /\ ~finished
        /\ stack' = [stack EXCEPT ![t] = Append(@, suspended)]
        /\ frame' = [frame EXCEPT ![t] = HelpFrame(f.op, actual.stage)]
  /\ UNCHANGED <<memory, shared, ss, words, result>>

(* help_thread on the operation whose marker the claim met.  An operation  *)
(* that is over needs no help: the claim tries its address again.          *)
HelpThread(t) ==
  LET f == frame[t]
      actual == ss[f.seen.owner]
      finished == actual.seq # f.seen.seq \/ actual.stage \in {"Successful", "Reverted"}
      suspended == [f EXCEPT !.pc = "claimCas", !.seen = Null]
  IN
  /\ f.pc = "helpLoad"
  /\ \/ /\ finished
        /\ frame' = [frame EXCEPT ![t] = suspended]
        /\ UNCHANGED stack
     \/ /\ ~finished
        /\ stack' = [stack EXCEPT ![t] = Append(@, suspended)]
        /\ frame' = [frame EXCEPT ![t] = HelpFrame(f.seen, actual.stage)]
  /\ UNCHANGED <<memory, shared, ss, words, result>>

(* Whether help_thread returned Ok or reported that the operation was over *)
(* already, the suspended claim tries its address again.                   *)
HelpDone(t) ==
  LET n == Len(stack[t]) IN
  /\ frame[t].pc = HelpReturn
  /\ frame' = [frame EXCEPT ![t] = stack[t][n]]
  /\ stack' = [stack EXCEPT ![t] = SubSeq(@, 1, n - 1)]
  /\ UNCHANGED <<memory, shared, ss, words, result>>
-----------------------------------------------------------------------------
(* change_stage_and_transition and help_change_stage_and_transition. *)

StageCas(t) ==
  LET f == frame[t]
      o == f.op.owner
      before == [stage |-> StageBefore(f.after), seq |-> f.op.seq]
  IN
  /\ f.pc = "stageCas"
  /\ \/ /\ ss[o] = before
        /\ ss' = [ss EXCEPT ![o].stage = f.after]
        /\ frame' = [frame EXCEPT ![t] = AfterStageCasDone(f, Helping(t))]
     \/ /\ ss[o] # before
        /\ frame' = [frame EXCEPT ![t] = AfterStageCasFailed(f.op, ss[o], Helping(t))]
        /\ UNCHANGED ss
  /\ UNCHANGED <<memory, shared, words, stack, result>>
-----------------------------------------------------------------------------
(* set: swap the markers for the desired values, in word order. *)

SetTarget(t) == LoadTarget(t, "setTarget", "setDesired")

SetDesired(t) ==
  LoadValue(t, "setDesired", "setCas", desired[frame[t].op.owner][frame[t].word])

(* Deliberate bug: a store in the place of the compare-and-swap. *)
SetStore(t) ==
  LET f == frame[t] IN
  /\ f.pc = "setCas"
  /\ memory' = [memory EXCEPT ![f.addr] = f.val]
  /\ frame' = [frame EXCEPT ![t] = AfterSet(f, Helping(t))]
  /\ UNCHANGED <<shared, ss, words, stack, result>>

SetCas(t) ==
  LET f == frame[t] IN
  /\ f.pc = "setCas"
  /\ \/ /\ memory[f.addr] = f.op
        /\ memory' = [memory EXCEPT ![f.addr] = f.val]
        /\ frame' = [frame EXCEPT ![t] = AfterSet(f, Helping(t))]
     \/ /\ memory[f.addr] # f.op
        /\ frame' = [frame EXCEPT ![t] = At("setVerify", f.op, f.word, Null)]
        /\ UNCHANGED memory
  /\ UNCHANGED <<shared, ss, words, stack, result>>

(* The value a failed compare-and-swap of set saw makes no difference. *)
SetVerify(t) ==
  LET f == frame[t]
      actual == ss[f.op.owner]
  IN
  /\ f.pc = "setVerify"
  /\ frame' = [frame EXCEPT ![t] =
                 IF actual = [stage |-> "Setting", seq |-> f.op.seq]
                 THEN AfterSet(f, Helping(t))
                 ELSE AfterVerifyError(f.op, actual, Helping(t))]
  /\ UNCHANGED <<memory, shared, ss, words, stack, result>>
-----------------------------------------------------------------------------
(* revert: swap the markers back for the expected values, last word first. *)

RevertTarget(t) == LoadTarget(t, "revertTarget", "revertExpected")

RevertExpected(t) ==
  LoadValue(t, "revertExpected", "revertCas", expected[frame[t].op.owner][frame[t].word])

(* Deliberate bug: a store in the place of the compare-and-swap. *)
RevertStore(t) ==
  LET f == frame[t] IN
  /\ f.pc = "revertCas"
  /\ memory' = [memory EXCEPT ![f.addr] = f.val]
  /\ frame' = [frame EXCEPT ![t] = AfterRevert(f)]
  /\ UNCHANGED <<shared, ss, words, stack, result>>

RevertCas(t) ==
  LET f == frame[t] IN
  /\ f.pc = "revertCas"
  /\ memory' = IF memory[f.addr] = f.op THEN [memory EXCEPT ![f.addr] = f.val] ELSE memory
  /\ frame' = [frame EXCEPT ![t] = AfterRevert(f)]
  /\ UNCHANGED <<shared, ss, words, stack, result>>
-----------------------------------------------------------------------------
(* prepare_for_next_operation and the returns of kcas. *)

(* Deliberate bug: the sequence number is not advanced. *)
PrepareSameSequence(t) ==
  /\ frame[t].pc = "prepare"
  /\ ss' = [ss EXCEPT ![t].stage = "Inactive"]
  /\ result' = [result EXCEPT ![t] = frame[t].after]
  /\ words' = [words EXCEPT ![t] = Null]
  /\ frame' = [frame EXCEPT ![t] = At("idle", Null, 0, Null)]
  /\ UNCHANGED <<memory, shared, stack>>

Prepare(t) ==
  /\ frame[t].pc = "prepare"
  /\ ss' = [ss EXCEPT ![t] = [stage |-> "Inactive", seq |-> frame[t].op.seq + 1]]
  /\ result' = [result EXCEPT ![t] = frame[t].after]
  /\ words' = [words EXCEPT ![t] = Null]
  /\ frame' = [frame EXCEPT ![t] = At("idle", Null, 0, Null)]
  /\ UNCHANGED <<memory, shared, stack>>

(* A fatal error leaves every suspended claim with that error, and nothing *)
(* is cleaned up.  It is unrecoverable: the thread makes no further call.  *)
ReturnFatal(t) ==
  /\ frame[t].pc = "fatal"
  /\ result' = [result EXCEPT ![t] = frame[t].after]
  /\ words' = [words EXCEPT ![t] = Null]
  /\ stack' = [stack EXCEPT ![t] = <<>>]
  /\ frame' = [frame EXCEPT ![t] = At("halted", Null, 0, Null)]
  /\ UNCHANGED <<memory, shared, ss>>
-----------------------------------------------------------------------------
(* One step of a call in progress. *)
Step(t) ==
  \/ StoreTarget(t) \/ StoreExpected(t) \/ StoreDesired(t) \/ Publish(t)
  \/ ClaimTarget(t) \/ ClaimExpected(t) \/ ClaimCas(t) \/ ClaimVerify(t)
  \/ HelpThread(t) \/ HelpDone(t) \/ StageCas(t)
  \/ SetTarget(t) \/ SetDesired(t) \/ SetCas(t) \/ SetVerify(t)
  \/ RevertTarget(t) \/ RevertExpected(t) \/ RevertCas(t)
  \/ Prepare(t) \/ ReturnFatal(t)

(* The program is over: this only tells the end from a deadlock. *)
Finished ==
  /\ \A t \in Thread : \/ frame[t].pc = "halted"
                       \/ frame[t].pc = "idle" /\ ss[t].seq = Len(Program[t])
  /\ UNCHANGED vars

Next == Finished \/ \E t \in Thread : Call(t) \/ Step(t)

Spec == Init /\ [][Next]_vars

(* A thread that the scheduler does not stop goes on with its call; *)
(* nothing obliges it to make one.                                  *)
FairSpec == Spec /\ \A t \in Thread \ Stalled : WF_vars(Step(t))
-----------------------------------------------------------------------------
(* Every variable stays in its domain, and the helpers' stacks hold frames. *)
TypeOK ==
  /\ memory \in [Address -> Value \cup Marker]
  /\ target \in [Thread -> [Word -> Address \cup {Null}]]
  /\ expected \in [Thread -> [Word -> Value]]
  /\ desired \in [Thread -> [Word -> Value]]
  /\ ss \in [Thread -> [stage : Stage, seq : Nat]]
  /\ words \in [Thread -> [Word -> KCasWord] \cup {Null}]
  /\ frame \in [Thread -> Frame]
  /\ stack \in [Thread -> Seq(Frame)]
  /\ result \in [Thread -> Outcome \cup FatalError \cup {Null}]

(* err.rs says of IllegalStageChange, IllegalHelpeeStage and               *)
(* SequenceNumChangedByNonOriginatingThread that they "should not be       *)
(* possible", and every published target is a valid pointer: the only      *)
(* fatal error a kcas call or a helper ever meets is an illegal value.     *)
NoImpossibleError ==
  \A t \in Thread :
    /\ frame[t].pc = "fatal" => frame[t].after = "TopBitsOfValueWereIllegal"
    /\ result[t] \in FatalError => result[t] = "TopBitsOfValueWereIllegal"

(* The life of an operation as types.rs describes its Stage: each step that *)
(* changes a stage-and-sequence takes one edge of this graph, whichever     *)
(* thread takes it, and only a thread's own call starts or ends one.        *)
StageEdge(from, to) ==
  \/ from.seq = to.seq /\ <<from.stage, to.stage>> \in
       {<<"Inactive", "Claiming">>, <<"Claiming", "Setting">>,
        <<"Claiming", "Reverting">>, <<"Setting", "Successful">>,
        <<"Reverting", "Reverted">>}
  \/ /\ to = [stage |-> "Inactive", seq |-> from.seq + 1]
     /\ from.stage \in {"Setting", "Successful", "Reverting", "Reverted"}

StageProtocol ==
  [][\A t \in Thread : ss'[t] # ss[t] => StageEdge(ss[t], ss'[t])]_vars

(* kcas reports to its caller what was decided for the operation, also when *)
(* a helper decided it: Ok exactly for one that reached Setting, a mismatch *)
(* exactly for one that reached Reverting.                                  *)
ReportsTheDecision ==
  [][\A t \in Thread : result'[t] # result[t] =>
       /\ result'[t] = "Ok" => ss[t].stage \in {"Setting", "Successful"}
       /\ result'[t] = "ValueWasNotExpectedValue"
            => ss[t].stage \in {"Reverting", "Reverted"}]_vars

(* types.rs: an operation in Setting "has already claimed all of its target *)
(* addresses".  Whichever thread moves it there, and however many helpers   *)
(* claimed, reverted or fell behind, at that step each address holds the    *)
(* operation's own marker.                                                  *)
DecisionNeedsEveryClaim ==
  [][\A t \in Thread : ss[t].stage = "Claiming" /\ ss'[t].stage = "Setting" =>
       \A w \in Word : memory[target[t][w]] = [owner |-> t, seq |-> ss[t].seq]]_vars

(* help_thread calls claim, which may call help_thread again.  A thread     *)
(* never waits a second time at an address where a claim of its is already  *)
(* suspended, so the recursion is never deeper than there are addresses.    *)
(* This is what using target addresses in the same order is for (lib.rs,    *)
(* Limitations).                                                            *)
HelpNeverCircular ==
  \A t \in Thread : \A i, j \in 1 .. Len(stack[t]) :
    i # j => stack[t][i].addr # stack[t][j].addr

(* What tests/common asserts when all its threads are done: if the calls    *)
(* are on the same targets, these all hold the desired values of one call,  *)
(* here of one that reported Ok.                                            *)
Over == \A t \in Thread : frame[t].pc = "idle" /\ ss[t].seq = Len(Program[t])

SomeCallWins ==
  Over /\ (\A t, u \in Thread : target[t] = target[u]) =>
    \E t \in Thread : /\ result[t] = "Ok"
                      /\ \A w \in Word : memory[target[t][w]] = desired[t][w]

(* revert.rs: "Ensure that none of the target addresses contain the         *)
(* [ThreadAndSequence] marker".  Once no call is in progress every address  *)
(* holds a value, although helpers may claim for an operation that is over. *)
QuiescentClean ==
  (\A t \in Thread : frame[t].pc = "idle") => \A x \in Address : memory[x] \in Value

(* lib.rs: "A lock-free multi-word compare-and-swap library".  Whoever the  *)
(* scheduler stops, and wherever, the calls of the other threads return.    *)
EveryCallReturns ==
  \A t \in Thread \ Stalled :
    frame[t].pc = "storeTarget" ~> frame[t].pc \in {"idle", "halted"}

(* claim.rs, on an operation that is over: "the other thread's              *)
(* ThreadAndSequence should be gone. Try again."  A marker whose operation  *)
(* is over does go away, so trying again helps, unless a thread that works  *)
(* for that operation has stopped.                                          *)
StaleMarkersGo ==
  \A x \in Address :
    LET m == memory[x]
        stale == m \in Marker /\ ss[m.owner].seq > m.seq
        abandoned == \E u \in Stalled :
          frame[u].op = m \/ \E i \in 1 .. Len(stack[u]) : stack[u][i].op = m
    IN  stale ~> ~stale \/ abandoned
=============================================================================
