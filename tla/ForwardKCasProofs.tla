-------------------------- MODULE ForwardKCasProofs --------------------------
(* Proofs about the programs in which every thread calls at most once: the  *)
(* markers an operation leaves behind are taken out, however late a helper  *)
(* claimed for it; and, if the calls move cells only forward, kcas is an    *)
(* atomic compare-and-swap.                                                 *)
EXTENDS ForwardKCas, KCasProofs, FiniteSetTheorems, WellFoundedInduction

(* With one call per thread, an operation is its owner's first. *)
LEMMA OnlyOperation ==
  ASSUME ProtocolInv, OnlyCall, NEW op \in Marker, Issued(op, ss)
  PROVE  op.owner \in Thread /\ Started(op.owner) /\ op = First(op.owner)
<1>1. op.owner \in Thread /\ op.seq \in Nat /\ op = [owner |-> op.owner, seq |-> op.seq]
  BY DEF Marker
<1>2. ss[op.owner] \in [stage : Stage, seq : Nat]
  BY <1>1 DEF ProtocolInv, TypeOK
<1>3. op.seq = 0
  BY <1>1, <1>2 DEF OnlyCall, Issued
<1>4. Started(op.owner)
  BY <1>1, <1>2 DEF Started, Issued
<1> QED BY <1>1, <1>3, <1>4 DEF First

(* Every frame in an operation is in one that has started. *)
LEMMA FramesStarted ==
  ASSUME ProtocolInv, OnlyCall, NEW u \in Thread, NEW f,
         f = frame[u] \/ \E i \in 1 .. Len(stack[u]) : f = stack[u][i],
         f.op # Null
  PROVE  /\ f \in Frame /\ f.op \in Marker /\ f.op.owner \in Thread
         /\ Started(f.op.owner) /\ f.op = First(f.op.owner)
<1>1. f \in Frame
  BY DEF ProtocolInv, TypeOK
<1>2. PhaseOK(f, ss)
  BY DEF ProtocolInv, FramesOK, FrameOK, StackOK
<1>3. f.op \in Marker /\ Issued(f.op, ss)
  BY <1>1, <1>2 DEF Frame, PhaseOK
<1> QED BY <1>1, <1>3, OnlyOperation

(* Once it has started, the words of an operation stay in the State. *)
LEMMA ArraysKept ==
  ASSUME ProtocolInv, OnlyCall, NEW t \in Thread, Call(t) \/ Step(t),
         NEW u \in Thread, Started(u) \/ u # t
  PROVE  /\ Started(u) => Started(u)'
         /\ target'[u] = target[u] /\ expected'[u] = expected[u] /\ desired'[u] = desired[u]
<1>1. ss[u] \in [stage : Stage, seq : Nat] /\ ss'[u] \in [stage : Stage, seq : Nat]
  BY StagesProgress DEF StageSeq
<1>2. Started(u) => Started(u)'
  <2>1. ss'[u] = ss[u] \/ StageEdge(ss[u], ss'[u])
    BY StagesProgress DEF Edges
  <2>2. StageEdge(ss[u], ss'[u]) =>
          \/ ss'[u].seq = ss[u].seq /\ ss'[u].stage # "Inactive"
          \/ ss'[u].seq = ss[u].seq + 1
    BY DEF StageEdge
  <2> QED BY <1>1, <2>1, <2>2 DEF Started
<1>3. CASE StoreStep(t)
  <2>1. frame[t].pc \in StorePC
    BY <1>3 DEF StoreStep, StoreTarget, StoreExpected, StoreDesired, StorePC
  <2>2. ss[t].seq = 0 /\ ss[t].stage = "Inactive"
    BY <2>1, FrameFacts DEF OnlyCall, FrameOK, RoleOK
  <2>3. u # t
    BY <2>2 DEF Started
  <2> QED BY <1>2, <1>3, <2>3 DEF StoreStep, StoreTarget, StoreExpected, StoreDesired,
             ProtocolInv, TypeOK
<1>4. CASE OutsideStep(t) /\ ~StoreStep(t)
  BY <1>2, <1>4 DEF OutsideStep, Call, Publish, Prepare, ReturnFatal, shared
<1>5. CASE ~OutsideStep(t)
  BY <1>2, <1>5, InsideEffect DEF OutsideStep
<1> QED BY <1>3, <1>4, <1>5

LEMMA OnlyCallNext ==
  ASSUME OneCall, ProtocolInv, OnlyCall, NEW t \in Thread, Call(t) \/ Step(t)
  PROVE  OnlyCall'
<1> SUFFICES ASSUME NEW u \in Thread
             PROVE  /\ ss'[u].seq <= 1
                    /\ ss'[u].stage # "Inactive" \/ frame'[u].pc \in StorePC => ss'[u].seq = 0
  BY DEF OnlyCall
<1>1. /\ ss \in StageSeq /\ frame \in [Thread -> Frame] /\ ss[u].seq \in Nat
      /\ u # t => frame'[u] = frame[u]
      /\ ss[u].seq <= 1
      /\ ss[u].stage # "Inactive" \/ frame[u].pc \in StorePC => ss[u].seq = 0
  BY OthersUntouched DEF ProtocolInv, TypeOK, StageSeq, OnlyCall
<1>2. CASE Call(t)
  <2>1. Len(Program[t]) \in Nat /\ Len(Program[t]) <= 1
    BY KCasAssumption DEF OneCall
  <2>2. ss[t].seq \in Nat /\ ss[t].seq < Len(Program[t])
    BY <1>1, <1>2 DEF Call, StageSeq
  <2> QED BY <1>1, <1>2, <2>1, <2>2 DEF Call
<1>3. CASE StoreStep(t)
  <2>1. frame[t].pc \in StorePC /\ ss' = ss
    BY <1>3 DEF StoreStep, StoreTarget, StoreExpected, StoreDesired, StorePC
  <2> QED BY <1>1, <2>1
<1>4. CASE Publish(t)
  <2>1. frame[t].pc \in StorePC /\ ss' = [ss EXCEPT ![t].stage = "Claiming"]
    BY <1>4 DEF Publish, StorePC
  <2> QED BY <1>1, <2>1 DEF StageSeq
<1>5. CASE Prepare(t)
  <2>1. /\ ss[t].stage # "Inactive" /\ frame[t].op = [owner |-> t, seq |-> ss[t].seq]
    <3>1. frame[t].pc = "prepare" /\ frame[t].pc \notin NoOpPC
      BY <1>5 DEF Prepare, NoOpPC, StorePC
    <3> QED BY <3>1, InOperation, FrameFacts, NoStackOutsideOperations
            DEF Helping, OwnUnlessHelping
  <2>2. ss[t].seq = 0
    BY <2>1 DEF OnlyCall
  <2>3. /\ ss' = [ss EXCEPT ![t] = [stage |-> "Inactive", seq |-> 1]]
        /\ frame'[t].pc = "idle"
    BY <1>1, <1>5, <2>1, <2>2 DEF Prepare, At
  <2> QED BY <1>1, <2>3 DEF StageSeq, StorePC
<1>6. CASE ReturnFatal(t)
  <2>1. ss' = ss /\ frame'[t].pc = "halted"
    BY <1>1, <1>6 DEF ReturnFatal, At
  <2> QED BY <1>1, <2>1 DEF StorePC
<1>7. CASE ~OutsideStep(t)
  <2>1. Step(t)
    BY <1>7 DEF OutsideStep
  <2>2. ss' = ss \/ Decides(t)
    BY <1>7, <2>1, InsideEffect
  <2>3. ss'[u].seq = ss[u].seq
    BY <1>1, <2>2 DEF Decides, StageSeq
  <2>4. ss'[u].stage # "Inactive" => ss[u].stage # "Inactive"
    BY <1>7, <2>1, StagesProgress DEF OutsideStep
  <2>5. u = t => frame'[u].pc \notin StorePC
    BY <1>7, <2>1, InsideEffect
  <2> QED BY <1>1, <2>3, <2>4, <2>5
<1> QED BY <1>2, <1>3, <1>4, <1>5, <1>6, <1>7 DEF OutsideStep
-----------------------------------------------------------------------------
(* What is loaded and what is claimed agrees with the words in the State. *)

LEMMA LoadedKept ==
  ASSUME ProtocolInv, OnlyCall, NEW t \in Thread, Call(t) \/ Step(t),
         NEW u \in Thread, NEW f,
         f = frame[u] \/ \E i \in 1 .. Len(stack[u]) : f = stack[u][i],
         LoadedOK(f, target, expected, desired)
  PROVE  LoadedOK(f, target', expected', desired')
<1>1. CASE f.op = Null
  BY <1>1 DEF LoadedOK
<1>2. CASE f.op # Null
  <2>1. f.op.owner \in Thread /\ Started(f.op.owner)
    BY <1>2, FramesStarted
  <2>2. /\ target'[f.op.owner] = target[f.op.owner]
        /\ expected'[f.op.owner] = expected[f.op.owner]
        /\ desired'[f.op.owner] = desired[f.op.owner]
    BY <2>1, ArraysKept
  <2> QED BY <2>2 DEF LoadedOK
<1> QED BY <1>1, <1>2

(* ... of the frame a thread goes on with. *)
LEMMA LoadedNext ==
  ASSUME ProtocolInv, OnlyCall, LocalsLoaded, NEW t \in Thread, Call(t) \/ Step(t)
  PROVE  LoadedOK(frame'[t], target', expected', desired')
<1>1. CASE OutsideStep(t)
  <2>1. frame'[t].pc \in NoOpPC \cup {"claimTarget"}
    BY <1>1, OutsideEffect
  <2> QED BY <2>1 DEF LoadedOK, NoOpPC, StorePC
<1>2. CASE ~OutsideStep(t)
  <2>1. InsideStep(t) /\ UNCHANGED <<target, expected, desired>>
    BY <1>2, StepKinds, InsideEffect DEF OutsideStep
  <2>2. frame[t] \in Frame /\ LoadedOK(frame[t], target, expected, desired)
    BY FrameFacts DEF LocalsLoaded
  <2>3. CASE Loads(t)
    BY <2>1, <2>2, <2>3 DEF Loads, LoadedOK
  <2>4. CASE ClaimFails(t) \/ Verifies(t) \/ TriesAgain(t)
    <3>1. CASE frame'[t].pc \in {"claimCas", "claimVerify", "helpLoad"}
      <4>1. /\ frame[t].pc \in {"claimCas", "claimVerify", "helpLoad"}
            /\ frame'[t].op = frame[t].op /\ frame'[t].word = frame[t].word
            /\ frame'[t].addr = frame[t].addr /\ frame'[t].val = frame[t].val
        BY <2>2, <2>4, <3>1 DEF ClaimFails, Verifies, TriesAgain, Suspended, Frame
      <4> QED BY <2>1, <2>2, <3>1, <4>1 DEF LoadedOK
    <3>2. CASE frame'[t].pc \in {"stageCas", "fatal"}
      BY <3>2 DEF LoadedOK
    <3> QED BY <2>2, <2>4, <3>1, <3>2 DEF ClaimFails, Verifies, TriesAgain, Suspended, Frame
  <2>5. CASE EndsHelp(t)
    <3>1. LoadedOK(stack[t][Len(stack[t])], target, expected, desired)
      BY <2>5, StackLoses DEF EndsHelp, LocalsLoaded, ProtocolInv, TypeOK
    <3> QED BY <2>1, <2>5, <3>1 DEF EndsHelp, LoadedOK
  <2>6. CASE Claims(t) \/ Turns(t) \/ BeginsHelp(t) \/ Decides(t)
    BY <2>6 DEF Claims, Turns, BeginsHelp, Decides, LoadedOK, HelpReturn
  <2>7. CASE Sets(t) \/ SetFails(t) \/ SetGoesOn(t) \/ Reverts(t)
    BY <2>7 DEF Sets, SetFails, SetGoesOn, SetsOn, Reverts, LoadedOK, HelpReturn
  <2> QED BY <2>1, <2>3, <2>4, <2>5, <2>6, <2>7 DEF InsideStep
<1> QED BY <1>1, <1>2

(* What t suspends, or has suspended, is a claim it was in. *)
LEMMA SuspendedBefore ==
  ASSUME ProtocolInv, NEW t \in Thread, Call(t) \/ Step(t), NEW i \in 1 .. Len(stack'[t])
  PROVE  \/ i \in 1 .. Len(stack[t]) /\ stack'[t][i] = stack[t][i]
         \/ BeginsHelp(t) /\ stack'[t][i] = Suspended(frame[t])
<1>1. stack[t] \in Seq(Frame) /\ frame[t] \in Frame
  BY DEF ProtocolInv, TypeOK
<1>2. CASE OutsideStep(t)
  BY <1>2, OutsideEffect
<1>3. CASE BeginsHelp(t)
  <2>1. Suspended(frame[t]) \in Frame
    BY <1>1, ConstantFacts DEF Suspended, Frame, PC
  <2> QED BY <1>1, <1>3, <2>1, StackGains DEF BeginsHelp
<1>4. CASE EndsHelp(t)
  <2>1. /\ Len(stack[t]) \in Nat \ {0} /\ Len(stack'[t]) = Len(stack[t]) - 1
        /\ \A j \in 1 .. Len(stack[t]) - 1 : stack'[t][j] = stack[t][j]
    BY <1>1, <1>4, StackLoses DEF EndsHelp
  <2> QED BY <2>1
<1>5. CASE ~OutsideStep(t) /\ ~BeginsHelp(t) /\ ~EndsHelp(t)
  <2>1. stack' = stack
    BY <1>5, StepKinds DEF OutsideStep, InsideStep, Loads, Claims, ClaimFails, Verifies,
       Turns, TriesAgain, Decides, Sets, SetFails, SetGoesOn, Reverts, Nothing, BesideCells
  <2> QED BY <2>1
<1> QED BY <1>2, <1>3, <1>4, <1>5

(* A suspended claim stays where it is until t takes it up again. *)
LEMMA SuspendedAfter ==
  ASSUME ProtocolInv, NEW t \in Thread, Call(t) \/ Step(t), NEW i \in 1 .. Len(stack[t])
  PROVE  \/ i \in 1 .. Len(stack'[t]) /\ stack'[t][i] = stack[t][i]
         \/ frame'[t] = stack[t][i]
         \/ frame'[t].pc = "halted"
<1>1. stack[t] \in Seq(Frame) /\ frame[t] \in Frame /\ frame \in [Thread -> Frame]
  BY DEF ProtocolInv, TypeOK
<1>2. CASE OutsideStep(t)
  <2>1. frame[t].pc \in NoOpPC \cup {"prepare"} => stack[t] = <<>>
    BY NoStackOutsideOperations
  <2>2. ReturnFatal(t)
    BY <1>2, <2>1 DEF OutsideStep, Call, StoreStep, StoreTarget, StoreExpected,
       StoreDesired, Publish, Prepare, NoOpPC, StorePC
  <2> QED BY <1>1, <2>2 DEF ReturnFatal, At
<1>3. CASE BeginsHelp(t)
  <2>1. Suspended(frame[t]) \in Frame
    BY <1>1, ConstantFacts DEF Suspended, Frame, PC
  <2> QED BY <1>1, <1>3, <2>1, StackGains DEF BeginsHelp
<1>4. CASE EndsHelp(t)
  <2>1. /\ Len(stack[t]) \in Nat \ {0} /\ Len(stack'[t]) = Len(stack[t]) - 1
        /\ \A j \in 1 .. Len(stack[t]) - 1 : stack'[t][j] = stack[t][j]
        /\ frame'[t] = stack[t][Len(stack[t])]
    BY <1>1, <1>4, StackLoses DEF EndsHelp
  <2>2. i \in 1 .. Len(stack[t]) - 1 \/ i = Len(stack[t])
    BY <2>1
  <2> QED BY <2>1, <2>2
<1>5. CASE ~OutsideStep(t) /\ ~BeginsHelp(t) /\ ~EndsHelp(t)
  <2>1. stack' = stack
    BY <1>5, StepKinds DEF OutsideStep, InsideStep, Loads, Claims, ClaimFails, Verifies,
       Turns, TriesAgain, Decides, Sets, SetFails, SetGoesOn, Reverts, Nothing, BesideCells
  <2> QED BY <2>1
<1> QED BY <1>2, <1>3, <1>4, <1>5

LEMMA LocalsLoadedNext ==
  ASSUME ProtocolInv, OnlyCall, LocalsLoaded, NEW t \in Thread, Call(t) \/ Step(t)
  PROVE  LocalsLoaded'
<1> SUFFICES ASSUME NEW u \in Thread
             PROVE  /\ LoadedOK(frame'[u], target', expected', desired')
                    /\ \A i \in 1 .. Len(stack'[u]) :
                         LoadedOK(stack'[u][i], target', expected', desired')
  BY DEF LocalsLoaded
<1>1. LoadedOK(frame'[u], target', expected', desired')
  BY LoadedKept, LoadedNext, OthersUntouched DEF LocalsLoaded
<1>2. ASSUME NEW i \in 1 .. Len(stack'[u])
      PROVE  LoadedOK(stack'[u][i], target', expected', desired')
  <2>1. CASE i \in 1 .. Len(stack[u]) /\ stack'[u][i] = stack[u][i]
    BY <2>1, LoadedKept DEF LocalsLoaded
  <2>2. CASE u = t /\ BeginsHelp(t) /\ stack'[t][i] = Suspended(frame[t])
    <3>1. frame[t] \in Frame /\ UNCHANGED <<target, expected, desired>>
      BY <2>2, FrameFacts DEF BeginsHelp
    <3> QED BY <2>2, <3>1 DEF BeginsHelp, LocalsLoaded, LoadedOK, Suspended, Frame
  <2> QED BY <1>2, <2>1, <2>2, SuspendedBefore, OthersUntouched
<1> QED BY <1>1, <1>2

(* A marker comes into a cell by a claim for a word of its operation. *)
LEMMA NewMarker ==
  ASSUME ProtocolInv, OnlyCall, LocalsLoaded, NEW t \in Thread, Call(t) \/ Step(t),
         NEW x \in Address, memory'[x] \in Marker, memory'[x] # memory[x]
  PROVE  /\ Claims(t) /\ memory'[x] = frame[t].op /\ frame[t].word \in Word
         /\ Started(frame[t].op.owner) /\ target[frame[t].op.owner][frame[t].word] = x
<1>1. ClaimCas(t) /\ x = frame[t].addr /\ memory'[x] = frame[t].op
  BY CellsChange
<1>2. frame[t].pc = "claimCas" /\ frame[t].pc \notin NoOpPC /\ ~OutsideStep(t)
  BY <1>1 DEF ClaimCas, NoOpPC, StorePC, OutsideStep, Call, StoreStep, StoreTarget,
     StoreExpected, StoreDesired, Publish, Prepare, ReturnFatal
<1>3. Claims(t)
  <2>1. InsideStep(t) /\ ~UNCHANGED memory
    BY <1>2, StepKinds DEF OutsideStep
  <2> QED BY <1>2, <2>1 DEF InsideStep, Loads, Claims, ClaimFails, Verifies, Turns, TriesAgain,
             BeginsHelp, EndsHelp, Decides, Sets, SetFails, SetGoesOn, Reverts, Nothing
<1>4. frame[t] \in Frame /\ frame[t].op # Null
  BY <1>2, FrameFacts
<1>5. Started(frame[t].op.owner)
  BY <1>4, FramesStarted
<1>6. frame[t].addr = target[frame[t].op.owner][frame[t].word]
  BY <1>2, <1>4 DEF LocalsLoaded, LoadedOK
<1> QED BY <1>1, <1>3, <1>4, <1>5, <1>6 DEF Frame

LEMMA MarkersPlacedNext ==
  ASSUME OneCallInv, NEW t \in Thread, Call(t) \/ Step(t)
  PROVE  MarkersPlaced'
<1> USE DEF OneCallInv
<1> SUFFICES ASSUME NEW x \in Address, memory'[x] \in Marker
             PROVE  \E w \in Word : target'[memory'[x].owner][w] = x
  BY DEF MarkersPlaced
<1>1. CASE memory'[x] = memory[x]
  <2>1. Started(memory[x].owner) /\ memory[x].owner \in Thread
    BY <1>1, OnlyOperation DEF ProtocolInv, MarkersIssued
  <2> QED BY <1>1, <2>1, ArraysKept DEF MarkersPlaced
<1>2. CASE memory'[x] # memory[x]
  <2>1. /\ memory'[x] = frame[t].op /\ frame[t].word \in Word
        /\ Started(frame[t].op.owner) /\ target[frame[t].op.owner][frame[t].word] = x
    BY <1>2, NewMarker
  <2>2. frame[t].op.owner \in Thread
    BY <2>1 DEF Marker
  <2> QED BY <2>1, <2>2, ArraysKept
<1> QED BY <1>1, <1>2

LEMMA OneCallStart == OneCall /\ Init => OneCallInv
<1> SUFFICES ASSUME OneCall, Init PROVE OneCallInv
  OBVIOUS
<1>1. ProtocolInv
  BY InitOK
<1>2. \A t \in Thread : /\ ss[t].seq = 0 /\ ss[t].stage = "Inactive"
                        /\ frame[t].pc = "idle" /\ frame[t].op = Null /\ stack[t] = <<>>
  BY DEF Init, At
<1>3. OnlyCall /\ LocalsLoaded
  BY <1>2 DEF OnlyCall, StorePC, LocalsLoaded, LoadedOK
<1>4. MarkersPlaced
  BY KCasAssumption, ConstantFacts DEF Init, MarkersPlaced
<1> QED BY <1>1, <1>3, <1>4 DEF OneCallInv

LEMMA OneCallNext ==
  ASSUME OneCall, OneCallInv, NEW t \in Thread, Call(t) \/ Step(t)
  PROVE  OneCallInv'
<1>1. ProtocolInv'
  BY NextOK DEF OneCallInv, Next
<1> QED BY <1>1, OnlyCallNext, LocalsLoadedNext, MarkersPlacedNext DEF OneCallInv
-----------------------------------------------------------------------------
(* Whoever leaves a marker behind comes back for it. *)

Stopped == \E t \in Thread : frame[t].pc \in {"fatal", "halted"}

(* A fatal error is for good. *)
LEMMA StoppedStays ==
  ASSUME ProtocolInv, Stopped, NEW t \in Thread, Call(t) \/ Step(t)
  PROVE  Stopped'
<1>1. PICK u \in Thread : frame[u].pc \in {"fatal", "halted"}
  BY DEF Stopped
<1>2. CASE u # t
  BY <1>1, <1>2, OthersUntouched DEF Stopped
<1>3. CASE u = t
  <2>1. ReturnFatal(t)
    <3>1. CASE OutsideStep(t)
      BY <1>1, <1>3, <3>1 DEF OutsideStep, Call, StoreStep, StoreTarget, StoreExpected,
         StoreDesired, Publish, Prepare
    <3>2. CASE ~OutsideStep(t)
      <4>1. InsideStep(t)
        BY <3>2, StepKinds DEF OutsideStep
      <4> QED BY <1>1, <1>3, <4>1 DEF InsideStep, Loads, Claims, ClaimFails, Verifies, Turns,
                 TriesAgain, BeginsHelp, EndsHelp, Decides, Sets, SetFails, SetGoesOn, Reverts,
                 HelpReturn
    <3> QED BY <3>1, <3>2
  <2>2. frame'[t].pc = "halted"
    BY <2>1 DEF ReturnFatal, At, ProtocolInv, TypeOK
  <2> QED BY <2>2 DEF Stopped
<1> QED BY <1>2, <1>3

(* The frame a thread is in comes back for a marker, unless the step takes  *)
(* the marker out: then it still does, in the thread's frame or suspended.  *)
LEMMA RevisitsNext ==
  ASSUME OneCallInv, NEW t \in Thread, Call(t) \/ Step(t), ~Stopped',
         NEW x \in Address, NEW w \in Word, memory[x] \in Marker, memory'[x] = memory[x],
         target[memory[x].owner][w] = x, Revisits(frame[t], memory[x], w)
  PROVE  \/ Revisits(frame'[t], memory[x], w)
         \/ \E i \in 1 .. Len(stack'[t]) : Revisits(stack'[t][i], memory[x], w)
<1> DEFINE f == frame[t]
           g == frame'[t]
           m == memory[x]
<1> USE DEF OneCallInv
<1>1. /\ f \in Frame /\ f.word \in Word /\ f.op = m /\ m \notin Value /\ m # Null
      /\ LoadedOK(f, target, expected, desired) /\ LocalsOK(f)
      /\ memory \in [Address -> Value \cup Marker]
  BY FrameFacts, ConstantFacts DEF Revisits, LocalsLoaded, Frame, FrameOK, ProtocolInv, TypeOK
<1>2. f.pc \notin NoOpPC \cup {"prepare", "fatal", HelpReturn}
  BY DEF Revisits, NoOpPC, StorePC, ClaimPC, SetPC, RevertPC, HelpReturn
<1>3. InsideStep(t)
  <2>1. ~OutsideStep(t)
    BY <1>2 DEF OutsideStep, Call, StoreStep, StoreTarget, StoreExpected, StoreDesired,
       Publish, Prepare, ReturnFatal, NoOpPC, StorePC
  <2> QED BY <2>1, StepKinds DEF OutsideStep
<1>4. \A v \in Word : v < LastWord \/ v = LastWord
  BY KCasAssumption DEF Word, LastWord
<1>5. CASE Loads(t)
  <2>1. /\ g.op = f.op /\ g.word = f.word
        /\ \/ f.pc \in ClaimPC /\ g.pc \in ClaimPC
           \/ f.pc \in SetPC \ {"setVerify"} /\ g.pc \in SetPC \ {"setVerify"}
           \/ f.pc \in RevertPC /\ g.pc \in RevertPC
    BY <1>5 DEF Loads, ClaimPC, SetPC, RevertPC
  <2> QED BY <2>1 DEF Revisits, ClaimPC, SetPC, RevertPC
<1>6. CASE Claims(t)
  BY <1>1, <1>6 DEF Claims, Revisits, ClaimPC, SetPC, RevertPC, Word
<1>7. CASE ClaimFails(t) \/ TriesAgain(t)
  BY <1>1, <1>7 DEF ClaimFails, TriesAgain, Suspended, Revisits, ClaimPC, SetPC, RevertPC, Frame
<1>8. CASE Verifies(t)
  <2>1. g.pc # "fatal"
    BY DEF Stopped
  <2> QED BY <1>1, <1>8, <2>1 DEF Verifies, Revisits, ClaimPC, SetPC, RevertPC, Frame
<1>9. CASE Turns(t)
  <2>1. w >= 0 /\ w <= LastWord
    BY KCasAssumption DEF Word, LastWord
  <2> QED BY <1>1, <1>9, <2>1 DEF Turns, Revisits, SetPC, RevertPC
<1>10. CASE BeginsHelp(t)
  <2>1. /\ stack[t] \in Seq(Frame) /\ Suspended(f) \in Frame
        /\ Suspended(f).pc = "claimCas" /\ Suspended(f).op = m /\ Suspended(f).word = f.word
    BY <1>1, ConstantFacts DEF ProtocolInv, TypeOK, Suspended, Frame, PC
  <2>2. Revisits(Suspended(f), m, w)
    BY <1>10, <2>1 DEF BeginsHelp, Revisits, ClaimPC, SetPC, RevertPC
  <2> QED BY <1>10, <2>1, <2>2, StackGains DEF BeginsHelp
<1>11. CASE EndsHelp(t)
  BY <1>2, <1>11 DEF EndsHelp
<1>12. CASE Decides(t)
  BY <1>1, <1>12 DEF Decides, Revisits, ClaimPC, SetPC, RevertPC, HelpReturn, Word
<1>13. CASE Sets(t)
  <2>1. f.addr \in Address /\ f.addr = target[m.owner][f.word] /\ f.val \in Value
    BY <1>1, <1>13 DEF Sets, LoadedOK, LocalsOK
  <2>2. w # f.word
    BY <1>1, <1>13, <2>1 DEF Sets
  <2> QED BY <1>1, <1>4, <1>13, <2>2 DEF Sets, SetsOn, Revisits, ClaimPC, SetPC, RevertPC, Word
<1>14. CASE SetFails(t)
  <2>1. f.addr = target[m.owner][f.word]
    BY <1>1, <1>14 DEF SetFails, LoadedOK
  <2>2. w # f.word
    BY <1>1, <1>14, <2>1 DEF SetFails
  <2> QED BY <1>1, <1>14, <2>2 DEF SetFails, Revisits, ClaimPC, SetPC, RevertPC, Word
<1>15. CASE SetGoesOn(t)
  BY <1>1, <1>4, <1>15 DEF SetGoesOn, SetsOn, Revisits, ClaimPC, SetPC, RevertPC, Word
<1>16. CASE Reverts(t)
  <2>1. f.addr \in Address /\ f.addr = target[m.owner][f.word] /\ f.val \in Value
    BY <1>1, <1>16 DEF Reverts, LoadedOK, LocalsOK
  <2>2. w # f.word
    BY <1>1, <1>16, <2>1 DEF Reverts
  <2> QED BY <1>1, <1>16, <2>2 DEF Reverts, Revisits, ClaimPC, SetPC, RevertPC, Word
<1> QED BY <1>3, <1>5, <1>6, <1>7, <1>8, <1>9, <1>10, <1>11, <1>12, <1>13, <1>14, <1>15, <1>16
        DEF InsideStep

LEMMA MarkersKeptNext ==
  ASSUME OneCallInv, MarkersKept, NEW t \in Thread, Call(t) \/ Step(t)
  PROVE  MarkersKept'
<1> USE DEF OneCallInv
<1>1. CASE Stopped'
  BY <1>1 DEF Stopped, MarkersKept
<1>2. CASE ~Stopped'
  <2> SUFFICES ASSUME NEW x \in Address, memory'[x] \in Marker
               PROVE  \E w \in Word, u \in Thread :
                        /\ target'[memory'[x].owner][w] = x
                        /\ \/ Revisits(frame'[u], memory'[x], w)
                           \/ \E i \in 1 .. Len(stack'[u]) : Revisits(stack'[u][i], memory'[x], w)
    BY DEF MarkersKept
  <2>1. CASE memory'[x] # memory[x]
    <3> DEFINE f == frame[t]
    <3>1. /\ Claims(t) /\ memory'[x] = f.op /\ f.word \in Word
          /\ Started(f.op.owner) /\ target[f.op.owner][f.word] = x
      BY <2>1, NewMarker
    <3>2. target'[f.op.owner][f.word] = x
      BY <3>1, ArraysKept DEF Marker
    <3>3. Revisits(frame'[t], f.op, f.word)
      BY <3>1 DEF Claims, Revisits, ClaimPC, Word
    <3> QED BY <3>1, <3>2, <3>3
  <2>2. CASE memory'[x] = memory[x]
    <3> DEFINE m == memory[x]
    <3>1. ~Stopped
      BY <1>2, StoppedStays
    <3>2. PICK w \in Word, u \in Thread :
            /\ target[m.owner][w] = x
            /\ \/ Revisits(frame[u], m, w)
               \/ \E i \in 1 .. Len(stack[u]) : Revisits(stack[u][i], m, w)
      BY <2>2, <3>1 DEF MarkersKept, Stopped
    <3>3. target'[m.owner][w] = x
      BY <2>2, <3>2, OnlyOperation, ArraysKept DEF ProtocolInv, MarkersIssued
    <3>4. CASE u # t
      BY <2>2, <3>2, <3>3, <3>4, OthersUntouched
    <3>5. CASE u = t /\ Revisits(frame[t], m, w)
      BY <1>2, <2>2, <3>2, <3>3, <3>5, RevisitsNext
    <3>6. ASSUME u = t, NEW i \in 1 .. Len(stack[t]), Revisits(stack[t][i], m, w)
          PROVE  \/ Revisits(frame'[t], m, w)
                 \/ \E j \in 1 .. Len(stack'[t]) : Revisits(stack'[t][j], m, w)
      <4>1. \/ i \in 1 .. Len(stack'[t]) /\ stack'[t][i] = stack[t][i]
            \/ frame'[t] = stack[t][i]
            \/ frame'[t].pc = "halted"
        BY <3>6, SuspendedAfter
      <4>2. frame'[t].pc # "halted"
        BY <1>2 DEF Stopped
      <4> QED BY <3>6, <4>1, <4>2
    <3> QED BY <2>2, <3>2, <3>3, <3>4, <3>5, <3>6
  <2> QED BY <2>1, <2>2
<1> QED BY <1>1, <1>2
-----------------------------------------------------------------------------
(* The invariant behind QuiescentClean: every marker is in a cell of its    *)
(* operation, and some frame, of the owner or of a helper, comes back for   *)
(* it, whatever the addresses and values, unless a fatal error is met.      *)
THEOREM CleanupHolds == OneCall => (Spec => []CleanupInv)
<1> SUFFICES ASSUME OneCall PROVE Spec => []CleanupInv
  OBVIOUS
<1>1. Init => CleanupInv
  BY OneCallStart, ConstantFacts, KCasAssumption DEF Init, CleanupInv, MarkersKept
<1>2. CleanupInv /\ [Next]_vars => CleanupInv'
  <2> SUFFICES ASSUME CleanupInv, [Next]_vars PROVE CleanupInv'
    OBVIOUS
  <2>1. CASE UNCHANGED vars
    <3>1. ProtocolInv'
      BY <2>1, StutterOK DEF CleanupInv, OneCallInv
    <3> QED BY <2>1, <3>1 DEF vars, CleanupInv, OneCallInv, OnlyCall, LocalsLoaded,
               MarkersPlaced, MarkersKept
  <2>2. ASSUME NEW t \in Thread, Call(t) \/ Step(t) PROVE CleanupInv'
    BY <2>2, OneCallNext, MarkersKeptNext DEF CleanupInv
  <2> QED BY <2>1, <2>2 DEF Next, Finished
<1> QED BY <1>1, <1>2, PTL DEF Spec

(* A marker stays in a cell only as long as some thread is on its way to    *)
(* take it out (revert.rs, set.rs), unless a thread met a fatal error.      *)
THEOREM MarkersAreKept == OneCall => (Spec => []MarkersKept)
<1>1. CleanupInv => MarkersKept
  BY DEF CleanupInv
<1> QED BY <1>1, CleanupHolds, PTL

(* revert.rs: "Ensure that none of the target addresses contain the         *)
(* [ThreadAndSequence] marker".  When no call is in progress every cell     *)
(* holds a value, for any number of threads, words and cells, any values    *)
(* and any calls, as long as every thread makes at most one.                *)
THEOREM NoMarkerIsLeft == OneCall => (Spec => []QuiescentClean)
<1>1. CleanupInv => QuiescentClean
  <2> SUFFICES ASSUME CleanupInv, \A t \in Thread : frame[t].pc = "idle",
                      NEW x \in Address, memory[x] \in Marker
               PROVE  FALSE
    BY DEF QuiescentClean, CleanupInv, OneCallInv, ProtocolInv, TypeOK
  <2>1. PICK w \in Word, t \in Thread :
          \/ Revisits(frame[t], memory[x], w)
          \/ \E i \in 1 .. Len(stack[t]) : Revisits(stack[t][i], memory[x], w)
    BY DEF CleanupInv, MarkersKept
  <2>2. stack[t] = <<>>
    BY NoStackOutsideOperations DEF CleanupInv, OneCallInv, NoOpPC
  <2> QED BY <2>1, <2>2 DEF Revisits, ClaimPC, SetPC, RevertPC
<1> QED BY <1>1, CleanupHolds, PTL
-----------------------------------------------------------------------------
(* Calls that move cells only forward. *)

(* The words a call may have. *)
LEMMA CallWords ==
  ASSUME Forward, NEW t \in Thread, NEW ws \in Calls(t)
  PROVE  /\ ws \in [Word -> KCasWord] /\ ws # Null
         /\ \A w \in Word :
              /\ ws[w].target \in Address /\ ws[w].expected \in Value /\ ws[w].desired \in Value
              /\ \/ ws[w].expected = ws[w].desired
                 \/ Rank[ws[w].target][ws[w].expected] < Rank[ws[w].target][ws[w].desired]
         /\ \A v, w \in Word : ws[v].target = ws[w].target => v = w
<1>1. ws \in [Word -> KCasWord]
  <2>1. Program[t] \in Seq(SUBSET [Word -> KCasWord])
    BY KCasAssumption
  <2>2. \A k \in DOMAIN Program[t] : Program[t][k] \subseteq [Word -> KCasWord]
    BY <2>1
  <2> QED BY <2>2 DEF Calls
<1>2. \A w \in Word : ws[w] \in KCasWord
  BY <1>1
<1>3. \A w \in Word :
        ws[w].target \in Address /\ ws[w].expected \in Value /\ ws[w].desired \in Value
  BY <1>2 DEF KCasWord
<1> QED BY <1>1, <1>3, KCasAssumption DEF Forward, NeverBack, DistinctTargets

(* ... and so the words of an operation. *)
LEMMA OperationWords ==
  ASSUME Forward, CallStored, NEW t \in Thread, Started(t)
  PROVE  /\ \A w \in Word :
              /\ target[t][w] \in Address /\ expected[t][w] \in Value /\ desired[t][w] \in Value
              /\ \/ expected[t][w] = desired[t][w]
                 \/ Rank[target[t][w]][expected[t][w]] < Rank[target[t][w]][desired[t][w]]
         /\ \A v, w \in Word : target[t][v] = target[t][w] => v = w
<1>1. PICK ws \in Calls(t) : \A w \in Word : Holds(t, ws, w)
  BY DEF CallStored, StoredOK
<1>2. \A w \in Word : /\ target[t][w] = ws[w].target
                      /\ expected[t][w] = ws[w].expected
                      /\ desired[t][w] = ws[w].desired
  BY <1>1 DEF Holds
<1> QED BY <1>2, CallWords

(* A call in progress, once published, is on the words in the State. *)
LEMMA InProgress ==
  ASSUME ProtocolInv, CallStored, NEW t \in Thread, ss[t].stage # "Inactive"
  PROVE  /\ words[t] # Null
         /\ \A w \in Word : /\ words[t][w].target = target[t][w]
                           /\ words[t][w].expected = expected[t][w]
                           /\ words[t][w].desired = desired[t][w]
<1>1. frame[t].pc # "idle"
  BY FrameFacts DEF FrameOK, RoleOK
<1> QED BY <1>1 DEF CallStored, StoredOK, Holds

(* What a cell holds behind a marker is what its operation has there. *)
ReadsRight ==
  \A x \in Address :
    /\ memory[x] \notin Marker => LogicalMemory[x] = memory[x]
    /\ memory[x] \in Marker =>
         LET o == memory[x].owner IN
         \A w \in Word : target[o][w] = x =>
           LogicalMemory[x] = IF ss[o].stage = "Setting" THEN desired[o][w] ELSE expected[o][w]

LEMMA MarkersRead == Forward /\ OneCallInv /\ CallStored => ReadsRight
<1> SUFFICES ASSUME Forward, OneCallInv, CallStored, NEW x \in Address
             PROVE  /\ memory[x] \notin Marker => LogicalMemory[x] = memory[x]
                    /\ memory[x] \in Marker =>
                         LET o == memory[x].owner IN
                         \A w \in Word : target[o][w] = x =>
                           LogicalMemory[x] = IF ss[o].stage = "Setting" THEN desired[o][w]
                                                                         ELSE expected[o][w]
  BY DEF ReadsRight
<1>1. CASE memory[x] \notin Marker
  BY <1>1 DEF LogicalMemory
<1>2. CASE memory[x] \in Marker
  <2> DEFINE m == memory[x]
             o == m.owner
  <2> SUFFICES ASSUME NEW w \in Word, target[o][w] = x
               PROVE  LogicalMemory[x] = IF ss[o].stage = "Setting" THEN desired[o][w]
                                                                    ELSE expected[o][w]
    BY <1>2
  <2>1. o \in Thread /\ Started(o) /\ m.seq = 0 /\ ss[o] \in [stage : Stage, seq : Nat]
    BY <1>2, OnlyOperation DEF OneCallInv, ProtocolInv, TypeOK, MarkersIssued, First
  <2>2. \A v \in Word : target[o][v] = x => v = w
    BY <2>1, OperationWords
  <2>3. (CHOOSE n \in Word : target[o][n] = x) = w
    BY <2>2
  <2>4. ss[o] = [stage |-> "Setting", seq |-> m.seq] <=> ss[o].stage = "Setting"
    BY <2>1 DEF OneCallInv, OnlyCall
  <2> QED BY <1>2, <2>3, <2>4 DEF LogicalMemory, Meaning
<1> QED BY <1>1, <1>2

LEMMA MarkersReadNext == Forward /\ OneCallInv' /\ CallStored' => ReadsRight'
<1> SUFFICES ASSUME Forward PROVE OneCallInv' /\ CallStored' => ReadsRight'
  OBVIOUS
<1>1. OneCallInv /\ CallStored => ReadsRight
  BY MarkersRead
<1> QED BY <1>1, PTL
-----------------------------------------------------------------------------
(* The words of a call get into the State, and stay there. *)

LEMMA StartsByPublish ==
  ASSUME ProtocolInv, NEW t \in Thread, Call(t) \/ Step(t),
         NEW u \in Thread, Started(u)', ~Started(u)
  PROVE  u = t /\ Publish(t)
<1>1. ss[u] \in [stage : Stage, seq : Nat] /\ (ss'[u] = ss[u] \/ StageEdge(ss[u], ss'[u]))
  BY StagesProgress DEF StageSeq, Edges
<1>2. ss[u].stage = "Inactive" /\ ss'[u] # ss[u]
  BY DEF Started
<1>3. ss'[u].stage # "Inactive"
  BY <1>1, <1>2 DEF StageEdge
<1> QED BY <1>2, <1>3, StagesProgress

LEMMA StoredByStores ==
  ASSUME Forward, OneCallInv, CallStored, NEW t \in Thread, StoreStep(t)
  PROVE  StoredOK(t)'
<1> USE DEF OneCallInv
<1> DEFINE f == frame[t]
           ws == words[t]
<1>1. /\ frame \in [Thread -> Frame] /\ f \in Frame /\ f.word \in Word
      /\ target \in [Thread -> [Word -> Address \cup {Null}]]
      /\ expected \in [Thread -> [Word -> Value]] /\ desired \in [Thread -> [Word -> Value]]
  BY DEF ProtocolInv, TypeOK, Frame
<1>2. f.pc \in StorePC \ {"publish"} /\ ss' = ss /\ words' = words
  BY DEF StoreStep, StoreTarget, StoreExpected, StoreDesired, StorePC
<1>3. ss[t].stage = "Inactive" /\ ss[t].seq = 0 /\ ws # Null /\ ws \in Calls(t) /\ StoredOK(t)
  BY <1>2, FrameFacts DEF FrameOK, RoleOK, OnlyCall, CallStored, StoredOK, StorePC
<1>4. CASE StoreTarget(t)
  <2>1. /\ f.pc = "storeTarget" /\ frame'[t].pc = "storeExpected" /\ frame'[t].word = f.word
        /\ target'[t] = [target[t] EXCEPT ![f.word] = ws[f.word].target]
        /\ expected' = expected /\ desired' = desired
    BY <1>1, <1>4 DEF StoreTarget, Frame
  <2>2. \A w \in Word : target'[t][w] = IF w = f.word THEN ws[w].target ELSE target[t][w]
    BY <1>1, <2>1
  <2>3. \A w \in Word : w < f.word => Holds(t, ws, w)'
    <3>1. \A w \in Word : w < f.word => w # f.word
      BY <1>1 DEF Word
    <3> QED BY <1>2, <1>3, <2>1, <2>2, <3>1 DEF StoredOK, Holds
  <2> QED BY <1>1, <1>2, <1>3, <2>1, <2>2, <2>3 DEF StoredOK, Started
<1>5. CASE StoreExpected(t)
  <2>1. /\ f.pc = "storeExpected" /\ frame'[t].pc = "storeDesired" /\ frame'[t].word = f.word
        /\ expected'[t] = [expected[t] EXCEPT ![f.word] = ws[f.word].expected]
        /\ target' = target /\ desired' = desired
    BY <1>1, <1>5 DEF StoreExpected, Frame
  <2>2. \A w \in Word : expected'[t][w] = IF w = f.word THEN ws[w].expected ELSE expected[t][w]
    BY <1>1, <2>1
  <2>3. \A w \in Word : w < f.word => Holds(t, ws, w)'
    <3>1. \A w \in Word : w < f.word => w # f.word
      BY <1>1 DEF Word
    <3> QED BY <1>2, <1>3, <2>1, <2>2, <3>1 DEF StoredOK, Holds
  <2> QED BY <1>1, <1>2, <1>3, <2>1, <2>2, <2>3 DEF StoredOK, Started
<1>6. CASE StoreDesired(t)
  <2>1. /\ f.pc = "storeDesired"
        /\ desired'[t] = [desired[t] EXCEPT ![f.word] = ws[f.word].desired]
        /\ target' = target /\ expected' = expected
        /\ \/ frame'[t].pc = "publish" /\ f.word = LastWord
           \/ frame'[t].pc = "storeTarget" /\ frame'[t].word = f.word + 1
    BY <1>1, <1>6 DEF StoreDesired, At
  <2>2. \A w \in Word : w < f.word + 1 => Holds(t, ws, w)'
    <3> SUFFICES ASSUME NEW w \in Word, w < f.word + 1 PROVE Holds(t, ws, w)'
      OBVIOUS
    <3>1. CASE w = f.word
      BY <1>1, <1>2, <1>3, <2>1, <3>1 DEF StoredOK, Holds
    <3>2. CASE w # f.word
      <4>1. w < f.word
        BY <1>1, <3>2 DEF Word
      <4> QED BY <1>1, <1>2, <1>3, <2>1, <3>2, <4>1 DEF StoredOK, Holds
    <3> QED BY <3>1, <3>2
  <2>3. f.word = LastWord => \A w \in Word : Holds(t, ws, w)'
    <3>1. \A w \in Word : w < LastWord + 1
      BY KCasAssumption DEF Word, LastWord
    <3> QED BY <2>2, <3>1
  <2> QED BY <1>1, <1>2, <1>3, <2>1, <2>2, <2>3 DEF StoredOK, Started
<1> QED BY <1>4, <1>5, <1>6 DEF StoreStep

LEMMA CallStoredNext ==
  ASSUME Forward, OneCallInv, CallStored, NEW t \in Thread, Call(t) \/ Step(t)
  PROVE  CallStored'
<1> USE DEF OneCallInv
<1> SUFFICES ASSUME NEW u \in Thread PROVE StoredOK(u)'
  BY DEF CallStored
<1>1. /\ frame \in [Thread -> Frame] /\ words \in [Thread -> [Word -> KCasWord] \cup {Null}]
      /\ ss \in StageSeq /\ StoredOK(u) /\ StoredOK(t)
  BY DEF ProtocolInv, TypeOK, StageSeq, CallStored
<1>2. CASE u # t
  <2>1. frame'[u] = frame[u] /\ words'[u] = words[u]
    BY <1>2, OthersUntouched
  <2>2. /\ target'[u] = target[u] /\ expected'[u] = expected[u] /\ desired'[u] = desired[u]
    BY <1>2, ArraysKept
  <2>3. /\ Started(u)' => Started(u)
        /\ ss'[u].stage # "Inactive" => ss[u].stage # "Inactive"
    BY <1>2, StartsByPublish, StagesProgress
  <2> QED BY <1>1, <2>1, <2>2, <2>3 DEF StoredOK, Holds
<1>3. CASE u = t /\ Call(t)
  <2>1. PICK ws \in Program[t][ss[t].seq + 1] : words' = [words EXCEPT ![t] = ws]
    BY <1>3 DEF Call
  <2>2. ws \in Calls(t)
    <3>1. ss[t].seq + 1 \in DOMAIN Program[t]
      <4>1. ss[t].seq \in Nat /\ ss[t].seq < Len(Program[t])
        BY <1>1, <1>3 DEF Call, StageSeq
      <4>2. Program[t] \in Seq(SUBSET [Word -> KCasWord])
        BY KCasAssumption
      <4> QED BY <4>1, <4>2
    <3> QED BY <2>1, <3>1 DEF Calls
  <2>3. ws # Null /\ words'[t] = ws
    BY <1>1, <2>1, <2>2, CallWords
  <2>4. /\ frame'[t].pc = "storeTarget" /\ frame'[t].word = 0 /\ ss' = ss
        /\ UNCHANGED <<target, expected, desired>>
    BY <1>1, <1>3 DEF Call, At
  <2>5. ss[t].stage = "Inactive"
    BY <1>3, FrameFacts DEF Call, FrameOK, RoleOK
  <2> QED BY <1>1, <1>3, <2>2, <2>3, <2>4, <2>5 DEF StoredOK, Holds, Started, Word
<1>4. CASE u = t /\ StoreStep(t)
  BY <1>4, StoredByStores
<1>5. CASE u = t /\ Publish(t)
  <2>1. /\ frame[t].pc = "publish" /\ frame'[t].pc = "claimTarget"
        /\ UNCHANGED <<target, expected, desired, words>>
    BY <1>1, <1>5 DEF Publish, At
  <2> QED BY <1>1, <1>5, <2>1 DEF StoredOK, Holds
<1>6. CASE u = t /\ Prepare(t)
  <2>1. Started(t)
    BY <1>6, InOperation DEF Prepare, NoOpPC, StorePC, Started
  <2>2. /\ frame'[t].pc = "idle" /\ words'[t] = Null
        /\ UNCHANGED <<target, expected, desired>>
    BY <1>1, <1>6 DEF Prepare, At, shared
  <2> QED BY <1>1, <1>6, <2>1, <2>2 DEF StoredOK, Holds
<1>7. CASE u = t /\ ReturnFatal(t)
  BY <1>1, <1>7 DEF ReturnFatal, StoredOK
<1>8. CASE u = t /\ ~OutsideStep(t)
  <2>1. /\ UNCHANGED <<target, expected, desired, words>>
        /\ ss[t].stage # "Inactive" /\ frame'[t].pc \notin StorePC \cup {"idle"}
    BY <1>8, InsideEffect DEF OutsideStep
  <2>2. frame[t].pc \notin NoOpPC /\ InsideStep(t)
    BY <1>8, StepKinds DEF OutsideStep
  <2>3. frame'[t].pc \notin {"fatal", "halted"}
    <3>1. IllegalValue = {} /\ frame[t] \in Frame
      BY FrameFacts DEF Forward
    <3> QED BY <2>2, <3>1 DEF InsideStep, Loads, Claims, ClaimFails, Verifies, Turns, TriesAgain,
               Suspended, BeginsHelp, EndsHelp, Decides, Sets, SetFails, SetGoesOn, SetsOn,
               Reverts, HelpReturn, Frame
  <2>4. frame[t].pc # "idle" /\ Started(t)
    BY <2>1, <2>2 DEF NoOpPC, Started
  <2> QED BY <1>1, <1>8, <2>1, <2>3, <2>4 DEF StoredOK, Holds, StorePC
<1> QED BY <1>2, <1>3, <1>4, <1>5, <1>6, <1>7, <1>8 DEF OutsideStep
-----------------------------------------------------------------------------
(* What a step does to the stages and to the cells. *)

LEMMA StageMoves ==
  ASSUME ProtocolInv, OnlyCall, NEW t \in Thread, Call(t) \/ Step(t),
         NEW u \in Thread, ss'[u] # ss[u]
  PROVE  \/ /\ Publish(t) /\ u = t
            /\ ss[u].stage = "Inactive" /\ ss'[u].stage = "Claiming"
         \/ /\ Prepare(t) /\ u = t /\ ss'[u].stage = "Inactive"
            /\ frame[t].pc = "prepare" /\ frame[t].op = First(t)
         \/ /\ Decides(t) /\ frame[t].op = First(u)
            /\ ss[u].stage = StageBefore(frame[t].after) /\ ss'[u].stage = frame[t].after
<1>1. ss \in StageSeq /\ frame \in [Thread -> Frame]
  BY DEF ProtocolInv, TypeOK, StageSeq
<1>2. CASE Publish(t)
  <2>1. ss[t].stage = "Inactive"
    BY <1>2, FrameFacts DEF Publish, FrameOK, RoleOK, StorePC
  <2> QED BY <1>1, <1>2, <2>1 DEF Publish, StageSeq
<1>3. CASE Prepare(t)
  <2>1. frame[t].pc = "prepare" /\ frame[t].pc \notin NoOpPC
    BY <1>3 DEF Prepare, NoOpPC, StorePC
  <2>2. frame[t].op = First(t)
    <3>1. stack[t] = <<>> /\ ss[t].stage # "Inactive"
      BY <2>1, NoStackOutsideOperations, InOperation
    <3> QED BY <2>1, <3>1, FrameFacts DEF Helping, OwnUnlessHelping, OnlyCall, First
  <2> QED BY <1>1, <1>3, <2>1, <2>2 DEF Prepare, StageSeq
<1>4. CASE Call(t) \/ StoreStep(t) \/ ReturnFatal(t)
  BY <1>4 DEF Call, StoreStep, StoreTarget, StoreExpected, StoreDesired, ReturnFatal
<1>5. CASE ~OutsideStep(t)
  <2>1. Decides(t)
    BY <1>5, InsideEffect DEF OutsideStep
  <2>2. frame[t].op # Null
    <3>1. frame[t].pc \notin NoOpPC
      BY <1>5, StepKinds DEF OutsideStep
    <3> QED BY <3>1, FrameFacts
  <2>3. frame[t].op.owner = u
    BY <1>1, <2>1 DEF Decides, StageSeq
  <2>4. frame[t].op = First(u)
    BY <2>2, <2>3, FramesStarted
  <2>5. frame[t].after \in {"Setting", "Reverting", "Successful", "Reverted"}
    BY <2>1 DEF Decides
  <2> QED BY <1>1, <2>1, <2>3, <2>4, <2>5 DEF Decides, StageSeq, StageOf
<1> QED BY <1>2, <1>3, <1>4, <1>5 DEF OutsideStep

LEMMA CellMoves ==
  ASSUME ProtocolInv, OnlyCall, LocalsLoaded, NEW t \in Thread, Call(t) \/ Step(t),
         NEW x \in Address, memory'[x] # memory[x]
  PROVE  LET f == frame[t]
             o == f.op.owner
             w == f.word
         IN  /\ o \in Thread /\ Started(o) /\ f.op = First(o) /\ w \in Word
             /\ target[o][w] = x /\ BesideCells
             /\ \/ Claims(t) /\ memory[x] = expected[o][w] /\ memory'[x] = First(o)
                \/ Sets(t) /\ memory[x] = First(o) /\ memory'[x] = desired[o][w]
                \/ Reverts(t) /\ memory[x] = First(o) /\ memory'[x] = expected[o][w]
<1> DEFINE f == frame[t]
           o == f.op.owner
           w == f.word
<1>1. ~OutsideStep(t)
  BY OutsideEffect
<1>2. f.pc \notin NoOpPC /\ InsideStep(t)
  BY <1>1, StepKinds DEF OutsideStep
<1>3. f \in Frame /\ f.op # Null /\ w \in Word /\ memory \in [Address -> Value \cup Marker]
  BY <1>2, FrameFacts DEF Frame, ProtocolInv, TypeOK
<1>4. o \in Thread /\ Started(o) /\ f.op = First(o)
  BY <1>3, FramesStarted
<1>5. Claims(t) \/ Sets(t) \/ Reverts(t)
  BY <1>2 DEF InsideStep, Loads, ClaimFails, Verifies, Turns, TriesAgain, BeginsHelp, EndsHelp,
     Decides, SetFails, SetGoesOn, Nothing
<1>6. f.addr = x
  BY <1>3, <1>5 DEF Claims, Sets, Reverts
<1>7. LoadedOK(f, target, expected, desired)
  BY DEF LocalsLoaded
<1> QED BY <1>3, <1>4, <1>5, <1>6, <1>7 DEF Claims, Sets, Reverts, LoadedOK

(* A marker in a cell is that of an operation that has a word there. *)
LEMMA PlacedMarker ==
  ASSUME OneCallInv, NEW x \in Address, memory[x] \in Marker
  PROVE  \E o \in Thread, w \in Word :
           memory[x] = First(o) /\ memory[x].owner = o /\ Started(o) /\ target[o][w] = x
<1>1. PICK w \in Word : target[memory[x].owner][w] = x
  BY DEF OneCallInv, MarkersPlaced
<1>2. /\ memory[x].owner \in Thread /\ Started(memory[x].owner)
      /\ memory[x] = First(memory[x].owner)
  BY OnlyOperation DEF OneCallInv, ProtocolInv, MarkersIssued
<1> QED BY <1>1, <1>2
-----------------------------------------------------------------------------
(* An operation that has reached Setting. *)

LEMMA WonStarted ==
  ASSUME NEW t \in Thread, Won(t)
  PROVE  Started(t)
BY DEF Won, Started

(* A claim for it that still succeeds is of a word that moves nothing. *)
LEMMA LateClaims ==
  ASSUME Forward, LinearInv, NEW o \in Thread, Won(o),
         NEW w \in Word, memory[target[o][w]] = expected[o][w]
  PROVE  expected[o][w] = desired[o][w]
<1> DEFINE x == target[o][w]
<1>1. /\ x \in Address /\ expected[o][w] \in Value /\ desired[o][w] \in Value
      /\ expected[o][w] = desired[o][w] \/ Rank[x][expected[o][w]] < Rank[x][desired[o][w]]
  BY WonStarted, OperationWords DEF LinearInv
<1>2. LogicalMemory[x] = expected[o][w]
  BY <1>1, MarkersRead, ConstantFacts DEF LinearInv, ReadsRight
<1>3. expected[o][w] # desired[o][w] => Rank[x][desired[o][w]] <= Rank[x][expected[o][w]]
  BY <1>2 DEF LinearInv, Advanced
<1>4. Rank[x][expected[o][w]] \in Nat /\ Rank[x][desired[o][w]] \in Nat
  BY <1>1 DEF Forward, NeverBack
<1> QED BY <1>1, <1>3, <1>4

LEMMA PreparesDecided ==
  ASSUME ProtocolInv, NEW t \in Thread, frame[t].pc = "prepare"
  PROVE  /\ ss[t].stage \in {"Setting", "Successful"} /\ frame[t].after = "Ok"
         \/ /\ ss[t].stage \in {"Reverting", "Reverted"}
            /\ frame[t].after = "ValueWasNotExpectedValue"
<1>1. frame[t].pc \notin NoOpPC /\ ~Helping(t)
  BY NoStackOutsideOperations DEF NoOpPC, StorePC, Helping
<1>2. frame[t].op # Null /\ frame[t].op = [owner |-> t, seq |-> ss[t].seq]
  BY <1>1, FrameFacts DEF OwnUnlessHelping
<1> QED BY <1>2, FrameFacts DEF FrameOK, LocalsOK, PhaseOK, Current, StageOf, Outcome, RevertPC

LEMMA WonStays ==
  ASSUME OneCall, ProtocolInv, OnlyCall, NEW t \in Thread, Call(t) \/ Step(t),
         NEW u \in Thread, Won(u)
  PROVE  Won(u)'
<1>1. /\ ss \in StageSeq /\ result \in [Thread -> Outcome \cup FatalError \cup {Null}]
      /\ ss[u].seq \in Nat
  BY DEF ProtocolInv, TypeOK, StageSeq
<1>2. CASE ss[u].stage \in {"Setting", "Successful"}
  <2>1. CASE ss'[u] = ss[u]
    BY <1>2, <2>1 DEF Won
  <2>2. CASE Prepare(t) /\ u = t
    <3>1. frame[t].after = "Ok" /\ frame[t].op = First(t)
      BY <1>1, <1>2, <2>2, PreparesDecided, InOperation, NoStackOutsideOperations, FrameFacts
         DEF Prepare, NoOpPC, StorePC, OwnUnlessHelping, Helping, OnlyCall, First
    <3>2. ss'[t].seq = 1 /\ result'[t] = "Ok"
      BY <1>1, <2>2, <3>1 DEF Prepare, First, StageSeq
    <3> QED BY <2>2, <3>2 DEF Won
  <2>3. CASE Decides(t) /\ ss[u].stage = StageBefore(frame[t].after)
             /\ ss'[u].stage = frame[t].after
    <3>1. frame[t].after = "Successful"
      BY <1>2, <2>3 DEF Decides, StageBefore
    <3> QED BY <2>3, <3>1 DEF Won
  <2> QED BY <1>2, <2>1, <2>2, <2>3, StageMoves
<1>3. CASE ss[u].seq > 0 /\ result[u] = "Ok"
  <2>1. ss[u].stage = "Inactive" /\ frame[u].pc \notin StorePC
    BY <1>1, <1>3 DEF OnlyCall
  <2>2. ss'[u] = ss[u]
    <3>1. u = t => ~Publish(t)
      BY <2>1 DEF Publish, StorePC
    <3>2. u = t => ~Prepare(t)
      BY <2>1, PreparesDecided DEF Prepare
    <3>3. ASSUME Decides(t) PROVE StageBefore(frame[t].after) # "Inactive"
      BY <3>3 DEF Decides, StageBefore
    <3> QED BY <2>1, <3>1, <3>2, <3>3, StageMoves
  <2>3. result'[u] = result[u]
    <3>1. CASE Call(t)
      <4>1. Len(Program[t]) \in Nat /\ Len(Program[t]) <= 1
        BY KCasAssumption DEF OneCall
      <4>2. u # t
        BY <1>1, <1>3, <3>1, <4>1 DEF Call
      <4> QED BY <1>1, <3>1, <4>2 DEF Call
    <3>2. CASE Prepare(t)
      <4>1. u # t
        BY <2>1, <3>2, PreparesDecided DEF Prepare
      <4> QED BY <1>1, <3>2, <4>1 DEF Prepare
    <3>3. CASE ReturnFatal(t)
      <4>1. u # t
        BY <2>1, <3>3, InOperation DEF ReturnFatal, NoOpPC, StorePC
      <4> QED BY <1>1, <3>3, <4>1 DEF ReturnFatal
    <3>4. CASE StoreStep(t) \/ Publish(t)
      BY <3>4 DEF StoreStep, StoreTarget, StoreExpected, StoreDesired, Publish
    <3>5. CASE ~OutsideStep(t)
      BY <3>5, InsideEffect DEF OutsideStep
    <3> QED BY <3>1, <3>2, <3>3, <3>4, <3>5 DEF OutsideStep
  <2> QED BY <1>3, <2>2, <2>3 DEF Won
<1> QED BY <1>2, <1>3 DEF Won

(* It gets there by a decision. *)
LEMMA WinsByDecision ==
  ASSUME ProtocolInv, OnlyCall, NEW t \in Thread, Call(t) \/ Step(t),
         NEW u \in Thread, Won(u)', ~Won(u)
  PROVE  Decides(t) /\ frame[t].op = First(u) /\ frame[t].after = "Setting"
<1>1. /\ ss \in StageSeq /\ result \in [Thread -> Outcome \cup FatalError \cup {Null}]
      /\ ss[u].seq \in Nat
      /\ ss[u].stage # "Inactive" => ss[u].seq = 0
  BY DEF ProtocolInv, TypeOK, StageSeq, OnlyCall
<1>2. CASE ss'[u] # ss[u]
  <2>1. CASE Publish(t) /\ u = t
    <3>1. ss'[u].seq = 0 /\ ss'[u].stage = "Claiming"
      BY <1>1, <2>1 DEF Publish, OnlyCall, StorePC, StageSeq
    <3> QED BY <3>1 DEF Won
  <2>2. CASE Prepare(t) /\ u = t /\ ss'[u].stage = "Inactive"
    <3>1. result'[t] = frame[t].after /\ frame[t].after # "Ok"
      BY <1>1, <2>2, PreparesDecided DEF Prepare, Won
    <3> QED BY <2>2, <3>1 DEF Won
  <2>3. CASE /\ Decides(t) /\ frame[t].op = First(u)
             /\ ss[u].stage = StageBefore(frame[t].after) /\ ss'[u].stage = frame[t].after
    <3>1. ss'[u].seq = 0
      <4>1. ss[u].stage # "Inactive" /\ ss'[u].seq = ss[u].seq
        BY <1>1, <2>3 DEF Decides, StageBefore, StageSeq
      <4> QED BY <1>1, <4>1
    <3>2. ss'[u].stage \in {"Setting", "Successful"}
      BY <3>1 DEF Won
    <3>3. frame[t].after # "Successful"
      BY <2>3 DEF Won, StageBefore
    <3> QED BY <2>3, <3>2, <3>3
  <2> QED BY <1>2, <2>1, <2>2, <2>3, StageMoves
<1>3. CASE ss'[u] = ss[u]
  <2>1. ss[u].seq > 0 /\ ss[u].stage = "Inactive" /\ result'[u] = "Ok" /\ result[u] # "Ok"
    <3>1. ss[u].seq > 0 /\ result'[u] = "Ok" /\ result[u] # "Ok"
      BY <1>1, <1>3 DEF Won
    <3> QED BY <1>1, <3>1
  <2>2. Null # "Ok"
    BY ConstantFacts DEF Outcome
  <2>3. CASE Call(t)
    BY <1>1, <2>1, <2>2, <2>3 DEF Call
  <2>4. CASE Prepare(t)
    <3>1. ss[t].stage # "Inactive"
      BY <2>4, PreparesDecided DEF Prepare
    <3> QED BY <1>1, <2>1, <2>4, <3>1 DEF Prepare
  <2>5. CASE ReturnFatal(t)
    <3>1. frame[t].after # "Ok"
      BY <2>5, FrameFacts DEF ReturnFatal, FrameOK, LocalsOK
    <3> QED BY <1>1, <2>1, <2>5, <3>1 DEF ReturnFatal
  <2>6. CASE StoreStep(t) \/ Publish(t)
    BY <2>1, <2>6 DEF StoreStep, StoreTarget, StoreExpected, StoreDesired, Publish
  <2>7. CASE ~OutsideStep(t)
    BY <2>1, <2>7, InsideEffect DEF OutsideStep
  <2> QED BY <2>3, <2>4, <2>5, <2>6, <2>7 DEF OutsideStep
<1> QED BY <1>2, <1>3

(* A word that is clear stays so: nobody claims it again. *)
LEMMA ClearStays ==
  ASSUME Forward, LinearInv, NEW t \in Thread, Call(t) \/ Step(t),
         NEW o \in Thread, Won(o), NEW w \in Word, Clear(o, w)
  PROVE  Clear(o, w)'
<1> USE DEF LinearInv, OneCallInv
<1> DEFINE x == target[o][w]
<1>1. Started(o) /\ x \in Address
  BY WonStarted, OperationWords
<1>2. target'[o] = target[o] /\ expected'[o] = expected[o] /\ desired'[o] = desired[o]
  BY <1>1, ArraysKept
<1> SUFFICES ASSUME expected[o][w] # desired[o][w] PROVE memory'[x] # First(o)
  BY <1>2 DEF Clear
<1>3. memory[x] # First(o)
  BY DEF Clear
<1>4. CASE memory'[x] # memory[x]
  <2> DEFINE f == frame[t]
             q == f.op.owner
  <2>1. /\ q \in Thread /\ f.op = First(q) /\ f.word \in Word /\ target[q][f.word] = x
        /\ Started(q)
        /\ \/ memory[x] = expected[q][f.word] /\ memory'[x] = First(q)
           \/ memory[x] = First(q) /\ memory'[x] = desired[q][f.word]
           \/ memory[x] = First(q) /\ memory'[x] = expected[q][f.word]
    BY <1>1, <1>4, CellMoves
  <2>2. CASE q = o
    <3>1. f.word = w
      BY <1>1, <2>1, <2>2, OperationWords
    <3> QED BY <1>3, <2>1, <2>2, <3>1, LateClaims
  <2>3. CASE q # o
    <3>1. First(q) # First(o) /\ First(o) \in Marker
      BY <2>1, <2>3 DEF First, Marker
    <3>2. expected[q][f.word] \in Value /\ desired[q][f.word] \in Value
      BY <2>1, OperationWords
    <3> QED BY <2>1, <3>1, <3>2, ConstantFacts
  <2> QED BY <2>2, <2>3
<1> QED BY <1>3, <1>4

(* It leaves Setting only when all its words are clear. *)
LEMMA SettingEnds ==
  ASSUME LinearInv, NEW t \in Thread, Call(t) \/ Step(t),
         NEW u \in Thread, ss[u].stage = "Setting", ss'[u].stage # "Setting"
  PROVE  UNCHANGED memory /\ \A w \in Word : Clear(u, w)
<1> USE DEF LinearInv, OneCallInv
<1>1. CASE Prepare(t) /\ u = t /\ frame[t].pc = "prepare" /\ frame[t].op = First(t)
  <2>1. frame[t].after = "Ok"
    BY <1>1, PreparesDecided
  <2> QED BY <1>1, <2>1 DEF Prepare, SettersOK, Passed, First
<1>2. CASE /\ Decides(t) /\ frame[t].op = First(u)
           /\ ss[u].stage = StageBefore(frame[t].after)
  <2>1. frame[t].pc = "stageCas" /\ frame[t].after = "Successful"
    BY <1>2 DEF Decides, StageBefore
  <2> QED BY <1>2, <2>1 DEF Decides, SettersOK, Passed, First
<1>3. ss'[u] # ss[u]
  OBVIOUS
<1> QED BY <1>1, <1>2, <1>3, StageMoves

DecidesToSet(t) == Decides(t) /\ frame[t].after = "Setting"

(* Only the decision to set changes what the cells hold behind the markers. *)
LEMMA OthersSeeNothing ==
  ASSUME Forward, LinearInv, NEW t \in Thread, Call(t) \/ Step(t),
         ~DecidesToSet(t)
  PROVE  LogicalMemory' = LogicalMemory
<1> USE DEF LinearInv, OneCallInv
<1>1. OneCallInv' /\ CallStored'
  BY OneCallNext, CallStoredNext DEF Forward
<1>2. ReadsRight /\ ReadsRight'
  BY <1>1, MarkersRead, MarkersReadNext
<1> SUFFICES ASSUME NEW x \in Address PROVE LogicalMemory'[x] = LogicalMemory[x]
  BY DEF LogicalMemory
<1>3. ASSUME NEW o \in Thread
      PROVE  ss[o].stage # "Setting" => ss'[o].stage # "Setting"
  <2> SUFFICES ASSUME ss[o].stage # "Setting", ss'[o].stage = "Setting" PROVE FALSE
    OBVIOUS
  <2>1. /\ Decides(t) /\ ss'[o].stage = frame[t].after
    BY StageMoves
  <2> QED BY <2>1 DEF DecidesToSet
<1>4. CASE memory'[x] = memory[x]
  <2>1. CASE memory[x] \notin Marker
    BY <1>2, <1>4, <2>1 DEF ReadsRight
  <2>2. CASE memory[x] \in Marker
    <3>1. PICK o \in Thread, w \in Word :
            memory[x] = First(o) /\ memory[x].owner = o /\ Started(o) /\ target[o][w] = x
      BY <2>2, PlacedMarker
    <3>2. /\ target'[o] = target[o] /\ expected'[o] = expected[o] /\ desired'[o] = desired[o]
      BY <3>1, ArraysKept
    <3>3. /\ LogicalMemory[x] = IF ss[o].stage = "Setting" THEN desired[o][w] ELSE expected[o][w]
          /\ LogicalMemory'[x] = IF ss'[o].stage = "Setting" THEN desired[o][w] ELSE expected[o][w]
      BY <1>2, <1>4, <2>2, <3>1, <3>2 DEF ReadsRight
    <3>4. CASE ss[o].stage = "Setting" /\ ss'[o].stage # "Setting"
      BY <3>1, <3>3, <3>4, SettingEnds DEF Clear
    <3> QED BY <1>3, <3>3, <3>4
  <2> QED BY <2>1, <2>2
<1>5. CASE memory'[x] # memory[x]
  <2> DEFINE f == frame[t]
             o == f.op.owner
             w == f.word
  <2>1. /\ o \in Thread /\ Started(o) /\ f.op = First(o) /\ w \in Word
        /\ target[o][w] = x /\ BesideCells
        /\ \/ Claims(t) /\ memory[x] = expected[o][w] /\ memory'[x] = First(o)
           \/ Sets(t) /\ memory[x] = First(o) /\ memory'[x] = desired[o][w]
           \/ Reverts(t) /\ memory[x] = First(o) /\ memory'[x] = expected[o][w]
    BY <1>5, CellMoves
  <2>2. /\ First(o) \in Marker /\ First(o).owner = o
        /\ expected[o][w] \notin Marker /\ desired[o][w] \notin Marker
        /\ ss' = ss /\ UNCHANGED <<target, expected, desired>>
    BY <2>1, OperationWords, ConstantFacts DEF First, Marker, BesideCells
  <2> DEFINE meant == IF ss[o].stage = "Setting" THEN desired[o][w] ELSE expected[o][w]
  <2>3. CASE Claims(t) /\ memory[x] = expected[o][w] /\ memory'[x] = First(o)
    <3>1. LogicalMemory[x] = expected[o][w] /\ LogicalMemory'[x] = meant
      BY <1>2, <2>1, <2>2, <2>3 DEF ReadsRight
    <3>2. ss[o].stage = "Setting" => expected[o][w] = desired[o][w]
      BY <2>1, <2>3, LateClaims DEF Won
    <3> QED BY <3>1, <3>2
  <2>4. CASE Sets(t) /\ memory[x] = First(o) /\ memory'[x] = desired[o][w]
    <3>1. LogicalMemory[x] = meant /\ LogicalMemory'[x] = desired[o][w]
      BY <1>2, <2>1, <2>2, <2>4 DEF ReadsRight
    <3>2. Won(o)
      BY <2>4 DEF Sets, SettersOK, SetPC
    <3>3. ss[o].stage # "Setting" => expected[o][w] = desired[o][w]
      BY <2>1, <2>4, <3>2 DEF Advanced, Clear
    <3> QED BY <3>1, <3>3
  <2>5. CASE Reverts(t) /\ memory[x] = First(o) /\ memory'[x] = expected[o][w]
    <3>1. LogicalMemory[x] = meant /\ LogicalMemory'[x] = expected[o][w]
      BY <1>2, <2>1, <2>2, <2>5 DEF ReadsRight
    <3>2. ss[o].stage # "Setting"
      <4>1. f.pc \in RevertPC /\ f.op # Null /\ PhaseOK(f, ss)
        BY <2>1, <2>2, <2>5, FrameFacts, ConstantFacts DEF Reverts, RevertPC, FrameOK
      <4> QED BY <2>1, <4>1 DEF PhaseOK, Current, StageOf, OnlyCall, First
    <3> QED BY <3>1, <3>2
  <2> QED BY <2>1, <2>3, <2>4, <2>5
<1> QED BY <1>4, <1>5

(* ... and that replaces the expected by the desired values, in one step. *)
LEMMA DecisionApplies ==
  ASSUME Forward, LinearInv, NEW t \in Thread, Step(t), DecidesToSet(t)
  PROVE  LET o == frame[t].op.owner IN
         /\ o \in Thread /\ Started(o) /\ ss[o].stage = "Claiming"
         /\ ss' = [ss EXCEPT ![o].stage = "Setting"]
         /\ \A w \in Word : /\ LogicalMemory[target[o][w]] = expected[o][w]
                           /\ LogicalMemory'[target[o][w]] = desired[o][w]
         /\ \A x \in Address : (\A w \in Word : target[o][w] # x) =>
              LogicalMemory'[x] = LogicalMemory[x]
<1> USE DEF LinearInv, OneCallInv
<1> DEFINE f == frame[t]
           o == f.op.owner
<1>1. OneCallInv' /\ CallStored'
  BY OneCallNext, CallStoredNext DEF Forward
<1>2. ReadsRight /\ ReadsRight'
  BY <1>1, MarkersRead, MarkersReadNext
<1>3. /\ f.pc = "stageCas" /\ Current(f.op, ss) /\ StageOf(f.op, ss) = "Claiming"
      /\ ss' = [ss EXCEPT ![o].stage = "Setting"]
      /\ UNCHANGED <<memory, target, expected, desired>>
  BY DEF DecidesToSet, Decides, StageBefore
<1>4. o \in Thread /\ Started(o) /\ f.op = First(o) /\ f.op \in Marker /\ ss \in StageSeq
  <2>1. f.op # Null
    BY <1>3, FrameFacts DEF NoOpPC, StorePC
  <2> QED BY <2>1, FramesStarted, FrameFacts
<1>5. ss[o].stage = "Claiming" /\ ss'[o].stage = "Setting"
  BY <1>3, <1>4 DEF StageOf, StageSeq
<1>6. \A w \in Word : memory[target[o][w]] = First(o)
  <2>1. ClaimedUpTo(f.op, NumWords, memory, target)
    BY <1>3, <1>4, FrameFacts, ConstantFacts DEF ClaimsKept, Claiming, DecidesToSet
  <2> QED BY <1>4, <2>1, KCasAssumption DEF ClaimedUpTo, Word
<1>7. \A w \in Word : target[o][w] \in Address
  BY <1>4, OperationWords
<1>8. \A w \in Word : /\ LogicalMemory[target[o][w]] = expected[o][w]
                    /\ LogicalMemory'[target[o][w]] = desired[o][w]
  BY <1>2, <1>3, <1>4, <1>5, <1>6, <1>7 DEF ReadsRight
<1>9. ASSUME NEW x \in Address, \A w \in Word : target[o][w] # x
      PROVE  LogicalMemory'[x] = LogicalMemory[x]
  <2>1. CASE memory[x] \notin Marker
    BY <1>2, <1>3, <2>1 DEF ReadsRight
  <2>2. CASE memory[x] \in Marker
    <3>1. PICK q \in Thread, w \in Word :
            memory[x].owner = q /\ Started(q) /\ target[q][w] = x
      BY <2>2, PlacedMarker
    <3>2. q # o /\ ss'[q] = ss[q]
      BY <1>3, <1>4, <1>9, <3>1 DEF StageSeq
    <3> QED BY <1>2, <1>3, <2>2, <3>1, <3>2 DEF ReadsRight
  <2> QED BY <2>1, <2>2
<1> QED BY <1>3, <1>4, <1>5, <1>8, <1>9
-----------------------------------------------------------------------------
(* LinearInv is inductive. *)

LEMMA AdvancedNext ==
  ASSUME Forward, LinearInv, NEW t \in Thread, Call(t) \/ Step(t)
  PROVE  Advanced'
<1> USE DEF LinearInv, OneCallInv
<1> SUFFICES ASSUME NEW u \in Thread, Won(u)', NEW w \in Word
             PROVE  /\ expected'[u][w] # desired'[u][w] =>
                         LET x == target'[u][w] IN
                         Rank[x][desired'[u][w]] <= Rank[x][LogicalMemory'[x]]
                    /\ ss'[u].stage # "Setting" => Clear(u, w)'
  BY DEF Advanced
<1> DEFINE x == target[u][w]
<1>1. CASE Won(u)
  <2>1. /\ Started(u) /\ x \in Address
        /\ expected[u][w] \in Value /\ desired[u][w] \in Value
    BY <1>1, WonStarted, OperationWords
  <2>2. target'[u] = target[u] /\ expected'[u] = expected[u] /\ desired'[u] = desired[u]
    BY <2>1, ArraysKept
  <2>3. ASSUME expected[u][w] # desired[u][w]
        PROVE  Rank[x][desired[u][w]] <= Rank[x][LogicalMemory'[x]]
    <3>1. Rank[x][desired[u][w]] <= Rank[x][LogicalMemory[x]]
      BY <1>1, <2>3 DEF Advanced
    <3>2. CASE ~DecidesToSet(t)
      BY <3>1, <3>2, OthersSeeNothing
    <3>3. CASE DecidesToSet(t)
      <4> DEFINE o == frame[t].op.owner
      <4>0. Step(t)
        BY <3>3 DEF DecidesToSet, Decides, Call
      <4>1. /\ o \in Thread /\ Started(o)
            /\ \A v \in Word : /\ LogicalMemory[target[o][v]] = expected[o][v]
                              /\ LogicalMemory'[target[o][v]] = desired[o][v]
            /\ (\A v \in Word : target[o][v] # x) => LogicalMemory'[x] = LogicalMemory[x]
        BY <2>1, <3>3, <4>0, DecisionApplies
      <4>2. CASE \A v \in Word : target[o][v] # x
        BY <3>1, <4>1, <4>2
      <4>3. ASSUME NEW v \in Word, target[o][v] = x
            PROVE  Rank[x][desired[u][w]] <= Rank[x][LogicalMemory'[x]]
        <5>1. /\ expected[o][v] \in Value /\ desired[o][v] \in Value
              /\ expected[o][v] = desired[o][v]
                 \/ Rank[x][expected[o][v]] < Rank[x][desired[o][v]]
          BY <4>1, <4>3, OperationWords
        <5>2. Rank[x] \in [Value -> Nat]
          BY <2>1 DEF Forward, NeverBack
        <5>3. /\ Rank[x][desired[u][w]] \in Nat /\ Rank[x][expected[o][v]] \in Nat
              /\ Rank[x][desired[o][v]] \in Nat
          BY <2>1, <5>1, <5>2
        <5>4. LogicalMemory[x] = expected[o][v] /\ LogicalMemory'[x] = desired[o][v]
          BY <4>1, <4>3
        <5>5. CASE expected[o][v] = desired[o][v]
          BY <3>1, <5>4, <5>5
        <5>6. CASE Rank[x][expected[o][v]] < Rank[x][desired[o][v]]
          <6>1. Rank[x][desired[u][w]] <= Rank[x][expected[o][v]]
            BY <3>1, <5>4
          <6>2. \A i, j, k \in Nat : i <= j /\ j < k => i <= k
            OBVIOUS
          <6>3. Rank[x][desired[u][w]] <= Rank[x][desired[o][v]]
            BY <5>3, <5>6, <6>1, <6>2
          <6> QED BY <5>4, <6>3
        <5> QED BY <5>1, <5>5, <5>6
      <4> QED BY <4>2, <4>3
    <3> QED BY <3>2, <3>3
  <2>4. ASSUME ss'[u].stage # "Setting" PROVE Clear(u, w)'
    <3>1. Clear(u, w)
      BY <1>1, <2>4, SettingEnds DEF Advanced
    <3> QED BY <1>1, <3>1, ClearStays
  <2> QED BY <2>2, <2>3, <2>4
<1>2. CASE ~Won(u)
  <2>1. DecidesToSet(t) /\ frame[t].op = First(u)
    BY <1>2, WinsByDecision DEF DecidesToSet
  <2>2. Step(t) /\ frame[t].op.owner = u
    BY <2>1 DEF DecidesToSet, Decides, Call, First
  <2>3. /\ Started(u) /\ ss' = [ss EXCEPT ![u].stage = "Setting"]
        /\ LogicalMemory'[x] = desired[u][w]
    BY <2>1, <2>2, DecisionApplies
  <2>4. target'[u] = target[u] /\ expected'[u] = expected[u] /\ desired'[u] = desired[u]
    BY <2>3, ArraysKept
  <2>5. ss'[u].stage = "Setting"
    BY <2>3 DEF ProtocolInv, TypeOK
  <2>6. Rank[x][desired[u][w]] \in Nat
    BY <2>3, OperationWords DEF Forward, NeverBack
  <2> QED BY <2>3, <2>4, <2>5, <2>6
<1> QED BY <1>1, <1>2

(* What has been passed stays passed, of whatever frame. *)
LEMMA PassedStays ==
  ASSUME Forward, LinearInv, NEW t \in Thread, Call(t) \/ Step(t),
         NEW u \in Thread, NEW o, frame[u].op.owner = o
  PROVE  LET f == frame[u] IN
         /\ f.pc \in SetPC \/ (f.pc = "stageCas" /\ f.after = "Successful") => Won(o)'
         /\ \A w \in Word : Passed(f, w) => Clear(o, w)'
<1> USE DEF LinearInv, OneCallInv
<1> DEFINE f == frame[u]
<1>1. ASSUME \/ f.pc \in SetPC \/ (f.pc = "stageCas" /\ f.after = "Successful")
             \/ f.pc = "prepare" /\ f.after = "Ok"
      PROVE  o \in Thread /\ Won(o)
  <2>1. f.pc \notin NoOpPC
    BY <1>1 DEF SetPC, NoOpPC, StorePC
  <2>2. o \in Thread
    BY <2>1, FrameFacts
  <2>3. CASE f.pc = "prepare" /\ f.after = "Ok"
    <3>1. o = u
      <4>1. ~Helping(u) /\ f.op = [owner |-> u, seq |-> ss[u].seq]
        BY <2>1, <2>3, FrameFacts, NoStackOutsideOperations DEF Helping, OwnUnlessHelping
      <4> QED BY <4>1
    <3> QED BY <2>2, <2>3, <3>1, PreparesDecided DEF Won
  <2> QED BY <1>1, <2>2, <2>3 DEF SettersOK
<1>2. \A w \in Word : Passed(f, w) => Clear(o, w)
  BY DEF SettersOK
<1>3. \A w \in Word : Passed(f, w) =>
        \/ f.pc \in SetPC \/ (f.pc = "stageCas" /\ f.after = "Successful")
        \/ f.pc = "prepare" /\ f.after = "Ok"
  BY DEF Passed
<1> QED BY <1>1, <1>2, <1>3, WonStays, ClearStays DEF Forward

LEMMA SettersNext ==
  ASSUME Forward, LinearInv, NEW t \in Thread, Call(t) \/ Step(t)
  PROVE  SettersOK'
<1> USE DEF LinearInv, OneCallInv
<1> SUFFICES ASSUME NEW u \in Thread, NEW q, frame'[u].op.owner = q
             PROVE  LET g == frame'[u] IN
                    /\ g.pc \in SetPC \/ (g.pc = "stageCas" /\ g.after = "Successful")
                         => Won(q)'
                    /\ \A w \in Word : Passed(g, w) => Clear(q, w)'
  BY DEF SettersOK, Won, Clear
<1> DEFINE f == frame[t]
           g == frame'[t]
<1>1. CASE u # t
  BY <1>1, PassedStays, OthersUntouched
<1>2. CASE u = t /\ OutsideStep(t)
  <2>1. g.pc \in NoOpPC \cup {"claimTarget"}
    BY <1>2, OutsideEffect
  <2> QED BY <1>2, <2>1 DEF Passed, SetPC, NoOpPC, StorePC
<1>3. CASE u = t /\ ~OutsideStep(t)
  <2>0. PICK o, n : f.op.owner = o /\ f.word = n
    OBVIOUS
  <2>1. f.pc \notin NoOpPC /\ InsideStep(t) /\ Step(t)
    BY <1>3, StepKinds DEF OutsideStep
  <2>2. /\ f \in Frame /\ f.op # Null /\ f.word \in Word /\ PhaseOK(f, ss) /\ LocalsOK(f)
        /\ LoadedOK(f, target, expected, desired)
    BY <2>1, FrameFacts DEF Frame, FrameOK, LocalsLoaded
  <2>3. /\ o \in Thread /\ Started(o) /\ f.op = First(o) /\ f.op \in Marker
        /\ g.op = f.op => q = o
    BY <1>3, <2>0, <2>2, FramesStarted
  <2>4. target'[o] = target[o] /\ target[o][f.word] \in Address /\ desired[o][f.word] \in Value
    BY <2>2, <2>3, ArraysKept, OperationWords
  <2>5. /\ f.pc \in SetPC => Won(o)'
        /\ \A w \in Word : Passed(f, w) => Clear(o, w)'
    BY <2>0, PassedStays
  <2>6. CASE Claims(t) \/ ClaimFails(t) \/ Verifies(t) \/ TriesAgain(t) \/ EndsHelp(t)
    <3>1. \/ g.pc \in ClaimPC \cup {"fatal"}
          \/ g.pc = "stageCas" /\ g.after \in {"Setting", "Reverting"}
      BY <2>2, <2>6 DEF Claims, ClaimFails, Verifies, TriesAgain, Suspended, EndsHelp, Frame, ClaimPC
    <3> QED BY <1>3, <3>1 DEF Passed, SetPC, ClaimPC
  <2>7. CASE Loads(t)
    <3>1. CASE g.pc \in SetPC
      <4>1. /\ f.pc \in {"setTarget", "setDesired"} /\ g.pc \in {"setDesired", "setCas"}
            /\ g.op = f.op /\ g.word = f.word
        BY <2>7, <3>1 DEF Loads, SetPC
      <4> QED BY <1>3, <2>3, <2>5, <4>1 DEF Passed, SetPC
    <3>2. CASE g.pc \notin SetPC
      BY <1>3, <2>7, <3>2 DEF Loads, Passed
    <3> QED BY <3>1, <3>2
  <2>8. CASE Turns(t) \/ BeginsHelp(t) \/ Decides(t)
    <3>1. CASE g.pc = "setTarget"
      <4>1. g.word = 0 /\ StageOf(g.op, ss') = "Setting"
        <5>1. CASE Turns(t) \/ BeginsHelp(t)
          BY <3>1, <5>1 DEF Turns, BeginsHelp, Nothing, BesideCells
        <5>2. CASE Decides(t)
          <6>1. f.after = "Setting" /\ ss \in StageSeq
            BY <3>1, <5>2, FrameFacts DEF Decides, HelpReturn
          <6> QED BY <2>0, <2>3, <3>1, <5>2, <6>1 DEF Decides, StageOf, StageSeq
        <5> QED BY <2>8, <5>1, <5>2
      <4>2. Won(q)'
        BY <1>3, <4>1 DEF Won, StageOf
      <4> QED BY <1>3, <3>1, <4>1, <4>2 DEF Passed, Word
    <3>2. CASE g.pc # "setTarget"
      BY <1>3, <2>8, <3>2 DEF Turns, BeginsHelp, Decides, Passed, SetPC, HelpReturn
    <3> QED BY <3>1, <3>2
  <2>9. CASE Sets(t) \/ SetFails(t) \/ SetGoesOn(t)
    <3>1. f.pc \in SetPC /\ Won(o)' /\ g.op = f.op
      BY <2>5, <2>9 DEF Sets, SetFails, SetGoesOn, SetsOn, SetPC
    <3>2. Clear(o, n)'
      <4>1. CASE Sets(t)
        BY <2>0, <2>2, <2>3, <2>4, <4>1, ConstantFacts DEF Sets, LoadedOK, LocalsOK, Clear,
           ProtocolInv, TypeOK
      <4>2. CASE SetFails(t)
        BY <2>0, <2>2, <2>3, <2>4, <4>2 DEF SetFails, Nothing, LoadedOK, Clear
      <4>3. CASE SetGoesOn(t)
        BY <2>0, <2>2, <2>5, <4>3 DEF SetGoesOn, Passed, SetPC
      <4> QED BY <2>9, <4>1, <4>2, <4>3
    <3>3. \A w \in Word : w <= f.word => Clear(o, w)'
      <4>1. \A w \in Word : w <= f.word => w = f.word \/ w < f.word
        BY <2>2 DEF Word
      <4>2. \A w \in Word : w < f.word => Passed(f, w)
        BY <3>1 DEF Passed
      <4> QED BY <2>0, <2>5, <3>2, <4>1, <4>2
    <3>4. CASE SetFails(t)
      <4>1. \A w \in Word : Passed(g, w) => w <= f.word
        BY <2>2, <3>4 DEF SetFails, Passed, SetPC, Word
      <4> QED BY <1>3, <2>3, <3>1, <3>3, <3>4, <4>1 DEF SetFails
    <3>5. CASE SetsOn(f, g)
      <4>1. \A w \in Word : Passed(g, w) => w <= f.word
        BY <2>2, <3>5, KCasAssumption DEF SetsOn, Passed, SetPC, Word, LastWord
      <4> QED BY <1>3, <2>3, <3>1, <3>3, <4>1
    <3> QED BY <2>9, <3>4, <3>5 DEF Sets, SetGoesOn
  <2>10. CASE Reverts(t)
    <3>1. g.pc \notin SetPC /\ ~(g.pc = "stageCas" /\ g.after = "Successful")
      BY <2>10 DEF Reverts, SetPC, HelpReturn
    <3>2. ASSUME NEW w \in Word, Passed(g, w) PROVE Clear(o, w)'
      <4>1. g.pc = "prepare" /\ g.after = "Ok"
        BY <3>1, <3>2 DEF Passed
      <4>2. f.after = "Ok" /\ f.pc = "revertCas"
        BY <2>10, <4>1 DEF Reverts, HelpReturn
      <4>3. ss[o].stage = "Successful"
        <5>1. ss[o].stage # "Inactive"
          <6>1. ~Helping(t)
            BY <4>2, FrameFacts DEF FrameOK, RoleOK, RevertPC, Outcome
          <6>2. o = t
            <7>1. f.op = [owner |-> t, seq |-> ss[t].seq]
              BY <2>1, <6>1, FrameFacts DEF OwnUnlessHelping
            <7> QED BY <2>0, <7>1
          <6> QED BY <2>1, <6>2, InOperation
        <5>2. Current(f.op, ss)
          BY <2>0, <2>3, <5>1 DEF OnlyCall, Current, First
        <5> QED BY <2>0, <2>2, <4>2, <5>2 DEF PhaseOK, StageOf, RevertPC
      <4>4. Won(o) /\ Clear(o, w)
        BY <2>3, <4>3 DEF Won, Advanced
      <4> QED BY <2>3, <4>4, ClearStays
    <3> QED BY <1>3, <2>3, <2>10, <3>1, <3>2 DEF Reverts
  <2> QED BY <2>1, <2>6, <2>7, <2>8, <2>9, <2>10 DEF InsideStep
<1> QED BY <1>1, <1>2, <1>3

(* What a step does to missed. *)
Watches ==
  missed' = [t \in Thread |->
    /\ words'[t] # Null
    /\ \/ missed[t]
       \/ ~Applied(t)' /\ ~Matching(words'[t], LogicalMemory')]

(* A call whose operation is in progress does not forget that it missed. *)
LEMMA MissedStays ==
  ASSUME ProtocolInv', CallStored', Watches, NEW u \in Thread, ss'[u].stage # "Inactive"
  PROVE  /\ words'[u] # Null
         /\ missed[u] => missed'[u]
         /\ ss'[u].stage = "Claiming" /\ ~Matching(words'[u], LogicalMemory') => missed'[u]
<1>1. frame'[u].pc # "idle"
  BY DEF ProtocolInv, FramesOK, FrameOK, RoleOK
<1>2. words'[u] # Null
  BY <1>1 DEF CallStored, StoredOK
<1> QED BY <1>2 DEF Watches, Applied

LEMMA MissesNext ==
  ASSUME Forward, LinearInv, NEW t \in Thread, Call(t) \/ Step(t), Watches
  PROVE  MissesKnown'
<1> USE DEF LinearInv, OneCallInv
<1>1. OneCallInv' /\ CallStored' /\ ProtocolInv'
  BY OneCallNext, CallStoredNext DEF Forward
<1>2. ASSUME NEW u \in Thread, ss'[u].stage \in {"Reverting", "Reverted"}
      PROVE  missed'[u]
  <2>1. missed[u]
    <3>1. CASE ss[u].stage \in {"Reverting", "Reverted"}
      BY <3>1 DEF MissesKnown
    <3>2. CASE ss[u].stage \notin {"Reverting", "Reverted"}
      <4>1. /\ Decides(t) /\ frame[t].op = First(u)
            /\ ss[u].stage = StageBefore(frame[t].after) /\ ss'[u].stage = frame[t].after
        BY <1>2, <3>2, StageMoves
      <4>2. /\ frame[t].pc = "stageCas" /\ frame[t].after = "Reverting"
            /\ ss[u].stage = "Claiming" /\ Current(frame[t].op, ss)
        BY <1>2, <3>2, <4>1 DEF Decides, StageBefore
      <4> QED BY <4>1, <4>2 DEF MissesKnown, Claiming, StageOf, First
    <3> QED BY <3>1, <3>2
  <2> QED BY <1>1, <1>2, <2>1, MissedStays
<1>3. ASSUME NEW u \in Thread, NEW op \in Marker, frame'[u].op = op, Claiming(op, ss'),
             \/ frame'[u].pc = "claimVerify" /\ frame'[u].seen \in Value
             \/ frame'[u].pc = "stageCas" /\ frame'[u].after = "Reverting"
      PROVE  missed'[op.owner]
  <2> DEFINE o == op.owner
             f == frame[t]
  <2>1. o \in Thread /\ ss'[o].stage = "Claiming"
    BY <1>3 DEF Marker, Claiming, StageOf
  <2>2. \A v \in Thread :
          /\ frame[v].op = op
          /\ \/ frame[v].pc = "claimVerify" /\ frame[v].seen \in Value
             \/ frame[v].pc = "stageCas" /\ frame[v].after = "Reverting"
          => missed'[o]
    <3> SUFFICES ASSUME NEW v \in Thread, frame[v].op = op,
                        \/ frame[v].pc = "claimVerify" /\ frame[v].seen \in Value
                        \/ frame[v].pc = "stageCas" /\ frame[v].after = "Reverting"
                 PROVE  missed'[o]
      OBVIOUS
    <3>1. Issued(op, ss)
      BY <1>3, FrameFacts DEF NoOpPC, StorePC
    <3>2. Claiming(op, ss)
      BY <1>3, <3>1, StagesProgress, ClaimingBefore
    <3>3. missed[o]
      BY <3>2 DEF MissesKnown
    <3> QED BY <1>1, <2>1, <3>3, MissedStays
  <2>3. CASE u # t
    BY <1>3, <2>2, <2>3, OthersUntouched
  <2>4. CASE u = t
    <3>1. ~OutsideStep(t)
      BY <1>3, <2>4, OutsideEffect DEF NoOpPC, StorePC
    <3>2. InsideStep(t) /\ Step(t) /\ f.pc \notin NoOpPC
      BY <3>1, StepKinds DEF OutsideStep
    <3>3. /\ f \in Frame /\ f.op # Null /\ f.word \in Word /\ LocalsOK(f)
          /\ LoadedOK(f, target, expected, desired)
      BY <3>2, FrameFacts DEF Frame, FrameOK, LocalsLoaded
    <3>4. CASE Verifies(t)
      <4>1. f.pc = "claimVerify" /\ f.seen \in Value /\ f.op = op
        BY <1>3, <2>4, <3>3, <3>4 DEF Verifies, Frame
      <4> QED BY <2>2, <4>1
    <3>5. CASE ClaimFails(t)
      <4> DEFINE x == f.addr
                 w == f.word
      <4>1. /\ f.op = op /\ f.pc = "claimCas" /\ memory[x] \in Value /\ memory[x] # f.val
            /\ Nothing
        BY <1>3, <2>4, <3>3, <3>5 DEF ClaimFails, Frame
      <4>2. /\ x = target[o][w] /\ x \in Address /\ f.val = expected[o][w]
        BY <3>3, <4>1 DEF LoadedOK, LocalsOK
      <4>3. LogicalMemory' = LogicalMemory
        BY <3>5, OthersSeeNothing DEF ClaimFails, DecidesToSet, Decides
      <4>4. LogicalMemory[x] = memory[x]
        BY <4>1, <4>2, MarkersRead, ConstantFacts DEF ReadsRight
      <4>5. words' = words /\ ss' = ss
        BY <4>1 DEF Nothing, BesideCells
      <4>6. words[o][w].target = x /\ words[o][w].expected = expected[o][w]
        BY <2>1, <3>3, <4>2, <4>5, InProgress
      <4>7. ~Matching(words[o], LogicalMemory)
        BY <3>3, <4>1, <4>2, <4>4, <4>6 DEF Matching
      <4>8. ~Matching(words'[o], LogicalMemory')
        BY <4>3, <4>5, <4>7
      <4> QED BY <1>1, <2>1, <4>8, MissedStays
    <3>6. CASE Loads(t) \/ Claims(t) \/ Turns(t) \/ TriesAgain(t) \/ BeginsHelp(t)
                 \/ EndsHelp(t) \/ Decides(t)
      BY <1>3, <2>4, <3>3, <3>6 DEF Loads, Claims, Turns, TriesAgain, Suspended, BeginsHelp,
         EndsHelp, Decides, HelpReturn, Frame
    <3>7. CASE Sets(t) \/ SetFails(t) \/ SetGoesOn(t) \/ Reverts(t)
      BY <1>3, <2>4, <3>7 DEF Sets, SetFails, SetGoesOn, SetsOn, Reverts, HelpReturn
    <3> QED BY <3>2, <3>4, <3>5, <3>6, <3>7 DEF InsideStep
  <2> QED BY <2>3, <2>4
<1>4. ASSUME NEW u \in Thread,
             \/ frame'[u].pc = "claimVerify" /\ frame'[u].seen \in Value
             \/ frame'[u].pc = "stageCas" /\ frame'[u].after = "Reverting"
      PROVE  frame'[u].op \in Marker
  <2>1. frame'[u] \in Frame /\ LocalsOK(frame'[u])
    BY <1>1 DEF ProtocolInv, TypeOK, FramesOK, FrameOK
  <2> QED BY <1>4, <2>1 DEF LocalsOK, NoOpPC, StorePC, Frame
<1> QED BY <1>2, <1>3, <1>4 DEF MissesKnown

LEMMA UpToDateNext == Watches => UpToDate'
<1> SUFFICES ASSUME Watches PROVE UpToDate'
  OBVIOUS
<1> DEFINE new(t) == ~Applied(t)' /\ ~Matching(words'[t], LogicalMemory')
<1>1. \A t \in Thread : missed'[t] = (words'[t] # Null /\ (missed[t] \/ new(t)))
  BY DEF Watches
<1>2. missed' = [t \in Thread |-> missed'[t]]
  BY DEF Watches
<1>3. \A t \in Thread : missed'[t] = (words'[t] # Null /\ (missed'[t] \/ new(t)))
  BY <1>1
<1> HIDE DEF new
<1>4. missed' = [t \in Thread |-> words'[t] # Null /\ (missed'[t] \/ new(t))]
  BY <1>2, <1>3
<1> QED BY <1>4 DEF UpToDate, new

LEMMA LinearStart ==
  ASSUME Forward, HistoryInit
  PROVE  LinearInv
<1> USE DEF HistoryInit
<1>1. OneCallInv
  BY OneCallStart DEF Forward
<1>2. \A t \in Thread : /\ frame[t].pc = "idle" /\ words[t] = Null /\ result[t] = Null
                        /\ ss[t].stage = "Inactive" /\ ss[t].seq = 0
  BY DEF Init, At
<1>3. CallStored
  <2>1. ASSUME NEW t \in Thread PROVE StoredOK(t)
    <3>1. ~Started(t)
      BY <1>2 DEF Started
    <3> QED BY <1>2, <3>1 DEF StoredOK
  <2> QED BY <2>1 DEF CallStored
<1>4. SettersOK
  BY <1>2 DEF SettersOK, Passed, SetPC
<1>5. Advanced
  BY <1>2 DEF Advanced, Won
<1>6. MissesKnown
  BY <1>2 DEF MissesKnown
<1>7. UpToDate
  BY <1>2 DEF UpToDate
<1> QED BY <1>1, <1>3, <1>4, <1>5, <1>6, <1>7 DEF LinearInv

(* A step that changes no variable of KCas does not change missed either. *)
LEMMA WatchesNothing ==
  ASSUME UpToDate, Watches, UNCHANGED words,
         \A t \in Thread : Applied(t)' = Applied(t), LogicalMemory' = LogicalMemory
  PROVE  missed' = missed
<1> DEFINE miss(t) == ~Applied(t) /\ ~Matching(words[t], LogicalMemory)
           miss2(t) == ~Applied(t)' /\ ~Matching(words'[t], LogicalMemory')
<1>1. \A t \in Thread : miss2(t) = miss(t)
  BY DEF Matching
<1> HIDE DEF miss, miss2
<1>2. missed = [t \in Thread |-> words[t] # Null /\ (missed[t] \/ miss(t))]
  BY DEF UpToDate, miss
<1>3. missed' = [t \in Thread |-> words[t] # Null /\ (missed[t] \/ miss2(t))]
  BY DEF Watches, miss2
<1> QED BY <1>1, <1>2, <1>3

LEMMA LinearNext ==
  ASSUME Forward, LinearInv, [HistoryNext]_<<vars, missed>>
  PROVE  LinearInv'
<1>1. ASSUME NEW t \in Thread, Call(t) \/ Step(t), Watches
      PROVE  LinearInv'
  <2>1. OneCallInv'
    BY <1>1, OneCallNext DEF LinearInv, Forward
  <2>2. CallStored'
    BY <1>1, CallStoredNext DEF LinearInv
  <2> QED BY <1>1, <2>1, <2>2, SettersNext, AdvancedNext, MissesNext, UpToDateNext DEF LinearInv
<1>2. CASE UNCHANGED <<vars, missed>>
  <2> USE <1>2 DEF LinearInv, vars
  <2>1. OneCallInv'
    <3>1. ProtocolInv'
      BY StutterOK DEF OneCallInv
    <3> QED BY <3>1 DEF OneCallInv, OnlyCall, LocalsLoaded, MarkersPlaced
  <2>2. CallStored'
    BY DEF CallStored, StoredOK, Holds, Started
  <2>3. SettersOK'
    BY DEF SettersOK, Won, Clear
  <2>4. LogicalMemory' = LogicalMemory
    BY DEF LogicalMemory, Meaning
  <2>5. Advanced'
    BY <2>4 DEF Advanced, Won, Clear
  <2>6. MissesKnown'
    BY DEF MissesKnown
  <2>7. UpToDate'
    BY <2>4 DEF UpToDate, Applied, Matching
  <2> QED BY <2>1, <2>2, <2>3, <2>5, <2>6, <2>7
<1>3. CASE HistoryNext /\ UNCHANGED vars
  <2>1. LogicalMemory' = LogicalMemory /\ \A t \in Thread : Applied(t)' = Applied(t)
    BY <1>3 DEF vars, LogicalMemory, Meaning, Applied
  <2>2. UNCHANGED words /\ Watches
    BY <1>3 DEF vars, HistoryNext, Watches
  <2> QED BY <1>2, <1>3, <2>1, <2>2, WatchesNothing DEF LinearInv
<1> QED BY <1>1, <1>2, <1>3 DEF HistoryNext, Next, Finished, Watches

(* The invariant behind the refinement: what owners and helpers have done,  *)
(* and may still do, to the words of an operation that was decided for, and *)
(* that whoever gives up a call knows that it met an unexpected value.      *)
THEOREM LinearHolds ==
  ASSUME Forward
  PROVE  HistorySpec => []LinearInv
<1>1. HistoryInit => LinearInv
  BY LinearStart
<1>2. LinearInv /\ [HistoryNext]_<<vars, missed>> => LinearInv'
  BY LinearNext
<1> QED BY <1>1, <1>2, PTL DEF HistorySpec
-----------------------------------------------------------------------------
(* Each step is one of AtomicKCas, or none of its variables changes. *)

LEMMA CallInvokes ==
  ASSUME Forward, LinearInv, NEW t \in Thread, Call(t), Watches
  PROVE  Atomic!Invoke(t)
<1> USE DEF LinearInv, OneCallInv
<1>1. /\ ss \in StageSeq /\ words \in [Thread -> [Word -> KCasWord] \cup {Null}]
      /\ result \in [Thread -> Outcome \cup FatalError \cup {Null}]
  BY DEF ProtocolInv, TypeOK, StageSeq
<1>2. frame[t].pc = "idle" /\ words[t] = Null /\ ss[t].stage = "Inactive"
  BY FrameFacts DEF Call, CallStored, StoredOK, FrameOK, RoleOK
<1>3. \E ws \in UNION {Program[t][k] : k \in DOMAIN Program[t]} :
        words' = [words EXCEPT ![t] = ws]
  <2>1. ss[t].seq + 1 \in DOMAIN Program[t]
    <3>1. ss[t].seq \in Nat /\ ss[t].seq < Len(Program[t])
      BY <1>1 DEF Call, StageSeq
    <3>2. Program[t] \in Seq(SUBSET [Word -> KCasWord])
      BY KCasAssumption
    <3> QED BY <3>1, <3>2
  <2> QED BY <2>1 DEF Call
<1>4. result' = [result EXCEPT ![t] = Null]
  BY DEF Call
<1>5. LogicalMemory' = LogicalMemory
  BY OthersSeeNothing DEF DecidesToSet, Decides, Call
<1>6. \A u \in Thread : Applied(u)' = Applied(u)
  BY <1>1, <1>2, <1>3 DEF Applied, Call
<1>7. [u \in Thread |-> Applied(u)]' = [u \in Thread |-> Applied(u)]
  BY <1>6
<1> QED BY <1>2, <1>3, <1>4, <1>5, <1>7 DEF Atomic!Invoke, Atomic!Watch, Atomic!Matches,
       Watches, Matching

LEMMA DecisionIsApply ==
  ASSUME Forward, LinearInv, NEW t \in Thread, Step(t), DecidesToSet(t),
         Watches
  PROVE  \E o \in Thread : Atomic!Apply(o)
<1> USE DEF LinearInv, OneCallInv
<1>1. PICK o : frame[t].op.owner = o
  OBVIOUS
<1>2. /\ o \in Thread /\ Started(o) /\ ss[o].stage = "Claiming"
      /\ ss' = [ss EXCEPT ![o].stage = "Setting"] /\ ss \in StageSeq
      /\ \A w \in Word : /\ LogicalMemory[target[o][w]] = expected[o][w]
                        /\ LogicalMemory'[target[o][w]] = desired[o][w]
      /\ \A x \in Address : (\A w \in Word : target[o][w] # x) =>
           LogicalMemory'[x] = LogicalMemory[x]
  BY <1>1, DecisionApplies, FrameFacts
<1> DEFINE ws == words[o]
<1>3. /\ ws # Null
      /\ \A w \in Word : /\ ws[w].target = target[o][w] /\ ws[w].expected = expected[o][w]
                        /\ ws[w].desired = desired[o][w]
  BY <1>2, InProgress
<1>4. UNCHANGED <<words, result>>
  BY DEF DecidesToSet, Decides
<1>5. ~Applied(o) /\ Atomic!Matches(ws, LogicalMemory)
  BY <1>2, <1>3 DEF Applied, Atomic!Matches
<1>6. LogicalMemory' =
        [x \in Address |-> IF \E w \in Word : ws[w].target = x
                          THEN ws[CHOOSE w \in Word : ws[w].target = x].desired
                          ELSE LogicalMemory[x]]
  <2>1. ASSUME NEW x \in Address
        PROVE  LogicalMemory'[x] = IF \E w \in Word : ws[w].target = x
                                   THEN ws[CHOOSE w \in Word : ws[w].target = x].desired
                                   ELSE LogicalMemory[x]
    <3>1. CASE \E w \in Word : ws[w].target = x
      <4>1. PICK w \in Word : w = CHOOSE v \in Word : ws[v].target = x
        BY <3>1
      <4>2. ws[w].target = x
        BY <3>1, <4>1
      <4> QED BY <1>2, <1>3, <3>1, <4>1, <4>2
    <3>2. CASE ~\E w \in Word : ws[w].target = x
      BY <1>2, <1>3, <3>2
    <3> QED BY <3>1, <3>2
  <2>2. LogicalMemory' = [x \in Address |-> LogicalMemory'[x]]
    BY DEF LogicalMemory
  <2> QED BY <2>1, <2>2
<1>7. [u \in Thread |-> Applied(u)]' = [[u \in Thread |-> Applied(u)] EXCEPT ![o] = TRUE]
  <2>1. ASSUME NEW u \in Thread PROVE Applied(u)' = IF u = o THEN TRUE ELSE Applied(u)
    BY <1>2, <1>3, <1>4 DEF Applied, StageSeq
  <2> QED BY <2>1
<1> QED BY <1>2, <1>3, <1>4, <1>5, <1>6, <1>7 DEF Atomic!Apply, Atomic!Watch, Atomic!Matches,
       Watches, Matching

LEMMA PrepareReturns ==
  ASSUME Forward, LinearInv, NEW t \in Thread, Prepare(t), Watches
  PROVE  Atomic!Return(t)
<1> USE DEF LinearInv, OneCallInv
<1>1. /\ ss \in StageSeq /\ words \in [Thread -> [Word -> KCasWord] \cup {Null}]
      /\ frame[t].pc = "prepare" /\ words[t] # Null
  BY DEF ProtocolInv, TypeOK, StageSeq, Prepare, CallStored, StoredOK
<1>2. \/ Applied(t) /\ frame[t].after = "Ok"
      \/ ~Applied(t) /\ missed[t] /\ frame[t].after = "ValueWasNotExpectedValue"
  BY <1>1, PreparesDecided DEF Applied, MissesKnown
<1>3. /\ result' = [result EXCEPT ![t] = frame[t].after]
      /\ words' = [words EXCEPT ![t] = Null]
      /\ ss' = [ss EXCEPT ![t] = [stage |-> "Inactive", seq |-> frame[t].op.seq + 1]]
  BY DEF Prepare
<1>4. LogicalMemory' = LogicalMemory
  BY OthersSeeNothing DEF DecidesToSet, Decides, Prepare, Step
<1>5. [u \in Thread |-> Applied(u)]' = [[u \in Thread |-> Applied(u)] EXCEPT ![t] = FALSE]
  <2>1. ASSUME NEW u \in Thread PROVE Applied(u)' = IF u = t THEN FALSE ELSE Applied(u)
    BY <1>1, <1>3 DEF Applied, StageSeq
  <2> QED BY <2>1
<1> QED BY <1>1, <1>2, <1>3, <1>4, <1>5 DEF Atomic!Return, Atomic!Watch, Atomic!Matches,
       Watches, Matching

(* Only the begin and the end of a call change its words and result. *)
LEMMA CallsBeginAndEnd ==
  ASSUME ProtocolInv, CallStored, NEW t \in Thread, Step(t), ~Prepare(t)
  PROVE  UNCHANGED <<words, result>>
<1>1. ~ReturnFatal(t) /\ ~Call(t)
  BY DEF ReturnFatal, Call, CallStored, StoredOK, Step, StoreTarget, StoreExpected, StoreDesired,
     Publish, ClaimTarget, ClaimExpected, LoadTarget, LoadValue, ClaimCas, ClaimVerify,
     HelpThread, HelpDone, StageCas, SetTarget, SetDesired, SetCas, SetVerify, RevertTarget,
     RevertExpected, RevertCas, Prepare, HelpReturn
<1> QED BY <1>1, InsideEffect DEF OutsideStep, StoreStep, StoreTarget, StoreExpected,
           StoreDesired, Publish

LEMMA OthersStutter ==
  ASSUME Forward, LinearInv, NEW t \in Thread, Step(t), Watches,
         ~DecidesToSet(t), ~Prepare(t)
  PROVE  UNCHANGED Atomic!vars
<1> USE DEF LinearInv, OneCallInv
<1>1. LogicalMemory' = LogicalMemory
  BY OthersSeeNothing
<1>2. UNCHANGED <<words, result>>
  BY CallsBeginAndEnd
<1>3. ASSUME NEW u \in Thread PROVE Applied(u)' = Applied(u)
  <2>1. CASE ss'[u] = ss[u]
    BY <1>2, <2>1 DEF Applied
  <2>2. CASE Publish(t) /\ u = t /\ ss[u].stage = "Inactive" /\ ss'[u].stage = "Claiming"
    BY <1>2, <2>2 DEF Applied
  <2>3. CASE Decides(t) /\ ss[u].stage = StageBefore(frame[t].after)
             /\ ss'[u].stage = frame[t].after
    <3>1. frame[t].after \in {"Reverting", "Successful", "Reverted"}
      BY <2>3 DEF Decides, DecidesToSet
    <3> QED BY <1>2, <2>3, <3>1 DEF Applied, StageBefore
  <2> QED BY <2>1, <2>2, <2>3, StageMoves
<1>4. missed' = missed
  BY <1>1, <1>2, <1>3, WatchesNothing
<1>5. [u \in Thread |-> Applied(u)]' = [u \in Thread |-> Applied(u)]
  BY <1>3
<1> QED BY <1>1, <1>2, <1>4, <1>5 DEF Atomic!vars
-----------------------------------------------------------------------------
(* lib.rs, first line: a "multi-word compare-and-swap".  For any number of  *)
(* threads, words and cells, if every thread calls at most once and no call *)
(* moves a cell back in some order of the values: a call that returns Ok    *)
(* replaced all its targets in one step, a call that reports a mismatch did *)
(* meet one, and nothing else changes what cells hold, in spite of helpers  *)
(* that claim, set and revert for operations long decided.                  *)
THEOREM ForwardCallsAreAtomic ==
  Forward => (HistorySpec => ImplementsAtomicKCas)
<1> SUFFICES ASSUME Forward PROVE HistorySpec => ImplementsAtomicKCas
  OBVIOUS
<1>1. HistoryInit => Atomic!Init
  <2> SUFFICES ASSUME HistoryInit PROVE Atomic!Init
    OBVIOUS
  <2>1. LogicalMemory = InitialMemory
    BY KCasAssumption, ConstantFacts DEF HistoryInit, Init, LogicalMemory
  <2>2. \A t \in Thread : Applied(t) = FALSE
    BY DEF HistoryInit, Init, Applied
  <2>3. [t \in Thread |-> Applied(t)] = [t \in Thread |-> FALSE]
    BY <2>2
  <2> QED BY <2>1, <2>3 DEF HistoryInit, Init, Atomic!Init
<1>2. LinearInv /\ [HistoryNext]_<<vars, missed>> => [Atomic!Next]_(Atomic!vars)
  <2> SUFFICES ASSUME LinearInv, [HistoryNext]_<<vars, missed>>
               PROVE  [Atomic!Next]_(Atomic!vars)
    OBVIOUS
  <2>1. ASSUME NEW t \in Thread, Call(t) \/ Step(t), Watches
        PROVE  Atomic!Next \/ UNCHANGED Atomic!vars
    <3>1. CASE Call(t)
      BY <2>1, <3>1, CallInvokes DEF Atomic!Next
    <3>2. CASE Step(t) /\ DecidesToSet(t)
      BY <2>1, <3>2, DecisionIsApply DEF Atomic!Next
    <3>3. CASE Prepare(t)
      BY <2>1, <3>3, PrepareReturns DEF Atomic!Next
    <3>4. CASE Step(t) /\ ~DecidesToSet(t) /\ ~Prepare(t)
      BY <2>1, <3>4, OthersStutter
    <3> QED BY <2>1, <3>1, <3>2, <3>3, <3>4
  <2>2. CASE UNCHANGED <<vars, missed>>
    BY <2>2 DEF vars, Atomic!vars, LogicalMemory, Meaning, Applied
  <2>3. CASE UNCHANGED vars /\ Watches
    <3>1. /\ LogicalMemory' = LogicalMemory /\ \A t \in Thread : Applied(t)' = Applied(t)
          /\ UNCHANGED <<words, result>>
      BY <2>3 DEF vars, LogicalMemory, Meaning, Applied
    <3>2. missed' = missed
      BY <2>3, <3>1, WatchesNothing DEF LinearInv
    <3> QED BY <2>2, <2>3, <3>2
  <2> QED BY <2>1, <2>2, <2>3 DEF HistoryNext, Next, Finished, Watches
<1>3. HistorySpec => []LinearInv
  BY LinearHolds
<1> QED BY <1>1, <1>2, <1>3, PTL DEF HistorySpec, ImplementsAtomicKCas, Atomic!Spec
-----------------------------------------------------------------------------
(* Who wins. *)

(* A thread has a result when, and only when, its call is over. *)
LEMMA ReportedNext ==
  ASSUME Forward, LinearInv, Reported, NEW t \in Thread, Call(t) \/ Step(t)
  PROVE  Reported'
<1> USE DEF LinearInv, OneCallInv
<1>1. /\ ss \in StageSeq /\ result \in [Thread -> Outcome \cup FatalError \cup {Null}]
      /\ Null \notin Outcome
  BY ConstantFacts DEF ProtocolInv, TypeOK, StageSeq
<1> SUFFICES ASSUME NEW u \in Thread PROVE result'[u] \in Outcome <=> ss'[u].seq > 0
  BY DEF Reported
<1>2. CASE Call(t)
  <2>1. Len(Program[t]) \in Nat /\ Len(Program[t]) <= 1
    BY KCasAssumption DEF Forward, OneCall
  <2>2. ss[t].seq = 0 /\ ss' = ss /\ result' = [result EXCEPT ![t] = Null]
    BY <1>1, <1>2, <2>1 DEF Call, StageSeq
  <2> QED BY <1>1, <2>2 DEF Reported
<1>3. CASE Prepare(t)
  <2>1. frame[t].pc = "prepare" /\ frame[t].after \in Outcome
    BY <1>3, PreparesDecided DEF Prepare, Outcome
  <2>2. frame[t].op = First(t)
    <3>1. frame[t].pc \notin NoOpPC
      BY <2>1 DEF NoOpPC, StorePC
    <3>2. stack[t] = <<>> /\ ss[t].stage # "Inactive"
      BY <2>1, <3>1, NoStackOutsideOperations, InOperation
    <3> QED BY <3>1, <3>2, FrameFacts DEF Helping, OwnUnlessHelping, OnlyCall, First
  <2>3. /\ ss' = [ss EXCEPT ![t] = [stage |-> "Inactive", seq |-> 1]]
        /\ result' = [result EXCEPT ![t] = frame[t].after]
    BY <1>3, <2>2 DEF Prepare, First
  <2> QED BY <1>1, <2>1, <2>3 DEF Reported, StageSeq
<1>4. CASE Step(t) /\ ~Prepare(t)
  <2>1. result' = result
    BY <1>4, CallsBeginAndEnd
  <2>2. ss'[u].seq = ss[u].seq
    <3>1. CASE ss'[u] = ss[u]
      BY <3>1
    <3>2. CASE Publish(t)
      BY <1>1, <3>2 DEF Publish, StageSeq
    <3>3. CASE Decides(t)
      BY <1>1, <3>3 DEF Decides, StageSeq
    <3> QED BY <1>4, <3>1, <3>2, <3>3, StageMoves
  <2> QED BY <2>1, <2>2 DEF Reported
<1> QED BY <1>2, <1>3, <1>4

LEMMA LastWinsNext ==
  ASSUME Forward, LinearInv, Reported, LastWins,
         NEW t \in Thread, Call(t) \/ Step(t), Watches
  PROVE  LastWins'
<1> USE DEF LinearInv, OneCallInv
<1>1. CASE DecidesToSet(t)
  <2>1. Step(t)
    BY <1>1 DEF DecidesToSet, Decides, Call
  <2>2. PICK o : frame[t].op.owner = o
    OBVIOUS
  <2>3. /\ o \in Thread /\ Started(o) /\ ss \in StageSeq
        /\ ss' = [ss EXCEPT ![o].stage = "Setting"]
        /\ \A w \in Word : LogicalMemory'[target[o][w]] = desired[o][w]
    BY <1>1, <2>1, <2>2, DecisionApplies, FrameFacts
  <2>4. target'[o] = target[o] /\ desired'[o] = desired[o]
    BY <2>3, ArraysKept
  <2>5. ss'[o].stage = "Setting"
    BY <2>3 DEF StageSeq
  <2> QED BY <2>3, <2>4, <2>5 DEF LastWins, Won
<1>2. CASE ~DecidesToSet(t)
  <2>1. LogicalMemory' = LogicalMemory
    BY <1>2, OthersSeeNothing
  <2>2. ASSUME NEW o \in Thread, Won(o),
               \A w \in Word : LogicalMemory[target[o][w]] = desired[o][w]
        PROVE  LastWins'
    <3>1. Won(o)' /\ target'[o] = target[o] /\ desired'[o] = desired[o]
      BY <2>2, WonStarted, WonStays, ArraysKept DEF Forward
    <3> QED BY <2>1, <2>2, <3>1 DEF LastWins
  <2>3. ASSUME LogicalMemory = InitialMemory, NEW u \in Thread, ~Won(u),
               missed[u] => ~Matching(words[u], InitialMemory),
               result[u] = "ValueWasNotExpectedValue"
                 => \E w \in Word : expected[u][w] # InitialMemory[target[u][w]]
        PROVE  /\ ~Won(u)'
               /\ missed'[u] => ~Matching(words'[u], InitialMemory)
               /\ result'[u] = "ValueWasNotExpectedValue"
                    => \E w \in Word : expected'[u][w] # InitialMemory[target'[u][w]]
    <3>1. /\ words \in [Thread -> [Word -> KCasWord] \cup {Null}]
          /\ result \in [Thread -> Outcome \cup FatalError \cup {Null}]
          /\ ss \in StageSeq /\ Null \notin Outcome
      BY ConstantFacts DEF ProtocolInv, TypeOK, StageSeq
    <3>2. ~Won(u)'
      BY <1>2, <2>3, WinsByDecision DEF DecidesToSet
    <3>3. words'[u] = words[u] \/ (missed[u] => words'[u] = Null)
      <4>1. CASE Call(t)
        <5>1. words[t] = Null
          BY <4>1 DEF Call, CallStored, StoredOK
        <5>2. ~missed[t]
          BY <5>1 DEF UpToDate
        <5> QED BY <3>1, <4>1, <5>2 DEF Call
      <4>2. CASE Prepare(t)
        BY <3>1, <4>2 DEF Prepare
      <4>3. CASE Step(t) /\ ~Prepare(t)
        BY <4>3, CallsBeginAndEnd
      <4> QED BY <4>1, <4>2, <4>3
    <3>4. missed'[u] => ~Matching(words'[u], InitialMemory)
      <4>1. missed'[u] =>
              words'[u] # Null /\ (missed[u] \/ ~Matching(words'[u], LogicalMemory'))
        BY DEF Watches
      <4>2. Matching(words'[u], LogicalMemory') = Matching(words'[u], InitialMemory)
        BY <2>1, <2>3
      <4>3. words'[u] = words[u] => Matching(words'[u], InitialMemory) = Matching(words[u], InitialMemory)
        OBVIOUS
      <4> QED BY <2>3, <3>3, <4>1, <4>2, <4>3
    <3>5. ASSUME result'[u] = "ValueWasNotExpectedValue"
          PROVE  \E w \in Word : expected'[u][w] # InitialMemory[target'[u][w]]
      <4>1. CASE result'[u] = result[u]
        <5>1. Started(u)
          BY <3>1, <3>5, <4>1 DEF Reported, Outcome, Started
        <5> QED BY <2>3, <3>5, <4>1, <5>1, ArraysKept
      <4>2. CASE result'[u] # result[u]
        <5>1. Prepare(t) /\ u = t
          <6>1. ~Call(t)
            BY <3>1, <3>5, <4>2 DEF Call, Outcome
          <6>2. Prepare(t)
            BY <4>2, <6>1, CallsBeginAndEnd
          <6> QED BY <3>1, <4>2, <6>2 DEF Prepare
        <5>2. frame[u].pc = "prepare" /\ frame[u].after = "ValueWasNotExpectedValue"
          BY <3>1, <3>5, <5>1 DEF Prepare
        <5>3. ss[u].stage \in {"Reverting", "Reverted"}
          BY <5>2, PreparesDecided
        <5>4. ~Matching(words[u], InitialMemory)
          BY <2>3, <5>3 DEF MissesKnown
        <5>5. \E w \in Word : expected[u][w] # InitialMemory[target[u][w]]
          BY <5>3, <5>4, InProgress DEF Matching
        <5> QED BY <5>3, <5>5, ArraysKept DEF Started
      <4> QED BY <4>1, <4>2
    <3> QED BY <3>2, <3>4, <3>5
  <2> QED BY <2>1, <2>2, <2>3 DEF LastWins
<1> QED BY <1>1, <1>2

(* The invariant behind SomeCallWins: results belong to calls that are over, *)
(* and the cells hold what the last operation that was decided for wanted,  *)
(* or, if there is none, the initial contents; then whatever failed, or     *)
(* will fail, did not expect these.                                         *)
THEOREM WinHolds ==
  ASSUME Forward
  PROVE  HistorySpec => []WinInv
<1>1. HistoryInit => WinInv
  <2> SUFFICES ASSUME HistoryInit PROVE WinInv
    OBVIOUS
  <2>1. \A t \in Thread : /\ result[t] = Null /\ result[t] \notin Outcome
                          /\ ss[t].stage = "Inactive" /\ ss[t].seq = 0
    BY ConstantFacts DEF HistoryInit, Init
  <2>2. Reported
    <3> SUFFICES ASSUME NEW t \in Thread PROVE ~(ss[t].seq > 0)
      BY <2>1 DEF Reported
    <3>1. ss[t].seq = 0
      BY <2>1
    <3> QED BY <3>1
  <2>3. LogicalMemory = InitialMemory
    BY KCasAssumption, ConstantFacts DEF HistoryInit, Init, LogicalMemory
  <2>4. \A t \in Thread : ~missed[t]
    BY DEF HistoryInit
  <2>5. \A t \in Thread : ~Won(t) /\ result[t] # "ValueWasNotExpectedValue"
    BY <2>1 DEF Won, Outcome
  <2>6. LastWins
    BY <2>3, <2>4, <2>5 DEF LastWins
  <2> QED BY <2>2, <2>6, LinearStart DEF WinInv
<1>2. WinInv /\ [HistoryNext]_<<vars, missed>> => WinInv'
  <2> SUFFICES ASSUME WinInv, [HistoryNext]_<<vars, missed>> PROVE WinInv'
    OBVIOUS
  <2>1. LinearInv'
    BY LinearNext DEF WinInv
  <2>2. ASSUME NEW t \in Thread, Call(t) \/ Step(t), Watches
        PROVE  WinInv'
    BY <2>1, <2>2, ReportedNext, LastWinsNext DEF WinInv
  <2>3. CASE UNCHANGED <<vars, missed>>
    <3>1. LogicalMemory' = LogicalMemory
      BY <2>3 DEF vars, LogicalMemory, Meaning
    <3>2. UNCHANGED <<ss, result, words, target, expected, desired>>
      BY <2>3 DEF vars
    <3>3. Reported'
      BY <3>2 DEF WinInv, Reported
    <3>4. \A t \in Thread : /\ Won(t)' <=> Won(t)
                            /\ Matching(words'[t], InitialMemory)
                                 <=> Matching(words[t], InitialMemory)
      BY <3>2 DEF Won
    <3>5. LastWins'
      <4>1. LastWins /\ missed' = missed
        BY <2>3 DEF WinInv
      <4> QED BY <3>1, <3>2, <3>4, <4>1 DEF LastWins
    <3> QED BY <2>1, <3>3, <3>5 DEF WinInv
  <2>4. CASE HistoryNext /\ UNCHANGED vars
    <3>1. /\ LogicalMemory' = LogicalMemory /\ \A t \in Thread : Applied(t)' = Applied(t)
          /\ UNCHANGED words /\ Watches
      BY <2>4 DEF vars, LogicalMemory, Meaning, Applied, HistoryNext, Watches
    <3>2. missed' = missed
      BY <3>1, WatchesNothing DEF WinInv, LinearInv
    <3> QED BY <2>3, <2>4, <3>2
  <2> QED BY <2>2, <2>3, <2>4 DEF HistoryNext, Next, Finished, Watches
<1> QED BY <1>1, <1>2, PTL DEF HistorySpec

(* Setters know that their operation was decided for, and late claims for   *)
(* it fail; who gives up a call has met a value it did not expect; and the  *)
(* cells read as what the last operation decided for wanted.                *)
THEOREM DecisionsStayKnown ==
  ASSUME Forward
  PROVE  HistorySpec => []DecisionsKnown
<1>1. WinInv => DecisionsKnown
  BY DEF WinInv, LinearInv, DecisionsKnown
<1> QED BY <1>1, WinHolds, PTL

(* tests/common/mod.rs asserts, when all its threads are done, that all     *)
(* targets hold the desired values of one call.  For any number of threads, *)
(* words and cells: if every thread makes one call, no call moves a cell    *)
(* back, and calls on the same targets expect their initial contents, then  *)
(* one of them did return Ok, and the targets hold its desired values.      *)
THEOREM OneForwardCallWins ==
  Forward /\ ExpectInitial => (HistorySpec => []SomeCallWins)
<1> SUFFICES ASSUME Forward, ExpectInitial PROVE HistorySpec => []SomeCallWins
  OBVIOUS
<1>1. WinInv /\ QuiescentClean => SomeCallWins
  <2> SUFFICES ASSUME WinInv, QuiescentClean, Over,
                      \A t, u \in Thread : target[t] = target[u]
               PROVE  \E t \in Thread : /\ result[t] = "Ok"
                                        /\ \A w \in Word : memory[target[t][w]] = desired[t][w]
    BY DEF SomeCallWins
  <2> USE DEF WinInv, LinearInv, OneCallInv
  <2>1. \A t \in Thread : /\ ss[t].seq = 1 /\ ss[t].stage = "Inactive" /\ Started(t)
                          /\ result[t] \in Outcome
    <3> SUFFICES ASSUME NEW t \in Thread
                 PROVE  /\ ss[t].seq = 1 /\ ss[t].stage = "Inactive" /\ Started(t)
                        /\ result[t] \in Outcome
      OBVIOUS
    <3>1. frame[t].pc = "idle" /\ ss[t].seq = 1
      BY DEF Over, ExpectInitial
    <3>2. ss[t].stage = "Inactive"
      BY <3>1, FrameFacts DEF FrameOK, RoleOK
    <3> QED BY <3>1, <3>2 DEF Started, Reported
  <2>2. \A x \in Address : LogicalMemory[x] = memory[x]
    <3>1. \A x \in Address : memory[x] \in Value
      BY DEF QuiescentClean, Over
    <3> QED BY <3>1, MarkersRead, ConstantFacts DEF ReadsRight
  <2>3. CASE \E t \in Thread :
               Won(t) /\ \A w \in Word : LogicalMemory[target[t][w]] = desired[t][w]
    <3>1. PICK t \in Thread :
            Won(t) /\ \A w \in Word : LogicalMemory[target[t][w]] = desired[t][w]
      BY <2>3
    <3>2. result[t] = "Ok"
      BY <2>1, <3>1 DEF Won
    <3>3. \A w \in Word : target[t][w] \in Address
      BY <2>1, OperationWords
    <3> QED BY <2>2, <3>1, <3>2, <3>3
  <2>4. CASE \A t \in Thread :
               /\ ~Won(t)
               /\ result[t] = "ValueWasNotExpectedValue"
                    => \E w \in Word : expected[t][w] # InitialMemory[target[t][w]]
    <3>1. PICK t \in Thread : TRUE
      BY DEF ExpectInitial
    <3>2. result[t] = "ValueWasNotExpectedValue"
      BY <2>1, <2>4 DEF Outcome, Won
    <3>3. \A u \in Thread : \E us \in Calls(u) : \A w \in Word : Holds(u, us, w)
      BY <2>1 DEF CallStored, StoredOK
    <3>4. PICK ws \in Calls(t) : \A w \in Word : Holds(t, ws, w)
      BY <3>3
    <3>5. \A u \in Thread : \E us \in Calls(u) : \A w \in Word : us[w].target = ws[w].target
      <4> SUFFICES ASSUME NEW u \in Thread
                   PROVE  \E us \in Calls(u) : \A w \in Word : us[w].target = ws[w].target
        OBVIOUS
      <4>1. PICK us \in Calls(u) : \A w \in Word : Holds(u, us, w)
        BY <3>3
      <4>2. target[u] = target[t]
        OBVIOUS
      <4> QED BY <3>4, <4>1, <4>2 DEF Holds
    <3>6. \A w \in Word : ws[w].expected = InitialMemory[ws[w].target]
      BY <3>5 DEF ExpectInitial
    <3> QED BY <2>4, <3>2, <3>4, <3>6 DEF Holds
  <2> QED BY <2>3, <2>4 DEF LastWins
<1>2. HistorySpec => Spec
  <2>1. HistoryInit => Init
    BY DEF HistoryInit
  <2>2. [HistoryNext]_<<vars, missed>> => [Next]_vars
    BY DEF HistoryNext
  <2> QED BY <2>1, <2>2, PTL DEF HistorySpec, Spec
<1>3. Spec => []QuiescentClean
  BY NoMarkerIsLeft DEF Forward
<1>4. HistorySpec => []WinInv
  BY WinHolds
<1> QED BY <1>1, <1>2, <1>3, <1>4, PTL
-----------------------------------------------------------------------------
(* The outcomes have a serial explanation. *)

(* The decided operations in some order, and what the cells hold after each. *)
Story(order, m) ==
  /\ IsFiniteSet(Winner) /\ order \in SetToSeqs(Winner)
  /\ m = [n \in 0 .. Len(order) |->
            IF n = 0 THEN InitialMemory ELSE Replayed(m[n - 1], order[n])]
  /\ m[Len(order)] = LogicalMemory

Told == \E order, m : Story(order, m)

(* An order of a finite set is a sequence of its elements. *)
LEMMA Orders ==
  ASSUME NEW S, IsFiniteSet(S), NEW order \in SetToSeqs(S)
  PROVE  /\ Len(order) \in Nat /\ Len(order) = Cardinality(S)
         /\ order \in [1 .. Len(order) -> S]
         /\ \A i, j \in 1 .. Len(order) : i # j => order[i] # order[j]
<1>1. Cardinality(S) \in Nat
  BY FS_CardinalityType
<1>2. order \in [1 .. Cardinality(S) -> S]
  BY DEF SetToSeqs
<1>3. order \in Seq(S) /\ Len(order) = Cardinality(S)
  BY <1>1, <1>2
<1> QED BY <1>1, <1>2, <1>3 DEF SetToSeqs

(* Replay computes the contents after the last call of the story. *)
LEMMA ReplayIs ==
  ASSUME NEW order, Len(order) \in Nat, NEW m,
         m = [n \in 0 .. Len(order) |->
               IF n = 0 THEN InitialMemory ELSE Replayed(m[n - 1], order[n])]
  PROVE  Replay(order) = m[Len(order)]
<1> DEFINE F(f) == f = [n \in 0 .. Len(order) |->
                        IF n = 0 THEN InitialMemory ELSE Replayed(f[n - 1], order[n])]
           r == CHOOSE f : F(f)
           Differ == {n \in 0 .. Len(order) : r[n] # m[n]}
<1>1. F(r)
  <2>1. F(m)
    OBVIOUS
  <2> HIDE DEF F
  <2> QED BY <2>1
<1>2. Replay(order) = r[Len(order)]
  BY DEF Replay
<1> HIDE DEF r
<1>3. /\ r[0] = InitialMemory /\ m[0] = InitialMemory
      /\ \A n \in 1 .. Len(order) : /\ r[n] = Replayed(r[n - 1], order[n])
                                   /\ m[n] = Replayed(m[n - 1], order[n])
  <2>1. 0 \in 0 .. Len(order) /\ \A n \in 1 .. Len(order) : n \in 0 .. Len(order) /\ n # 0
    OBVIOUS
  <2> HIDE DEF Differ
  <2> QED BY <1>1, <2>1
<1>4. Differ = {}
  <2> SUFFICES ASSUME Differ # {} PROVE FALSE
    OBVIOUS
  <2> DEFINE R == OpToRel(<, Nat)
  <2>1. IsWellFoundedOn(R, Nat)
    BY NatLessThanWellFounded, Zenon
  <2>2. \A x, y \in Nat : x < y => <<x, y>> \in R
    BY DEF OpToRel
  <2> HIDE DEF R
  <2>3. PICK n \in Differ : \A k \in Differ : <<k, n>> \notin R
    <3>1. Differ \subseteq Nat
      OBVIOUS
    <3> HIDE DEF Differ
    <3> QED BY <2>1, <3>1, WFMin
  <2>4. n \in 0 .. Len(order) /\ r[n] # m[n]
    BY <2>3
  <2>5. n # 0
    BY <1>3, <2>4
  <2>6. n - 1 \in 0 .. Len(order) /\ n - 1 \in Nat /\ n \in Nat /\ n - 1 < n /\ n \in 1 .. Len(order)
    BY <2>4, <2>5
  <2>7. r[n - 1] = m[n - 1]
    <3>1. n - 1 \notin Differ
      BY <2>2, <2>3, <2>6
    <3> QED BY <2>6, <3>1
  <2> QED BY <1>3, <2>4, <2>6, <2>7
<1>5. Len(order) \in 0 .. Len(order)
  OBVIOUS
<1>6. r[Len(order)] = m[Len(order)]
  BY <1>4, <1>5
<1> QED BY <1>2, <1>6

(* Replaying an operation depends on its own words only. *)
LEMMA ReplayedKept ==
  ASSUME NEW t \in Thread, NEW cells,
         target'[t] = target[t], expected'[t] = expected[t], desired'[t] = desired[t]
  PROVE  Replayed(cells, t)' = Replayed(cells, t)
BY DEF Replayed

(* A step that decides nothing leaves the story as it is. *)
LEMMA StoryKept ==
  ASSUME NEW order, NEW m, Story(order, m), Winner' = Winner, LogicalMemory' = LogicalMemory,
         \A u \in Winner : /\ target'[u] = target[u] /\ expected'[u] = expected[u]
                           /\ desired'[u] = desired[u]
  PROVE  Story(order, m)'
<1>1. /\ IsFiniteSet(Winner) /\ order \in SetToSeqs(Winner) /\ Winner \subseteq Thread
      /\ Len(order) \in Nat /\ order \in [1 .. Len(order) -> Winner]
  BY Orders DEF Story, Winner
<1>2. ASSUME NEW n \in 0 .. Len(order), n # 0
      PROVE  Replayed(m[n - 1], order[n])' = Replayed(m[n - 1], order[n])
  <2>1. order[n] \in Winner
    BY <1>1, <1>2
  <2> QED BY <1>1, <2>1, ReplayedKept
<1>3. m = [n \in 0 .. Len(order) |->
            IF n = 0 THEN InitialMemory ELSE Replayed(m[n - 1], order[n])]
  BY DEF Story
<1>4. m = [n \in 0 .. Len(order) |->
            IF n = 0 THEN InitialMemory ELSE Replayed(m[n - 1], order[n])']
  BY <1>2, <1>3
<1> QED BY <1>1, <1>4 DEF Story

(* The decision for an operation is its turn in the story. *)
LEMMA DecisionReplays ==
  ASSUME Forward, LinearInv, NEW t \in Thread, Step(t), DecidesToSet(t),
         NEW cells, cells = LogicalMemory
  PROVE  \E o \in Thread :
           /\ o \notin Winner /\ Winner' = Winner \cup {o}
           /\ Replayed(cells, o)' = LogicalMemory'
<1> USE DEF LinearInv, OneCallInv
<1>1. PICK o : frame[t].op.owner = o
  OBVIOUS
<1>2. /\ o \in Thread /\ Started(o) /\ ss[o].stage = "Claiming"
      /\ ss' = [ss EXCEPT ![o].stage = "Setting"] /\ ss \in StageSeq
      /\ \A w \in Word : /\ LogicalMemory[target[o][w]] = expected[o][w]
                        /\ LogicalMemory'[target[o][w]] = desired[o][w]
      /\ \A x \in Address : (\A w \in Word : target[o][w] # x) =>
           LogicalMemory'[x] = LogicalMemory[x]
  BY <1>1, DecisionApplies, FrameFacts
<1>3. target'[o] = target[o] /\ expected'[o] = expected[o] /\ desired'[o] = desired[o]
  BY <1>2, ArraysKept
<1>4. o \notin Winner
  BY <1>2 DEF Winner, Won, OnlyCall
<1>5. Winner' = Winner \cup {o}
  <2>1. Won(o)'
    <3>1. ss'[o].stage = "Setting"
      BY <1>2 DEF StageSeq
    <3> QED BY <3>1 DEF Won
  <2>2. ASSUME NEW u \in Thread, Won(u) PROVE Won(u)'
    BY <2>2, WonStays DEF Forward
  <2>3. ASSUME NEW u \in Thread, Won(u)', ~Won(u) PROVE u = o
    <3>1. frame[t].op = First(u)
      BY <2>3, WinsByDecision
    <3> QED BY <1>1, <3>1 DEF First
  <2> QED BY <1>2, <2>1, <2>2, <2>3 DEF Winner
<1>6. Replayed(cells, o)' = LogicalMemory'
  <2>1. Replayed(cells, o)' = Replayed(cells, o)
    BY <1>2, <1>3, ReplayedKept
  <2>2. ASSUME NEW x \in Address PROVE Replayed(cells, o)[x] = LogicalMemory'[x]
    <3>1. CASE \E w \in Word : target[o][w] = x
      <4>1. PICK w \in Word : w = CHOOSE v \in Word : target[o][v] = x
        BY <3>1
      <4>2. target[o][w] = x
        BY <3>1, <4>1
      <4>3. \E v \in Word : target[o][v] = x /\ cells[x] = expected[o][v]
        BY <1>2, <4>2
      <4>4. Replayed(cells, o)[x] = desired[o][w]
        BY <4>1, <4>3 DEF Replayed
      <4> QED BY <1>2, <4>2, <4>4
    <3>2. CASE ~\E w \in Word : target[o][w] = x
      <4>1. Replayed(cells, o)[x] = cells[x]
        BY <3>2 DEF Replayed
      <4> QED BY <1>2, <3>2, <4>1
    <3> QED BY <3>1, <3>2
  <2>3. LogicalMemory' = [x \in Address |-> LogicalMemory'[x]]
    BY DEF LogicalMemory
  <2>4. Replayed(cells, o) = [x \in Address |-> Replayed(cells, o)[x]]
    BY DEF Replayed
  <2> QED BY <2>1, <2>2, <2>3, <2>4
<1> QED BY <1>2, <1>4, <1>5, <1>6

LEMMA ToldNext ==
  ASSUME Forward, LinearInv, Told, NEW t \in Thread, Call(t) \/ Step(t)
  PROVE  Told'
<1> USE DEF LinearInv, OneCallInv
<1>1. PICK order, m : Story(order, m)
  BY DEF Told
<1>2. /\ IsFiniteSet(Winner) /\ Winner \subseteq Thread
      /\ Len(order) \in Nat /\ Len(order) = Cardinality(Winner)
      /\ order \in [1 .. Len(order) -> Winner]
      /\ \A i, j \in 1 .. Len(order) : i # j => order[i] # order[j]
  BY <1>1, Orders DEF Story, Winner
<1>3. \A u \in Winner : /\ target'[u] = target[u] /\ expected'[u] = expected[u]
                        /\ desired'[u] = desired[u]
  BY WonStarted, ArraysKept DEF Winner
<1>4. CASE ~DecidesToSet(t)
  <2>1. LogicalMemory' = LogicalMemory
    BY <1>4, OthersSeeNothing
  <2>2. ASSUME NEW u \in Thread PROVE Won(u)' <=> Won(u)
    BY <1>4, WonStays, WinsByDecision DEF Forward, DecidesToSet
  <2>3. Winner' = Winner
    BY <2>2 DEF Winner
  <2> QED BY <1>1, <1>3, <2>1, <2>3, StoryKept DEF Told
<1>5. CASE DecidesToSet(t)
  <2>1. Step(t)
    BY <1>5 DEF DecidesToSet, Decides, Call
  <2>2. PICK cells : cells = LogicalMemory
    OBVIOUS
  <2>3. PICK o \in Thread : /\ o \notin Winner /\ Winner' = Winner \cup {o}
                            /\ Replayed(cells, o)' = LogicalMemory'
    BY <1>5, <2>1, <2>2, DecisionReplays
  <2>4. PICK cells2 : cells2 = LogicalMemory'
    OBVIOUS
  <2> DEFINE k == Len(order) + 1
             order2 == [n \in 1 .. k |-> IF n = k THEN o ELSE order[n]]
             m2 == [n \in 0 .. k |-> IF n = k THEN cells2 ELSE m[n]]
  <2>5. k \in Nat \ {0} /\ Len(order2) = k
    <3>1. k \in Nat \ {0}
      BY <1>2
    <3>2. order2 \in Seq({o} \cup Winner)
      BY <1>2, <3>1
    <3> QED BY <1>2, <3>1, <3>2
  <2>6. IsFiniteSet(Winner)' /\ Cardinality(Winner)' = k
    BY <1>2, <2>3, FS_AddElement
  <2>7. order2 \in SetToSeqs(Winner)'
    <3>1. \A n \in 1 .. k : n # k => n \in 1 .. Len(order) /\ order[n] \in Winner
      BY <1>2, <2>5
    <3>2. order2 \in [1 .. k -> Winner']
      BY <2>3, <3>1
    <3>3. \A i, j \in 1 .. k : i # j => order2[i] # order2[j]
      BY <1>2, <2>3, <3>1
    <3> HIDE DEF order2, k
    <3> QED BY <2>6, <3>2, <3>3 DEF SetToSeqs
  <2>8. /\ m2[0] = InitialMemory /\ m2[k] = cells2
        /\ \A n \in 1 .. k : m2[n] = Replayed(m2[n - 1], order2[n])'
    <3>1. /\ m[0] = InitialMemory /\ m[Len(order)] = cells
          /\ \A n \in 1 .. Len(order) : m[n] = Replayed(m[n - 1], order[n])
      <4>1. 0 \in 0 .. Len(order) /\ \A n \in 1 .. Len(order) : n \in 0 .. Len(order) /\ n # 0
        BY <1>2
      <4> QED BY <1>1, <2>2, <4>1 DEF Story
    <3>2. m2[0] = InitialMemory /\ m2[k] = cells2
      BY <2>5, <3>1
    <3>3. ASSUME NEW n \in 1 .. k, n # k PROVE m2[n] = Replayed(m2[n - 1], order2[n])'
      <4>1. n \in 1 .. Len(order) /\ n - 1 \in 0 .. k /\ n - 1 # k
        BY <1>2, <3>3
      <4>2. m2[n] = m[n] /\ m2[n - 1] = m[n - 1] /\ order2[n] = order[n] /\ order[n] \in Winner
        BY <1>2, <3>3, <4>1
      <4>3. Replayed(m[n - 1], order[n])' = Replayed(m[n - 1], order[n])
        BY <1>2, <1>3, <4>2, ReplayedKept
      <4> HIDE DEF m2, order2, k
      <4> QED BY <3>1, <4>1, <4>2, <4>3
    <3>4. m2[k] = Replayed(m2[k - 1], order2[k])'
      <4>1. k - 1 = Len(order) /\ k - 1 \in 0 .. k /\ k - 1 # k /\ k \in 1 .. k
        BY <1>2
      <4>2. m2[k - 1] = cells /\ order2[k] = o
        BY <3>1, <4>1
      <4> HIDE DEF m2, order2, k
      <4> QED BY <2>3, <2>4, <3>2, <4>2
    <3> HIDE DEF m2, order2
    <3> QED BY <3>2, <3>3, <3>4
  <2>9. m2 = [n \in 0 .. k |-> IF n = 0 THEN InitialMemory ELSE Replayed(m2[n - 1], order2[n])']
    <3>1. m2 = [n \in 0 .. k |-> m2[n]]
      OBVIOUS
    <3> HIDE DEF m2, order2
    <3>2. \A n \in 0 .. k : n = 0 \/ n \in 1 .. k
      BY <2>5
    <3> QED BY <2>8, <3>1, <3>2
  <2>10. Story(order2, m2)'
    <3> HIDE DEF m2, order2, k
    <3> QED BY <2>4, <2>5, <2>6, <2>7, <2>8, <2>9 DEF Story
  <2> QED BY <2>10 DEF Told
<1> QED BY <1>4, <1>5

(* At every moment there is an order of the operations decided for in which *)
(* each finds its expected values and makes the cells what they stand for.  *)
THEOREM WinnersAlwaysExplain ==
  ASSUME Forward
  PROVE  HistorySpec => []WinnersExplain
<1>1. HistoryInit => Told
  <2> SUFFICES ASSUME HistoryInit PROVE Told
    OBVIOUS
  <2>1. Winner = {}
    <3>1. \A t \in Thread : ss[t].stage = "Inactive" /\ ss[t].seq = 0
      BY DEF HistoryInit, Init
    <3>2. ASSUME NEW t \in Thread PROVE ~(ss[t].seq > 0)
      <4>1. ss[t].seq = 0
        BY <3>1
      <4> QED BY <4>1
    <3> QED BY <3>1, <3>2 DEF Winner, Won
  <2>2. IsFiniteSet(Winner) /\ Cardinality(Winner) = 0
    BY <2>1, FS_EmptySet
  <2> DEFINE order == << >>
             m == [n \in 0 .. 0 |-> InitialMemory]
  <2>3. order \in SetToSeqs(Winner) /\ Len(order) = 0
    BY <2>1, <2>2 DEF SetToSeqs
  <2>4. LogicalMemory = InitialMemory
    BY KCasAssumption, ConstantFacts DEF HistoryInit, Init, LogicalMemory
  <2>5. m = [n \in 0 .. 0 |-> IF n = 0 THEN InitialMemory ELSE Replayed(m[n - 1], order[n])]
    BY \A n \in 0 .. 0 : n = 0
  <2>6. m[0] = InitialMemory
    OBVIOUS
  <2> HIDE DEF order, m
  <2>7. Story(order, m)
    BY <2>2, <2>3, <2>4, <2>5, <2>6 DEF Story
  <2> QED BY <2>7 DEF Told
<1>2. LinearInv /\ Told /\ [HistoryNext]_<<vars, missed>> => Told'
  <2> SUFFICES ASSUME LinearInv, Told, [HistoryNext]_<<vars, missed>> PROVE Told'
    OBVIOUS
  <2>1. CASE UNCHANGED vars
    <3>1. PICK order, m : Story(order, m)
      BY DEF Told
    <3>2. LogicalMemory' = LogicalMemory /\ Winner' = Winner
      BY <2>1 DEF vars, LogicalMemory, Meaning, Winner, Won
    <3>3. UNCHANGED <<target, expected, desired>>
      BY <2>1 DEF vars
    <3>4. Story(order, m)'
      BY <3>1, <3>2, <3>3, StoryKept
    <3> QED BY <3>4 DEF Told
  <2> QED BY <2>1, ToldNext DEF HistoryNext, Next, Finished
<1>3. Told => WinnersExplain
  <2> SUFFICES ASSUME NEW order, NEW m, Story(order, m) PROVE WinnersExplain
    BY DEF Told
  <2>1. order \in SetToSeqs(Winner) /\ Len(order) \in Nat /\ Replay(order) = m[Len(order)]
    BY Orders, ReplayIs DEF Story
  <2> QED BY <2>1 DEF Story, WinnersExplain
<1>4. HistorySpec => []LinearInv
  BY LinearHolds
<1> QED BY <1>1, <1>2, <1>3, <1>4, PTL DEF HistorySpec

(* What the calls returned has a serial explanation when all are over:      *)
(* those that returned Ok, one after the other in some order, each finding  *)
(* its expected values, give what is in the cells.  This does not mention   *)
(* markers or stages.                                                       *)
THEOREM OutcomesAlwaysExplained ==
  ASSUME Forward
  PROVE  HistorySpec => []OutcomesExplained
<1>1. WinInv /\ QuiescentClean /\ WinnersExplain => OutcomesExplained
  <2> SUFFICES ASSUME WinInv, QuiescentClean, WinnersExplain, Over
               PROVE  \E order \in SetToSeqs({t \in Thread : result[t] = "Ok"}) :
                        Replay(order) = memory
    BY DEF OutcomesExplained
  <2> USE DEF WinInv, LinearInv, OneCallInv
  <2>1. ASSUME NEW t \in Thread PROVE Won(t) <=> result[t] = "Ok"
    <3>1. ss[t].stage = "Inactive"
      BY FrameFacts DEF Over, FrameOK, RoleOK
    <3>2. result[t] = "Ok" => ss[t].seq > 0
      BY DEF Reported, Outcome
    <3> QED BY <3>1, <3>2 DEF Won
  <2>2. Winner = {t \in Thread : result[t] = "Ok"}
    BY <2>1 DEF Winner
  <2>3. LogicalMemory = memory
    <3>1. \A x \in Address : memory[x] \in Value
      BY DEF QuiescentClean, Over
    <3>2. \A x \in Address : LogicalMemory[x] = memory[x]
      BY <3>1, MarkersRead, ConstantFacts DEF ReadsRight
    <3>3. LogicalMemory = [x \in Address |-> LogicalMemory[x]]
      BY DEF LogicalMemory
    <3>4. memory = [x \in Address |-> memory[x]]
      BY DEF ProtocolInv, TypeOK
    <3> QED BY <3>2, <3>3, <3>4
  <2> QED BY <2>2, <2>3 DEF WinnersExplain
<1>2. HistorySpec => Spec
  <2>1. HistoryInit => Init
    BY DEF HistoryInit
  <2>2. [HistoryNext]_<<vars, missed>> => [Next]_vars
    BY DEF HistoryNext
  <2> QED BY <2>1, <2>2, PTL DEF HistorySpec, Spec
<1>3. Spec => []QuiescentClean
  BY NoMarkerIsLeft DEF Forward
<1>4. HistorySpec => []WinInv
  BY WinHolds
<1>5. HistorySpec => []WinnersExplain
  BY WinnersAlwaysExplain
<1> QED BY <1>1, <1>2, <1>3, <1>4, <1>5, PTL
=============================================================================
