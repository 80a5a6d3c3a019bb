------------------------- MODULE WrappedKCasProofs -------------------------
(* Passing thread ids from wrapper to wrapper makes no difference to kcas, *)
(* as long as no call ends in a fatal error: proofs for every number of    *)
(* clients and thread ids and for every program of legal values.           *)
EXTENDS WrappedKCas, KCasProofs

NeverFatal == \A t \in Thread : frame[t].pc \notin {"fatal", "halted"}

WrappedInv == ProtocolInv /\ NeverFatal

(* What a step leaves its thread in is not a fatal error for its value. *)
Harmless(g) == g.pc # "halted" /\ (g.pc = "fatal" => g.after # "TopBitsOfValueWereIllegal")

LEMMA HarmlessAfterStageChange ==
  ASSUME NEW op, NEW actual \in [stage : Stage, seq : Nat], NEW helping \in BOOLEAN
  PROVE  /\ Harmless(AfterVerifyError(op, actual, helping))
         /\ Harmless(AfterStageCasFailed(op, actual, helping))
<1>1. Harmless(AfterStageChange(op, actual.stage, helping))
  BY DEF AfterStageChange, Stage, Harmless, Fatal, Revert, At
<1>2. Harmless(Revert(op, LastWord, HelpReturn))
  BY DEF Harmless, Revert, At
<1>3. Harmless(Fatal(op, "SequenceNumChangedByNonOriginatingThread"))
  BY DEF Harmless, Fatal, At
<1>4. Harmless(Revert(op, LastWord, "SequenceNumChangedByNonOriginatingThread"))
  BY DEF Harmless, Revert, At
<1> HIDE DEF Harmless
<1>5. Harmless(AfterVerifyError(op, actual, helping))
  BY <1>1, <1>2, <1>3 DEF AfterVerifyError
<1>6. Harmless(AfterStageCasFailed(op, actual, helping))
  BY <1>1, <1>2, <1>4 DEF AfterStageCasFailed
<1> QED BY <1>5, <1>6

(* A thread comes to a fatal error by an illegal value or by one of the    *)
(* errors that ProtocolInv excludes.                                       *)
LEMMA HarmlessStep ==
  ASSUME WrappedInv, IllegalValue = {}, NEW t \in Thread, Call(t) \/ Step(t)
  PROVE  /\ \A u \in Thread \ {t} : frame'[u] = frame[u]
         /\ Harmless(frame'[t])
<1> DEFINE f == frame[t]
<1>1. /\ frame \in [Thread -> Frame] /\ f \in Frame /\ Helping(t) \in BOOLEAN
      /\ ss \in [Thread -> [stage : Stage, seq : Nat]]
      /\ LocalsOK(f) /\ f.pc \notin {"fatal", "halted"}
  BY FrameFacts DEF WrappedInv, NeverFatal, FrameOK, ProtocolInv, TypeOK
<1>2. f.pc \notin NoOpPC => f.op.owner \in Thread
  BY FrameFacts DEF WrappedInv
<1>3. ASSUME NEW g, Harmless(g), frame' = [frame EXCEPT ![t] = g]
      PROVE  (\A u \in Thread \ {t} : frame'[u] = frame[u]) /\ Harmless(frame'[t])
  BY <1>1, <1>3
<1>4. CASE Call(t) \/ StoreTarget(t) \/ StoreExpected(t) \/ StoreDesired(t) \/ Publish(t) \/ Prepare(t)
  BY <1>1, <1>4 DEF Call, StoreTarget, StoreExpected, StoreDesired, Publish, Prepare, Harmless,
                    At, Frame
<1>5. CASE ClaimTarget(t) \/ SetTarget(t) \/ RevertTarget(t)
  <2>1. PICK here \in PC, next \in {"claimExpected", "setDesired", "revertExpected"} :
          LoadTarget(t, here, next)
    BY <1>5 DEF ClaimTarget, SetTarget, RevertTarget, PC
  <2> DEFINE x == target[f.op.owner][f.word]
             g == [f EXCEPT !.pc = next, !.addr = x]
  <2>2. Harmless(Fatal(f.op, "TargetAddressWasNotValidPointer")) /\ Harmless(g)
    BY <1>1 DEF Harmless, Fatal, At, Frame
  <2>3. \/ frame' = [frame EXCEPT ![t] = g]
        \/ frame' = [frame EXCEPT ![t] = Fatal(f.op, "TargetAddressWasNotValidPointer")]
    BY <2>1 DEF LoadTarget
  <2> QED BY <1>3, <2>2, <2>3
<1>6. CASE ClaimExpected(t) \/ SetDesired(t) \/ RevertExpected(t)
  BY <1>1, <1>6 DEF ClaimExpected, SetDesired, RevertExpected, LoadValue, Harmless, Frame
<1>7. CASE ClaimCas(t)
  BY <1>1, <1>7 DEF ClaimCas, AfterClaim, Harmless, At, Frame
<1>8. CASE ClaimVerify(t)
  <2>1. Harmless(AfterVerifyError(f.op, ss[f.op.owner], Helping(t)))
    BY <1>1, <1>2, <1>8, HarmlessAfterStageChange DEF ClaimVerify, NoOpPC, StorePC
  <2>2. \/ frame' = [frame EXCEPT ![t] = AfterVerifyError(f.op, ss[f.op.owner], Helping(t))]
        \/ frame' = [frame EXCEPT ![t] = At("stageCas", f.op, f.word, "Reverting")]
        \/ frame' = [frame EXCEPT ![t] = [f EXCEPT !.pc = "helpLoad"]]
    BY <1>8 DEF ClaimVerify
  <2>3. Harmless(At("stageCas", f.op, f.word, "Reverting")) /\ Harmless([f EXCEPT !.pc = "helpLoad"])
    BY <1>1 DEF Harmless, At, Frame
  <2> QED BY <1>3, <2>1, <2>2, <2>3
<1>9. CASE HelpThread(t)
  <2> DEFINE stage == ss[f.seen.owner].stage
             suspended == [f EXCEPT !.pc = "claimCas", !.seen = Null]
  <2>1. f.seen.owner \in Thread /\ stage \in Stage
    BY <1>1, <1>9 DEF HelpThread, LocalsOK, Marker
  <2>2. Harmless(suspended)
    BY <1>1 DEF Harmless, Frame
  <2>3. stage \notin {"Successful", "Reverted"} => Harmless(HelpFrame(f.seen, stage))
    BY <2>1 DEF HelpFrame, Stage, Harmless, Fatal, Revert, At
  <2>4. \/ frame' = [frame EXCEPT ![t] = suspended]
        \/ /\ stage \notin {"Successful", "Reverted"}
           /\ frame' = [frame EXCEPT ![t] = HelpFrame(f.seen, stage)]
    BY <1>9 DEF HelpThread
  <2> QED BY <1>3, <2>2, <2>3, <2>4
<1>10. CASE HelpDone(t)
  <2> DEFINE g == stack[t][Len(stack[t])]
  <2>1. frame' = [frame EXCEPT ![t] = g] /\ f.pc = HelpReturn
    BY <1>10 DEF HelpDone
  <2>2. stack[t] \in Seq(Frame) /\ stack[t] # <<>>
    BY <2>1, FrameFacts DEF WrappedInv, ProtocolInv, TypeOK, FrameOK, RoleOK, Helping
  <2>3. Len(stack[t]) \in 1 .. Len(stack[t])
    BY <2>2
  <2>4. g.pc = "claimCas"
    BY <2>3 DEF WrappedInv, ProtocolInv, FramesOK, StackOK
  <2> QED BY <1>3, <2>1, <2>4 DEF Harmless
<1>11. CASE StageCas(t)
  <2>1. Harmless(AfterStageCasFailed(f.op, ss[f.op.owner], Helping(t)))
    BY <1>1, <1>2, <1>11, HarmlessAfterStageChange DEF StageCas, NoOpPC, StorePC
  <2>2. Harmless(AfterStageCasDone(f, Helping(t)))
    BY <1>1, <1>11 DEF StageCas, LocalsOK, AfterStageCasDone, Harmless, Revert, At, HelpReturn
  <2> QED BY <1>3, <1>11, <2>1, <2>2 DEF StageCas
<1>12. CASE SetCas(t) \/ SetVerify(t)
  <2>1. f.pc \notin NoOpPC
    BY <1>12 DEF SetCas, SetVerify, NoOpPC, StorePC
  <2>2. Harmless(AfterVerifyError(f.op, ss[f.op.owner], Helping(t)))
    BY <1>1, <1>2, <2>1, HarmlessAfterStageChange
  <2>3. Harmless(AfterSet(f, Helping(t))) /\ Harmless(At("setVerify", f.op, f.word, Null))
    BY <1>1 DEF AfterSet, Harmless, At
  <2> QED BY <1>3, <1>12, <2>2, <2>3 DEF SetCas, SetVerify
<1>13. CASE RevertCas(t)
  <2>1. f.after \in Outcome \cup {"Reverted", HelpReturn}
    BY <1>1, <1>13 DEF RevertCas, LocalsOK, RevertPC
  <2>2. Harmless(AfterRevert(f))
    BY <2>1 DEF AfterRevert, Harmless, Fatal, At, HelpReturn
  <2> QED BY <1>3, <1>13, <2>2 DEF RevertCas
<1>14. CASE ReturnFatal(t)
  BY <1>1, <1>14 DEF ReturnFatal
<1> QED BY <1>4, <1>5, <1>6, <1>7, <1>8, <1>9, <1>10, <1>11, <1>12, <1>13, <1>14 DEF Step
-----------------------------------------------------------------------------
(* A dropped wrapper's thread is idle already: nothing of KCas changes. *)
LEMMA DropChangesNothing ==
  ASSUME WrappedInv, NEW c \in Client, NEW t \in Thread, Drop(c, t)
  PROVE  UNCHANGED vars
<1>1. frame[t] \in Frame /\ frame \in [Thread -> Frame] /\ frame[t].pc = "idle"
  BY FrameFacts DEF WrappedInv, NeverFatal, Drop, ProtocolInv, TypeOK
<1>2. [frame[t] EXCEPT !.pc = "idle"] = frame[t]
  BY <1>1 DEF Frame
<1>3. [frame EXCEPT ![t].pc = "idle"] = frame
  BY <1>1, <1>2
<1> QED BY <1>3 DEF Drop, vars, shared

LEMMA WrappedStep ==
  ASSUME WrappedInv, IllegalValue = {}, [WrappedNext]_wrappedVars
  PROVE  [Next]_vars /\ WrappedInv'
<1>1. CASE UNCHANGED vars
  <2>1. ProtocolInv'
    BY <1>1, StutterOK DEF WrappedInv
  <2> QED BY <1>1, <2>1 DEF WrappedInv, NeverFatal, vars
<1>2. ASSUME NEW t \in Thread, Call(t) \/ Step(t) PROVE [Next]_vars /\ WrappedInv'
  <2>1. Next
    BY <1>2 DEF Next
  <2>2. ProtocolInv'
    BY <2>1, NextOK DEF WrappedInv
  <2>3. (\A u \in Thread \ {t} : frame'[u] = frame[u]) /\ Harmless(frame'[t])
    BY <1>2, HarmlessStep
  <2>4. LocalsOK(frame'[t])
    BY <2>2 DEF ProtocolInv, FramesOK, FrameOK
  <2>5. frame'[t].pc \notin {"fatal", "halted"}
    BY <2>3, <2>4 DEF Harmless, LocalsOK
  <2>6. NeverFatal'
    BY <2>3, <2>5 DEF WrappedInv, NeverFatal
  <2> QED BY <2>1, <2>2, <2>6 DEF WrappedInv
<1>3. ASSUME NEW c \in Client, NEW t \in Thread, Construct(c, t) \/ Drop(c, t) PROVE UNCHANGED vars
  BY <1>3, DropChangesNothing DEF Construct
<1>4. CASE UNCHANGED wrappedVars
  BY <1>1, <1>4 DEF wrappedVars, vars
<1> QED BY <1>1, <1>2, <1>3, <1>4 DEF WrappedNext, WrapperKcas

LEMMA WrappedStart == WrappedInit => Init /\ WrappedInv
BY InitOK DEF WrappedInit, WrappedInv, NeverFatal, Init, At

(* However wrappers are constructed and dropped, and whoever still helps    *)
(* calls of a wrapper that is gone, kcas does what it does with threads     *)
(* that keep their ids: all that holds of KCas carries over.                *)
THEOREM WrappersImplementKCas == IllegalValue = {} => (WrappedSpec => ImplementsKCas)
<1> SUFFICES ASSUME IllegalValue = {} PROVE WrappedSpec => ImplementsKCas
  OBVIOUS
<1>1. WrappedInv /\ [WrappedNext]_wrappedVars => [Next]_vars /\ WrappedInv'
  BY WrappedStep
<1> QED BY <1>1, WrappedStart, PTL DEF WrappedSpec, ImplementsKCas, Spec

(* Whatever operation of a thread id is the next one, nothing in the State, *)
(* in a cell or in a thread's locals is of it before it begins.             *)
THEOREM ReusedIdsStartAfresh == IllegalValue = {} => (WrappedSpec => []NextMarkerIsFresh)
<1> SUFFICES ASSUME IllegalValue = {} PROVE WrappedSpec => []NextMarkerIsFresh
  OBVIOUS
<1>1. WrappedInv /\ [WrappedNext]_wrappedVars => WrappedInv'
  BY WrappedStep
<1>2. WrappedInv => NextMarkerIsFresh
  <2> SUFFICES ASSUME ProtocolInv, NEW t \in Thread, frame[t].pc = "idle"
               PROVE  LET next == [owner |-> t, seq |-> ss[t].seq] IN
                      /\ ss[t].stage = "Inactive"
                      /\ \A x \in Address : memory[x] # next
                      /\ \A u \in Thread :
                           /\ frame[u].op # Null => next \notin {frame[u].op, frame[u].seen}
                           /\ \A i \in 1 .. Len(stack[u]) : stack[u][i].op # next
    BY DEF WrappedInv, NextMarkerIsFresh
  <2> DEFINE next == [owner |-> t, seq |-> ss[t].seq]
  <2>1. ss[t].stage = "Inactive" /\ ss[t].seq \in Nat
    BY FrameFacts DEF FrameOK, RoleOK, ProtocolInv, TypeOK
  <2>2. next \in Marker /\ next.owner = t /\ next.seq = ss[t].seq
    BY <2>1 DEF Marker
  <2>3. ~Issued(next, ss)
    BY <2>1, <2>2 DEF Issued
  <2> HIDE DEF next
  <2>4. \A x \in Address : memory[x] # next
    BY <2>2, <2>3 DEF ProtocolInv, MarkersIssued
  <2>5. ASSUME NEW u \in Thread, frame[u].op # Null PROVE next \notin {frame[u].op, frame[u].seen}
    BY <2>2, <2>3, <2>5, FrameFacts DEF FrameOK, PhaseOK
  <2>6. ASSUME NEW u \in Thread, NEW i \in 1 .. Len(stack[u]) PROVE stack[u][i].op # next
    <3>1. stack[u][i].pc = "claimCas" /\ LocalsOK(stack[u][i]) /\ PhaseOK(stack[u][i], ss)
      BY DEF ProtocolInv, FramesOK, StackOK
    <3> QED BY <2>3, <3>1 DEF LocalsOK, PhaseOK, NoOpPC, StorePC
  <2> QED BY <2>1, <2>4, <2>5, <2>6 DEF next
<1> QED BY <1>1, <1>2, WrappedStart, PTL DEF WrappedSpec
=============================================================================
