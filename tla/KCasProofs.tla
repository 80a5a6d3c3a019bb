----------------------------- MODULE KCasProofs -----------------------------
(* Proofs of the properties of KCas, for every program, whatever the values *)
(* and addresses: ProtocolInv is inductive, and implies them.               *)
EXTENDS KCasFrames, SequenceTheorems

(* What a thread knows of the frame it is about to take a step in. *)
LEMMA FrameFacts ==
  ASSUME ProtocolInv, NEW t \in Thread
  PROVE  /\ frame[t] \in Frame /\ ss \in StageSeq /\ Helping(t) \in BOOLEAN
         /\ frame[t].pc \notin NoOpPC =>
              /\ frame[t].op # Null /\ frame[t].op \in Marker
              /\ frame[t].op.owner \in Thread /\ Issued(frame[t].op, ss)
              /\ OwnUnlessHelping(t, frame[t].op, Helping(t), ss)
         /\ FrameOK(t, frame[t], Helping(t), ss, words[t])
         /\ ClaimsKept(frame[t], ss, memory, target)
<1>1. frame[t] \in Frame /\ ss \in StageSeq
  BY DEF ProtocolInv, TypeOK, StageSeq
<1>2. FrameOK(t, frame[t], Helping(t), ss, words[t]) /\ ClaimsKept(frame[t], ss, memory, target)
  BY DEF ProtocolInv, FramesOK, EveryClaimKept
<1>3. ASSUME frame[t].pc \notin NoOpPC
      PROVE  /\ frame[t].op # Null /\ frame[t].op \in Marker
             /\ frame[t].op.owner \in Thread /\ Issued(frame[t].op, ss)
             /\ OwnUnlessHelping(t, frame[t].op, Helping(t), ss)
  <2>1. frame[t].op # Null
    BY <1>2, <1>3 DEF FrameOK, LocalsOK
  <2>2. frame[t].op \in Marker /\ frame[t].op.owner \in Thread
    BY <1>1, <2>1 DEF Frame, Marker
  <2> QED BY <1>2, <2>1, <2>2 DEF FrameOK, PhaseOK, RoleOK, OwnUnlessHelping
<1> QED BY <1>1, <1>2, <1>3 DEF Helping

(* A step of t that leaves the cells alone, or takes from them only markers *)
(* of operations that are not being claimed, and goes past the claims.      *)
LEMMA PastClaimsStepOK ==
  ASSUME ProtocolInv, NEW t \in Thread, NEW g,
         UNCHANGED <<shared, ss, words, stack, result>>,
         frame' = [frame EXCEPT ![t] = g],
         PastClaims(t, g, Helping(t), ss, words[t]),
         \/ UNCHANGED memory
         \/ \E x \in Address, v \in Value :
              /\ memory[x] \in Marker => ~Claiming(memory[x], ss)
              /\ memory' = [memory EXCEPT ![x] = v]
  PROVE  ProtocolInv'
<1>1. memory \in [Address -> Value \cup Marker]
  BY DEF ProtocolInv, TypeOK
<1>2. memory' \in [Address -> Value \cup Marker]
  BY <1>1
<1>3. \A x \in Address :
        /\ memory'[x] = memory[x] \/ (memory'[x] \in Marker => Issued(memory'[x], ss))
        /\ memory[x] \in Marker /\ Claiming(memory[x], ss) => memory'[x] = memory[x]
  BY <1>1, ConstantFacts
<1>4. g \in Frame /\ g.op # Null /\ FrameOK(t, g, Helping(t), ss, words[t])
  BY DEF PastClaims
<1>5. ClaimsKept(g, ss, memory', target)
  BY DEF PastClaims, ClaimsKept
<1> QED BY <1>2, <1>3, <1>4, <1>5, LocalStepOK
-----------------------------------------------------------------------------
(* The loads: the target of a published operation is a valid pointer. *)
LEMMA LoadTargetOK ==
  ASSUME ProtocolInv, NEW t \in Thread, NEW here, NEW next,
         <<here, next>> \in {<<"claimTarget", "claimExpected">>, <<"setTarget", "setDesired">>,
                             <<"revertTarget", "revertExpected">>},
         LoadTarget(t, here, next)
  PROVE  ProtocolInv'
<1> DEFINE f == frame[t]
           x == target[f.op.owner][f.word]
           g == [f EXCEPT !.pc = next, !.addr = x]
<1>1. f.pc = here /\ f.pc \notin NoOpPC
  BY DEF LoadTarget, NoOpPC, StorePC
<1>2. /\ f \in Frame /\ ss \in StageSeq /\ f.op \in Marker /\ f.op.owner \in Thread
      /\ Issued(f.op, ss) /\ FrameOK(t, f, Helping(t), ss, words[t])
      /\ ClaimsKept(f, ss, memory, target)
  BY <1>1, FrameFacts
<1>3. x \in Address
  <2>1. ss[f.op.owner].seq > 0 \/ ss[f.op.owner].stage # "Inactive"
    BY <1>2 DEF Issued, Marker, StageSeq
  <2>2. f.word \in Word
    BY <1>2 DEF Frame
  <2>3. x # Null
    BY <1>2, <2>1, <2>2 DEF ProtocolInv, TargetsStored, WordsStored
  <2> QED BY <1>2, <2>2, <2>3 DEF ProtocolInv, TypeOK
<1>4. frame' = [frame EXCEPT ![t] = g]
  BY <1>3, ConstantFacts DEF LoadTarget
<1>5. g \in Frame
  BY <1>2, <1>3 DEF Frame, PC
<1>6. g.pc = next /\ g.addr = x /\ g.op = f.op /\ g.word = f.word /\ g.seen = f.seen /\ g.after = f.after
  BY <1>2 DEF Frame
<1>7. LocalsOK(g)
  BY <1>1, <1>2, <1>3, <1>6 DEF FrameOK, LocalsOK, NoOpPC, StorePC, RevertPC
<1>8. PhaseOK(g, ss)
  BY <1>1, <1>2, <1>6 DEF FrameOK, PhaseOK, SetPC, RevertPC
<1>9. RoleOK(t, g, Helping(t), ss, words[t])
  BY <1>1, <1>2, <1>6 DEF FrameOK, RoleOK, StorePC, RevertPC, HelpReturn
<1>10. ClaimsKept(g, ss, memory, target)
  BY <1>1, <1>2, <1>6 DEF ClaimsKept, ClaimPC
<1>11. /\ UNCHANGED <<shared, ss, words, stack, result>> /\ UNCHANGED memory
       /\ memory \in [Address -> Value \cup Marker] /\ g.op # Null
  BY <1>2, <1>6, ConstantFacts DEF LoadTarget, ProtocolInv, TypeOK
<1> QED BY <1>4, <1>5, <1>7, <1>8, <1>9, <1>10, <1>11, LocalStepOK DEF FrameOK

LEMMA LoadValueOK ==
  ASSUME ProtocolInv, NEW t \in Thread, NEW here, NEW next, NEW v \in Value,
         <<here, next>> \in {<<"claimExpected", "claimCas">>, <<"setDesired", "setCas">>,
                             <<"revertExpected", "revertCas">>},
         LoadValue(t, here, next, v)
  PROVE  ProtocolInv'
<1> DEFINE f == frame[t]
           g == [f EXCEPT !.pc = next, !.val = v]
<1>1. f.pc = here /\ f.pc \notin NoOpPC
  BY DEF LoadValue, NoOpPC, StorePC
<1>2. /\ f \in Frame /\ f.op \in Marker /\ FrameOK(t, f, Helping(t), ss, words[t])
      /\ ClaimsKept(f, ss, memory, target)
  BY <1>1, FrameFacts
<1>3. frame' = [frame EXCEPT ![t] = g]
  <2>1. frame \in [Thread -> Frame]
    BY DEF ProtocolInv, TypeOK
  <2> QED BY <2>1 DEF LoadValue
<1>4. g \in Frame
  BY <1>2 DEF Frame, PC
<1>5. /\ g.pc = next /\ g.val = v /\ g.op = f.op /\ g.word = f.word /\ g.addr = f.addr
      /\ g.seen = f.seen /\ g.after = f.after
  BY <1>2 DEF Frame
<1>6. LocalsOK(g)
  BY <1>1, <1>2, <1>5 DEF FrameOK, LocalsOK, NoOpPC, StorePC, RevertPC
<1>7. PhaseOK(g, ss)
  BY <1>1, <1>2, <1>5 DEF FrameOK, PhaseOK, SetPC, RevertPC
<1>8. RoleOK(t, g, Helping(t), ss, words[t])
  BY <1>1, <1>2, <1>5 DEF FrameOK, RoleOK, StorePC, RevertPC, HelpReturn
<1>9. ClaimsKept(g, ss, memory, target)
  BY <1>1, <1>2, <1>5 DEF ClaimsKept, ClaimPC
<1>10. /\ UNCHANGED <<shared, ss, words, stack, result>> /\ UNCHANGED memory
       /\ memory \in [Address -> Value \cup Marker] /\ g.op # Null
  BY <1>2, <1>5, ConstantFacts DEF LoadValue, ProtocolInv, TypeOK
<1> QED BY <1>3, <1>4, <1>6, <1>7, <1>8, <1>9, <1>10, LocalStepOK DEF FrameOK

LEMMA LoadsOK ==
  ASSUME ProtocolInv, NEW t \in Thread,
         \/ ClaimTarget(t) \/ SetTarget(t) \/ RevertTarget(t)
         \/ ClaimExpected(t) \/ SetDesired(t) \/ RevertExpected(t)
  PROVE  ProtocolInv'
<1>1. CASE ClaimTarget(t)
  BY <1>1, LoadTargetOK DEF ClaimTarget
<1>2. CASE SetTarget(t)
  BY <1>2, LoadTargetOK DEF SetTarget
<1>3. CASE RevertTarget(t)
  BY <1>3, LoadTargetOK DEF RevertTarget
<1>4. frame[t].pc \notin NoOpPC =>
        /\ expected[frame[t].op.owner][frame[t].word] \in Value
        /\ desired[frame[t].op.owner][frame[t].word] \in Value
  <2>1. frame[t].word \in Word
    BY FrameFacts DEF Frame
  <2> QED BY <2>1, FrameFacts DEF ProtocolInv, TypeOK
<1>5. CASE ClaimExpected(t)
  BY <1>4, <1>5, LoadValueOK DEF ClaimExpected, LoadValue, NoOpPC, StorePC
<1>6. CASE SetDesired(t)
  BY <1>4, <1>6, LoadValueOK DEF SetDesired, LoadValue, NoOpPC, StorePC
<1>7. CASE RevertExpected(t)
  BY <1>4, <1>7, LoadValueOK DEF RevertExpected, LoadValue, NoOpPC, StorePC
<1> QED BY <1>1, <1>2, <1>3, <1>5, <1>6, <1>7
-----------------------------------------------------------------------------
(* The steps of claim: only a value is replaced by a marker. *)
LEMMA ClaimCasOK ==
  ASSUME ProtocolInv, NEW t \in Thread, ClaimCas(t)
  PROVE  ProtocolInv'
<1> DEFINE f == frame[t]
<1> USE ConstantFacts
<1>1. f.pc = "claimCas" /\ f.pc \notin NoOpPC
  BY DEF ClaimCas, NoOpPC, StorePC
<1>2. /\ f \in Frame /\ ss \in StageSeq /\ f.op \in Marker /\ f.op # Null /\ Issued(f.op, ss)
      /\ FrameOK(t, f, Helping(t), ss, words[t]) /\ ClaimsKept(f, ss, memory, target)
      /\ Helping(t) \in BOOLEAN
  BY <1>1, FrameFacts
<1>3. f.addr \in Address /\ f.val \in Value
  BY <1>1, <1>2 DEF FrameOK, LocalsOK
<1>4. memory \in [Address -> Value \cup Marker]
  BY DEF ProtocolInv, TypeOK
<1>5. UNCHANGED <<shared, ss, words, stack, result>>
  BY DEF ClaimCas
<1>6. CASE memory[f.addr] = f.val /\ memory' = [memory EXCEPT ![f.addr] = f.op]
           /\ frame' = [frame EXCEPT ![t] = AfterClaim(f)]
  <2>1. memory' \in [Address -> Value \cup Marker] /\ memory'[f.addr] = f.op
    BY <1>2, <1>3, <1>4, <1>6
  <2>2. \A x \in Address :
          /\ memory'[x] = memory[x] \/ (memory'[x] \in Marker => Issued(memory'[x], ss))
          /\ memory[x] \in Marker /\ Claiming(memory[x], ss) => memory'[x] = memory[x]
    BY <1>2, <1>3, <1>4, <1>6
  <2>3. ClaimsKept(f, ss, memory', target)
    <3>1. Edges(ss, ss) /\ PhaseOK(f, ss)
      BY <1>2 DEF Edges, FrameOK
    <3>2. \A u \in Thread : ss[u].stage # "Inactive" => \A w \in Word : target[u][w] # Null
      BY DEF ProtocolInv, TargetsStored, WordsStored
    <3>3. target \in [Thread -> [Word -> Address \cup {Null}]]
      BY DEF ProtocolInv, TypeOK
    <3> QED BY <1>2, <2>2, <3>1, <3>2, <3>3, ClaimsStable
  <2>4. /\ AfterClaim(f) \in Frame /\ AfterClaim(f).op # Null
        /\ FrameOK(t, AfterClaim(f), Helping(t), ss, words[t])
        /\ ClaimsKept(AfterClaim(f), ss, memory', target)
    BY <1>1, <1>2, <2>1, <2>3, AfterClaimFrame
  <2> QED BY <1>5, <1>6, <2>1, <2>2, <2>4, LocalStepOK
<1>7. CASE memory[f.addr] = f.op /\ UNCHANGED memory
           /\ frame' = [frame EXCEPT ![t] = AfterClaim(f)]
  <2>1. /\ AfterClaim(f) \in Frame /\ AfterClaim(f).op # Null
        /\ FrameOK(t, AfterClaim(f), Helping(t), ss, words[t])
        /\ ClaimsKept(AfterClaim(f), ss, memory', target)
    BY <1>1, <1>2, <1>7, AfterClaimFrame
  <2> QED BY <1>4, <1>5, <1>7, <2>1, LocalStepOK
<1>8. CASE memory[f.addr] \notin {f.val, f.op} /\ UNCHANGED memory
           /\ frame' = [frame EXCEPT ![t].pc = "claimVerify", ![t].seen = memory[f.addr]]
  <2> DEFINE g == [f EXCEPT !.pc = "claimVerify", !.seen = memory[f.addr]]
  <2>1. frame' = [frame EXCEPT ![t] = g]
    <3>1. frame \in [Thread -> Frame]
      BY DEF ProtocolInv, TypeOK
    <3> QED BY <1>8, <3>1
  <2>2. memory[f.addr] \in Value \cup Marker
    BY <1>3, <1>4
  <2>3. g \in Frame
    BY <1>2, <2>2 DEF Frame, PC
  <2>4. /\ g.pc = "claimVerify" /\ g.seen = memory[f.addr] /\ g.op = f.op /\ g.word = f.word
        /\ g.addr = f.addr /\ g.val = f.val
    BY <1>2 DEF Frame
  <2>5. LocalsOK(g)
    BY <1>2, <1>3, <2>2, <2>4 DEF LocalsOK, NoOpPC, StorePC, RevertPC
  <2>6. PhaseOK(g, ss)
    BY <1>2, <1>3, <2>4 DEF PhaseOK, SetPC, RevertPC, ProtocolInv, MarkersIssued
  <2>7. RoleOK(t, g, Helping(t), ss, words[t])
    BY <1>1, <1>2, <2>4 DEF FrameOK, RoleOK, StorePC, RevertPC, HelpReturn
  <2>8. ClaimsKept(g, ss, memory', target)
    BY <1>1, <1>2, <1>8, <2>4 DEF ClaimsKept, ClaimPC
  <2> QED BY <1>2, <1>4, <1>5, <1>8, <2>1, <2>3, <2>4, <2>5, <2>6, <2>7, <2>8, LocalStepOK
          DEF FrameOK
<1> QED BY <1>6, <1>7, <1>8 DEF ClaimCas

LEMMA ClaimVerifyOK ==
  ASSUME ProtocolInv, NEW t \in Thread, ClaimVerify(t)
  PROVE  ProtocolInv'
<1> DEFINE f == frame[t]
           actual == ss[f.op.owner]
<1> USE ConstantFacts
<1>1. f.pc = "claimVerify" /\ f.pc \notin NoOpPC
  BY DEF ClaimVerify, NoOpPC, StorePC
<1>2. /\ f \in Frame /\ ss \in StageSeq /\ f.op \in Marker /\ f.op # Null /\ Issued(f.op, ss)
      /\ FrameOK(t, f, Helping(t), ss, words[t]) /\ ClaimsKept(f, ss, memory, target)
      /\ Helping(t) \in BOOLEAN /\ OwnUnlessHelping(t, f.op, Helping(t), ss)
      /\ f.op.owner \in Thread
  BY <1>1, FrameFacts
<1>3. UNCHANGED <<shared, ss, words, stack, result>> /\ UNCHANGED memory
  BY DEF ClaimVerify
<1>4. CASE actual # [stage |-> "Claiming", seq |-> f.op.seq]
           /\ frame' = [frame EXCEPT ![t] = AfterVerifyError(f.op, actual, Helping(t))]
  <2>1. Current(f.op, ss) => StageOf(f.op, ss) # "Claiming"
    BY <1>2, <1>4 DEF Current, StageOf, StageSeq
  <2>2. PastClaims(t, AfterVerifyError(f.op, actual, Helping(t)), Helping(t), ss, words[t])
    BY <1>2, <2>1, StageErrorFrame
  <2> QED BY <1>3, <1>4, <2>2, PastClaimsStepOK
<1>5. CASE frame' = [frame EXCEPT ![t] = At("stageCas", f.op, f.word, "Reverting")]
  <2> DEFINE g == At("stageCas", f.op, f.word, "Reverting")
  <2>1. g.op = f.op /\ g.pc = "stageCas" /\ g.after = "Reverting" /\ g.seen = Null
    BY DEF At
  <2>2. g \in Frame
    BY <1>2 DEF At, Frame, PC, Stage
  <2>3. LocalsOK(g)
    BY <1>2, <2>1 DEF LocalsOK, NoOpPC, StorePC, RevertPC
  <2>4. PhaseOK(g, ss)
    BY <1>2, <2>1 DEF PhaseOK, SetPC, RevertPC
  <2>5. RoleOK(t, g, Helping(t), ss, words[t])
    BY <1>2, <2>1 DEF FrameOK, RoleOK, StorePC, RevertPC, HelpReturn
  <2>6. PastClaims(t, g, Helping(t), ss, words[t])
    BY <1>2, <2>1, <2>2, <2>3, <2>4, <2>5 DEF PastClaims, FrameOK, ClaimPC
  <2> QED BY <1>3, <1>5, <2>6, PastClaimsStepOK
<1>6. CASE f.seen \in Marker /\ frame' = [frame EXCEPT ![t].pc = "helpLoad"]
  <2> DEFINE g == [f EXCEPT !.pc = "helpLoad"]
  <2>1. frame' = [frame EXCEPT ![t] = g] /\ memory \in [Address -> Value \cup Marker]
    <3>1. frame \in [Thread -> Frame] /\ memory \in [Address -> Value \cup Marker]
      BY DEF ProtocolInv, TypeOK
    <3> QED BY <1>6, <3>1
  <2>2. g \in Frame
    BY <1>2 DEF Frame, PC
  <2>3. /\ g.pc = "helpLoad" /\ g.seen = f.seen /\ g.op = f.op /\ g.word = f.word
        /\ g.addr = f.addr /\ g.val = f.val
    BY <1>2 DEF Frame
  <2>4. LocalsOK(g)
    BY <1>1, <1>2, <1>6, <2>3 DEF FrameOK, LocalsOK, NoOpPC, StorePC, RevertPC
  <2>5. PhaseOK(g, ss)
    BY <1>2, <2>3 DEF FrameOK, PhaseOK, SetPC, RevertPC
  <2>6. RoleOK(t, g, Helping(t), ss, words[t])
    BY <1>1, <1>2, <2>3 DEF FrameOK, RoleOK, StorePC, RevertPC, HelpReturn
  <2>7. ClaimsKept(g, ss, memory', target)
    BY <1>1, <1>2, <1>3, <2>3 DEF ClaimsKept, ClaimPC
  <2> QED BY <1>2, <1>3, <2>1, <2>2, <2>3, <2>4, <2>5, <2>6, <2>7, LocalStepOK DEF FrameOK
<1>7. CASE frame' = [frame EXCEPT ![t] = Fatal(f.op, "TopBitsOfValueWereIllegal")]
  <2> DEFINE g == Fatal(f.op, "TopBitsOfValueWereIllegal")
  <2>1. g.op = f.op /\ g.pc = "fatal" /\ g.after = "TopBitsOfValueWereIllegal" /\ g.seen = Null
    BY DEF Fatal, At
  <2>2. g \in Frame
    BY <1>2 DEF Fatal, At, Frame, PC, FatalError
  <2>3. LocalsOK(g)
    BY <1>2, <2>1 DEF LocalsOK, NoOpPC, StorePC, RevertPC
  <2>4. PhaseOK(g, ss)
    BY <1>2, <2>1 DEF PhaseOK, SetPC, RevertPC
  <2>5. RoleOK(t, g, Helping(t), ss, words[t])
    BY <1>2, <2>1 DEF FrameOK, RoleOK, StorePC, RevertPC, HelpReturn
  <2>6. PastClaims(t, g, Helping(t), ss, words[t])
    BY <1>2, <2>1, <2>2, <2>3, <2>4, <2>5 DEF PastClaims, FrameOK, ClaimPC
  <2> QED BY <1>3, <1>7, <2>6, PastClaimsStepOK
<1> QED BY <1>4, <1>5, <1>6, <1>7 DEF ClaimVerify
-----------------------------------------------------------------------------
(* The steps of help_thread: the claim is suspended, and taken up again. *)
LEMMA HelpThreadOK ==
  ASSUME ProtocolInv, NEW t \in Thread, HelpThread(t)
  PROVE  ProtocolInv'
<1> DEFINE f == frame[t]
           actual == ss[f.seen.owner]
           suspended == [f EXCEPT !.pc = "claimCas", !.seen = Null]
<1> USE ConstantFacts
<1>1. f.pc = "helpLoad" /\ f.pc \notin NoOpPC
  BY DEF HelpThread, NoOpPC, StorePC
<1>2. /\ f \in Frame /\ ss \in StageSeq /\ f.op \in Marker /\ f.op # Null /\ Issued(f.op, ss)
      /\ FrameOK(t, f, Helping(t), ss, words[t]) /\ ClaimsKept(f, ss, memory, target)
  BY <1>1, FrameFacts
<1>3. /\ suspended \in Frame /\ suspended.pc = "claimCas" /\ suspended.seen = Null
      /\ suspended.op = f.op /\ suspended.word = f.word /\ suspended.addr = f.addr
      /\ suspended.val = f.val
  BY <1>2 DEF Frame, PC
<1>4. LocalsOK(suspended)
  BY <1>1, <1>2, <1>3 DEF FrameOK, LocalsOK, NoOpPC, StorePC, RevertPC
<1>5. PhaseOK(suspended, ss)
  BY <1>2, <1>3 DEF FrameOK, PhaseOK, SetPC, RevertPC
<1>6. RoleOK(t, suspended, Helping(t), ss, words[t])
  BY <1>1, <1>2, <1>3 DEF FrameOK, RoleOK, StorePC, RevertPC, HelpReturn
<1>7. ClaimsKept(suspended, ss, memory, target)
  BY <1>1, <1>2, <1>3 DEF ClaimsKept, ClaimPC
<1>8. /\ UNCHANGED <<target, expected, desired, ss, words, result>> /\ UNCHANGED memory
      /\ memory \in [Address -> Value \cup Marker]
  BY DEF HelpThread, shared, ProtocolInv, TypeOK
<1>9. CASE frame' = [frame EXCEPT ![t] = suspended] /\ UNCHANGED stack
  BY <1>2, <1>3, <1>4, <1>5, <1>6, <1>7, <1>8, <1>9, LocalStepOK DEF FrameOK, shared
<1>10. CASE /\ ~(actual.seq # f.seen.seq \/ actual.stage \in {"Successful", "Reverted"})
            /\ stack' = [stack EXCEPT ![t] = Append(@, suspended)]
            /\ frame' = [frame EXCEPT ![t] = HelpFrame(f.seen, actual.stage)]
  <2> DEFINE g == HelpFrame(f.seen, StageOf(f.seen, ss))
             st == stack[t]
             n == Len(st)
  <2>1. f.seen \in Marker /\ Issued(f.seen, ss)
    BY <1>1, <1>2 DEF FrameOK, LocalsOK, PhaseOK
  <2>2. Current(f.seen, ss) /\ StageOf(f.seen, ss) \notin {"Successful", "Reverted"}
    BY <1>10 DEF Current, StageOf
  <2>3. g \in Frame /\ g.op # Null /\ FrameOK(t, g, TRUE, ss, words[t])
        /\ ClaimsKept(g, ss, memory, target)
    BY <1>2, <2>1, <2>2, HelpFrameOK
  <2>4. /\ frame \in [Thread -> Frame] /\ stack \in [Thread -> Seq(Frame)]
        /\ st \in Seq(Frame) /\ n \in Nat
    BY DEF ProtocolInv, TypeOK
  <2>5. /\ frame'[t] = g /\ stack'[t] = Append(st, suspended)
        /\ \A u \in Thread \ {t} : frame'[u] = frame[u] /\ stack'[u] = stack[u]
    BY <1>10, <2>4 DEF StageOf
  <2>6. /\ stack'[t] \in Seq(Frame) /\ stack'[t] # <<>> /\ Len(stack'[t]) = n + 1
        /\ stack'[t][n + 1] = suspended
        /\ \A i \in 1 .. n : stack'[t][i] = st[i]
    BY <1>3, <2>4, <2>5
  <2>7. frame' \in [Thread -> Frame] /\ stack' \in [Thread -> Seq(Frame)]
    BY <1>3, <1>10, <2>3, <2>4 DEF StageOf
  <2>8. TypeOK'
    BY <1>8, <2>7 DEF ProtocolInv, TypeOK
  <2>9. ~Helping(t) <=> n = 0
    BY <2>4 DEF Helping
  <2>10. StackOK(t, stack'[t], ss, words[t])
    <3> SUFFICES ASSUME NEW i \in 1 .. n + 1
                 PROVE  /\ stack'[t][i].pc = "claimCas"
                        /\ LocalsOK(stack'[t][i]) /\ PhaseOK(stack'[t][i], ss)
                        /\ i = 1 => RoleOK(t, stack'[t][i], FALSE, ss, words[t])
      BY <2>6 DEF StackOK
    <3>1. CASE i \in 1 .. n
      <4>1. StackOK(t, st, ss, words[t])
        BY DEF ProtocolInv, FramesOK
      <4> QED BY <2>6, <3>1, <4>1 DEF StackOK
    <3>2. CASE i = n + 1
      <4>1. i = 1 => Helping(t) = FALSE
        BY <2>4, <2>9, <3>2 DEF Helping
      <4>2. i = 1 => RoleOK(t, suspended, FALSE, ss, words[t])
        BY <1>6, <4>1
      <4>3. stack'[t][i] = suspended
        BY <2>6, <3>2
      <4>4. stack'[t][i].pc = "claimCas"
        BY <1>3, <4>3
      <4>5. LocalsOK(stack'[t][i])
        BY <1>4, <4>3
      <4>6. PhaseOK(stack'[t][i], ss)
        BY <1>5, <4>3
      <4> QED BY <4>2, <4>3, <4>4, <4>5, <4>6
    <3>3. i \in 1 .. n \/ i = n + 1
      <4>1. \A k \in Nat : \A j \in 1 .. k + 1 : j \in 1 .. k \/ j = k + 1
        OBVIOUS
      <4> QED BY <2>4, <4>1
    <3> QED BY <3>1, <3>2, <3>3
  <2>11. \A i \in 1 .. n + 1 : ClaimsKept(stack'[t][i], ss, memory, target)
    <3>1. \A i \in 1 .. n : ClaimsKept(st[i], ss, memory, target)
      BY DEF ProtocolInv, EveryClaimKept
    <3> QED BY <1>7, <2>4, <2>6, <3>1
  <2>12. WordsStored(g, ss[t], target[t])
    <3>1. g.pc \notin NoOpPC
      BY <2>3 DEF FrameOK, LocalsOK
    <3> QED BY <3>1 DEF ProtocolInv, TargetsStored, WordsStored, NoOpPC, StorePC
  <2>13. Edges(ss, ss) /\ \A u \in Thread : Quiet(u, ss, ss)
    BY DEF Edges, Quiet
  <2>14. result[t] \in FatalError => result[t] = "TopBitsOfValueWereIllegal"
    BY DEF ProtocolInv, ResultsOK
  <2> QED BY <1>8, <2>3, <2>5, <2>6, <2>8, <2>10, <2>11, <2>12, <2>13, <2>14, StepOK
<1> QED BY <1>9, <1>10 DEF HelpThread

LEMMA HelpDoneOK ==
  ASSUME ProtocolInv, NEW t \in Thread, HelpDone(t)
  PROVE  ProtocolInv'
<1> DEFINE st == stack[t]
           n == Len(st)
           g == st[n]
<1> USE ConstantFacts
<1>1. frame[t].pc = HelpReturn /\ frame[t].pc \notin NoOpPC
  BY DEF HelpDone, HelpReturn, NoOpPC, StorePC
<1>2. FrameOK(t, frame[t], Helping(t), ss, words[t])
  BY <1>1, FrameFacts
<1>3. /\ frame \in [Thread -> Frame] /\ stack \in [Thread -> Seq(Frame)]
      /\ st \in Seq(Frame) /\ n \in Nat
  BY DEF ProtocolInv, TypeOK
<1>4. n > 0
  BY <1>1, <1>2, <1>3 DEF FrameOK, RoleOK, Helping
<1>5. n \in 1 .. n /\ g \in Frame
  BY <1>3, <1>4
<1>6. /\ frame'[t] = g /\ stack'[t] = SubSeq(st, 1, n - 1)
      /\ \A u \in Thread \ {t} : frame'[u] = frame[u] /\ stack'[u] = stack[u]
  BY <1>3 DEF HelpDone
<1>7. /\ stack'[t] \in Seq(Frame) /\ Len(stack'[t]) = n - 1
      /\ \A i \in 1 .. n - 1 : stack'[t][i] = st[i] /\ i \in 1 .. n
  <2>1. \A i \in 1 .. n - 1 : i \in 1 .. n /\ st[i] \in Frame
    BY <1>3
  <2>2. /\ SubSeq(st, 1, n - 1) \in Seq(Frame)
        /\ Len(SubSeq(st, 1, n - 1)) = IF 1 <= n - 1 THEN (n - 1) - 1 + 1 ELSE 0
        /\ \A i \in 1 .. (n - 1) - 1 + 1 : SubSeq(st, 1, n - 1)[i] = st[1 + i - 1]
    BY <1>3, <2>1, SubSeqProperties
  <2>3. (n - 1) - 1 + 1 = n - 1 /\ (IF 1 <= n - 1 THEN (n - 1) - 1 + 1 ELSE 0) = n - 1
    <3>1. \A k \in Nat : k > 0 =>
            (k - 1) - 1 + 1 = k - 1 /\ (IF 1 <= k - 1 THEN (k - 1) - 1 + 1 ELSE 0) = k - 1
      OBVIOUS
    <3> QED BY <1>3, <1>4, <3>1
  <2>4. \A i \in 1 .. n - 1 : 1 + i - 1 = i
    BY <1>3
  <2> QED BY <1>6, <2>1, <2>2, <2>3, <2>4
<1>8. /\ UNCHANGED <<target, expected, desired, ss, words, result>> /\ UNCHANGED memory
  BY DEF HelpDone, shared
<1>9. frame' \in [Thread -> Frame] /\ stack' \in [Thread -> Seq(Frame)]
  BY <1>3, <1>5, <1>6, <1>7 DEF HelpDone
<1>10. TypeOK'
  BY <1>8, <1>9 DEF ProtocolInv, TypeOK
<1>11. /\ StackOK(t, st, ss, words[t])
       /\ \A i \in 1 .. n : ClaimsKept(st[i], ss, memory, target)
  BY DEF ProtocolInv, FramesOK, EveryClaimKept
<1>12. FrameOK(t, g, stack'[t] # <<>>, ss, words[t])
  <2>1. g.pc = "claimCas" /\ LocalsOK(g) /\ PhaseOK(g, ss)
    BY <1>5, <1>11 DEF StackOK
  <2>2. CASE n = 1
    <3>1. RoleOK(t, g, FALSE, ss, words[t])
      BY <1>5, <1>11, <2>2 DEF StackOK
    <3>2. (stack'[t] # <<>>) = FALSE
      BY <1>6, <1>7, <2>2
    <3> QED BY <2>1, <3>1, <3>2 DEF FrameOK
  <2>3. CASE n # 1
    <3>1. (stack'[t] # <<>>) = TRUE
      <4>1. Len(stack'[t]) # 0 /\ Len(<<>>) = 0
        BY <1>3, <1>4, <1>7, <2>3
      <4> QED BY <4>1
    <3>2. RoleOK(t, g, TRUE, ss, words[t])
      BY <2>1 DEF RoleOK, LocalsOK, NoOpPC, StorePC, RevertPC, HelpReturn
    <3> QED BY <2>1, <3>1, <3>2 DEF FrameOK
  <2> QED BY <2>2, <2>3
<1>13. StackOK(t, stack'[t], ss, words[t])
  BY <1>7, <1>11 DEF StackOK
<1>14. /\ ClaimsKept(g, ss, memory, target)
       /\ \A i \in 1 .. n - 1 : ClaimsKept(stack'[t][i], ss, memory, target)
  BY <1>5, <1>7, <1>11
<1>15. WordsStored(g, ss[t], target[t])
  <2>1. g.pc = "claimCas"
    BY <1>5, <1>11 DEF StackOK
  <2>2. WordsStored(frame[t], ss[t], target[t])
    BY DEF ProtocolInv, TargetsStored
  <2> QED BY <2>1, <2>2 DEF WordsStored
<1>16. Edges(ss, ss) /\ \A u \in Thread : Quiet(u, ss, ss)
  BY DEF Edges, Quiet
<1>17. result[t] \in FatalError => result[t] = "TopBitsOfValueWereIllegal"
  BY DEF ProtocolInv, ResultsOK
<1> QED BY <1>6, <1>7, <1>8, <1>10, <1>12, <1>13, <1>14, <1>15, <1>16, <1>17, StepOK
-----------------------------------------------------------------------------
(* The stage moves along an edge, and every claim loop survives it. *)
LEMMA StageCasOK ==
  ASSUME ProtocolInv, NEW t \in Thread, StageCas(t)
  PROVE  ProtocolInv'
<1> DEFINE f == frame[t]
           o == f.op.owner
           before == [stage |-> StageBefore(f.after), seq |-> f.op.seq]
<1> USE ConstantFacts
<1>1. f.pc = "stageCas" /\ f.pc \notin NoOpPC
  BY DEF StageCas, NoOpPC, StorePC
<1>2. /\ f \in Frame /\ ss \in StageSeq /\ f.op \in Marker /\ f.op # Null /\ Issued(f.op, ss)
      /\ FrameOK(t, f, Helping(t), ss, words[t]) /\ Helping(t) \in BOOLEAN
      /\ OwnUnlessHelping(t, f.op, Helping(t), ss) /\ o \in Thread
  BY <1>1, FrameFacts
<1>3. f.after \in {"Setting", "Reverting", "Successful", "Reverted"}
  BY <1>1, <1>2 DEF FrameOK, LocalsOK
<1>4. /\ UNCHANGED <<target, expected, desired, words, stack, result>>
      /\ UNCHANGED memory /\ memory \in [Address -> Value \cup Marker]
      /\ frame \in [Thread -> Frame] /\ stack \in [Thread -> Seq(Frame)]
  BY DEF StageCas, shared, ProtocolInv, TypeOK
<1>5. CASE ss[o] # before /\ UNCHANGED ss
           /\ frame' = [frame EXCEPT ![t] = AfterStageCasFailed(f.op, ss[o], Helping(t))]
  <2>1. Current(f.op, ss) => StageOf(f.op, ss) # "Claiming"
    <3> SUFFICES ASSUME Current(f.op, ss), StageOf(f.op, ss) = "Claiming" PROVE FALSE
      OBVIOUS
    <3>1. f.after \notin {"Successful", "Reverted"}
      BY <1>1, <1>2 DEF FrameOK, PhaseOK
    <3>2. ss[o] = [stage |-> "Claiming", seq |-> f.op.seq]
      BY <1>2 DEF Current, StageOf, StageSeq
    <3> QED BY <1>3, <1>5, <3>1, <3>2 DEF StageBefore
  <2>2. PastClaims(t, AfterStageCasFailed(f.op, ss[o], Helping(t)), Helping(t), ss, words[t])
    BY <1>2, <2>1, StageErrorFrame
  <2> QED BY <1>4, <1>5, <2>2, PastClaimsStepOK DEF shared
<1>6. CASE ss[o] = before /\ ss' = [ss EXCEPT ![o].stage = f.after]
           /\ frame' = [frame EXCEPT ![t] = AfterStageCasDone(f, Helping(t))]
  <2> DEFINE g == AfterStageCasDone(f, Helping(t))
  <2>1. Current(f.op, ss)
    BY <1>6 DEF Current
  <2>2. ss' \in StageSeq
    BY <1>2, <1>3, <1>6 DEF StageSeq, Stage
  <2>3. /\ ss[o].stage = StageBefore(f.after) /\ ss'[o].stage = f.after
        /\ ss'[o].seq = ss[o].seq
        /\ \A u \in Thread \ {o} : ss'[u] = ss[u]
    BY <1>2, <1>6 DEF StageSeq
  <2>4. Edges(ss, ss')
    <3>1. StageEdge(ss[o], ss'[o])
      BY <1>3, <2>3 DEF StageEdge, StageBefore
    <3> QED BY <2>3, <3>1 DEF Edges
  <2>5. \A u \in Thread : Quiet(u, ss, ss')
    BY <1>3, <2>3 DEF Quiet, StageBefore
  <2>6. PastClaims(t, g, Helping(t), ss', words[t])
    BY <1>1, <1>2, <1>6, <2>1, <2>2, StageDoneFrame
  <2>7. g \in Frame /\ FrameOK(t, g, stack'[t] # <<>>, ss', words'[t])
    BY <1>4, <2>6 DEF PastClaims, Helping
  <2>8. frame'[t] = g /\ \A u \in Thread \ {t} : frame'[u] = frame[u]
    BY <1>4, <1>6
  <2>9. TypeOK'
    <3>1. ss' \in [Thread -> [stage : Stage, seq : Nat]]
      BY <2>2 DEF StageSeq
    <3>2. frame' \in [Thread -> Frame]
      BY <1>4, <1>6, <2>7
    <3> QED BY <1>4, <3>1, <3>2 DEF ProtocolInv, TypeOK
  <2>10. StackOK(t, stack'[t], ss', words'[t])
    <3>1. StackOK(t, stack[t], ss, words[t]) /\ stack[t] \in Seq(Frame)
      BY <1>4 DEF ProtocolInv, FramesOK
    <3> QED BY <1>2, <1>4, <2>2, <2>4, <2>5, <3>1, StackStable
  <2>11. WordsStored(g, ss'[t], target'[t])
    <3>1. g.pc \notin NoOpPC
      BY <2>6 DEF PastClaims, FrameOK, LocalsOK
    <3>2. ss'[t].seq = ss[t].seq /\ (ss'[t].stage # "Inactive" => ss[t].stage # "Inactive")
      BY <2>5 DEF Quiet
    <3> QED BY <1>4, <3>1, <3>2 DEF ProtocolInv, TargetsStored, WordsStored, NoOpPC, StorePC
  <2>12. ClaimsKept(g, ss', memory', target')
    BY <2>6 DEF PastClaims, ClaimsKept
  <2>13. ASSUME NEW i \in 1 .. Len(stack[t])
         PROVE  ClaimsKept(stack[t][i], ss', memory', target')
    <3>1. /\ stack[t][i] \in Frame /\ ClaimsKept(stack[t][i], ss, memory, target)
      BY <1>4 DEF ProtocolInv, EveryClaimKept
    <3>2. PhaseOK(stack[t][i], ss)
      BY DEF ProtocolInv, FramesOK, StackOK
    <3>3. \A u \in Thread : ss[u].stage # "Inactive" => \A w \in Word : target[u][w] # Null
      BY DEF ProtocolInv, TargetsStored, WordsStored
    <3>4. target \in [Thread -> [Word -> Address \cup {Null}]]
      BY DEF ProtocolInv, TypeOK
    <3>5. ClaimsKept(stack[t][i], ss', memory, target)
      BY <1>2, <2>2, <2>4, <3>1, <3>2, <3>3, <3>4, ClaimsStable
    <3> QED BY <1>4, <3>5
  <2>14. result'[t] \in FatalError => result'[t] = "TopBitsOfValueWereIllegal"
    BY <1>4 DEF ProtocolInv, ResultsOK
  <2> QED BY <1>4, <2>4, <2>5, <2>7, <2>8, <2>9, <2>10, <2>11, <2>12, <2>13, <2>14, StepOK
<1> QED BY <1>5, <1>6 DEF StageCas
-----------------------------------------------------------------------------
(* The steps of set and revert: no marker of an operation that is still *)
(* being claimed is taken away.                                         *)
LEMMA SetOK ==
  ASSUME ProtocolInv, NEW t \in Thread, SetCas(t) \/ SetVerify(t)
  PROVE  ProtocolInv'
<1> DEFINE f == frame[t]
<1>1. f.pc \in {"setCas", "setVerify"} /\ f.pc \notin NoOpPC
  BY DEF SetCas, SetVerify, NoOpPC, StorePC
<1>2. /\ f \in Frame /\ ss \in StageSeq /\ f.op \in Marker /\ Issued(f.op, ss)
      /\ f.op # Null /\ f.op.owner \in Thread
      /\ FrameOK(t, f, Helping(t), ss, words[t]) /\ Helping(t) \in BOOLEAN
      /\ OwnUnlessHelping(t, f.op, Helping(t), ss)
  BY <1>1, FrameFacts
<1>3. Current(f.op, ss) => StageOf(f.op, ss) # "Claiming"
  BY <1>1, <1>2 DEF FrameOK, PhaseOK, SetPC
<1>4. /\ PastClaims(t, AfterSet(f, Helping(t)), Helping(t), ss, words[t])
      /\ PastClaims(t, At("setVerify", f.op, f.word, Null), Helping(t), ss, words[t])
      /\ PastClaims(t, AfterVerifyError(f.op, ss[f.op.owner], Helping(t)),
                    Helping(t), ss, words[t])
  BY <1>1, <1>2, <1>3, AfterSetFrame, StageErrorFrame
<1>5. UNCHANGED <<shared, ss, words, stack, result>>
  BY DEF SetCas, SetVerify
<1>6. CASE SetCas(t)
  <2>1. f.addr \in Address /\ f.val \in Value
    BY <1>2, <1>6 DEF SetCas, FrameOK, LocalsOK
  <2>2. CASE memory[f.addr] = f.op /\ memory' = [memory EXCEPT ![f.addr] = f.val]
             /\ frame' = [frame EXCEPT ![t] = AfterSet(f, Helping(t))]
    <3>1. memory[f.addr] \in Marker => ~Claiming(memory[f.addr], ss)
      BY <1>3, <2>2 DEF Claiming
    <3> QED BY <1>4, <1>5, <2>1, <2>2, <3>1, PastClaimsStepOK
  <2>3. CASE UNCHANGED memory
             /\ frame' = [frame EXCEPT ![t] = At("setVerify", f.op, f.word, Null)]
    BY <1>4, <1>5, <2>3, PastClaimsStepOK
  <2> QED BY <1>6, <2>2, <2>3 DEF SetCas
<1>7. CASE SetVerify(t)
  <2>1. UNCHANGED memory
    BY <1>7 DEF SetVerify
  <2>2. CASE frame' = [frame EXCEPT ![t] = AfterSet(f, Helping(t))]
    BY <1>4, <1>5, <2>1, <2>2, PastClaimsStepOK
  <2>3. CASE frame' = [frame EXCEPT ![t] = AfterVerifyError(f.op, ss[f.op.owner], Helping(t))]
    BY <1>4, <1>5, <2>1, <2>3, PastClaimsStepOK
  <2> QED BY <1>7, <2>2, <2>3 DEF SetVerify
<1> QED BY <1>6, <1>7

LEMMA RevertCasOK ==
  ASSUME ProtocolInv, NEW t \in Thread, RevertCas(t)
  PROVE  ProtocolInv'
<1> DEFINE f == frame[t]
<1>1. f.pc = "revertCas" /\ f.pc \notin NoOpPC
  BY DEF RevertCas, NoOpPC, StorePC
<1>2. /\ f \in Frame /\ ss \in StageSeq /\ f.op \in Marker /\ f.op # Null
      /\ FrameOK(t, f, Helping(t), ss, words[t]) /\ Helping(t) \in BOOLEAN
  BY <1>1, FrameFacts
<1>3. Current(f.op, ss) => StageOf(f.op, ss) # "Claiming"
  BY <1>1, <1>2 DEF FrameOK, PhaseOK, RevertPC
<1>4. f.addr \in Address /\ f.val \in Value
  BY <1>1, <1>2 DEF FrameOK, LocalsOK
<1>5. PastClaims(t, AfterRevert(f), Helping(t), ss, words[t])
  BY <1>1, <1>2, AfterRevertFrame
<1>6. /\ UNCHANGED <<shared, ss, words, stack, result>>
      /\ frame' = [frame EXCEPT ![t] = AfterRevert(f)]
  BY DEF RevertCas
<1>7. \/ UNCHANGED memory
      \/ memory[f.addr] = f.op /\ memory' = [memory EXCEPT ![f.addr] = f.val]
  BY DEF RevertCas
<1>8. memory[f.addr] = f.op => ~Claiming(memory[f.addr], ss)
  BY <1>3 DEF Claiming
<1> QED BY <1>4, <1>5, <1>6, <1>7, <1>8, PastClaimsStepOK
-----------------------------------------------------------------------------
(* The steps of the call itself.  A thread that has not published its call *)
(* has no suspended claims, and nobody else reads its words.               *)
LEMMA NoStackOutsideOperations ==
  ASSUME ProtocolInv, NEW t \in Thread, frame[t].pc \in NoOpPC \cup {"prepare"}
  PROVE  stack[t] = <<>>
<1>1. FrameOK(t, frame[t], Helping(t), ss, words[t])
  BY FrameFacts
<1> QED BY <1>1 DEF FrameOK, LocalsOK, RoleOK, Helping

(* A step into a frame outside operations, with no suspended claims. *)
LEMMA OutsideStepOK ==
  ASSUME ProtocolInv, TypeOK', NEW t \in Thread, NEW g \in Frame,
         UNCHANGED memory, stack'[t] = <<>>, frame'[t] = g,
         \A u \in Thread \ {t} :
           /\ frame'[u] = frame[u] /\ stack'[u] = stack[u] /\ words'[u] = words[u]
           /\ result'[u] = result[u] /\ target'[u] = target[u] /\ ss'[u] = ss[u],
         ss'[t] = ss[t] \/ StageEdge(ss[t], ss'[t]),
         ss[t].stage # "Inactive" => target'[t] = target[t],
         g.op = Null, g.pc \in NoOpPC,
         g.pc \in StorePC \cup {"idle"} => ss'[t].stage = "Inactive",
         g.pc \in StorePC \ {"publish"} => words'[t] \in [Word -> KCasWord],
         WordsStored(g, ss'[t], target'[t]),
         result'[t] \in FatalError => result'[t] = "TopBitsOfValueWereIllegal"
  PROVE  ProtocolInv'
<1> USE ConstantFacts
<1>1. Edges(ss, ss') /\ \A u \in Thread \ {t} : Quiet(u, ss, ss')
  BY DEF Edges, Quiet
<1>2. LocalsOK(g)
  BY DEF LocalsOK, NoOpPC, StorePC, RevertPC
<1>3. FrameOK(t, g, stack'[t] # <<>>, ss', words'[t])
  <2>1. PhaseOK(g, ss') /\ RoleOK(t, g, FALSE, ss', words'[t])
    BY DEF PhaseOK, RoleOK, NoOpPC, StorePC, RevertPC, HelpReturn
  <2>2. (stack'[t] # <<>>) = FALSE
    OBVIOUS
  <2> QED BY <1>2, <2>1, <2>2 DEF FrameOK
<1>4. StackOK(t, stack'[t], ss', words'[t])
  BY DEF StackOK
<1>5. /\ ClaimsKept(g, ss', memory', target')
      /\ \A i \in 1 .. Len(stack'[t]) : ClaimsKept(stack'[t][i], ss', memory', target')
  BY DEF ClaimsKept
<1> QED BY <1>1, <1>3, <1>4, <1>5, StepOK

LEMMA CallOK ==
  ASSUME ProtocolInv, NEW t \in Thread, Call(t)
  PROVE  ProtocolInv'
<1> DEFINE g == At("storeTarget", Null, 0, Null)
<1> USE ConstantFacts
<1>1. PICK ws \in Program[t][ss[t].seq + 1] : words' = [words EXCEPT ![t] = ws]
  BY DEF Call
<1>2. ws \in [Word -> KCasWord]
  <2>1. ss[t].seq \in Nat /\ ss[t].seq < Len(Program[t])
    BY DEF Call, ProtocolInv, TypeOK
  <2>2. Program[t] \in Seq(SUBSET [Word -> KCasWord])
    BY KCasAssumption
  <2>3. ss[t].seq + 1 \in 1 .. Len(Program[t])
    BY <2>1, <2>2
  <2> QED BY <2>2, <2>3
<1>3. /\ frame \in [Thread -> Frame] /\ words \in [Thread -> [Word -> KCasWord] \cup {Null}]
      /\ result \in [Thread -> Outcome \cup FatalError \cup {Null}]
      /\ ss \in StageSeq
  BY DEF ProtocolInv, TypeOK, StageSeq
<1>4. /\ g.op = Null /\ g.pc = "storeTarget" /\ g.word = 0 /\ g \in Frame
  BY DEF At, Frame, PC
<1>5. UNCHANGED <<memory, target, expected, desired, ss, stack>> /\ frame[t].pc = "idle"
  BY DEF Call
<1>6. /\ words'[t] = ws /\ frame'[t] = g /\ result'[t] = Null
      /\ \A u \in Thread \ {t} :
           words'[u] = words[u] /\ frame'[u] = frame[u] /\ result'[u] = result[u]
  BY <1>1, <1>3 DEF Call
<1>7. TypeOK'
  <2>1. /\ frame' \in [Thread -> Frame]
        /\ words' \in [Thread -> [Word -> KCasWord] \cup {Null}]
        /\ result' \in [Thread -> Outcome \cup FatalError \cup {Null}]
    BY <1>1, <1>2, <1>3, <1>4 DEF Call
  <2> QED BY <1>5, <2>1 DEF ProtocolInv, TypeOK
<1>8. stack[t] = <<>>
  BY <1>5, NoStackOutsideOperations DEF NoOpPC
<1>9. ss[t].stage = "Inactive"
  BY <1>5, FrameFacts DEF FrameOK, RoleOK
<1>10. WordsStored(g, ss'[t], target'[t])
  <2>1. \A w \in Word : ~(w < 0)
    BY DEF Word
  <2> QED BY <1>4, <1>5, <2>1 DEF ProtocolInv, TargetsStored, WordsStored
<1> QED BY <1>2, <1>4, <1>5, <1>6, <1>7, <1>8, <1>9, <1>10, OutsideStepOK DEF NoOpPC, StorePC

(* The three stores of a word have this in common. *)
LEMMA StoreStepOK ==
  ASSUME ProtocolInv, NEW t \in Thread, NEW g \in Frame,
         frame[t].pc \in StorePC \ {"publish"}, g.pc \in StorePC, g.op = Null,
         frame' = [frame EXCEPT ![t] = g],
         UNCHANGED <<memory, ss, words, stack, result>>,
         target' \in [Thread -> [Word -> Address \cup {Null}]],
         expected' \in [Thread -> [Word -> Value]], desired' \in [Thread -> [Word -> Value]],
         \A u \in Thread \ {t} : target'[u] = target[u],
         WordsStored(g, ss[t], target'[t])
  PROVE  ProtocolInv'
<1>1. frame \in [Thread -> Frame]
  BY DEF ProtocolInv, TypeOK
<1>2. frame'[t] = g /\ \A u \in Thread \ {t} : frame'[u] = frame[u]
  BY <1>1
<1>3. TypeOK'
  BY <1>1 DEF ProtocolInv, TypeOK
<1>4. stack[t] = <<>>
  BY NoStackOutsideOperations DEF NoOpPC
<1>5. ss[t].stage = "Inactive" /\ words[t] \in [Word -> KCasWord]
  BY FrameFacts DEF FrameOK, RoleOK
<1>6. result'[t] \in FatalError => result'[t] = "TopBitsOfValueWereIllegal"
  BY DEF ProtocolInv, ResultsOK
<1>7. \A u \in Thread \ {t} :
        /\ frame'[u] = frame[u] /\ stack'[u] = stack[u] /\ words'[u] = words[u]
        /\ result'[u] = result[u] /\ target'[u] = target[u] /\ ss'[u] = ss[u]
  BY <1>2
<1>8. WordsStored(g, ss'[t], target'[t]) /\ g.pc \in NoOpPC
  BY DEF NoOpPC
<1> QED BY <1>2, <1>3, <1>4, <1>5, <1>6, <1>7, <1>8, OutsideStepOK

LEMMA StoresOK ==
  ASSUME ProtocolInv, NEW t \in Thread,
         StoreTarget(t) \/ StoreExpected(t) \/ StoreDesired(t)
  PROVE  ProtocolInv'
<1> DEFINE f == frame[t]
           ws == words[t]
<1> USE ConstantFacts
<1>1. f.pc \in {"storeTarget", "storeExpected", "storeDesired"} /\ f.pc \in StorePC \ {"publish"}
  BY DEF StoreTarget, StoreExpected, StoreDesired, StorePC
<1>2. /\ frame \in [Thread -> Frame] /\ f \in Frame /\ f.word \in Word
      /\ target \in [Thread -> [Word -> Address \cup {Null}]]
      /\ expected \in [Thread -> [Word -> Value]] /\ desired \in [Thread -> [Word -> Value]]
  BY DEF ProtocolInv, TypeOK, Frame
<1>3. /\ ws \in [Word -> KCasWord] /\ f.op = Null
      /\ WordsStored(f, ss[t], target[t])
  BY <1>1, FrameFacts DEF FrameOK, RoleOK, LocalsOK, NoOpPC, ProtocolInv, TargetsStored
<1>4. /\ ws[f.word].target \in Address /\ ws[f.word].expected \in Value
      /\ ws[f.word].desired \in Value
  BY <1>2, <1>3 DEF KCasWord
<1>5. CASE StoreTarget(t)
  <2> DEFINE g == [f EXCEPT !.pc = "storeExpected"]
  <2>1. g \in Frame /\ g.pc = "storeExpected" /\ g.op = f.op /\ g.word = f.word
    BY <1>2 DEF Frame, PC
  <2>2. frame' = [frame EXCEPT ![t] = g] /\ UNCHANGED <<memory, ss, words, stack, result>>
    BY <1>2, <1>5 DEF StoreTarget
  <2>3. /\ target' \in [Thread -> [Word -> Address \cup {Null}]]
        /\ \A u \in Thread \ {t} : target'[u] = target[u]
        /\ target'[t] = [target[t] EXCEPT ![f.word] = ws[f.word].target]
    BY <1>2, <1>4, <1>5 DEF StoreTarget
  <2>4. expected' = expected /\ desired' = desired
    BY <1>5 DEF StoreTarget
  <2>5. /\ \A w \in Word : target'[t][w] = IF w = f.word THEN ws[f.word].target ELSE target[t][w]
        /\ ws[f.word].target # Null
    BY <1>2, <1>4, <2>3
  <2>6. WordsStored(g, ss[t], target'[t])
    BY <1>2, <1>3, <1>5, <2>1, <2>5 DEF WordsStored, StoreTarget
  <2> QED BY <1>1, <1>2, <1>3, <2>1, <2>2, <2>3, <2>4, <2>6, StoreStepOK DEF StorePC
<1>6. CASE StoreExpected(t)
  <2> DEFINE g == [f EXCEPT !.pc = "storeDesired"]
  <2>1. g \in Frame /\ g.pc = "storeDesired" /\ g.op = f.op /\ g.word = f.word
    BY <1>2 DEF Frame, PC
  <2>2. frame' = [frame EXCEPT ![t] = g] /\ UNCHANGED <<memory, ss, words, stack, result>>
    BY <1>2, <1>6 DEF StoreExpected
  <2>3. /\ expected' \in [Thread -> [Word -> Value]]
        /\ target' = target /\ desired' = desired
    BY <1>2, <1>4, <1>6 DEF StoreExpected
  <2>4. WordsStored(g, ss[t], target'[t])
    BY <1>3, <1>6, <2>1, <2>3 DEF WordsStored, StoreExpected
  <2> QED BY <1>1, <1>2, <1>3, <2>1, <2>2, <2>3, <2>4, StoreStepOK DEF StorePC
<1>7. CASE StoreDesired(t)
  <2> DEFINE g == IF f.word = LastWord THEN At("publish", Null, 0, Null)
                  ELSE At("storeTarget", Null, f.word + 1, Null)
  <2>1. /\ g \in Frame /\ g.op = Null
        /\ \/ g.pc = "publish" /\ f.word = LastWord
           \/ g.pc = "storeTarget" /\ g.word = f.word + 1
    BY <1>2 DEF At, Frame, PC
  <2>2. frame' = [frame EXCEPT ![t] = g] /\ UNCHANGED <<memory, ss, words, stack, result>>
    BY <1>2, <1>7 DEF StoreDesired
  <2>3. /\ desired' \in [Thread -> [Word -> Value]]
        /\ target' = target /\ expected' = expected
    BY <1>2, <1>4, <1>7 DEF StoreDesired
  <2>4. \A w \in Word : (w < f.word + 1 \/ f.word = LastWord) => w < f.word \/ w = f.word
    BY <1>2, KCasAssumption DEF Word, LastWord
  <2>5. \A w \in Word : (w < f.word + 1 \/ f.word = LastWord) => target[t][w] # Null
    BY <1>3, <1>7, <2>4 DEF WordsStored, StoreDesired
  <2>6. WordsStored(g, ss[t], target'[t])
    BY <1>3, <2>1, <2>3, <2>5 DEF WordsStored
  <2> QED BY <1>1, <1>2, <2>1, <2>2, <2>3, <2>6, StoreStepOK DEF StorePC
<1> QED BY <1>5, <1>6, <1>7

LEMMA PublishOK ==
  ASSUME ProtocolInv, NEW t \in Thread, Publish(t)
  PROVE  ProtocolInv'
<1> DEFINE op == [owner |-> t, seq |-> ss[t].seq]
           g == At("claimTarget", op, 0, Null)
<1> USE ConstantFacts
<1>1. frame[t].pc = "publish"
  BY DEF Publish
<1>2. /\ frame \in [Thread -> Frame] /\ ss \in StageSeq /\ ss[t].seq \in Nat
      /\ ss[t].stage = "Inactive"
  BY <1>1, FrameFacts DEF ProtocolInv, TypeOK, StageSeq, FrameOK, RoleOK, StorePC
<1>3. /\ UNCHANGED <<memory, target, expected, desired, words, stack, result>>
      /\ ss' = [ss EXCEPT ![t].stage = "Claiming"] /\ frame' = [frame EXCEPT ![t] = g]
  BY DEF Publish
<1>4. op \in Marker /\ op.owner = t /\ op.seq = ss[t].seq /\ op # Null
  BY <1>2 DEF Marker
<1>5. g \in Frame /\ g.op = op /\ g.pc = "claimTarget" /\ g.word = 0 /\ g.seen = Null
  BY <1>4 DEF At, Frame, PC
<1>6. /\ ss' \in StageSeq /\ ss'[t].stage = "Claiming" /\ ss'[t].seq = ss[t].seq
      /\ \A u \in Thread \ {t} : ss'[u] = ss[u]
  BY <1>2, <1>3 DEF StageSeq, Stage
<1>7. frame'[t] = g /\ \A u \in Thread \ {t} : frame'[u] = frame[u]
  BY <1>2, <1>3
<1>8. TypeOK'
  <2>1. frame' \in [Thread -> Frame] /\ ss' \in [Thread -> [stage : Stage, seq : Nat]]
    BY <1>2, <1>3, <1>5, <1>6 DEF StageSeq
  <2> QED BY <1>3, <2>1 DEF ProtocolInv, TypeOK
<1>9. Edges(ss, ss') /\ \A u \in Thread \ {t} : Quiet(u, ss, ss')
  BY <1>2, <1>6 DEF Edges, Quiet, StageEdge
<1>10. stack'[t] = <<>>
  BY <1>1, <1>3, NoStackOutsideOperations DEF NoOpPC, StorePC
<1>11. FrameOK(t, g, stack'[t] # <<>>, ss', words'[t])
  <2>1. LocalsOK(g)
    BY <1>4, <1>5 DEF LocalsOK, NoOpPC, StorePC, RevertPC
  <2>2. PhaseOK(g, ss')
    BY <1>4, <1>5, <1>6 DEF PhaseOK, Issued, SetPC, RevertPC
  <2>3. RoleOK(t, g, FALSE, ss', words'[t])
    BY <1>4, <1>5, <1>6 DEF RoleOK, StorePC, RevertPC, HelpReturn
  <2>4. (stack'[t] # <<>>) = FALSE
    BY <1>10
  <2> QED BY <2>1, <2>2, <2>3, <2>4 DEF FrameOK
<1>12. StackOK(t, stack'[t], ss', words'[t])
  BY <1>10 DEF StackOK
<1>13. WordsStored(g, ss'[t], target'[t])
  BY <1>1, <1>3, <1>5 DEF ProtocolInv, TargetsStored, WordsStored
<1>14. /\ ClaimsKept(g, ss', memory', target')
       /\ \A i \in 1 .. Len(stack'[t]) : ClaimsKept(stack'[t][i], ss', memory', target')
  BY <1>5, <1>10 DEF ClaimsKept, ClaimedUpTo, ClaimPC, Word
<1>15. result'[t] \in FatalError => result'[t] = "TopBitsOfValueWereIllegal"
  BY <1>3 DEF ProtocolInv, ResultsOK
<1> QED BY <1>2, <1>3, <1>7, <1>8, <1>9, <1>11, <1>12, <1>13, <1>14, <1>15, StepOK

LEMMA PrepareOK ==
  ASSUME ProtocolInv, NEW t \in Thread, Prepare(t)
  PROVE  ProtocolInv'
<1> DEFINE f == frame[t]
           g == At("idle", Null, 0, Null)
<1> USE ConstantFacts
<1>1. f.pc = "prepare" /\ f.pc \notin NoOpPC
  BY DEF Prepare, NoOpPC, StorePC
<1>2. /\ f \in Frame /\ ss \in StageSeq /\ f.op \in Marker /\ Issued(f.op, ss)
      /\ FrameOK(t, f, Helping(t), ss, words[t])
      /\ OwnUnlessHelping(t, f.op, Helping(t), ss)
  BY <1>1, FrameFacts
<1>3. stack[t] = <<>>
  BY <1>1, NoStackOutsideOperations
<1>4. f.op = [owner |-> t, seq |-> ss[t].seq] /\ f.after \in Outcome
  BY <1>1, <1>2, <1>3 DEF OwnUnlessHelping, Helping, FrameOK, LocalsOK
<1>5. ss[t].stage \in {"Setting", "Successful", "Reverting", "Reverted"} /\ ss[t].seq \in Nat
  <2>1. Current(f.op, ss) /\ StageOf(f.op, ss) = ss[t].stage
    BY <1>4 DEF Current, StageOf
  <2> QED BY <1>1, <1>2, <1>4, <2>1, ConstantFacts DEF FrameOK, PhaseOK, Outcome, StageSeq
<1>6. /\ frame \in [Thread -> Frame] /\ words \in [Thread -> [Word -> KCasWord] \cup {Null}]
      /\ result \in [Thread -> Outcome \cup FatalError \cup {Null}]
      /\ stack \in [Thread -> Seq(Frame)]
  BY DEF ProtocolInv, TypeOK
<1>7. g \in Frame /\ g.op = Null /\ g.pc = "idle"
  BY DEF At, Frame, PC
<1>8. UNCHANGED <<memory, target, expected, desired, stack>>
  BY DEF Prepare, shared
<1>9. /\ frame'[t] = g /\ result'[t] = f.after
      /\ ss'[t] = [stage |-> "Inactive", seq |-> ss[t].seq + 1]
      /\ \A u \in Thread \ {t} : /\ words'[u] = words[u] /\ frame'[u] = frame[u]
                                 /\ result'[u] = result[u] /\ ss'[u] = ss[u]
  BY <1>2, <1>4, <1>6 DEF Prepare, StageSeq
<1>10. TypeOK'
  <2>1. /\ frame' \in [Thread -> Frame]
        /\ words' \in [Thread -> [Word -> KCasWord] \cup {Null}]
    BY <1>6, <1>7 DEF Prepare
  <2>2. result' \in [Thread -> Outcome \cup FatalError \cup {Null}]
    BY <1>4, <1>6 DEF Prepare
  <2>3. ss' \in [Thread -> [stage : Stage, seq : Nat]]
    BY <1>2, <1>4, <1>5 DEF Prepare, StageSeq, Stage
  <2> QED BY <1>8, <2>1, <2>2, <2>3 DEF ProtocolInv, TypeOK
<1>11. StageEdge(ss[t], ss'[t])
  BY <1>5, <1>9 DEF StageEdge
<1>12. WordsStored(g, ss'[t], target'[t])
  BY <1>5, <1>7, <1>8 DEF ProtocolInv, TargetsStored, WordsStored
<1>13. result'[t] \notin FatalError /\ ss'[t].stage = "Inactive"
  BY <1>4, <1>9 DEF Outcome, FatalError
<1> QED BY <1>3, <1>7, <1>8, <1>9, <1>10, <1>11, <1>12, <1>13, OutsideStepOK DEF NoOpPC, StorePC

LEMMA ReturnFatalOK ==
  ASSUME ProtocolInv, NEW t \in Thread, ReturnFatal(t)
  PROVE  ProtocolInv'
<1> DEFINE f == frame[t]
           g == At("halted", Null, 0, Null)
<1> USE ConstantFacts
<1>1. f.pc = "fatal"
  BY DEF ReturnFatal
<1>2. f.after = "TopBitsOfValueWereIllegal"
  BY <1>1, FrameFacts DEF FrameOK, LocalsOK
<1>3. /\ frame \in [Thread -> Frame] /\ words \in [Thread -> [Word -> KCasWord] \cup {Null}]
      /\ result \in [Thread -> Outcome \cup FatalError \cup {Null}]
      /\ stack \in [Thread -> Seq(Frame)]
  BY DEF ProtocolInv, TypeOK
<1>4. g \in Frame /\ g.op = Null /\ g.pc = "halted"
  BY DEF At, Frame, PC
<1>5. UNCHANGED <<memory, target, expected, desired, ss>>
  BY DEF ReturnFatal, shared
<1>6. /\ frame'[t] = g /\ result'[t] = f.after /\ stack'[t] = <<>>
      /\ \A u \in Thread \ {t} : /\ words'[u] = words[u] /\ frame'[u] = frame[u]
                                 /\ result'[u] = result[u] /\ stack'[u] = stack[u]
  BY <1>3 DEF ReturnFatal
<1>7. TypeOK'
  <2>1. /\ frame' \in [Thread -> Frame] /\ stack' \in [Thread -> Seq(Frame)]
        /\ words' \in [Thread -> [Word -> KCasWord] \cup {Null}]
    BY <1>3, <1>4 DEF ReturnFatal
  <2>2. result' \in [Thread -> Outcome \cup FatalError \cup {Null}]
    BY <1>2, <1>3 DEF ReturnFatal, FatalError
  <2> QED BY <1>5, <2>1, <2>2 DEF ProtocolInv, TypeOK
<1>8. WordsStored(g, ss'[t], target'[t])
  BY <1>4, <1>5 DEF ProtocolInv, TargetsStored, WordsStored
<1> QED BY <1>2, <1>4, <1>5, <1>6, <1>7, <1>8, OutsideStepOK DEF NoOpPC, StorePC
-----------------------------------------------------------------------------
(* ProtocolInv is inductive. *)

LEMMA InitOK == Init => ProtocolInv
<1> SUFFICES ASSUME Init PROVE ProtocolInv
  OBVIOUS
<1> DEFINE g == At("idle", Null, 0, Null)
<1> USE ConstantFacts
<1>1. /\ g \in Frame /\ g.op = Null /\ g.pc = "idle"
  BY DEF At, Frame, PC
<1>2. TypeOK
  BY <1>1, KCasAssumption DEF Init, TypeOK, Stage
<1>3. \A t \in Thread : /\ stack[t] = <<>> /\ frame[t] = g /\ result[t] = Null
                        /\ ss[t].stage = "Inactive" /\ ss[t].seq = 0
  BY DEF Init
<1>4. \A i \in 1 .. Len(<<>>) : FALSE
  OBVIOUS
<1>5. FramesOK
  <2>1. LocalsOK(g) /\ PhaseOK(g, ss)
    BY <1>1 DEF LocalsOK, PhaseOK, NoOpPC, RevertPC
  <2>2. \A t \in Thread : RoleOK(t, g, FALSE, ss, words[t])
    BY <1>1, <1>3 DEF RoleOK, StorePC, RevertPC, HelpReturn
  <2>3. \A t \in Thread : StackOK(t, stack[t], ss, words[t]) /\ Helping(t) = FALSE
    BY <1>3, <1>4 DEF StackOK, Helping
  <2> QED BY <1>3, <2>1, <2>2, <2>3 DEF FramesOK, FrameOK
<1>6. MarkersIssued /\ ResultsOK
  BY <1>3, KCasAssumption DEF Init, MarkersIssued, ResultsOK
<1>7. TargetsStored
  <2>1. \A t \in Thread : ss[t].stage = "Inactive" /\ frame[t].pc = "idle"
    BY <1>1, <1>3
  <2>2. \A t \in Thread : ~(ss[t].seq > 0)
    <3>1. ~(0 > 0)
      OBVIOUS
    <3> QED BY <1>3, <3>1, Zenon
  <2> QED BY <2>1, <2>2 DEF TargetsStored, WordsStored
<1>8. EveryClaimKept
  <2>1. ClaimsKept(g, ss, memory, target)
    BY <1>1 DEF ClaimsKept
  <2> QED BY <1>3, <1>4, <2>1 DEF EveryClaimKept
<1> QED BY <1>2, <1>5, <1>6, <1>7, <1>8 DEF ProtocolInv

LEMMA StutterOK == ProtocolInv /\ UNCHANGED vars => ProtocolInv'
BY DEF vars, ProtocolInv, TypeOK, FramesOK, Helping, MarkersIssued, TargetsStored, ResultsOK,
       EveryClaimKept

LEMMA NextOK == ProtocolInv /\ [Next]_vars => ProtocolInv'
<1> SUFFICES ASSUME ProtocolInv, [Next]_vars PROVE ProtocolInv'
  OBVIOUS
<1>1. CASE UNCHANGED vars \/ Finished
  BY <1>1, StutterOK DEF Finished
<1>2. ASSUME NEW t \in Thread, Call(t) \/ Step(t) PROVE ProtocolInv'
  BY <1>2, CallOK, StoresOK, PublishOK, LoadsOK, ClaimCasOK, ClaimVerifyOK, HelpThreadOK,
     HelpDoneOK, StageCasOK, SetOK, RevertCasOK, PrepareOK, ReturnFatalOK DEF Step
<1> QED BY <1>1, <1>2 DEF Next

(* Threads in the middle of an operation, their own or another's, agree    *)
(* with its stage, its words and its markers in every reachable state.     *)
THEOREM ProtocolHolds == Spec => []ProtocolInv
<1>1. Init => ProtocolInv
  BY InitOK
<1>2. ProtocolInv /\ [Next]_vars => ProtocolInv'
  BY NextOK
<1> QED BY <1>1, <1>2, PTL DEF Spec

(* The variables stay in their domains. *)
THEOREM TypeCorrect == Spec => []TypeOK
<1>1. ProtocolInv => TypeOK
  BY DEF ProtocolInv
<1> QED BY <1>1, ProtocolHolds, PTL

(* The errors err.rs calls impossible never happen, nor does an invalid  *)
(* target address: only a value with illegal top bits makes a call fail. *)
THEOREM ErrorsAreImpossible == Spec => []NoImpossibleError
<1>1. ProtocolInv => NoImpossibleError
  BY FrameFacts DEF ProtocolInv, ResultsOK, NoImpossibleError, FrameOK, LocalsOK
<1> QED BY <1>1, ProtocolHolds, PTL
-----------------------------------------------------------------------------
(* The action properties. *)

(* What a step does to the stages and to the results. *)
LEMMA StepEffects ==
  ASSUME ProtocolInv, [Next]_vars
  PROVE  /\ \/ ss' = ss
            \/ \E t \in Thread : Publish(t) \/ StageCas(t) \/ Prepare(t)
         /\ \/ result' = result
            \/ \E t \in Thread : Call(t) \/ Prepare(t) \/ ReturnFatal(t)
<1>1. CASE UNCHANGED vars \/ Finished
  BY <1>1 DEF Finished, vars
<1>2. ASSUME NEW t \in Thread, Call(t) \/ Step(t)
      PROVE  /\ ss' = ss \/ Publish(t) \/ StageCas(t) \/ Prepare(t)
             /\ result' = result \/ Call(t) \/ Prepare(t) \/ ReturnFatal(t)
  BY <1>2 DEF Step, Call, StoreTarget, StoreExpected, StoreDesired, Publish, ClaimTarget,
     ClaimExpected, ClaimCas, ClaimVerify, HelpThread, HelpDone, StageCas, SetTarget, SetDesired,
     SetCas, SetVerify, RevertTarget, RevertExpected, RevertCas, Prepare, ReturnFatal,
     LoadTarget, LoadValue, shared
<1> QED BY <1>1, <1>2 DEF Next

(* What a successful compare-and-swap of a stage found and leaves. *)
LEMMA StageCasEffect ==
  ASSUME ProtocolInv, NEW t \in Thread, StageCas(t), ss' # ss
  PROVE  LET op == frame[t].op
             goal == frame[t].after
         IN  /\ frame[t].pc = "stageCas" /\ op # Null /\ op \in Marker /\ op.owner \in Thread
             /\ goal \in {"Setting", "Reverting", "Successful", "Reverted"}
             /\ ss[op.owner] = [stage |-> StageBefore(goal), seq |-> op.seq]
             /\ ss'[op.owner] = [stage |-> goal, seq |-> op.seq]
             /\ \A u \in Thread \ {op.owner} : ss'[u] = ss[u]
<1>1. frame[t].pc = "stageCas" /\ frame[t].pc \notin NoOpPC
  BY DEF StageCas, NoOpPC, StorePC
<1>2. /\ frame[t].op # Null /\ frame[t].op \in Marker /\ frame[t].op.owner \in Thread
      /\ FrameOK(t, frame[t], Helping(t), ss, words[t]) /\ ss \in StageSeq
  BY <1>1, FrameFacts
<1>3. frame[t].after \in {"Setting", "Reverting", "Successful", "Reverted"}
  BY <1>1, <1>2 DEF FrameOK, LocalsOK
<1> QED BY <1>1, <1>2, <1>3 DEF StageCas, StageSeq

(* A step that changes a stage takes an edge of the graph. *)
LEMMA StepTakesEdge ==
  ASSUME ProtocolInv, [Next]_vars, NEW u \in Thread, ss'[u] # ss[u]
  PROVE  StageEdge(ss[u], ss'[u])
<1>1. ss \in StageSeq
  BY FrameFacts
<1>2. ASSUME NEW t \in Thread, Publish(t) PROVE StageEdge(ss[u], ss'[u])
  <2>1. ss[t].stage = "Inactive"
    BY <1>2, FrameFacts DEF Publish, FrameOK, RoleOK, StorePC
  <2> QED BY <1>1, <1>2, <2>1 DEF Publish, StageSeq, StageEdge
<1>3. ASSUME NEW t \in Thread, StageCas(t) PROVE StageEdge(ss[u], ss'[u])
  <2> DEFINE op == frame[t].op
             goal == frame[t].after
  <2>1. /\ goal \in {"Setting", "Reverting", "Successful", "Reverted"}
        /\ ss[op.owner] = [stage |-> StageBefore(goal), seq |-> op.seq]
        /\ ss'[op.owner] = [stage |-> goal, seq |-> op.seq]
        /\ u = op.owner
    <3>1. ss' # ss
      OBVIOUS
    <3> QED BY <1>3, <3>1, StageCasEffect
  <2>2. /\ ss[u].stage = StageBefore(goal) /\ ss'[u].stage = goal
        /\ ss[u].seq = ss'[u].seq
    BY <2>1
  <2> QED BY <2>1, <2>2 DEF StageEdge, StageBefore
<1>4. ASSUME NEW t \in Thread, Prepare(t) PROVE StageEdge(ss[u], ss'[u])
  <2>1. frame[t].pc = "prepare" /\ frame[t].pc \notin NoOpPC
    BY <1>4 DEF Prepare, NoOpPC, StorePC
  <2>2. /\ frame[t].op # Null /\ Issued(frame[t].op, ss)
        /\ frame[t].op = [owner |-> t, seq |-> ss[t].seq]
        /\ PhaseOK(frame[t], ss) /\ frame[t].after \in Outcome
    BY <2>1, FrameFacts, NoStackOutsideOperations
       DEF FrameOK, LocalsOK, OwnUnlessHelping, Helping
  <2>3. ss[t].stage \in {"Setting", "Successful", "Reverting", "Reverted"}
    BY <2>1, <2>2 DEF PhaseOK, Current, StageOf, Outcome
  <2> QED BY <1>1, <1>4, <2>2, <2>3 DEF Prepare, StageSeq, StageEdge
<1> QED BY <1>2, <1>3, <1>4, StepEffects

(* Every step that changes a stage takes an edge of the documented graph. *)
THEOREM StagesFollowTheGraph == Spec => StageProtocol
<1>1. ProtocolInv /\ [Next]_vars =>
        [\A t \in Thread : ss'[t] # ss[t] => StageEdge(ss[t], ss'[t])]_vars
  BY StepTakesEdge
<1> QED BY <1>1, ProtocolHolds, PTL DEF Spec, StageProtocol

(* A call reports what was decided for its operation, whoever decided it. *)
THEOREM CallsReportTheDecision == Spec => ReportsTheDecision
<1>1. ASSUME ProtocolInv, [Next]_vars, NEW u \in Thread, result'[u] # result[u]
      PROVE  /\ result'[u] = "Ok" => ss[u].stage \in {"Setting", "Successful"}
             /\ result'[u] = "ValueWasNotExpectedValue"
                  => ss[u].stage \in {"Reverting", "Reverted"}
  <2>1. result \in [Thread -> Outcome \cup FatalError \cup {Null}]
    BY <1>1 DEF ProtocolInv, TypeOK
  <2>2. ASSUME NEW t \in Thread, Call(t) PROVE result'[u] = Null
    BY <1>1, <2>1, <2>2 DEF Call
  <2>3. ASSUME NEW t \in Thread, ReturnFatal(t) PROVE result'[u] = "TopBitsOfValueWereIllegal"
    <3>1. frame[t].after = "TopBitsOfValueWereIllegal"
      BY <1>1, <2>3, FrameFacts DEF ReturnFatal, FrameOK, LocalsOK
    <3> QED BY <1>1, <2>1, <2>3, <3>1 DEF ReturnFatal
  <2>4. ASSUME NEW t \in Thread, Prepare(t)
        PROVE  /\ result'[u] = "Ok" => ss[u].stage \in {"Setting", "Successful"}
               /\ result'[u] = "ValueWasNotExpectedValue"
                    => ss[u].stage \in {"Reverting", "Reverted"}
    <3>1. frame[t].pc = "prepare" /\ frame[t].pc \notin NoOpPC
      BY <2>4 DEF Prepare, NoOpPC, StorePC
    <3>2. /\ frame[t].op # Null /\ frame[t].op = [owner |-> t, seq |-> ss[t].seq]
          /\ PhaseOK(frame[t], ss)
      BY <1>1, <3>1, FrameFacts, NoStackOutsideOperations DEF FrameOK, OwnUnlessHelping, Helping
    <3>3. u = t /\ result'[u] = frame[t].after
      BY <1>1, <2>1, <2>4 DEF Prepare
    <3> QED BY <3>1, <3>2, <3>3 DEF PhaseOK, Current, StageOf
  <2>5. Null \notin {"Ok", "ValueWasNotExpectedValue"}
    BY ConstantFacts DEF Outcome
  <2> QED BY <1>1, <2>2, <2>3, <2>4, <2>5, StepEffects
<1>2. ProtocolInv /\ [Next]_vars =>
        [\A t \in Thread : result'[t] # result[t] =>
           /\ result'[t] = "Ok" => ss[t].stage \in {"Setting", "Successful"}
           /\ result'[t] = "ValueWasNotExpectedValue"
                => ss[t].stage \in {"Reverting", "Reverted"}]_vars
  BY <1>1
<1> QED BY <1>2, ProtocolHolds, PTL DEF Spec, ReportsTheDecision

(* An operation is decided to succeed only while each of its addresses holds *)
(* its marker, whoever claimed them and whoever decides.                     *)
THEOREM DecisionsHaveEveryClaim == Spec => DecisionNeedsEveryClaim
<1>1. ASSUME ProtocolInv, [Next]_vars, NEW u \in Thread,
             ss[u].stage = "Claiming", ss'[u].stage = "Setting"
      PROVE  \A w \in Word : memory[target[u][w]] = [owner |-> u, seq |-> ss[u].seq]
  <2>1. ss \in StageSeq
    BY <1>1, FrameFacts
  <2>2. \A t \in Thread : ~Publish(t) /\ ~Prepare(t)
    BY <1>1, <2>1 DEF Publish, Prepare, StageSeq
  <2>3. PICK t \in Thread : StageCas(t)
    BY <1>1, <2>2, StepEffects
  <2> DEFINE op == frame[t].op
  <2>4. /\ frame[t].pc = "stageCas" /\ op # Null /\ op \in Marker /\ op.owner = u
        /\ frame[t].after = "Setting" /\ ss[u] = [stage |-> "Claiming", seq |-> op.seq]
    <3> DEFINE goal == frame[t].after
    <3>1. ss' # ss /\ ss'[u] # ss[u]
      BY <1>1
    <3>2. /\ frame[t].pc = "stageCas" /\ op # Null /\ op \in Marker /\ op.owner = u
          /\ ss[op.owner] = [stage |-> StageBefore(goal), seq |-> op.seq]
          /\ ss'[op.owner] = [stage |-> goal, seq |-> op.seq]
      BY <1>1, <2>3, <3>1, StageCasEffect
    <3>3. goal = "Setting"
      BY <1>1, <3>2
    <3> QED BY <3>2, <3>3 DEF StageBefore
  <2>5. op = [owner |-> u, seq |-> ss[u].seq]
    BY <2>4 DEF Marker
  <2>6. ClaimedUpTo(op, NumWords, memory, target)
    BY <1>1, <2>4, FrameFacts DEF ClaimsKept, Claiming, Current, StageOf
  <2>7. \A w \in Word : w < NumWords
    BY KCasAssumption DEF Word
  <2> QED BY <2>4, <2>5, <2>6, <2>7 DEF ClaimedUpTo
<1>2. ProtocolInv /\ [Next]_vars =>
        [\A t \in Thread : ss[t].stage = "Claiming" /\ ss'[t].stage = "Setting" =>
           \A w \in Word : memory[target[t][w]] = [owner |-> t, seq |-> ss[t].seq]]_vars
  BY <1>1
<1> QED BY <1>2, ProtocolHolds, PTL DEF Spec, DecisionNeedsEveryClaim
-----------------------------------------------------------------------------
(* What a step of t is to the other threads. *)
LEMMA OthersUntouched ==
  ASSUME ProtocolInv, NEW t \in Thread, Call(t) \/ Step(t), NEW u \in Thread \ {t}
  PROVE  /\ frame'[u] = frame[u] /\ stack'[u] = stack[u] /\ words'[u] = words[u]
         /\ target'[u] = target[u]
<1>1. /\ frame \in [Thread -> Frame] /\ stack \in [Thread -> Seq(Frame)]
      /\ words \in [Thread -> [Word -> KCasWord] \cup {Null}]
      /\ target \in [Thread -> [Word -> Address \cup {Null}]]
  BY DEF ProtocolInv, TypeOK
<1>2. CASE Call(t) \/ StoreTarget(t) \/ StoreExpected(t) \/ StoreDesired(t) \/ Publish(t)
  BY <1>1, <1>2 DEF Call, StoreTarget, StoreExpected, StoreDesired, Publish
<1>3. CASE ClaimTarget(t) \/ ClaimExpected(t) \/ ClaimCas(t) \/ ClaimVerify(t)
  BY <1>1, <1>3 DEF ClaimTarget, ClaimExpected, ClaimCas, ClaimVerify, LoadTarget, LoadValue,
     shared
<1>4. CASE HelpThread(t) \/ HelpDone(t) \/ StageCas(t)
  BY <1>1, <1>4 DEF HelpThread, HelpDone, StageCas, shared
<1>5. CASE SetTarget(t) \/ SetDesired(t) \/ SetCas(t) \/ SetVerify(t)
  BY <1>1, <1>5 DEF SetTarget, SetDesired, SetCas, SetVerify, LoadTarget, LoadValue, shared
<1>6. CASE RevertTarget(t) \/ RevertExpected(t) \/ RevertCas(t) \/ Prepare(t) \/ ReturnFatal(t)
  BY <1>1, <1>6 DEF RevertTarget, RevertExpected, RevertCas, Prepare, ReturnFatal,
     LoadTarget, LoadValue, shared
<1> QED BY <1>2, <1>3, <1>4, <1>5, <1>6 DEF Step

(* Stages go along their edges, and only t itself publishes a call of t. *)
LEMMA StagesProgress ==
  ASSUME ProtocolInv, NEW t \in Thread, Call(t) \/ Step(t)
  PROVE  /\ ss \in StageSeq /\ ss' \in StageSeq /\ Edges(ss, ss')
         /\ \A u \in Thread : ss[u].stage = "Inactive" /\ ss'[u].stage # "Inactive" =>
              u = t /\ Publish(t)
<1>1. [Next]_vars
  BY DEF Next
<1>2. ss \in StageSeq /\ ss' \in StageSeq
  BY <1>1, NextOK DEF ProtocolInv, TypeOK, StageSeq
<1>3. Edges(ss, ss')
  BY <1>1, StepTakesEdge DEF Edges
<1>4. ss' = ss \/ Publish(t) \/ StageCas(t) \/ Prepare(t)
  BY DEF Step, Call, StoreTarget, StoreExpected, StoreDesired, ClaimTarget,
     ClaimExpected, ClaimCas, ClaimVerify, HelpThread, HelpDone, SetTarget, SetDesired,
     SetCas, SetVerify, RevertTarget, RevertExpected, RevertCas, ReturnFatal,
     LoadTarget, LoadValue, shared
<1>5. ASSUME NEW u \in Thread, ss[u].stage = "Inactive", ss'[u].stage # "Inactive"
      PROVE  u = t /\ Publish(t)
  <2>1. CASE Publish(t)
    BY <1>2, <1>5, <2>1 DEF Publish, StageSeq
  <2>2. CASE Prepare(t)
    BY <1>2, <1>5, <2>2 DEF Prepare, StageSeq
  <2>3. CASE StageCas(t)
    <3>1. ss' # ss
      BY <1>5
    <3> DEFINE op == frame[t].op
               goal == frame[t].after
    <3>2. /\ goal \in {"Setting", "Reverting", "Successful", "Reverted"}
          /\ ss[op.owner] = [stage |-> StageBefore(goal), seq |-> op.seq]
          /\ \A v \in Thread \ {op.owner} : ss'[v] = ss[v]
      BY <2>3, <3>1, StageCasEffect
    <3>3. ss[op.owner].stage # "Inactive"
      BY <3>2 DEF StageBefore
    <3> QED BY <1>5, <3>2, <3>3
  <2> QED BY <1>4, <1>5, <2>1, <2>2, <2>3
<1> QED BY <1>2, <1>3, <1>5

(* The words of a published operation are not touched. *)
LEMMA TargetsKept ==
  ASSUME ProtocolInv, NEW t \in Thread, Call(t) \/ Step(t),
         NEW u \in Thread, ss[u].stage # "Inactive"
  PROVE  target'[u] = target[u]
<1>1. target \in [Thread -> [Word -> Address \cup {Null}]]
  BY DEF ProtocolInv, TypeOK
<1>2. target' = target \/ StoreTarget(t)
  BY DEF Step, Call, StoreExpected, StoreDesired, Publish, ClaimTarget,
     ClaimExpected, ClaimCas, ClaimVerify, HelpThread, HelpDone, StageCas, SetTarget, SetDesired,
     SetCas, SetVerify, RevertTarget, RevertExpected, RevertCas, Prepare, ReturnFatal,
     LoadTarget, LoadValue, shared
<1>3. CASE StoreTarget(t)
  <2>1. ss[t].stage = "Inactive"
    BY <1>3, FrameFacts DEF StoreTarget, FrameOK, RoleOK, StorePC
  <2> QED BY <1>1, <1>3, <2>1 DEF StoreTarget
<1> QED BY <1>2, <1>3

(* A cell with the marker of an operation being claimed keeps it, and a     *)
(* marker comes into a cell by a claim.                                     *)
LEMMA CellsChange ==
  ASSUME ProtocolInv, NEW t \in Thread, Call(t) \/ Step(t), NEW x \in Address
  PROVE  /\ memory[x] \in Marker /\ Claiming(memory[x], ss) => memory'[x] = memory[x]
         /\ \/ memory'[x] = memory[x]
            \/ memory'[x] \notin Marker
            \/ ClaimCas(t) /\ x = frame[t].addr /\ memory'[x] = frame[t].op
<1> USE ConstantFacts
<1>1. memory \in [Address -> Value \cup Marker]
  BY DEF ProtocolInv, TypeOK
<1>2. memory' = memory \/ ClaimCas(t) \/ SetCas(t) \/ RevertCas(t)
  BY DEF Step, Call, StoreTarget, StoreExpected, StoreDesired, Publish, ClaimTarget,
     ClaimExpected, ClaimVerify, HelpThread, HelpDone, StageCas, SetTarget, SetDesired,
     SetVerify, RevertTarget, RevertExpected, Prepare, ReturnFatal,
     LoadTarget, LoadValue, shared
<1>3. frame[t].pc \in {"claimCas", "setCas", "revertCas"} =>
        /\ frame[t].addr \in Address /\ frame[t].val \in Value /\ frame[t].op # Null
        /\ PhaseOK(frame[t], ss)
  BY FrameFacts DEF FrameOK, LocalsOK, NoOpPC, StorePC
<1>4. CASE ClaimCas(t)
  BY <1>1, <1>3, <1>4 DEF ClaimCas
<1>5. CASE SetCas(t) \/ RevertCas(t)
  <2>1. /\ frame[t].pc \in {"setCas", "revertCas"}
        /\ \/ memory' = memory
           \/ /\ memory[frame[t].addr] = frame[t].op
              /\ memory' = [memory EXCEPT ![frame[t].addr] = frame[t].val]
    BY <1>5 DEF SetCas, RevertCas
  <2>2. ~Claiming(frame[t].op, ss)
    BY <1>3, <2>1 DEF PhaseOK, Claiming, SetPC, RevertPC
  <2> QED BY <1>1, <1>3, <2>1, <2>2
<1> QED BY <1>2, <1>4, <1>5
(* A thread in the middle of an operation has published a call of its own. *)
LEMMA InOperation ==
  ASSUME ProtocolInv, NEW t \in Thread, frame[t].pc \notin NoOpPC
  PROVE  ss[t].stage # "Inactive"
<1>1. ss[t].seq \in Nat
  BY DEF ProtocolInv, TypeOK
<1>2. PICK f \in Frame : f.op = [owner |-> t, seq |-> ss[t].seq] /\ Issued(f.op, ss)
  <2>1. CASE ~Helping(t)
    BY <2>1, FrameFacts DEF OwnUnlessHelping
  <2>2. CASE Helping(t)
    <3> DEFINE f == stack[t][1]
    <3>1. stack[t] \in Seq(Frame) /\ stack[t] # <<>>
      BY <2>2 DEF ProtocolInv, TypeOK, Helping
    <3>2. 1 \in 1 .. Len(stack[t]) /\ f \in Frame
      BY <3>1
    <3>3. f.pc = "claimCas" /\ LocalsOK(f) /\ PhaseOK(f, ss) /\ RoleOK(t, f, FALSE, ss, words[t])
      BY <3>2 DEF ProtocolInv, FramesOK, StackOK
    <3>4. f.op # Null
      BY <3>3 DEF LocalsOK, NoOpPC, StorePC
    <3> QED BY <3>2, <3>3, <3>4 DEF PhaseOK, RoleOK
  <2> QED BY <2>1, <2>2
<1> QED BY <1>1, <1>2 DEF Issued

(* Taking up the last suspended claim leaves the others where they were. *)
LEMMA StackLoses ==
  ASSUME NEW st \in Seq(Frame), st # <<>>
  PROVE  LET r == SubSeq(st, 1, Len(st) - 1) IN
         /\ Len(st) \in Nat \ {0} /\ r \in Seq(Frame) /\ Len(r) = Len(st) - 1
         /\ \A i \in 1 .. Len(st) - 1 : r[i] = st[i]
<1> DEFINE n == Len(st)
           r == SubSeq(st, 1, n - 1)
<1>1. n \in Nat \ {0}
  OBVIOUS
<1>2. \A i \in 1 .. n - 1 : i \in 1 .. n /\ st[i] \in Frame
  BY <1>1
<1>3. /\ r \in Seq(Frame)
      /\ Len(r) = IF 1 <= n - 1 THEN (n - 1) - 1 + 1 ELSE 0
      /\ \A i \in 1 .. (n - 1) - 1 + 1 : r[i] = st[1 + i - 1]
  BY <1>1, <1>2, SubSeqProperties
<1>4. (n - 1) - 1 + 1 = n - 1 /\ (IF 1 <= n - 1 THEN (n - 1) - 1 + 1 ELSE 0) = n - 1
  <2>1. \A k \in Nat \ {0} :
          (k - 1) - 1 + 1 = k - 1 /\ (IF 1 <= k - 1 THEN (k - 1) - 1 + 1 ELSE 0) = k - 1
    OBVIOUS
  <2> QED BY <1>1, <2>1
<1>5. \A i \in 1 .. n - 1 : 1 + i - 1 = i
  BY <1>1
<1> QED BY <1>1, <1>3, <1>4, <1>5

LEMMA StackGains ==
  ASSUME NEW st \in Seq(Frame), NEW f \in Frame
  PROVE  LET r == Append(st, f) IN
         /\ Len(st) \in Nat /\ Len(r) = Len(st) + 1 /\ r[Len(st) + 1] = f
         /\ \A i \in 1 .. Len(st) : r[i] = st[i]
         /\ \A i \in 1 .. Len(r) : i \in 1 .. Len(st) \/ i = Len(st) + 1
<1>1. Len(st) \in Nat
  OBVIOUS
<1>2. \A n \in Nat : \A i \in 1 .. n + 1 : i \in 1 .. n \/ i = n + 1
  OBVIOUS
<1> QED BY <1>1, <1>2
-----------------------------------------------------------------------------
(* The kinds of steps, by what they read and where they lead: the other    *)
(* invariants need no more of the code than this.                          *)

StoreStep(t) == StoreTarget(t) \/ StoreExpected(t) \/ StoreDesired(t)

OutsideStep(t) == Call(t) \/ StoreStep(t) \/ Publish(t) \/ Prepare(t) \/ ReturnFatal(t)

(* A thread that is not in one of these goes on with its operation. *)
BesideCells == UNCHANGED <<target, expected, desired, ss, words, stack, result>>
Nothing == UNCHANGED memory /\ BesideCells

Loads(t) ==
  LET f == frame[t]
      g == frame'[t]
  IN
  /\ Nothing
  /\ g.op = f.op /\ g.word = f.word /\ g.seen = f.seen /\ g.after = f.after
  /\ \/ /\ <<f.pc, g.pc>> \in {<<"claimTarget", "claimExpected">>, <<"setTarget", "setDesired">>,
                               <<"revertTarget", "revertExpected">>}
        /\ g.addr = target[f.op.owner][f.word]
     \/ /\ <<f.pc, g.pc>> \in {<<"claimExpected", "claimCas">>, <<"revertExpected", "revertCas">>}
        /\ g.addr = f.addr /\ g.val = expected[f.op.owner][f.word]
     \/ /\ f.pc = "setDesired" /\ g.pc = "setCas"
        /\ g.addr = f.addr /\ g.val = desired[f.op.owner][f.word]

Claims(t) ==
  LET f == frame[t]
      g == frame'[t]
  IN
  /\ BesideCells
  /\ f.pc = "claimCas" /\ memory[f.addr] \in {f.val, f.op}
  /\ memory' = [memory EXCEPT ![f.addr] = f.op]
  /\ g.op = f.op
  /\ \/ f.word = LastWord /\ g.pc = "stageCas" /\ g.after = "Setting"
     \/ f.word # LastWord /\ g.pc = "claimTarget" /\ g.word = f.word + 1

ClaimFails(t) ==
  LET f == frame[t]
      g == frame'[t]
  IN
  /\ Nothing
  /\ f.pc = "claimCas" /\ memory[f.addr] \notin {f.val, f.op}
  /\ g = [f EXCEPT !.pc = "claimVerify", !.seen = memory[f.addr]]

(* The operation is still being claimed. *)
Verifies(t) ==
  LET f == frame[t]
      g == frame'[t]
  IN
  /\ Nothing
  /\ f.pc = "claimVerify" /\ Claiming(f.op, ss)
  /\ \/ /\ f.seen \in Value /\ g.pc = "stageCas" /\ g.after = "Reverting"
        /\ g.op = f.op /\ g.word = f.word
     \/ f.seen \in Marker /\ g = [f EXCEPT !.pc = "helpLoad"]
     \/ f.seen \in IllegalValue /\ g.pc = "fatal" /\ g.op = f.op

(* The operation is in another stage, or over. *)
Turns(t) ==
  LET f == frame[t]
      g == frame'[t]
  IN
  /\ Nothing
  /\ f.pc \in {"claimVerify", "stageCas", "setVerify"} /\ g.op = f.op
  /\ \/ /\ g.pc = "setTarget" /\ g.word = 0
        /\ Current(f.op, ss) /\ StageOf(f.op, ss) = "Setting"
     \/ g.pc = "revertTarget" /\ g.word = LastWord

Suspended(f) == [f EXCEPT !.pc = "claimCas", !.seen = Null]

TriesAgain(t) ==
  Nothing /\ frame[t].pc = "helpLoad" /\ frame'[t] = Suspended(frame[t])

BeginsHelp(t) ==
  LET f == frame[t]
      g == frame'[t]
  IN
  /\ UNCHANGED <<memory, target, expected, desired, ss, words, result>>
  /\ f.pc = "helpLoad" /\ f.seen \in Marker
  /\ stack'[t] = Append(stack[t], Suspended(f))
  /\ g.op = f.seen
  /\ \/ g.pc = "claimTarget"
     \/ g.pc = "setTarget" /\ g.word = 0 /\ Current(g.op, ss) /\ StageOf(g.op, ss) = "Setting"
     \/ g.pc = "revertTarget"

EndsHelp(t) ==
  LET n == Len(stack[t]) IN
  /\ UNCHANGED <<memory, target, expected, desired, ss, words, result>>
  /\ frame[t].pc = HelpReturn /\ stack[t] # <<>>
  /\ frame'[t] = stack[t][n] /\ frame'[t].pc = "claimCas"
  /\ stack'[t] = SubSeq(stack[t], 1, n - 1)

Decides(t) ==
  LET f == frame[t]
      g == frame'[t]
      o == f.op.owner
  IN
  /\ UNCHANGED <<memory, target, expected, desired, words, stack, result>>
  /\ f.pc = "stageCas" /\ g.op = f.op
  /\ Current(f.op, ss) /\ StageOf(f.op, ss) = StageBefore(f.after)
  /\ ss' = [ss EXCEPT ![o].stage = f.after]
  /\ \/ f.after = "Setting" /\ g.pc = "setTarget" /\ g.word = 0
     \/ f.after = "Reverting" /\ g.pc = "revertTarget" /\ g.word = f.word
     \/ f.after \in {"Successful", "Reverted"} /\ g.pc = HelpReturn

SetsOn(f, g) ==
  /\ g.op = f.op
  /\ \/ f.word # LastWord /\ g.pc = "setTarget" /\ g.word = f.word + 1
     \/ f.word = LastWord /\ g.pc = "stageCas" /\ g.after = "Successful"
     \/ f.word = LastWord /\ g.pc = "prepare" /\ g.after = "Ok"

Sets(t) ==
  LET f == frame[t] IN
  /\ BesideCells
  /\ f.pc = "setCas" /\ memory[f.addr] = f.op
  /\ memory' = [memory EXCEPT ![f.addr] = f.val]
  /\ SetsOn(f, frame'[t])

SetFails(t) ==
  LET f == frame[t]
      g == frame'[t]
  IN
  /\ Nothing
  /\ f.pc = "setCas" /\ memory[f.addr] # f.op
  /\ g.pc = "setVerify" /\ g.op = f.op /\ g.word = f.word

SetGoesOn(t) == Nothing /\ frame[t].pc = "setVerify" /\ SetsOn(frame[t], frame'[t])

Reverts(t) ==
  LET f == frame[t]
      g == frame'[t]
  IN
  /\ BesideCells
  /\ f.pc = "revertCas"
  /\ memory' = IF memory[f.addr] = f.op THEN [memory EXCEPT ![f.addr] = f.val] ELSE memory
  /\ g.op = f.op
  /\ \/ f.word # 0 /\ g.pc = "revertTarget" /\ g.word = f.word - 1 /\ g.after = f.after
     \/ f.word = 0 /\ g.pc = "prepare" /\ g.after = f.after
     \/ f.word = 0 /\ g.pc = "stageCas" /\ g.after = "Reverted"
     \/ f.word = 0 /\ g.pc = HelpReturn

InsideStep(t) ==
  \/ Loads(t) \/ Claims(t) \/ ClaimFails(t) \/ Verifies(t) \/ Turns(t)
  \/ TriesAgain(t) \/ BeginsHelp(t) \/ EndsHelp(t) \/ Decides(t)
  \/ Sets(t) \/ SetFails(t) \/ SetGoesOn(t) \/ Reverts(t)

(* A stage that is not the one expected is not an illegal one. *)
LEMMA TurnFrame ==
  ASSUME NEW t \in Thread, NEW op \in Marker, NEW helping \in BOOLEAN,
         NEW s \in StageSeq, NEW ws, NEW g,
         Issued(op, s), Current(op, s) => StageOf(op, s) # "Claiming",
         OwnUnlessHelping(t, op, helping, s),
         g \in {AfterVerifyError(op, s[op.owner], helping),
                AfterStageCasFailed(op, s[op.owner], helping)}
  PROVE  /\ g.op = op
         /\ \/ /\ g.pc = "setTarget" /\ g.word = 0
               /\ Current(op, s) /\ StageOf(op, s) = "Setting"
            \/ g.pc = "revertTarget" /\ g.word = LastWord
<1>1. CASE Current(op, s)
  <2>1. op.owner \in Thread /\ op.seq \in Nat /\ s[op.owner] \in [stage : Stage, seq : Nat]
    BY DEF Marker, StageSeq
  <2>2. StageOf(op, s) \in {"Setting", "Reverting", "Reverted", "Successful"}
    BY <1>1, <2>1 DEF Issued, Current, StageOf, Stage
  <2>3. s[op.owner].seq = op.seq
    BY <1>1 DEF Current
  <2>4. g = AfterStageChange(op, StageOf(op, s), helping)
    BY <2>3 DEF AfterVerifyError, AfterStageCasFailed, StageOf
  <2> QED BY <1>1, <2>2, <2>4 DEF AfterStageChange, Revert, At
<1>2. CASE ~Current(op, s)
  <2>1. s[op.owner].seq # op.seq
    BY <1>2 DEF Current
  <2>2. helping = TRUE
    BY <2>1 DEF OwnUnlessHelping
  <2>3. g = Revert(op, LastWord, HelpReturn)
    BY <2>1, <2>2 DEF AfterVerifyError, AfterStageCasFailed
  <2> QED BY <2>3 DEF Revert, At
<1> QED BY <1>1, <1>2

LEMMA StepKinds ==
  ASSUME ProtocolInv, NEW t \in Thread, Step(t), ~OutsideStep(t)
  PROVE  /\ frame[t].pc \notin NoOpPC
         /\ InsideStep(t)
<1> DEFINE f == frame[t]
           actual == ss[f.op.owner]
<1>1. f.pc \notin NoOpPC
  BY DEF Step, OutsideStep, StoreStep, ClaimTarget, ClaimExpected, ClaimCas, ClaimVerify,
     HelpThread, HelpDone, StageCas, SetTarget, SetDesired, SetCas, SetVerify, RevertTarget,
     RevertExpected, RevertCas, LoadTarget, LoadValue, NoOpPC, StorePC, HelpReturn
<1>2. /\ frame \in [Thread -> Frame] /\ stack \in [Thread -> Seq(Frame)]
      /\ memory \in [Address -> Value \cup Marker]
      /\ f \in Frame /\ ss \in StageSeq /\ Helping(t) \in BOOLEAN
      /\ f.op # Null /\ f.op \in Marker /\ f.op.owner \in Thread /\ Issued(f.op, ss)
      /\ OwnUnlessHelping(t, f.op, Helping(t), ss)
      /\ FrameOK(t, f, Helping(t), ss, words[t])
      /\ actual \in [stage : Stage, seq : Nat]
  BY <1>1, FrameFacts DEF ProtocolInv, TypeOK, StageSeq
<1>3. \A g : frame' = [frame EXCEPT ![t] = g] => frame'[t] = g
  BY <1>2
<1>4. LocalsOK(f)
  BY <1>2 DEF FrameOK
<1>5. CASE ClaimTarget(t) \/ SetTarget(t) \/ RevertTarget(t)
  <2>1. PICK next \in {"claimExpected", "setDesired", "revertExpected"} :
          \/ next = "claimExpected" /\ LoadTarget(t, "claimTarget", next)
          \/ next = "setDesired" /\ LoadTarget(t, "setTarget", next)
          \/ next = "revertExpected" /\ LoadTarget(t, "revertTarget", next)
    BY <1>5 DEF ClaimTarget, SetTarget, RevertTarget
  <2> DEFINE x == target[f.op.owner][f.word]
             g == [f EXCEPT !.pc = next, !.addr = x]
  <2>2. x # Null
    <3>1. ss[f.op.owner].seq > 0 \/ ss[f.op.owner].stage # "Inactive"
      BY <1>2 DEF Issued, Marker, StageSeq
    <3>2. f.word \in Word
      BY <1>2 DEF Frame
    <3> QED BY <1>2, <3>1, <3>2 DEF ProtocolInv, TargetsStored, WordsStored
  <2>3. frame'[t] = g
    BY <1>3, <2>1, <2>2 DEF LoadTarget
  <2>4. /\ g.pc = next /\ g.addr = x /\ g.op = f.op /\ g.word = f.word /\ g.seen = f.seen
        /\ g.after = f.after
    BY <1>2 DEF Frame
  <2>5. Loads(t)
    BY <2>1, <2>3, <2>4 DEF Loads, LoadTarget, Nothing, BesideCells, shared
  <2> QED BY <1>1, <2>5 DEF InsideStep
<1>6. CASE ClaimExpected(t) \/ SetDesired(t) \/ RevertExpected(t)
  <2> DEFINE g(next, v) == [f EXCEPT !.pc = next, !.val = v]
  <2>1. /\ Nothing
        /\ \/ /\ f.pc = "claimExpected"
              /\ frame'[t] = g("claimCas", expected[f.op.owner][f.word])
           \/ /\ f.pc = "revertExpected"
              /\ frame'[t] = g("revertCas", expected[f.op.owner][f.word])
           \/ /\ f.pc = "setDesired"
              /\ frame'[t] = g("setCas", desired[f.op.owner][f.word])
    BY <1>2, <1>6 DEF ClaimExpected, SetDesired, RevertExpected, LoadValue, Nothing, BesideCells,
       shared
  <2>2. \A next, v : LET h == g(next, v) IN
          /\ h.pc = next /\ h.val = v /\ h.addr = f.addr /\ h.op = f.op /\ h.word = f.word
          /\ h.seen = f.seen /\ h.after = f.after
    BY <1>2 DEF Frame
  <2> HIDE DEF g
  <2>3. Loads(t)
    BY <2>1, <2>2 DEF Loads
  <2> QED BY <1>1, <2>3 DEF InsideStep
<1>7. CASE ClaimCas(t)
  <2>1. BesideCells /\ f.pc = "claimCas" /\ f.addr \in Address
    BY <1>4, <1>7 DEF ClaimCas, BesideCells, shared, LocalsOK
  <2>2. CASE /\ memory[f.addr] \in {f.val, f.op} /\ memory' = [memory EXCEPT ![f.addr] = f.op]
             /\ frame' = [frame EXCEPT ![t] = AfterClaim(f)]
    <3>1. frame'[t] = AfterClaim(f)
      BY <1>3, <2>2
    <3>2. Claims(t)
      BY <2>1, <2>2, <3>1 DEF Claims, AfterClaim, At
    <3> QED BY <1>1, <3>2 DEF InsideStep
  <2>3. CASE /\ memory[f.addr] \notin {f.val, f.op} /\ UNCHANGED memory
             /\ frame' = [frame EXCEPT ![t].pc = "claimVerify", ![t].seen = memory[f.addr]]
    <3>1. frame'[t] = [f EXCEPT !.pc = "claimVerify", !.seen = memory[f.addr]]
      BY <1>2, <2>3
    <3>2. ClaimFails(t)
      BY <2>1, <2>3, <3>1 DEF ClaimFails, Nothing
    <3> QED BY <1>1, <3>2 DEF InsideStep
  <2>4. UNCHANGED memory /\ memory[f.addr] = f.op => memory' = [memory EXCEPT ![f.addr] = f.op]
    BY <1>2, <2>1
  <2> QED BY <1>7, <2>2, <2>3, <2>4 DEF ClaimCas
<1>8. CASE ClaimVerify(t)
  <2>1. Nothing /\ f.pc = "claimVerify"
    BY <1>8 DEF ClaimVerify, Nothing, BesideCells, shared
  <2>2. CASE /\ actual # [stage |-> "Claiming", seq |-> f.op.seq]
             /\ frame' = [frame EXCEPT ![t] = AfterVerifyError(f.op, actual, Helping(t))]
    <3>1. Current(f.op, ss) => StageOf(f.op, ss) # "Claiming"
      BY <1>2, <2>2 DEF Current, StageOf
    <3>2. frame'[t] = AfterVerifyError(f.op, actual, Helping(t))
      BY <1>3, <2>2
    <3>3. Turns(t)
      BY <1>2, <2>1, <3>1, <3>2, TurnFrame DEF Turns
    <3> QED BY <1>1, <3>3 DEF InsideStep
  <2>3. CASE actual = [stage |-> "Claiming", seq |-> f.op.seq]
    <3>1. Claiming(f.op, ss)
      BY <2>3 DEF Claiming, Current, StageOf
    <3>2. CASE /\ f.seen \in Value
               /\ frame' = [frame EXCEPT ![t] = At("stageCas", f.op, f.word, "Reverting")]
      <4>1. frame'[t] = At("stageCas", f.op, f.word, "Reverting")
        BY <1>3, <3>2
      <4>2. Verifies(t)
        BY <2>1, <3>1, <3>2, <4>1 DEF Verifies, At
      <4> QED BY <1>1, <4>2 DEF InsideStep
    <3>3. CASE f.seen \in Marker /\ frame' = [frame EXCEPT ![t].pc = "helpLoad"]
      <4>1. frame'[t] = [f EXCEPT !.pc = "helpLoad"]
        BY <1>2, <3>3
      <4>2. Verifies(t)
        BY <2>1, <3>1, <3>3, <4>1 DEF Verifies
      <4> QED BY <1>1, <4>2 DEF InsideStep
    <3>4. CASE /\ f.seen \in IllegalValue
               /\ frame' = [frame EXCEPT ![t] = Fatal(f.op, "TopBitsOfValueWereIllegal")]
      <4>1. frame'[t] = Fatal(f.op, "TopBitsOfValueWereIllegal")
        BY <1>3, <3>4
      <4>2. Verifies(t)
        BY <2>1, <3>1, <3>4, <4>1 DEF Verifies, Fatal, At
      <4> QED BY <1>1, <4>2 DEF InsideStep
    <3> QED BY <1>8, <2>3, <3>2, <3>3, <3>4 DEF ClaimVerify
  <2> QED BY <1>8, <2>2, <2>3 DEF ClaimVerify
<1>9. CASE HelpThread(t)
  <2> DEFINE helpee == ss[f.seen.owner]
  <2>1. /\ f.pc = "helpLoad" /\ f.seen \in Marker /\ Issued(f.seen, ss)
        /\ helpee \in [stage : Stage, seq : Nat]
    BY <1>2, <1>4, <1>9 DEF HelpThread, LocalsOK, FrameOK, PhaseOK, StageSeq, Marker
  <2>2. UNCHANGED <<memory, target, expected, desired, ss, words, result>>
    BY <1>9 DEF HelpThread, shared
  <2>3. CASE frame' = [frame EXCEPT ![t] = Suspended(f)] /\ UNCHANGED stack
    <3>1. frame'[t] = Suspended(f)
      BY <1>3, <2>3
    <3>2. TriesAgain(t)
      BY <2>1, <2>2, <2>3, <3>1 DEF TriesAgain, Nothing, BesideCells
    <3> QED BY <1>1, <3>2 DEF InsideStep
  <2>4. CASE /\ helpee.seq = f.seen.seq /\ helpee.stage \notin {"Successful", "Reverted"}
             /\ stack' = [stack EXCEPT ![t] = Append(@, Suspended(f))]
             /\ frame' = [frame EXCEPT ![t] = HelpFrame(f.seen, helpee.stage)]
    <3>1. helpee.stage \in {"Claiming", "Setting", "Reverting"} /\ Current(f.seen, ss)
      BY <2>1, <2>4 DEF Issued, Marker, Current, Stage
    <3>2. frame'[t] = HelpFrame(f.seen, helpee.stage)
      BY <1>3, <2>4
    <3>3. stack'[t] = Append(stack[t], Suspended(f))
      BY <1>2, <2>4
    <3>4. LET g == frame'[t] IN
          /\ g.op = f.seen
          /\ \/ g.pc = "claimTarget"
             \/ g.pc = "setTarget" /\ g.word = 0 /\ helpee.stage = "Setting"
             \/ g.pc = "revertTarget"
      BY <3>1, <3>2 DEF HelpFrame, Revert, At
    <3>5. BeginsHelp(t)
      BY <2>1, <2>2, <3>1, <3>3, <3>4 DEF BeginsHelp, StageOf
    <3> QED BY <1>1, <3>5 DEF InsideStep
  <2> QED BY <1>9, <2>3, <2>4 DEF HelpThread, Suspended
<1>10. CASE HelpDone(t)
  <2> DEFINE n == Len(stack[t])
  <2>1. stack[t] \in Seq(Frame) /\ stack[t] # <<>> /\ f.pc = HelpReturn
    BY <1>2, <1>10 DEF HelpDone, FrameOK, RoleOK, Helping
  <2>2. n \in 1 .. n
    BY <2>1
  <2>3. frame'[t] = stack[t][n] /\ stack'[t] = SubSeq(stack[t], 1, n - 1)
    BY <1>2, <1>10 DEF HelpDone
  <2>4. frame'[t].pc = "claimCas"
    BY <2>2, <2>3 DEF ProtocolInv, FramesOK, StackOK
  <2>5. EndsHelp(t)
    BY <1>10, <2>1, <2>3, <2>4 DEF EndsHelp, HelpDone, shared
  <2> QED BY <1>1, <2>5 DEF InsideStep
<1>11. CASE StageCas(t)
  <2> DEFINE before == [stage |-> StageBefore(f.after), seq |-> f.op.seq]
  <2>1. /\ f.pc = "stageCas"
        /\ f.after \in {"Setting", "Reverting", "Successful", "Reverted"}
        /\ UNCHANGED <<memory, target, expected, desired, words, stack, result>>
    BY <1>4, <1>11 DEF StageCas, LocalsOK, shared
  <2>2. CASE /\ actual # before /\ UNCHANGED ss
             /\ frame' = [frame EXCEPT ![t] = AfterStageCasFailed(f.op, actual, Helping(t))]
    <3>1. Current(f.op, ss) => StageOf(f.op, ss) # "Claiming"
      <4> SUFFICES ASSUME Current(f.op, ss), StageOf(f.op, ss) = "Claiming" PROVE FALSE
        OBVIOUS
      <4>1. f.after \notin {"Successful", "Reverted"}
        BY <1>2, <2>1 DEF FrameOK, PhaseOK
      <4>2. actual = [stage |-> "Claiming", seq |-> f.op.seq]
        BY <1>2 DEF Current, StageOf
      <4> QED BY <2>1, <2>2, <4>1, <4>2 DEF StageBefore
    <3>2. frame'[t] = AfterStageCasFailed(f.op, actual, Helping(t))
      BY <1>3, <2>2
    <3>3. Turns(t)
      BY <1>2, <2>1, <2>2, <3>1, <3>2, TurnFrame DEF Turns, Nothing, BesideCells
    <3> QED BY <1>1, <3>3 DEF InsideStep
  <2>3. CASE /\ actual = before /\ ss' = [ss EXCEPT ![f.op.owner].stage = f.after]
             /\ frame' = [frame EXCEPT ![t] = AfterStageCasDone(f, Helping(t))]
    <3>1. frame'[t] = AfterStageCasDone(f, Helping(t))
      BY <1>3, <2>3
    <3>2. Current(f.op, ss) /\ StageOf(f.op, ss) = StageBefore(f.after)
      BY <2>3 DEF Current, StageOf
    <3>3. Decides(t)
      BY <2>1, <2>3, <3>1, <3>2 DEF Decides, AfterStageCasDone, Revert, At
    <3> QED BY <1>1, <3>3 DEF InsideStep
  <2> QED BY <1>11, <2>2, <2>3 DEF StageCas
<1>12. ASSUME frame'[t] = AfterSet(f, Helping(t)) PROVE SetsOn(f, frame'[t])
  BY <1>12 DEF SetsOn, AfterSet, At
<1>13. CASE SetCas(t)
  <2>1. BesideCells /\ f.pc = "setCas"
    BY <1>13 DEF SetCas, BesideCells, shared
  <2>2. CASE /\ memory[f.addr] = f.op /\ memory' = [memory EXCEPT ![f.addr] = f.val]
             /\ frame' = [frame EXCEPT ![t] = AfterSet(f, Helping(t))]
    <3>1. Sets(t)
      BY <1>3, <1>12, <2>1, <2>2 DEF Sets
    <3> QED BY <1>1, <3>1 DEF InsideStep
  <2>3. CASE /\ memory[f.addr] # f.op /\ UNCHANGED memory
             /\ frame' = [frame EXCEPT ![t] = At("setVerify", f.op, f.word, Null)]
    <3>1. frame'[t] = At("setVerify", f.op, f.word, Null)
      BY <1>3, <2>3
    <3>2. SetFails(t)
      BY <2>1, <2>3, <3>1 DEF SetFails, Nothing, At
    <3> QED BY <1>1, <3>2 DEF InsideStep
  <2> QED BY <1>13, <2>2, <2>3 DEF SetCas
<1>14. CASE SetVerify(t)
  <2>1. Nothing /\ f.pc = "setVerify"
    BY <1>14 DEF SetVerify, Nothing, BesideCells, shared
  <2>2. CASE frame' = [frame EXCEPT ![t] = AfterSet(f, Helping(t))]
    <3>1. SetGoesOn(t)
      BY <1>3, <1>12, <2>1, <2>2 DEF SetGoesOn
    <3> QED BY <1>1, <3>1 DEF InsideStep
  <2>3. CASE frame' = [frame EXCEPT ![t] = AfterVerifyError(f.op, actual, Helping(t))]
    <3>1. Current(f.op, ss) => StageOf(f.op, ss) # "Claiming"
      BY <1>2, <2>1 DEF FrameOK, PhaseOK, SetPC
    <3>2. frame'[t] = AfterVerifyError(f.op, actual, Helping(t))
      BY <1>3, <2>3
    <3>3. Turns(t)
      BY <1>2, <2>1, <3>1, <3>2, TurnFrame DEF Turns
    <3> QED BY <1>1, <3>3 DEF InsideStep
  <2> QED BY <1>14, <2>2, <2>3 DEF SetVerify
<1>15. CASE RevertCas(t)
  <2>1. /\ BesideCells /\ f.pc = "revertCas" /\ frame'[t] = AfterRevert(f)
        /\ memory' = IF memory[f.addr] = f.op THEN [memory EXCEPT ![f.addr] = f.val] ELSE memory
    BY <1>3, <1>15 DEF RevertCas, BesideCells, shared
  <2>2. f.after \in Outcome \cup {"Reverted", HelpReturn}
    BY <1>4, <2>1 DEF LocalsOK, RevertPC
  <2>3. Reverts(t)
    BY <2>1, <2>2 DEF Reverts, AfterRevert, At, Outcome, HelpReturn
  <2> QED BY <1>1, <2>3 DEF InsideStep
<1> QED BY <1>5, <1>6, <1>7, <1>8, <1>9, <1>10, <1>11, <1>13, <1>14, <1>15
        DEF Step, OutsideStep, StoreStep

(* A step outside an operation, or to its begin or end. *)
LEMMA OutsideEffect ==
  ASSUME ProtocolInv, NEW t \in Thread, OutsideStep(t)
  PROVE  /\ UNCHANGED memory /\ stack'[t] = <<>>
         /\ frame'[t].pc \in NoOpPC \cup {"claimTarget"}
<1>1. /\ frame \in [Thread -> Frame] /\ frame[t] \in Frame
      /\ stack \in [Thread -> Seq(Frame)]
  BY DEF ProtocolInv, TypeOK
<1>2. CASE Call(t) \/ StoreStep(t) \/ Publish(t) \/ Prepare(t)
  <2>1. stack[t] = <<>>
    BY <1>2, NoStackOutsideOperations DEF NoOpPC, StorePC, Call, StoreStep, StoreTarget,
       StoreExpected, StoreDesired, Publish, Prepare
  <2>2. CASE StoreDesired(t)
    <3>1. \/ frame'[t] = At("publish", Null, 0, Null)
          \/ frame'[t] = At("storeTarget", Null, frame[t].word + 1, Null)
      BY <1>1, <2>2 DEF StoreDesired
    <3> QED BY <2>1, <2>2, <3>1 DEF StoreDesired, At, NoOpPC, StorePC
  <2> QED BY <1>1, <1>2, <2>1, <2>2 DEF Call, StoreStep, StoreTarget, StoreExpected, Publish,
             Prepare, At, NoOpPC, StorePC, Frame
<1>3. CASE ReturnFatal(t)
  BY <1>1, <1>3 DEF ReturnFatal, At, NoOpPC
<1> QED BY <1>2, <1>3 DEF OutsideStep

(* A step inside an operation leaves the words and stays inside it. *)
LEMMA InsideEffect ==
  ASSUME ProtocolInv, NEW t \in Thread, Step(t), ~OutsideStep(t)
  PROVE  /\ UNCHANGED <<target, expected, desired, words, result>>
         /\ ss' = ss \/ Decides(t)
         /\ ss[t].stage # "Inactive" /\ ss'[t].stage # "Inactive"
         /\ frame'[t].pc \notin StorePC \cup {"idle"}
<1>1. frame[t].pc \notin NoOpPC /\ InsideStep(t)
  BY StepKinds
<1>2. UNCHANGED <<target, expected, desired, words, result>> /\ (ss' = ss \/ Decides(t))
  BY <1>1 DEF InsideStep, Loads, Claims, ClaimFails, Verifies, Turns, TriesAgain, BeginsHelp,
     EndsHelp, Decides, Sets, SetFails, SetGoesOn, Reverts, Nothing, BesideCells
<1>3. ss[t].stage # "Inactive" /\ ss \in StageSeq
  BY <1>1, InOperation, FrameFacts
<1>4. ss'[t].stage # "Inactive"
  <2>1. CASE Decides(t)
    <3>1. frame[t].after \in {"Setting", "Reverting", "Successful", "Reverted"}
      BY <2>1 DEF Decides
    <3> QED BY <1>3, <2>1, <3>1 DEF Decides, StageSeq
  <2> QED BY <1>2, <1>3, <2>1
<1>5. ProtocolInv'
  BY NextOK DEF Next
<1>6. frame'[t].pc \notin StorePC \cup {"idle"}
  <2>1. RoleOK(t, frame'[t], Helping(t)', ss', words'[t])
    BY <1>5 DEF ProtocolInv, FramesOK, FrameOK
  <2> QED BY <1>4, <2>1 DEF RoleOK
<1> QED BY <1>2, <1>3, <1>4, <1>6
=============================================================================
