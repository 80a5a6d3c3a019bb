----------------------------- MODULE KCasStability ---------------------------
(* Lemmas for the proof that ProtocolInv is inductive: what a step must keep *)
(* to, and that what the other threads rely on then survives it.            *)
EXTENDS KCasInvariant, TLAPS

StageSeq == [Thread -> [stage : Stage, seq : Nat]]

(* What the stages of two successive states have to do with each other. *)
Edges(s1, s2) == \A u \in Thread : s2[u] = s1[u] \/ StageEdge(s1[u], s2[u])

(* Thread u itself takes no step: only an operation of its can progress. *)
Quiet(u, s1, s2) ==
  /\ s2[u].seq = s1[u].seq
  /\ s1[u].stage = "Inactive" => s2[u] = s1[u]
-----------------------------------------------------------------------------
(* Stability: what a thread relies on survives the steps of the others. *)

(* An operation that has been published stays so. *)
LEMMA IssuedStable ==
  ASSUME NEW op \in Marker, NEW s1 \in StageSeq, NEW s2 \in StageSeq,
         Edges(s1, s2), Issued(op, s1)
  PROVE  Issued(op, s2)
<1>1. op.owner \in Thread /\ op.seq \in Nat
  BY DEF Marker
<1>2. /\ s1[op.owner] \in [stage : Stage, seq : Nat]
      /\ s2[op.owner] \in [stage : Stage, seq : Nat]
  BY <1>1 DEF StageSeq
<1>3. CASE s2[op.owner] = s1[op.owner]
  BY <1>3 DEF Issued
<1>4. CASE StageEdge(s1[op.owner], s2[op.owner])
  BY <1>1, <1>2, <1>4 DEF Issued, StageEdge
<1> QED BY <1>1, <1>3, <1>4 DEF Edges

(* A published operation that is being claimed was being claimed before. *)
LEMMA ClaimingBefore ==
  ASSUME NEW op \in Marker, NEW s1 \in StageSeq, NEW s2 \in StageSeq,
         Edges(s1, s2), Issued(op, s1), Claiming(op, s2)
  PROVE  Claiming(op, s1) /\ s2[op.owner] = s1[op.owner]
<1>1. op.owner \in Thread /\ op.seq \in Nat
  BY DEF Marker
<1>2. /\ s1[op.owner] \in [stage : Stage, seq : Nat]
      /\ s2[op.owner] \in [stage : Stage, seq : Nat]
  BY <1>1 DEF StageSeq
<1>3. CASE s2[op.owner] = s1[op.owner]
  BY <1>3 DEF Claiming, Current, StageOf
<1>4. CASE StageEdge(s1[op.owner], s2[op.owner])
  BY <1>1, <1>2, <1>4 DEF Issued, StageEdge, Claiming, Current, StageOf
<1> QED BY <1>1, <1>3, <1>4 DEF Edges

(* The phase of a frame stays one that its operation's stage allows. *)
LEMMA PhaseStable ==
  ASSUME NEW f \in Frame, NEW s1 \in StageSeq, NEW s2 \in StageSeq,
         Edges(s1, s2), PhaseOK(f, s1)
  PROVE  PhaseOK(f, s2)
<1> SUFFICES ASSUME f.op # Null PROVE PhaseOK(f, s2)
  BY DEF PhaseOK
<1> DEFINE o == f.op.owner
<1>1. f.op \in Marker /\ o \in Thread /\ f.op.seq \in Nat
  BY DEF Frame, Marker
<1>2. s1[o] \in [stage : Stage, seq : Nat] /\ s2[o] \in [stage : Stage, seq : Nat]
  BY <1>1 DEF StageSeq
<1>3. Issued(f.op, s2) /\ (f.seen \in Marker => Issued(f.seen, s2))
  BY <1>1, IssuedStable DEF PhaseOK
<1>4. CASE s2[o] = s1[o]
  BY <1>3, <1>4 DEF PhaseOK, Current, StageOf
<1>5. CASE StageEdge(s1[o], s2[o]) /\ s1[o].seq = s2[o].seq
  <2>1. Current(f.op, s2) => Current(f.op, s1) /\ s1[o].stage # "Inactive"
    BY <1>1, <1>2, <1>5 DEF PhaseOK, Issued, Current
  <2>2. <<s1[o].stage, s2[o].stage>> \in
          {<<"Inactive", "Claiming">>, <<"Claiming", "Setting">>,
           <<"Claiming", "Reverting">>, <<"Setting", "Successful">>,
           <<"Reverting", "Reverted">>}
    BY <1>2, <1>5 DEF StageEdge
  <2> QED BY <1>3, <2>1, <2>2 DEF PhaseOK, StageOf
<1>6. CASE StageEdge(s1[o], s2[o]) /\ s1[o].seq # s2[o].seq
  <2>1. ~Current(f.op, s2)
    BY <1>1, <1>2, <1>6 DEF PhaseOK, Issued, Current, StageEdge
  <2> QED BY <1>3, <2>1 DEF PhaseOK
<1> QED BY <1>1, <1>4, <1>5, <1>6 DEF Edges

(* The suspended claims and the role of a thread that takes no step. *)
LEMMA RoleStable ==
  ASSUME NEW t \in Thread, NEW f \in Frame, NEW helping \in BOOLEAN, NEW ws,
         NEW s1 \in StageSeq, NEW s2 \in StageSeq,
         Quiet(t, s1, s2), RoleOK(t, f, helping, s1, ws)
  PROVE  RoleOK(t, f, helping, s2, ws)
BY DEF RoleOK, Quiet

LEMMA StackStable ==
  ASSUME NEW t \in Thread, NEW st \in Seq(Frame), NEW ws,
         NEW s1 \in StageSeq, NEW s2 \in StageSeq,
         Edges(s1, s2), Quiet(t, s1, s2), StackOK(t, st, s1, ws)
  PROVE  StackOK(t, st, s2, ws)
<1> SUFFICES ASSUME NEW i \in 1 .. Len(st)
             PROVE  /\ st[i].pc = "claimCas"
                    /\ LocalsOK(st[i]) /\ PhaseOK(st[i], s2)
                    /\ i = 1 => RoleOK(t, st[i], FALSE, s2, ws)
  BY DEF StackOK
<1>1. st[i] \in Frame
  OBVIOUS
<1>2. LocalsOK(st[i]) /\ PhaseOK(st[i], s1) /\ st[i].pc = "claimCas"
  BY DEF StackOK
<1>3. PhaseOK(st[i], s2)
  BY <1>1, <1>2, PhaseStable
<1>4. i = 1 => RoleOK(t, st[i], FALSE, s1, ws)
  BY DEF StackOK
<1>5. i = 1 => RoleOK(t, st[i], FALSE, s2, ws)
  BY <1>1, <1>4, RoleStable
<1> QED BY <1>2, <1>3, <1>5

(* Claims are kept while the cells that hold markers of an operation being  *)
(* claimed, and the targets of published operations, do not change.         *)
LEMMA ClaimsStable ==
  ASSUME NEW f \in Frame, NEW s1 \in StageSeq, NEW s2 \in StageSeq,
         NEW m1, NEW m2, NEW tg1 \in [Thread -> [Word -> Address \cup {Null}]], NEW tg2,
         Edges(s1, s2), PhaseOK(f, s1), ClaimsKept(f, s1, m1, tg1),
         \A x \in Address : m1[x] \in Marker /\ Claiming(m1[x], s2) => m2[x] = m1[x],
         \A u \in Thread : s1[u].stage # "Inactive" =>
           tg2[u] = tg1[u] /\ \A w \in Word : tg1[u][w] # Null
  PROVE  ClaimsKept(f, s2, m2, tg2)
<1> SUFFICES ASSUME f.op # Null, Claiming(f.op, s2)
             PROVE  ClaimsKept(f, s2, m2, tg2)
  BY DEF ClaimsKept, Claiming
<1>1. f.op \in Marker /\ f.op.owner \in Thread
  BY DEF Frame, Marker
<1>2. Claiming(f.op, s1)
  BY <1>1, ClaimingBefore DEF PhaseOK
<1>3. /\ tg2[f.op.owner] = tg1[f.op.owner]
      /\ \A w \in Word : tg1[f.op.owner][w] \in Address
  BY <1>1, <1>2 DEF Claiming, StageOf
<1>4. \A n : ClaimedUpTo(f.op, n, m1, tg1) => ClaimedUpTo(f.op, n, m2, tg2)
  BY <1>1, <1>3 DEF ClaimedUpTo
<1> QED BY <1>2, <1>3, <1>4 DEF ClaimsKept, Claiming
-----------------------------------------------------------------------------
(* The obligations of a step of thread t: it leaves the other threads'      *)
(* locals alone, stages take edges of the graph, no marker of an operation  *)
(* being claimed is overwritten, and t's own frames are in order after it.  *)
LEMMA StepOK ==
  ASSUME ProtocolInv, TypeOK', NEW t \in Thread,
         \A u \in Thread \ {t} :
           /\ frame'[u] = frame[u] /\ stack'[u] = stack[u] /\ words'[u] = words[u]
           /\ result'[u] = result[u] /\ target'[u] = target[u]
           /\ Quiet(u, ss, ss'),
         Edges(ss, ss'),
         ss[t].stage # "Inactive" => target'[t] = target[t],
         \A x \in Address :
           /\ memory'[x] = memory[x] \/ (memory'[x] \in Marker => Issued(memory'[x], ss'))
           /\ memory[x] \in Marker /\ Claiming(memory[x], ss') => memory'[x] = memory[x],
         FrameOK(t, frame'[t], stack'[t] # <<>>, ss', words'[t]),
         StackOK(t, stack'[t], ss', words'[t]),
         WordsStored(frame'[t], ss'[t], target'[t]),
         result'[t] \in FatalError => result'[t] = "TopBitsOfValueWereIllegal",
         ClaimsKept(frame'[t], ss', memory', target'),
         \A i \in 1 .. Len(stack'[t]) : ClaimsKept(stack'[t][i], ss', memory', target')
  PROVE  ProtocolInv'
<1> USE DEF ProtocolInv
<1>1. ss \in StageSeq /\ ss' \in StageSeq
  BY DEF TypeOK, StageSeq
<1>2. FramesOK'
  <2> SUFFICES ASSUME NEW u \in Thread
               PROVE  /\ FrameOK(u, frame'[u], stack'[u] # <<>>, ss', words'[u])
                      /\ StackOK(u, stack'[u], ss', words'[u])
    BY DEF FramesOK, Helping
  <2>1. CASE u = t
    BY <2>1
  <2>2. CASE u # t
    <3>1. /\ frame'[u] = frame[u] /\ stack'[u] = stack[u] /\ words'[u] = words[u]
          /\ Quiet(u, ss, ss')
      BY <2>2
    <3>2. frame[u] \in Frame /\ stack[u] \in Seq(Frame)
      BY DEF TypeOK
    <3>3. FrameOK(u, frame[u], stack[u] # <<>>, ss, words[u]) /\ StackOK(u, stack[u], ss, words[u])
      BY DEF FramesOK, Helping
    <3>4. PhaseOK(frame[u], ss')
      BY <1>1, <3>2, <3>3, PhaseStable DEF FrameOK
    <3>5. RoleOK(u, frame[u], stack[u] # <<>>, ss', words[u])
      BY <1>1, <3>1, <3>2, <3>3, RoleStable DEF FrameOK
    <3>6. StackOK(u, stack[u], ss', words[u])
      BY <1>1, <3>1, <3>2, <3>3, StackStable
    <3> QED BY <3>1, <3>3, <3>4, <3>5, <3>6 DEF FrameOK
  <2> QED BY <2>1, <2>2
<1>3. MarkersIssued'
  <2> SUFFICES ASSUME NEW x \in Address, memory'[x] \in Marker PROVE Issued(memory'[x], ss')
    BY DEF MarkersIssued
  <2>1. CASE memory'[x] = memory[x]
    BY <1>1, <2>1, IssuedStable DEF MarkersIssued
  <2> QED BY <2>1
<1>4. TargetsStored'
  <2> SUFFICES ASSUME NEW u \in Thread, u # t PROVE WordsStored(frame'[u], ss'[u], target'[u])
    BY DEF TargetsStored
  <2>1. WordsStored(frame[u], ss[u], target[u])
    BY DEF TargetsStored
  <2>2. frame'[u] = frame[u] /\ target'[u] = target[u] /\ Quiet(u, ss, ss')
    OBVIOUS
  <2> QED BY <2>1, <2>2 DEF WordsStored, Quiet
<1>5. ResultsOK'
  BY DEF ResultsOK
<1>6. EveryClaimKept'
  <2> SUFFICES ASSUME NEW u \in Thread, u # t
               PROVE  /\ ClaimsKept(frame'[u], ss', memory', target')
                      /\ \A i \in 1 .. Len(stack'[u]) :
                           ClaimsKept(stack'[u][i], ss', memory', target')
    BY DEF EveryClaimKept
  <2>1. \A v \in Thread : ss[v].stage # "Inactive" =>
          target'[v] = target[v] /\ \A w \in Word : target[v][w] # Null
    BY DEF TargetsStored, WordsStored
  <2>2. target \in [Thread -> [Word -> Address \cup {Null}]]
    BY DEF TypeOK
  <2>3. ASSUME NEW f \in Frame, PhaseOK(f, ss), ClaimsKept(f, ss, memory, target)
        PROVE  ClaimsKept(f, ss', memory', target')
    BY <1>1, <2>1, <2>2, <2>3, ClaimsStable
  <2>4. ClaimsKept(frame[u], ss', memory', target')
    BY <2>3 DEF TypeOK, FramesOK, FrameOK, EveryClaimKept
  <2>5. ASSUME NEW i \in 1 .. Len(stack[u])
        PROVE  ClaimsKept(stack[u][i], ss', memory', target')
    <3>1. stack[u][i] \in Frame
      BY DEF TypeOK
    <3> QED BY <2>3, <3>1 DEF FramesOK, StackOK, EveryClaimKept
  <2> QED BY <2>4, <2>5
<1> QED BY <1>2, <1>3, <1>4, <1>5, <1>6

(* The same for a step that changes only t's frame and what the cells hold. *)
LEMMA LocalStepOK ==
  ASSUME ProtocolInv, NEW t \in Thread, NEW g \in Frame,
         UNCHANGED <<shared, ss, words, stack, result>>,
         frame' = [frame EXCEPT ![t] = g],
         memory' \in [Address -> Value \cup Marker],
         \A x \in Address :
           /\ memory'[x] = memory[x] \/ (memory'[x] \in Marker => Issued(memory'[x], ss))
           /\ memory[x] \in Marker /\ Claiming(memory[x], ss) => memory'[x] = memory[x],
         g.op # Null, FrameOK(t, g, Helping(t), ss, words[t]),
         ClaimsKept(g, ss, memory', target)
  PROVE  ProtocolInv'
<1> USE DEF ProtocolInv
<1>1. UNCHANGED <<target, expected, desired, ss, words, stack, result>>
  BY DEF shared
<1>2. frame'[t] = g /\ \A u \in Thread \ {t} : frame'[u] = frame[u]
  BY DEF TypeOK
<1>3. TypeOK'
  BY <1>1 DEF TypeOK
<1>4. Edges(ss, ss') /\ \A u \in Thread : Quiet(u, ss, ss')
  BY <1>1 DEF Edges, Quiet
<1>5. StackOK(t, stack'[t], ss', words'[t]) /\ FrameOK(t, g, stack'[t] # <<>>, ss', words'[t])
  BY <1>1 DEF FramesOK, Helping
<1>6. WordsStored(g, ss'[t], target'[t])
  <2>1. g.pc \notin NoOpPC
    BY DEF FrameOK, LocalsOK
  <2> QED BY <1>1, <2>1 DEF TargetsStored, WordsStored, NoOpPC, StorePC
<1>7. result'[t] \in FatalError => result'[t] = "TopBitsOfValueWereIllegal"
  BY <1>1 DEF ResultsOK
<1>8. ASSUME NEW i \in 1 .. Len(stack'[t])
      PROVE  ClaimsKept(stack'[t][i], ss', memory', target')
  <2> i \in 1 .. Len(stack[t])
    BY <1>1
  <2>1. /\ stack[t][i] \in Frame /\ PhaseOK(stack[t][i], ss)
        /\ ClaimsKept(stack[t][i], ss, memory, target)
    <3>1. stack[t] \in Seq(Frame)
      BY DEF TypeOK
    <3>2. stack[t][i] \in Frame
      BY <3>1
    <3>3. PhaseOK(stack[t][i], ss)
      BY DEF FramesOK, StackOK
    <3> QED BY <3>2, <3>3 DEF EveryClaimKept
  <2>2. ss \in StageSeq /\ target \in [Thread -> [Word -> Address \cup {Null}]]
    BY DEF TypeOK, StageSeq
  <2>3. \A u \in Thread : ss[u].stage # "Inactive" => \A w \in Word : target[u][w] # Null
    BY DEF TargetsStored, WordsStored
  <2> QED BY <1>1, <1>4, <2>1, <2>2, <2>3, ClaimsStable
<1> QED BY <1>1, <1>2, <1>3, <1>4, <1>5, <1>6, <1>7, <1>8, StepOK
=============================================================================
