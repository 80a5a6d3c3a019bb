-------------------------- MODULE OrderedKCasProofs --------------------------
(* Proof that helping is finite when the addresses are used in one order:   *)
(* OrderInv is inductive and implies HelpNeverCircular, for any number of   *)
(* threads, words and addresses, and whatever the values.                   *)
EXTENDS OrderedKCas, KCasProofs

-----------------------------------------------------------------------------
(* How a step of t moves among its claims. *)

WaitPC == {"claimVerify", "helpLoad"}

(* A thread comes to wait for a cell by a failed claim, or as it finds its  *)
(* operation still being claimed.                                           *)
GoesToHelp(t) == Verifies(t) /\ frame'[t] = [frame[t] EXCEPT !.pc = "helpLoad"]

LEMMA ComesToWait ==
  ASSUME ProtocolInv, NEW t \in Thread, Call(t) \/ Step(t), frame'[t].pc \in WaitPC
  PROVE  /\ ClaimFails(t) \/ GoesToHelp(t)
         /\ UNCHANGED <<memory, ss, stack, target>>
<1>1. ~OutsideStep(t)
  BY OutsideEffect DEF NoOpPC, StorePC, WaitPC
<1>2. InsideStep(t)
  BY <1>1, StepKinds DEF OutsideStep
<1>3. frame[t] \in Frame
  BY FrameFacts
<1>4. CASE Loads(t) \/ Claims(t) \/ Turns(t) \/ BeginsHelp(t) \/ EndsHelp(t) \/ Decides(t)
  BY <1>4 DEF Loads, Claims, Turns, BeginsHelp, EndsHelp, Decides, HelpReturn, WaitPC
<1>5. CASE Sets(t) \/ SetFails(t) \/ SetGoesOn(t) \/ Reverts(t)
  BY <1>5 DEF Sets, SetFails, SetGoesOn, SetsOn, Reverts, HelpReturn, WaitPC
<1>6. CASE TriesAgain(t)
  BY <1>3, <1>6 DEF TriesAgain, Suspended, Frame, WaitPC
<1>7. CASE ClaimFails(t)
  BY <1>7 DEF ClaimFails, Nothing, BesideCells
<1>8. CASE Verifies(t)
  BY <1>8 DEF Verifies, GoesToHelp, Nothing, BesideCells, WaitPC
<1> QED BY <1>2, <1>4, <1>5, <1>6, <1>7, <1>8 DEF InsideStep

(* The suspended claims stay, with the operation helped for the last; or    *)
(* one is added, or the last one is taken up; or none is left.              *)
LEMMA StackMoves ==
  ASSUME ProtocolInv, NEW t \in Thread, Call(t) \/ Step(t)
  PROVE  \/ stack'[t] = <<>>
         \/ stack'[t] = stack[t] /\ frame'[t].op = frame[t].op
         \/ BeginsHelp(t)
         \/ EndsHelp(t)
<1>1. CASE OutsideStep(t)
  BY <1>1, OutsideEffect
<1>2. CASE ~OutsideStep(t)
  <2>1. InsideStep(t)
    BY <1>2, StepKinds DEF OutsideStep
  <2>2. frame[t] \in Frame
    BY FrameFacts
  <2> QED BY <2>1, <2>2 DEF InsideStep, Loads, Claims, ClaimFails, Verifies, Turns, TriesAgain,
             Suspended, Decides, Sets, SetFails, SetGoesOn, SetsOn, Reverts, Nothing,
             BesideCells, Frame
<1> QED BY <1>1, <1>2
-----------------------------------------------------------------------------
(* What a published operation that is being claimed relied on before a step *)
(* it relies on after it: it was being claimed before, its words are the    *)
(* same and so are the cells it has claimed.                                *)
LEMMA ClaimingPersists ==
  ASSUME ProtocolInv, NEW t \in Thread, Call(t) \/ Step(t),
         NEW op \in Marker, Issued(op, ss), Claiming(op, ss')
  PROVE  /\ Claiming(op, ss) /\ target'[op.owner] = target[op.owner]
         /\ \A x \in Address : memory[x] = op => memory'[x] = op
         /\ \A n : ClaimedUpTo(op, n, memory, target) => ClaimedUpTo(op, n, memory', target')
         /\ \A w \in Word : target[op.owner][w] \in Address
<1>1. Claiming(op, ss) /\ op.owner \in Thread
  BY StagesProgress, ClaimingBefore DEF Marker
<1>2. ss[op.owner].stage # "Inactive"
  BY <1>1 DEF Claiming, StageOf
<1>3. target'[op.owner] = target[op.owner]
  BY <1>1, <1>2, TargetsKept
<1>4. \A x \in Address : memory[x] = op => memory'[x] = op
  BY <1>1, CellsChange
<1>5. \A w \in Word : target[op.owner][w] \in Address
  BY <1>1, <1>2 DEF ProtocolInv, TypeOK, TargetsStored, WordsStored
<1> QED BY <1>1, <1>3, <1>4, <1>5 DEF ClaimedUpTo

(* The words of published operations are those of a call in order. *)
LEMMA TargetsAscendNext ==
  ASSUME ProtocolInv, TargetsAscend, NEW t \in Thread, Call(t) \/ Step(t)
  PROVE  TargetsAscend'
<1> DEFINE f == frame[t]
           given(w) == words[t][w].target
           Good(u) ==
             LET f1 == frame[u] IN
             /\ ss[u].stage # "Inactive" \/ f1.pc = "publish" => Ascending(target[u])
             /\ f1.pc \in {"storeTarget", "storeExpected", "storeDesired"} =>
                  /\ Ascending([w \in Word |-> words[u][w].target])
                  /\ \A w \in Word : w < f1.word => target[u][w] = words[u][w].target
             /\ f1.pc \in {"storeExpected", "storeDesired"}
                  => target[u][f1.word] = words[u][f1.word].target
<1> SUFFICES ASSUME NEW u \in Thread PROVE Good(u)'
  BY DEF TargetsAscend
<1>1. Good(u) /\ Good(t)
  BY DEF TargetsAscend
<1>2. CASE u # t
  <2>1. /\ frame'[u] = frame[u] /\ words'[u] = words[u] /\ target'[u] = target[u]
    BY <1>2, OthersUntouched
  <2>2. ss'[u].stage # "Inactive" => ss[u].stage # "Inactive"
    BY <1>2, StagesProgress
  <2> QED BY <1>1, <2>1, <2>2
<1>3. /\ frame \in [Thread -> Frame] /\ words \in [Thread -> [Word -> KCasWord] \cup {Null}]
      /\ target \in [Thread -> [Word -> Address \cup {Null}]] /\ ss \in StageSeq
      /\ f \in Frame /\ f.word \in Word
  BY DEF ProtocolInv, TypeOK, StageSeq, Frame
<1>4. f.pc \in StorePC \cup {"idle"} => ss[t].stage = "Inactive"
  BY FrameFacts DEF FrameOK, RoleOK
<1>5. CASE u = t /\ Call(t)
  <2>1. PICK ws \in Program[t][ss[t].seq + 1] : words' = [words EXCEPT ![t] = ws]
    BY <1>5 DEF Call
  <2>2. Ascending([w \in Word |-> ws[w].target])
    <3>1. ss[t].seq + 1 \in DOMAIN Program[t]
      <4>1. ss[t].seq \in Nat /\ ss[t].seq < Len(Program[t])
        BY <1>3, <1>5 DEF Call, StageSeq
      <4>2. Program[t] \in Seq(SUBSET [Word -> KCasWord])
        BY KCasAssumption
      <4> QED BY <4>1, <4>2
    <3> QED BY <2>1, <3>1, OrderAssumption
  <2>3. frame'[t].pc = "storeTarget" /\ frame'[t].word = 0
    BY <1>3, <1>5 DEF Call, At
  <2>4. words'[t] = ws /\ ss'[t] = ss[t] /\ ss[t].stage = "Inactive"
    BY <1>3, <1>4, <1>5, <2>1 DEF Call
  <2>5. \A w \in Word : ~(w < 0)
    BY DEF Word
  <2> QED BY <1>5, <2>2, <2>3, <2>4, <2>5
<1>6. CASE u = t /\ StoreTarget(t)
  <2>1. /\ frame'[t].pc = "storeExpected" /\ frame'[t].word = f.word
        /\ words' = words /\ ss' = ss /\ f.pc = "storeTarget" /\ ss[t].stage = "Inactive"
        /\ target'[t] = [target[t] EXCEPT ![f.word] = given(f.word)]
    BY <1>3, <1>4, <1>6 DEF StoreTarget, StorePC, Frame
  <2> QED BY <1>1, <1>3, <1>6, <2>1
<1>7. CASE u = t /\ StoreExpected(t)
  <2>1. /\ frame'[t].pc = "storeDesired" /\ frame'[t].word = f.word
        /\ words' = words /\ ss' = ss /\ f.pc = "storeExpected" /\ ss[t].stage = "Inactive"
        /\ target' = target
    BY <1>3, <1>4, <1>7 DEF StoreExpected, StorePC, Frame
  <2> QED BY <1>1, <1>7, <2>1
<1>8. CASE u = t /\ StoreDesired(t)
  <2>1. /\ words' = words /\ ss' = ss /\ target' = target /\ f.pc = "storeDesired"
        /\ ss[t].stage = "Inactive"
        /\ \/ f.word = LastWord /\ frame'[t].pc = "publish"
           \/ f.word # LastWord /\ frame'[t].pc = "storeTarget" /\ frame'[t].word = f.word + 1
    BY <1>3, <1>4, <1>8 DEF StoreDesired, StorePC, At
  <2>2. \A w \in Word : w < f.word + 1 => w < f.word \/ w = f.word
    BY <1>3 DEF Word
  <2>3. \A w \in Word : w < f.word + 1 => target[t][w] = given(w)
    BY <1>1, <2>1, <2>2
  <2>4. f.word = LastWord => Ascending(target[t])
    <3>1. \A w \in Word : w < LastWord + 1
      BY KCasAssumption DEF Word, LastWord
    <3> SUFFICES ASSUME f.word = LastWord PROVE Ascending(target[t])
      OBVIOUS
    <3>2. \A w \in Word : target[t][w] = given(w)
      BY <2>3, <3>1
    <3> QED BY <1>1, <2>1, <3>2 DEF Ascending
  <2> QED BY <1>8, <1>1, <2>1, <2>3, <2>4
<1>9. CASE u = t /\ Publish(t)
  <2>1. f.pc = "publish" /\ target' = target /\ frame'[t].pc = "claimTarget"
    BY <1>3, <1>9 DEF Publish, At
  <2> QED BY <1>1, <1>9, <2>1
<1>10. CASE u = t /\ (Prepare(t) \/ ReturnFatal(t))
  <2>1. /\ frame'[t].pc \in {"idle", "halted"} /\ target' = target
        /\ ss'[t] = ss[t] \/ ss'[t].stage = "Inactive"
    BY <1>3, <1>10 DEF Prepare, ReturnFatal, At, StageSeq, shared
  <2> QED BY <1>1, <1>10, <2>1
<1>11. CASE u = t /\ ~OutsideStep(t)
  <2>1. /\ target' = target /\ ss[t].stage # "Inactive" /\ frame'[t].pc \notin StorePC
    BY <1>11, InsideEffect DEF OutsideStep
  <2> QED BY <1>1, <1>11, <2>1 DEF StorePC
<1> QED BY <1>2, <1>5, <1>6, <1>7, <1>8, <1>9, <1>10, <1>11 DEF OutsideStep, StoreStep

(* An operation being claimed holds a prefix of its words: it claims the    *)
(* next one only when it has those before.                                  *)
LEMMA ClaimsArePrefixesNext ==
  ASSUME ProtocolInv, ClaimsArePrefixes, NEW t \in Thread, Call(t) \/ Step(t)
  PROVE  ClaimsArePrefixes'
<1> SUFFICES ASSUME NEW x \in Address, memory'[x] \in Marker, Claiming(memory'[x], ss')
             PROVE  LET m == memory'[x] IN
                    \E w \in Word : /\ target'[m.owner][w] = x
                                   /\ ClaimedUpTo(m, w + 1, memory', target')
  BY DEF ClaimsArePrefixes
<1> DEFINE m == memory'[x]
           f == frame[t]
<1>1. CASE memory'[x] = memory[x]
  <2>1. m \in Marker /\ Issued(m, ss)
    BY <1>1 DEF ProtocolInv, MarkersIssued
  <2>2. /\ Claiming(m, ss) /\ target'[m.owner] = target[m.owner]
        /\ \A n : ClaimedUpTo(m, n, memory, target) => ClaimedUpTo(m, n, memory', target')
    BY <2>1, ClaimingPersists
  <2>3. PICK w \in Word : target[m.owner][w] = x /\ ClaimedUpTo(m, w + 1, memory, target)
    BY <1>1, <2>1, <2>2 DEF ClaimsArePrefixes
  <2> QED BY <2>2, <2>3
<1>2. CASE ClaimCas(t) /\ x = f.addr /\ m = f.op
  <2>1. f.pc = "claimCas" /\ UNCHANGED <<ss, target>>
    BY <1>2 DEF ClaimCas, shared
  <2>2. f \in Frame /\ f.op # Null /\ f.op \in Marker /\ Issued(f.op, ss) /\ f.word \in Word
    BY <2>1, FrameFacts DEF NoOpPC, StorePC, Frame
  <2>3. Claiming(f.op, ss)
    BY <1>2, <2>1
  <2>4. ClaimedUpTo(f.op, f.word, memory, target) /\ f.addr = target[f.op.owner][f.word]
    BY <2>1, <2>2, <2>3, FrameFacts DEF ClaimsKept, ClaimPC
  <2>5. ClaimedUpTo(f.op, f.word, memory', target')
    BY <1>2, <2>2, <2>4, ClaimingPersists
  <2>6. \A w \in Word : w < f.word + 1 => w < f.word \/ w = f.word
    BY <2>2 DEF Word
  <2>7. ClaimedUpTo(f.op, f.word + 1, memory', target')
    BY <1>2, <2>1, <2>4, <2>5, <2>6 DEF ClaimedUpTo
  <2> QED BY <1>2, <2>1, <2>2, <2>4, <2>7
<1> QED BY <1>1, <1>2, CellsChange

(* The operation a failed claim saw keeps the cell while it is claimed. *)
LEMMA SeenStaysNext ==
  ASSUME ProtocolInv, SeenStays, NEW t \in Thread, Call(t) \/ Step(t)
  PROVE  SeenStays'
<1> SUFFICES ASSUME NEW u \in Thread, frame'[u].pc \in WaitPC, frame'[u].seen \in Marker,
                    Claiming(frame'[u].seen, ss')
             PROVE  memory'[frame'[u].addr] = frame'[u].seen
  BY DEF SeenStays, WaitPC
<1>1. ASSUME frame[u].pc \in WaitPC, frame[u].seen = frame'[u].seen,
             frame[u].addr = frame'[u].addr
      PROVE  memory'[frame'[u].addr] = frame'[u].seen
  <2>1. /\ frame[u].addr \in Address /\ Issued(frame[u].seen, ss)
    BY <1>1, FrameFacts DEF FrameOK, LocalsOK, PhaseOK, NoOpPC, StorePC, WaitPC
  <2>2. /\ Claiming(frame[u].seen, ss)
        /\ \A x \in Address : memory[x] = frame[u].seen => memory'[x] = frame[u].seen
    BY <1>1, <2>1, ClaimingPersists
  <2> QED BY <1>1, <2>1, <2>2 DEF SeenStays, WaitPC
<1>2. CASE u # t
  BY <1>1, <1>2, OthersUntouched
<1>3. CASE u = t
  <2>1. (ClaimFails(t) \/ GoesToHelp(t)) /\ UNCHANGED <<memory, ss, stack, target>>
    BY <1>3, ComesToWait
  <2>2. frame[t] \in Frame
    BY FrameFacts
  <2>3. CASE ClaimFails(t)
    BY <1>3, <2>1, <2>2, <2>3 DEF ClaimFails, Frame
  <2>4. CASE GoesToHelp(t)
    BY <1>1, <1>3, <2>2, <2>4 DEF GoesToHelp, Verifies, WaitPC, Frame
  <2> QED BY <2>1, <2>3, <2>4
<1> QED BY <1>2, <1>3

(* What a thread with suspended claims waits for, and where. *)
LEMMA WaitedForFacts ==
  ASSUME ProtocolInv, NEW t \in Thread, NEW i \in 1 .. Len(stack[t])
  PROVE  /\ stack[t] \in Seq(Frame) /\ Len(stack[t]) \in Nat
         /\ stack[t][i] \in Frame /\ stack[t][i].addr \in Address
         /\ WaitedFor(t, i) \in Marker /\ Issued(WaitedFor(t, i), ss)
<1>1. stack[t] \in Seq(Frame) /\ Len(stack[t]) \in Nat
  BY DEF ProtocolInv, TypeOK
<1>2. ASSUME NEW j \in 1 .. Len(stack[t])
      PROVE  /\ stack[t][j] \in Frame /\ stack[t][j].addr \in Address
             /\ stack[t][j].op \in Marker /\ Issued(stack[t][j].op, ss)
  <2>1. stack[t][j] \in Frame
    BY <1>1
  <2>2. stack[t][j].pc = "claimCas" /\ LocalsOK(stack[t][j]) /\ PhaseOK(stack[t][j], ss)
    BY DEF ProtocolInv, FramesOK, StackOK
  <2> QED BY <2>1, <2>2 DEF LocalsOK, PhaseOK, NoOpPC, StorePC, Frame
<1>3. CASE i = Len(stack[t])
  <2>1. Helping(t)
    BY <1>1, <1>3 DEF Helping
  <2>2. frame[t].op # Null /\ frame[t] \in Frame /\ PhaseOK(frame[t], ss)
    BY <2>1, FrameFacts DEF FrameOK, RoleOK
  <2>3. frame[t].op \in Marker /\ Issued(frame[t].op, ss)
    BY <2>2 DEF Frame, PhaseOK
  <2> QED BY <1>1, <1>2, <1>3, <2>3 DEF WaitedFor
<1>4. CASE i # Len(stack[t])
  <2>1. i + 1 \in 1 .. Len(stack[t])
    BY <1>1, <1>4
  <2> QED BY <1>1, <1>2, <1>4, <2>1 DEF WaitedFor
<1> QED BY <1>3, <1>4

(* The same for the cell at which a thread waits for the operation it helps. *)
LEMMA HelpedStaysNext ==
  ASSUME ProtocolInv, SeenStays, HelpedStays, NEW t \in Thread, Call(t) \/ Step(t)
  PROVE  HelpedStays'
<1> SUFFICES ASSUME NEW u \in Thread, NEW i \in 1 .. Len(stack'[u]),
                    Claiming(WaitedFor(u, i)', ss')
             PROVE  memory'[stack'[u][i].addr] = WaitedFor(u, i)'
  BY DEF HelpedStays
<1> DEFINE op == WaitedFor(u, i)'
           x == stack'[u][i].addr
           f == frame[t]
           n == Len(stack[t])
<1>1. ASSUME i \in 1 .. Len(stack[u]), op = WaitedFor(u, i), x = stack[u][i].addr
      PROVE  memory'[x] = op
  <2>1. op \in Marker /\ Issued(op, ss) /\ x \in Address
    BY <1>1, WaitedForFacts
  <2>2. Claiming(op, ss) /\ (memory[x] = op => memory'[x] = op)
    BY <2>1, ClaimingPersists
  <2>3. memory[x] = op
    BY <1>1, <2>2 DEF HelpedStays
  <2> QED BY <2>2, <2>3
<1>2. CASE u # t
  <2>1. frame'[u] = frame[u] /\ stack'[u] = stack[u]
    BY <1>2, OthersUntouched
  <2> QED BY <1>1, <2>1 DEF WaitedFor
<1>3. stack[t] \in Seq(Frame) /\ n \in Nat
  BY DEF ProtocolInv, TypeOK
<1>4. CASE u = t /\ stack'[t] = <<>>
  BY <1>4
<1>5. CASE u = t /\ stack'[t] = stack[t] /\ frame'[t].op = f.op
  BY <1>1, <1>5 DEF WaitedFor
<1>6. CASE u = t /\ BeginsHelp(t)
  <2> DEFINE s == Suspended(f)
  <2>1. s \in Frame /\ s.addr = f.addr /\ s.op = f.op
    BY FrameFacts, ConstantFacts DEF Suspended, Frame, PC
  <2>2. /\ Len(stack'[t]) = n + 1 /\ stack'[t][n + 1] = s
        /\ \A j \in 1 .. n : stack'[t][j] = stack[t][j]
        /\ i \in 1 .. n \/ i = n + 1
    BY <1>3, <1>6, <2>1, StackGains DEF BeginsHelp
  <2>3. CASE i = n + 1
    <3>1. op = f.seen /\ x = f.addr
      BY <1>6, <2>1, <2>2, <2>3 DEF WaitedFor, BeginsHelp
    <3> QED BY <1>6, <3>1 DEF BeginsHelp, SeenStays
  <2>4. CASE i \in 1 .. n
    <3>1. i = n \/ i + 1 \in 1 .. n
      BY <1>3, <2>4
    <3>2. i # n + 1
      BY <1>3, <2>4
    <3>3. op = WaitedFor(t, i)
      BY <1>3, <1>6, <2>1, <2>2, <2>4, <3>1, <3>2 DEF WaitedFor
    <3> QED BY <1>1, <1>6, <2>2, <2>4, <3>3
  <2> QED BY <2>2, <2>3, <2>4
<1>7. CASE u = t /\ EndsHelp(t)
  <2>1. stack[t] # <<>>
    BY <1>7 DEF EndsHelp
  <2>2. /\ frame'[t] = stack[t][n] /\ stack'[t] = SubSeq(stack[t], 1, n - 1)
    BY <1>7 DEF EndsHelp
  <2>3. /\ n \in Nat \ {0} /\ Len(stack'[t]) = n - 1
        /\ \A j \in 1 .. n - 1 : stack'[t][j] = stack[t][j]
    BY <1>3, <2>1, <2>2, StackLoses
  <2>4. i \in 1 .. n - 1 /\ i \in 1 .. n /\ i # n
    BY <1>7, <2>3
  <2>5. i = n - 1 \/ i + 1 \in 1 .. n - 1
    BY <2>3, <2>4
  <2>6. op = WaitedFor(t, i)
    BY <1>7, <2>2, <2>3, <2>4, <2>5 DEF WaitedFor
  <2> QED BY <1>1, <1>7, <2>3, <2>4, <2>6
<1> QED BY <1>2, <1>4, <1>5, <1>6, <1>7, StackMoves

(* A claim that fails although its operation is still being claimed is at   *)
(* an address further up than all at which the thread waits: the operation  *)
(* it helps holds the address it waits for, and has claimed up to there.    *)
LEMMA FailsAbove ==
  ASSUME OrderInv, NEW t \in Thread, frame[t].pc = "claimCas", Claiming(frame[t].op, ss),
         memory[frame[t].addr] # frame[t].op
  PROVE  Above(frame[t], stack[t])
<1> DEFINE f == frame[t]
           st == stack[t]
           n == Len(st)
           tg == target[f.op.owner]
<1> USE DEF OrderInv
<1> SUFFICES ASSUME NEW i \in 1 .. n PROVE Rank[st[i].addr] < Rank[f.addr]
  BY DEF Above
<1>1. f \in Frame /\ f.op \in Marker /\ f.op # Null /\ f.word \in Word /\ f.addr \in Address
  BY FrameFacts DEF FrameOK, LocalsOK, NoOpPC, StorePC, Frame
<1>2. ClaimedUpTo(f.op, f.word, memory, target) /\ f.addr = tg[f.word]
  BY <1>1, FrameFacts DEF ClaimsKept, ClaimPC
<1>3. n \in Nat /\ n \in 1 .. n
  BY WaitedForFacts
<1>4. /\ st[n].addr \in Address /\ st[i].addr \in Address
      /\ Rank[st[n].addr] \in Nat /\ Rank[st[i].addr] \in Nat /\ Rank[f.addr] \in Nat
  BY <1>1, <1>3, WaitedForFacts, OrderAssumption
<1>5. memory[st[n].addr] = f.op
  BY <1>3 DEF HelpedStays, WaitedFor
<1>6. PICK w \in Word : tg[w] = st[n].addr /\ ClaimedUpTo(f.op, w + 1, memory, target)
  BY <1>1, <1>4, <1>5 DEF ClaimsArePrefixes
<1>7. w < f.word
  <2>1. ~(f.word < w + 1)
    BY <1>1, <1>2, <1>6 DEF ClaimedUpTo
  <2> QED BY <1>1, <2>1 DEF Word
<1>8. Ascending(tg)
  <2>1. f.op.owner \in Thread /\ ss[f.op.owner].stage # "Inactive"
    BY <1>1 DEF Claiming, StageOf, Marker
  <2> QED BY <2>1 DEF TargetsAscend
<1>9. Rank[st[n].addr] < Rank[f.addr]
  BY <1>1, <1>2, <1>6, <1>7, <1>8 DEF Ascending
<1>10. i # n => Rank[st[i].addr] < Rank[st[n].addr]
  BY <1>3 DEF HelpClimbs
<1> QED BY <1>4, <1>9, <1>10

LEMMA HelpClimbsNext ==
  ASSUME OrderInv, NEW t \in Thread, Call(t) \/ Step(t)
  PROVE  HelpClimbs'
<1> DEFINE f == frame[t]
           n == Len(stack[t])
           Rising(st) == \A i, j \in 1 .. Len(st) : i < j => Rank[st[i].addr] < Rank[st[j].addr]
<1> USE DEF OrderInv
<1> SUFFICES ASSUME NEW u \in Thread
             PROVE  /\ Rising(stack'[u])
                    /\ \/ frame'[u].pc = "helpLoad"
                       \/ frame'[u].pc = "claimVerify" /\ Claiming(frame'[u].op, ss')
                       => Above(frame'[u], stack'[u])
  BY DEF HelpClimbs
<1>1. \A v \in Thread : Rising(stack[v])
  BY DEF HelpClimbs
<1>2. CASE u # t
  <2>1. frame'[u] = frame[u] /\ stack'[u] = stack[u]
    BY <1>2, OthersUntouched
  <2>2. ASSUME frame[u].pc = "claimVerify", Claiming(frame[u].op, ss')
        PROVE  Claiming(frame[u].op, ss)
    <3>1. frame[u].op \in Marker /\ Issued(frame[u].op, ss)
      BY <2>2, FrameFacts DEF NoOpPC, StorePC
    <3> QED BY <2>2, <3>1, ClaimingPersists
  <2> QED BY <1>1, <2>1, <2>2 DEF HelpClimbs
<1>3. CASE u = t
  <2>1. stack[t] \in Seq(Frame) /\ n \in Nat
    BY DEF ProtocolInv, TypeOK
  <2>2. Rising(stack'[t])
    <3>1. CASE stack'[t] = <<>>
      BY <3>1
    <3>2. CASE stack'[t] = stack[t]
      BY <1>1, <3>2
    <3>3. CASE BeginsHelp(t)
      <4> DEFINE s == Suspended(f)
      <4>1. s \in Frame /\ s.addr = f.addr
        BY FrameFacts, ConstantFacts DEF Suspended, Frame, PC
      <4>2. /\ Len(stack'[t]) = n + 1 /\ stack'[t][n + 1] = s
            /\ \A j \in 1 .. n : stack'[t][j] = stack[t][j]
            /\ \A j \in 1 .. Len(stack'[t]) : j \in 1 .. n \/ j = n + 1
        BY <2>1, <3>3, <4>1, StackGains DEF BeginsHelp
      <4>3. \A j \in 1 .. n : Rank[stack[t][j].addr] < Rank[f.addr]
        BY <3>3 DEF BeginsHelp, HelpClimbs, Above
      <4>4. \A i \in 1 .. n : ~(n + 1 < i)
        BY <2>1
      <4>5. ASSUME NEW i \in 1 .. n + 1, NEW j \in 1 .. n + 1, i < j
            PROVE  Rank[stack'[t][i].addr] < Rank[stack'[t][j].addr]
        <5>1. i \in 1 .. n
          BY <2>1, <4>2, <4>4, <4>5
        <5>2. CASE j \in 1 .. n
          BY <1>1, <4>2, <4>5, <5>1, <5>2
        <5>3. CASE j = n + 1
          BY <4>1, <4>2, <4>3, <5>1, <5>3
        <5> QED BY <4>2, <5>2, <5>3
      <4> QED BY <4>2, <4>5
    <3>4. CASE EndsHelp(t)
      <4>1. stack[t] # <<>>
        BY <3>4 DEF EndsHelp
      <4>2. stack'[t] = SubSeq(stack[t], 1, n - 1)
        BY <3>4 DEF EndsHelp
      <4>3. /\ n \in Nat \ {0} /\ Len(stack'[t]) = n - 1
            /\ \A j \in 1 .. n - 1 : stack'[t][j] = stack[t][j] /\ j \in 1 .. n
        BY <2>1, <4>1, <4>2, StackLoses
      <4> QED BY <1>1, <4>3
    <3> QED BY <3>1, <3>2, <3>3, <3>4, StackMoves
  <2>3. ASSUME \/ frame'[t].pc = "helpLoad"
               \/ frame'[t].pc = "claimVerify" /\ Claiming(frame'[t].op, ss')
        PROVE  Above(frame'[t], stack'[t])
    <3>1. (ClaimFails(t) \/ GoesToHelp(t)) /\ UNCHANGED <<memory, ss, stack, target>>
      BY <2>3, ComesToWait DEF WaitPC
    <3>2. frame[t] \in Frame
      BY FrameFacts
    <3>3. CASE ClaimFails(t)
      <4>1. /\ f.pc = "claimCas" /\ Claiming(f.op, ss) /\ memory[f.addr] # f.op
            /\ frame'[t].addr = f.addr
        BY <2>3, <3>1, <3>2, <3>3 DEF ClaimFails, Frame
      <4> QED BY <3>1, <4>1, FailsAbove DEF Above
    <3>4. CASE GoesToHelp(t)
      <4>1. frame'[t].addr = f.addr /\ f.pc = "claimVerify" /\ Claiming(f.op, ss)
        BY <3>2, <3>4 DEF GoesToHelp, Verifies, Frame
      <4> QED BY <3>1, <4>1 DEF HelpClimbs, Above
    <3> QED BY <3>1, <3>3, <3>4
  <2> QED BY <1>3, <2>2, <2>3
<1> QED BY <1>2, <1>3
-----------------------------------------------------------------------------
LEMMA OrderStart == Init => OrderInv
<1> SUFFICES ASSUME Init PROVE OrderInv
  OBVIOUS
<1>1. /\ ProtocolInv
      /\ \A t \in Thread : /\ ss[t].stage = "Inactive" /\ frame[t].pc = "idle"
                          /\ stack[t] = <<>>
      /\ \A x \in Address : memory[x] \notin Marker
  BY InitOK, KCasAssumption DEF Init, At
<1> QED BY <1>1 DEF OrderInv, TargetsAscend, ClaimsArePrefixes, SeenStays, HelpedStays, HelpClimbs

LEMMA OrderNext == OrderInv /\ [Next]_vars => OrderInv'
<1> SUFFICES ASSUME OrderInv, [Next]_vars PROVE OrderInv'
  OBVIOUS
<1> USE DEF OrderInv
<1>1. ProtocolInv'
  BY NextOK
<1>2. CASE UNCHANGED vars \/ Finished
  <2>1. UNCHANGED <<memory, target, ss, words, frame, stack>>
    BY <1>2 DEF Finished, vars
  <2>2. TargetsAscend' /\ ClaimsArePrefixes' /\ SeenStays'
    BY <2>1 DEF TargetsAscend, ClaimsArePrefixes, SeenStays
  <2>3. HelpedStays'
    BY <2>1 DEF HelpedStays, WaitedFor
  <2>4. HelpClimbs'
    BY <2>1 DEF HelpClimbs
  <2> QED BY <1>1, <2>2, <2>3, <2>4
<1>3. ASSUME NEW t \in Thread, Call(t) \/ Step(t) PROVE OrderInv'
  BY <1>1, <1>3, TargetsAscendNext, ClaimsArePrefixesNext, SeenStaysNext, HelpedStaysNext,
     HelpClimbsNext
<1> QED BY <1>2, <1>3 DEF Next

(* Whoever waits for whom, and wherever each operation stands meanwhile: a  *)
(* thread waits further and further up the order of the addresses.          *)
THEOREM OrderHolds == Spec => []OrderInv
<1>1. OrderInv /\ [Next]_vars => OrderInv'
  BY OrderNext
<1> QED BY <1>1, OrderStart, PTL DEF Spec

(* So no thread comes to wait twice at one address: help_thread and claim   *)
(* call each other at most once per address, if every thread uses addresses *)
(* in one order, as lib.rs asks of those used by two or more threads.       *)
THEOREM HelpEnds == Spec => []HelpNeverCircular
<1>1. OrderInv => HelpNeverCircular
  <2> SUFFICES ASSUME OrderInv, NEW t \in Thread, NEW i \in 1 .. Len(stack[t]),
                      NEW j \in 1 .. Len(stack[t]), i # j
               PROVE  stack[t][i].addr # stack[t][j].addr
    BY DEF HelpNeverCircular
  <2>1. Len(stack[t]) \in Nat /\ stack[t][i].addr \in Address /\ stack[t][j].addr \in Address
    BY WaitedForFacts DEF OrderInv
  <2>2. Rank[stack[t][i].addr] \in Nat /\ Rank[stack[t][j].addr] \in Nat
    BY <2>1, OrderAssumption
  <2>3. i < j \/ j < i
    BY <2>1
  <2>4. \/ Rank[stack[t][i].addr] < Rank[stack[t][j].addr]
        \/ Rank[stack[t][j].addr] < Rank[stack[t][i].addr]
    BY <2>3 DEF OrderInv, HelpClimbs
  <2> QED BY <2>2, <2>4
<1> QED BY <1>1, OrderHolds, PTL
=============================================================================
