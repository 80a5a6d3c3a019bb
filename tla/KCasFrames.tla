----------------------------- MODULE KCasFrames -----------------------------
(* Lemmas for the proof that ProtocolInv is inductive: wherever the code   *)
(* sends a thread next, it fits the stage the operation has by then.       *)
EXTENDS KCasStability

(* A frame that fits the stages and is past the claims of its operation. *)
PastClaims(t, g, helping, s, ws) ==
  /\ g \in Frame /\ g.op # Null
  /\ FrameOK(t, g, helping, s, ws)
  /\ g.pc \notin ClaimPC /\ ~(g.pc = "stageCas" /\ g.after = "Setting")

(* The operation is t's own call, unless t is helping. *)
OwnUnlessHelping(t, op, helping, s) == ~helping => op = [owner |-> t, seq |-> s[t].seq]

(* The bounds of the words, and that Null is nothing else. *)
LEMMA ConstantFacts ==
  /\ 0 \in Word /\ LastWord \in Word
  /\ \A w \in Word : w # LastWord => w + 1 \in Word
  /\ \A w \in Word : w # 0 => w - 1 \in Word
  /\ Null \notin Address /\ Null \notin Value /\ Null \notin Marker /\ Null \notin Stage
  /\ Null \notin Outcome /\ Null \notin FatalError
  /\ \A m \in Marker : m \notin Value
BY KCasAssumption DEF Word, LastWord
-----------------------------------------------------------------------------
(* Where a thread goes once it knows the stage suits the operation it is in. *)

(* ... when it finds that another thread has moved the stage on. *)
LEMMA StageChangeFrame ==
  ASSUME NEW t \in Thread, NEW op \in Marker, NEW helping \in BOOLEAN,
         NEW s \in StageSeq, NEW ws,
         Issued(op, s), Current(op, s), StageOf(op, s) # "Claiming",
         OwnUnlessHelping(t, op, helping, s)
  PROVE  PastClaims(t, AfterStageChange(op, StageOf(op, s), helping), helping, s, ws)
<1> DEFINE g == AfterStageChange(op, StageOf(op, s), helping)
<1> USE ConstantFacts
<1>1. op.owner \in Thread /\ op.seq \in Nat /\ s[op.owner] \in [stage : Stage, seq : Nat]
  BY DEF Marker, StageSeq
<1>2. StageOf(op, s) \in {"Setting", "Reverting", "Reverted", "Successful"}
  BY <1>1 DEF Issued, Current, StageOf, Stage
<1>3. /\ g.op = op /\ g.seen = Null
      /\ \/ g.pc = "setTarget" /\ StageOf(op, s) = "Setting"
         \/ /\ g.pc = "revertTarget"
            /\ StageOf(op, s) \in {"Reverting", "Reverted", "Successful"}
            /\ g.after = IF helping THEN IF StageOf(op, s) = "Reverting" THEN "Reverted"
                                         ELSE HelpReturn
                         ELSE IF StageOf(op, s) = "Successful" THEN "Ok"
                              ELSE "ValueWasNotExpectedValue"
  BY <1>2 DEF AfterStageChange, Revert, At
<1>4. g \in Frame
  BY <1>2 DEF AfterStageChange, Revert, At, Frame, PC, Stage, Outcome, HelpReturn
<1>5. LocalsOK(g) /\ g.pc \notin ClaimPC /\ g.pc # "stageCas"
  BY <1>3 DEF LocalsOK, NoOpPC, StorePC, ClaimPC, RevertPC, Outcome, HelpReturn
<1>6. PhaseOK(g, s)
  BY <1>3 DEF PhaseOK, SetPC, RevertPC, HelpReturn
<1>7. RoleOK(t, g, helping, s, ws)
  BY <1>3 DEF RoleOK, OwnUnlessHelping, StorePC, RevertPC, Outcome, HelpReturn
<1> QED BY <1>3, <1>4, <1>5, <1>6, <1>7 DEF PastClaims, FrameOK

(* ... when a helper finds that the operation is over. *)
LEMMA OverFrame ==
  ASSUME NEW t \in Thread, NEW op \in Marker, NEW s \in StageSeq, NEW ws,
         Issued(op, s), ~Current(op, s)
  PROVE  PastClaims(t, Revert(op, LastWord, HelpReturn), TRUE, s, ws)
<1> DEFINE g == Revert(op, LastWord, HelpReturn)
<1> USE ConstantFacts
<1>1. g.op = op /\ g.seen = Null /\ g.pc = "revertTarget" /\ g.after = HelpReturn
  BY DEF Revert, At
<1>2. g \in Frame
  BY DEF Revert, At, Frame, PC
<1>3. LocalsOK(g) /\ g.pc \notin ClaimPC
  BY <1>1 DEF LocalsOK, NoOpPC, StorePC, ClaimPC, RevertPC, HelpReturn
<1>4. PhaseOK(g, s)
  BY <1>1 DEF PhaseOK
<1>5. RoleOK(t, g, TRUE, s, ws)
  BY <1>1 DEF RoleOK, StorePC, RevertPC, Outcome, HelpReturn
<1> QED BY <1>1, <1>2, <1>3, <1>4, <1>5 DEF PastClaims, FrameOK

(* ... after a failed verification of the stage, and after a failed *)
(* compare-and-swap of it: the impossible errors are not reached.   *)
LEMMA StageErrorFrame ==
  ASSUME NEW t \in Thread, NEW op \in Marker, NEW helping \in BOOLEAN,
         NEW s \in StageSeq, NEW ws,
         Issued(op, s), Current(op, s) => StageOf(op, s) # "Claiming",
         OwnUnlessHelping(t, op, helping, s)
  PROVE  /\ PastClaims(t, AfterVerifyError(op, s[op.owner], helping), helping, s, ws)
         /\ PastClaims(t, AfterStageCasFailed(op, s[op.owner], helping), helping, s, ws)
<1>1. CASE Current(op, s)
  <2>1. s[op.owner].seq = op.seq
    BY <1>1 DEF Current
  <2>2. AfterVerifyError(op, s[op.owner], helping) = AfterStageChange(op, StageOf(op, s), helping)
    BY <2>1 DEF AfterVerifyError, StageOf
  <2>3. AfterStageCasFailed(op, s[op.owner], helping) = AfterStageChange(op, StageOf(op, s), helping)
    BY <2>1 DEF AfterStageCasFailed, StageOf
  <2> QED BY <1>1, <2>2, <2>3, StageChangeFrame
<1>2. CASE ~Current(op, s)
  <2>1. s[op.owner].seq # op.seq
    BY <1>2 DEF Current
  <2>2. helping = TRUE
    BY <2>1 DEF OwnUnlessHelping
  <2>3. /\ AfterVerifyError(op, s[op.owner], helping) = Revert(op, LastWord, HelpReturn)
        /\ AfterStageCasFailed(op, s[op.owner], helping) = Revert(op, LastWord, HelpReturn)
    BY <2>1, <2>2 DEF AfterVerifyError, AfterStageCasFailed
  <2> QED BY <1>2, <2>2, <2>3, OverFrame
<1> QED BY <1>1, <1>2

(* ... after a word is claimed, with the marker of its operation in it. *)
LEMMA AfterClaimFrame ==
  ASSUME NEW t \in Thread, NEW f \in Frame, NEW helping \in BOOLEAN,
         NEW s \in StageSeq, NEW ws, NEW m, NEW tg,
         f.pc = "claimCas", FrameOK(t, f, helping, s, ws),
         ClaimsKept(f, s, m, tg), m[f.addr] = f.op
  PROVE  /\ AfterClaim(f) \in Frame /\ AfterClaim(f).op = f.op /\ f.op \in Marker
         /\ FrameOK(t, AfterClaim(f), helping, s, ws)
         /\ ClaimsKept(AfterClaim(f), s, m, tg)
<1> DEFINE g == AfterClaim(f)
<1> USE ConstantFacts
<1>1. f.op \in Marker /\ f.word \in Word
  BY DEF FrameOK, LocalsOK, NoOpPC, StorePC, Frame
<1>2. /\ g.op = f.op /\ g.seen = Null
      /\ \/ f.word = LastWord /\ g.pc = "stageCas" /\ g.after = "Setting"
         \/ f.word # LastWord /\ g.pc = "claimTarget" /\ g.word = f.word + 1
  BY DEF AfterClaim, At
<1>3. g \in Frame
  BY <1>1 DEF AfterClaim, At, Frame, PC, Stage
<1>4. LocalsOK(g)
  BY <1>1, <1>2 DEF LocalsOK, NoOpPC, StorePC, RevertPC
<1>5. PhaseOK(g, s)
  BY <1>1, <1>2 DEF FrameOK, PhaseOK, SetPC, RevertPC
<1>6. RoleOK(t, g, helping, s, ws)
  BY <1>1, <1>2 DEF FrameOK, RoleOK, StorePC, RevertPC, HelpReturn
<1>7. ClaimsKept(g, s, m, tg)
  <2> SUFFICES ASSUME Claiming(g.op, s) PROVE ClaimsKept(g, s, m, tg)
    BY DEF ClaimsKept
  <2>1. ClaimedUpTo(f.op, f.word, m, tg) /\ f.addr = tg[f.op.owner][f.word]
    BY <1>1, <1>2 DEF ClaimsKept, ClaimPC
  <2>2. \A w \in Word : w < f.word + 1 => w < f.word \/ w = f.word
    BY <1>1 DEF Word
  <2>3. ClaimedUpTo(f.op, f.word + 1, m, tg)
    BY <2>1, <2>2 DEF ClaimedUpTo
  <2>4. f.word = LastWord => f.word + 1 = NumWords
    BY KCasAssumption DEF LastWord
  <2> QED BY <1>2, <2>3, <2>4 DEF ClaimsKept, ClaimPC
<1> QED BY <1>1, <1>2, <1>3, <1>4, <1>5, <1>6, <1>7 DEF FrameOK

(* ... after a word is set, or is found not to hold the marker. *)
LEMMA AfterSetFrame ==
  ASSUME NEW t \in Thread, NEW f \in Frame, NEW helping \in BOOLEAN,
         NEW s \in StageSeq, NEW ws,
         f.pc \in {"setCas", "setVerify"}, FrameOK(t, f, helping, s, ws)
  PROVE  /\ PastClaims(t, AfterSet(f, helping), helping, s, ws)
         /\ PastClaims(t, At("setVerify", f.op, f.word, Null), helping, s, ws)
<1> USE ConstantFacts
<1>1. f.op \in Marker /\ f.word \in Word
  BY DEF FrameOK, LocalsOK, NoOpPC, StorePC, Frame
<1>2. Current(f.op, s) => StageOf(f.op, s) \in {"Setting", "Successful"}
  BY <1>1 DEF FrameOK, PhaseOK, SetPC
<1>3. ASSUME NEW g \in Frame, g.op = f.op, g.seen = Null,
             \/ g.pc \in {"setTarget", "setVerify"}
             \/ g.pc = "stageCas" /\ g.after = "Successful" /\ helping
             \/ g.pc = "prepare" /\ g.after = "Ok" /\ ~helping
      PROVE  PastClaims(t, g, helping, s, ws)
  <2>1. LocalsOK(g) /\ g.pc \notin ClaimPC
    BY <1>1, <1>3 DEF LocalsOK, NoOpPC, StorePC, ClaimPC, RevertPC, Outcome
  <2>2. PhaseOK(g, s)
    BY <1>1, <1>2, <1>3 DEF FrameOK, PhaseOK, SetPC, RevertPC
  <2>3. RoleOK(t, g, helping, s, ws)
    BY <1>1, <1>3 DEF FrameOK, RoleOK, StorePC, RevertPC, HelpReturn
  <2> QED BY <1>1, <1>3, <2>1, <2>2, <2>3 DEF PastClaims, FrameOK
<1>4. PastClaims(t, At("setVerify", f.op, f.word, Null), helping, s, ws)
  <2>1. At("setVerify", f.op, f.word, Null) \in Frame
    BY <1>1 DEF At, Frame, PC
  <2> QED BY <1>3, <2>1 DEF At
<1>5. PastClaims(t, AfterSet(f, helping), helping, s, ws)
  <2>1. AfterSet(f, helping) \in Frame
    BY <1>1 DEF AfterSet, At, Frame, PC, Stage, Outcome
  <2>2. \/ AfterSet(f, helping) = At("setTarget", f.op, f.word + 1, Null)
        \/ AfterSet(f, helping) = At("stageCas", f.op, 0, "Successful") /\ helping
        \/ AfterSet(f, helping) = At("prepare", f.op, 0, "Ok") /\ ~helping
    BY DEF AfterSet
  <2> QED BY <1>3, <2>1, <2>2 DEF At
<1> QED BY <1>4, <1>5

(* ... after a word is reverted. *)
LEMMA AfterRevertFrame ==
  ASSUME NEW t \in Thread, NEW f \in Frame, NEW helping \in BOOLEAN,
         NEW s \in StageSeq, NEW ws,
         f.pc = "revertCas", FrameOK(t, f, helping, s, ws)
  PROVE  PastClaims(t, AfterRevert(f), helping, s, ws)
<1> DEFINE g == AfterRevert(f)
<1> USE ConstantFacts
<1>1. f.op \in Marker /\ f.word \in Word
  BY DEF FrameOK, LocalsOK, NoOpPC, StorePC, Frame
<1>2. /\ helping => f.after \in {"Reverted", HelpReturn}
      /\ ~helping => f.after \in Outcome
  BY DEF FrameOK, LocalsOK, RoleOK, RevertPC
<1>3. /\ g.op = f.op /\ g.seen = Null
      /\ \/ g.pc = "revertTarget" /\ g.after = f.after
         \/ g.pc = "prepare" /\ g.after = f.after /\ ~helping
         \/ g.pc = "stageCas" /\ g.after = "Reverted" /\ f.after = "Reverted" /\ helping
         \/ g.pc = HelpReturn /\ helping
  BY <1>2 DEF AfterRevert, Revert, At, Outcome, HelpReturn
<1>4. g \in Frame
  BY <1>1, <1>2 DEF AfterRevert, At, Frame, PC, Stage, Outcome, HelpReturn
<1>5. LocalsOK(g) /\ g.pc \notin ClaimPC
  BY <1>1, <1>2, <1>3 DEF LocalsOK, NoOpPC, StorePC, ClaimPC, RevertPC, Outcome, HelpReturn
<1>6. PhaseOK(g, s)
  BY <1>1, <1>2, <1>3 DEF FrameOK, PhaseOK, SetPC, RevertPC, Outcome, HelpReturn
<1>7. RoleOK(t, g, helping, s, ws)
  BY <1>1, <1>2, <1>3 DEF FrameOK, RoleOK, StorePC, RevertPC, Outcome, HelpReturn
<1> QED BY <1>1, <1>3, <1>4, <1>5, <1>6, <1>7 DEF PastClaims, FrameOK, HelpReturn

(* ... after it moved the stage on itself. *)
LEMMA StageDoneFrame ==
  ASSUME NEW t \in Thread, NEW f \in Frame, NEW helping \in BOOLEAN,
         NEW s \in StageSeq, NEW s2 \in StageSeq, NEW ws,
         f.pc = "stageCas", FrameOK(t, f, helping, s, ws), Current(f.op, s),
         s2 = [s EXCEPT ![f.op.owner].stage = f.after]
  PROVE  PastClaims(t, AfterStageCasDone(f, helping), helping, s2, ws)
<1> DEFINE g == AfterStageCasDone(f, helping)
<1> USE ConstantFacts
<1>1. f.op \in Marker /\ f.op.owner \in Thread /\ f.word \in Word
  BY DEF FrameOK, LocalsOK, NoOpPC, StorePC, Frame, Marker
<1>2. /\ f.after \in {"Setting", "Reverting", "Successful", "Reverted"}
      /\ ~helping => f.after \in {"Setting", "Reverting"}
  BY DEF FrameOK, LocalsOK, RoleOK
<1>3. s2[f.op.owner].stage = f.after /\ s2[f.op.owner].seq = f.op.seq /\ s2[t].seq = s[t].seq
  BY <1>1 DEF Current, StageSeq
<1>4. /\ g.op = f.op /\ g.seen = Null
      /\ \/ g.pc = "setTarget" /\ f.after = "Setting"
         \/ /\ g.pc = "revertTarget" /\ f.after = "Reverting"
            /\ g.after = IF helping THEN "Reverted" ELSE "ValueWasNotExpectedValue"
         \/ g.pc = HelpReturn /\ helping
  BY <1>2 DEF AfterStageCasDone, Revert, At
<1>5. g \in Frame
  BY <1>1, <1>2 DEF AfterStageCasDone, Revert, At, Frame, PC, Stage, Outcome, HelpReturn
<1>6. LocalsOK(g) /\ g.pc \notin ClaimPC /\ g.pc # "stageCas"
  BY <1>1, <1>4 DEF LocalsOK, NoOpPC, StorePC, ClaimPC, RevertPC, Outcome, HelpReturn
<1>7. PhaseOK(g, s2)
  BY <1>1, <1>2, <1>3, <1>4 DEF PhaseOK, Issued, StageOf, SetPC, RevertPC, HelpReturn
<1>8. RoleOK(t, g, helping, s2, ws)
  BY <1>1, <1>3, <1>4 DEF FrameOK, RoleOK, StorePC, RevertPC, Outcome, HelpReturn
<1> QED BY <1>1, <1>4, <1>5, <1>6, <1>7, <1>8 DEF PastClaims, FrameOK

(* ... when it begins to help an operation that is in progress. *)
LEMMA HelpFrameOK ==
  ASSUME NEW t \in Thread, NEW op \in Marker, NEW s \in StageSeq, NEW ws, NEW m, NEW tg,
         Issued(op, s), Current(op, s), StageOf(op, s) \notin {"Successful", "Reverted"}
  PROVE  LET g == HelpFrame(op, StageOf(op, s)) IN
         g \in Frame /\ g.op # Null /\ FrameOK(t, g, TRUE, s, ws) /\ ClaimsKept(g, s, m, tg)
<1> DEFINE g == HelpFrame(op, StageOf(op, s))
<1> USE ConstantFacts
<1>1. op.owner \in Thread /\ op.seq \in Nat /\ s[op.owner] \in [stage : Stage, seq : Nat]
  BY DEF Marker, StageSeq
<1>2. StageOf(op, s) \in {"Claiming", "Setting", "Reverting"}
  BY <1>1 DEF Issued, Current, StageOf, Stage
<1>3. /\ g.op = op /\ g.seen = Null
      /\ \/ g.pc = "claimTarget" /\ g.word = 0 /\ StageOf(op, s) = "Claiming"
         \/ g.pc = "setTarget" /\ StageOf(op, s) = "Setting"
         \/ g.pc = "revertTarget" /\ g.after = "Reverted" /\ StageOf(op, s) = "Reverting"
  BY <1>2 DEF HelpFrame, Revert, At
<1>4. g \in Frame
  BY <1>2 DEF HelpFrame, Revert, At, Frame, PC, Stage
<1>5. LocalsOK(g)
  BY <1>3 DEF LocalsOK, NoOpPC, StorePC, RevertPC
<1>6. PhaseOK(g, s)
  BY <1>3 DEF PhaseOK, SetPC, RevertPC
<1>7. RoleOK(t, g, TRUE, s, ws)
  BY <1>3 DEF RoleOK, StorePC, RevertPC, Outcome, HelpReturn
<1>8. ClaimsKept(g, s, m, tg)
  BY <1>3 DEF ClaimsKept, ClaimedUpTo, ClaimPC, Word
<1> QED BY <1>3, <1>4, <1>5, <1>6, <1>7, <1>8 DEF FrameOK
=============================================================================
