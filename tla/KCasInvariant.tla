--------------------------- MODULE KCasInvariant ---------------------------
(***************************************************************************)
(* The inductive invariant of KCas: what every thread in the middle of an  *)
(* operation may rely on, although the operation may have been decided,    *)
(* finished and followed by others since the thread last looked.  It holds *)
(* whatever the program: nothing is assumed of values or of address order. *)
(*                                                                         *)
(* The parts take the state they speak of as parameters (s for ss, m for   *)
(* memory, tg for target), so that lemmas can relate two states.           *)
(***************************************************************************)
EXTENDS KCas

StorePC == {"storeTarget", "storeExpected", "storeDesired", "publish"}
ClaimPC == {"claimTarget", "claimExpected", "claimCas", "claimVerify", "helpLoad"}
SetPC == {"setTarget", "setDesired", "setCas", "setVerify"}
RevertPC == {"revertTarget", "revertExpected", "revertCas"}
NoOpPC == StorePC \cup {"idle", "halted"}

(* The operation has been published: its words are in the shared state. *)
Issued(op, s) ==
  \/ op.seq < s[op.owner].seq
  \/ op.seq = s[op.owner].seq /\ s[op.owner].stage # "Inactive"

Current(op, s) == op.seq = s[op.owner].seq
StageOf(op, s) == s[op.owner].stage
Claiming(op, s) == Current(op, s) /\ StageOf(op, s) = "Claiming"

(* Which locals of a frame are live at its program counter. *)
LocalsOK(f) ==
  /\ f.op = Null <=> f.pc \in NoOpPC
  /\ f.pc \in {"claimExpected", "claimCas", "claimVerify", "helpLoad", "setDesired",
               "setCas", "revertExpected", "revertCas"} => f.addr \in Address
  /\ f.pc \in {"claimCas", "claimVerify", "helpLoad", "setCas", "revertCas"} => f.val \in Value
  /\ f.pc = "claimVerify" => f.seen \in Value \cup Marker
  /\ f.pc = "helpLoad" => f.seen \in Marker
  /\ f.pc = "stageCas" => f.after \in {"Setting", "Reverting", "Successful", "Reverted"}
  /\ f.pc = "prepare" => f.after \in Outcome
  /\ f.pc \in RevertPC => f.after \in Outcome \cup {"Reverted", HelpReturn}
  /\ f.pc = "fatal" => f.after = "TopBitsOfValueWereIllegal"

(* A frame works on a published operation and, while that operation is not *)
(* over, in a phase its stage allows.                                      *)
PhaseOK(f, s) ==
  f.op # Null =>
    /\ Issued(f.op, s)
    /\ f.seen \in Marker => Issued(f.seen, s)
    /\ Current(f.op, s) =>
         /\ f.pc \in SetPC => StageOf(f.op, s) \in {"Setting", "Successful"}
         /\ f.pc \in RevertPC => StageOf(f.op, s) \in {"Reverting", "Reverted", "Successful"}
         /\ f.pc \in RevertPC \cup {"prepare"} =>
              /\ f.after = "Ok" => StageOf(f.op, s) \in {"Setting", "Successful"}
              /\ f.after \in {"Reverted", "ValueWasNotExpectedValue"}
                   => StageOf(f.op, s) \in {"Reverting", "Reverted"}
         /\ f.pc = "stageCas" /\ f.after = "Successful"
              => StageOf(f.op, s) \in {"Setting", "Successful"}
         /\ f.pc = "stageCas" /\ f.after = "Reverted"
              => StageOf(f.op, s) \in {"Reverting", "Reverted"}

(* What only a thread in its own call does, and what only a helper does. *)
RoleOK(t, f, helping, s, ws) ==
  /\ ~helping /\ f.op # Null => f.op = [owner |-> t, seq |-> s[t].seq]
  /\ f.pc \in StorePC \cup {"idle"} => s[t].stage = "Inactive"
  /\ f.pc \in StorePC \ {"publish"} => ws \in [Word -> KCasWord]
  /\ helping => /\ f.op # Null
                /\ f.pc # "prepare"
                /\ f.pc \in RevertPC => f.after \notin Outcome
  /\ ~helping => /\ f.pc # HelpReturn
                 /\ f.pc \in RevertPC => f.after \in Outcome
                 /\ f.pc = "stageCas" => f.after \in {"Setting", "Reverting"}

FrameOK(t, f, helping, s, ws) == LocalsOK(f) /\ PhaseOK(f, s) /\ RoleOK(t, f, helping, s, ws)

(* The claims suspended in help_thread; the first is of the thread's own call. *)
StackOK(t, st, s, ws) ==
  \A i \in 1 .. Len(st) :
    /\ st[i].pc = "claimCas"
    /\ LocalsOK(st[i]) /\ PhaseOK(st[i], s)
    /\ i = 1 => RoleOK(t, st[i], FALSE, s, ws)

FramesOK ==
  \A t \in Thread : /\ FrameOK(t, frame[t], Helping(t), ss, words[t])
                    /\ StackOK(t, stack[t], ss, words[t])

MarkersIssued == \A x \in Address : memory[x] \in Marker => Issued(memory[x], ss)

(* Every word of a published operation has its target; the words of the    *)
(* first call of a thread before the one it is storing have theirs too.    *)
WordsStored(f, seqStage, tg) ==
  /\ seqStage.seq > 0 \/ seqStage.stage # "Inactive" \/ f.pc = "publish"
       => \A w \in Word : tg[w] # Null
  /\ f.pc \in {"storeTarget", "storeExpected", "storeDesired"}
       => \A w \in Word : w < f.word => tg[w] # Null
  /\ f.pc \in {"storeExpected", "storeDesired"} => tg[f.word] # Null

TargetsStored == \A t \in Thread : WordsStored(frame[t], ss[t], target[t])

ResultsOK ==
  \A t \in Thread : result[t] \in FatalError => result[t] = "TopBitsOfValueWereIllegal"

(* While an operation is being claimed, the addresses before the word a    *)
(* claim loop has reached hold its marker, and the loop has its address.   *)
ClaimedUpTo(op, n, m, tg) == \A w \in Word : w < n => m[tg[op.owner][w]] = op

ClaimsKept(f, s, m, tg) ==
  f.op # Null /\ Claiming(f.op, s) =>
    /\ f.pc \in ClaimPC => ClaimedUpTo(f.op, f.word, m, tg)
    /\ f.pc \in ClaimPC \ {"claimTarget"} => f.addr = tg[f.op.owner][f.word]
    /\ f.pc = "stageCas" /\ f.after = "Setting" => ClaimedUpTo(f.op, NumWords, m, tg)

EveryClaimKept ==
  \A t \in Thread : /\ ClaimsKept(frame[t], ss, memory, target)
                    /\ \A i \in 1 .. Len(stack[t]) : ClaimsKept(stack[t][i], ss, memory, target)

(* One invariant that implies NoImpossibleError, and whose steps obey      *)
(* StageProtocol, ReportsTheDecision and DecisionNeedsEveryClaim: frames   *)
(* agree with the stages, markers and words of the operations they are in, *)
(* in every interleaving of owners and of helpers that come too late.      *)
ProtocolInv ==
  TypeOK /\ FramesOK /\ MarkersIssued /\ TargetsStored /\ ResultsOK /\ EveryClaimKept
=============================================================================
