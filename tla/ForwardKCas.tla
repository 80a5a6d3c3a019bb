----------------------------- MODULE ForwardKCas -----------------------------
(***************************************************************************)
(* KCas when every thread calls at most once and calls move cells only     *)
(* forward, as in tests/common/mod.rs: the programs for which kcas is an   *)
(* atomic compare-and-swap whatever the interleaving (MCKCas and           *)
(* MCLinearizableKCas have programs for which it is not).  The invariants  *)
(* say how far each owner and each helper, however late, has got with the  *)
(* words of an operation, and what its markers stand for meanwhile.        *)
(***************************************************************************)
EXTENDS LinearizableKCas, KCasInvariant

CONSTANT Rank   \* Rank[x]: an order of the values that calls move the cell x up

Calls(t) == UNION {Program[t][k] : k \in DOMAIN Program[t]}

OneCall == \A t \in Thread : Len(Program[t]) <= 1

(* A call names no address twice. *)
DistinctTargets ==
  \A t \in Thread : \A ws \in Calls(t) : \A v, w \in Word :
    ws[v].target = ws[w].target => v = w

(* Every word of a call leaves its target alone or moves it up the order   *)
(* of its values, so no cell comes back to a value it has left.            *)
NeverBack ==
  /\ Rank \in [Address -> [Value -> Nat]]
  /\ \A t \in Thread : \A ws \in Calls(t) : \A w \in Word :
       \/ ws[w].expected = ws[w].desired
       \/ Rank[ws[w].target][ws[w].expected] < Rank[ws[w].target][ws[w].desired]

Forward == OneCall /\ IllegalValue = {} /\ DistinctTargets /\ NeverBack
-----------------------------------------------------------------------------
(* One call per thread: the words of an operation stay in the State. *)

Started(t) == ss[t].seq > 0 \/ ss[t].stage # "Inactive"
First(t) == [owner |-> t, seq |-> 0]

OnlyCall ==
  \A t \in Thread :
    /\ ss[t].seq <= 1
    /\ ss[t].stage # "Inactive" \/ frame[t].pc \in StorePC => ss[t].seq = 0

(* What a frame has loaded for its word is what the operation has there    *)
(* (tg, ex and de for target, expected and desired, as in KCasInvariant).  *)
LoadedOK(f, tg, ex, de) ==
  f.op # Null =>
    LET o == f.op.owner IN
    /\ f.pc \in {"claimExpected", "claimCas", "claimVerify", "helpLoad", "setDesired",
                 "setCas", "revertExpected", "revertCas"} => f.addr = tg[o][f.word]
    /\ f.pc \in {"claimCas", "claimVerify", "helpLoad", "revertCas"}
         => f.val = ex[o][f.word]
    /\ f.pc = "setCas" => f.val = de[o][f.word]

LocalsLoaded ==
  \A t \in Thread :
    /\ LoadedOK(frame[t], target, expected, desired)
    /\ \A i \in 1 .. Len(stack[t]) : LoadedOK(stack[t][i], target, expected, desired)

MarkersPlaced ==
  \A x \in Address : memory[x] \in Marker =>
    \E w \in Word : target[memory[x].owner][w] = x

OneCallInv == ProtocolInv /\ OnlyCall /\ LocalsLoaded /\ MarkersPlaced

(* The frame will come to the operation's word w once more, or has to find *)
(* out first how the operation stands and then comes to all of them.       *)
Revisits(f, op, w) ==
  /\ f.op = op
  /\ \/ f.pc \in ClaimPC /\ w < f.word
     \/ f.pc = "stageCas" /\ f.after = "Setting"
     \/ f.pc = "stageCas" /\ f.after = "Reverting" /\ w < f.word
     \/ f.pc \in SetPC \ {"setVerify"} /\ w >= f.word
     \/ f.pc = "setVerify" /\ w > f.word
     \/ f.pc \in RevertPC /\ w <= f.word

(* A marker stays in a cell only as long as some thread, owner or helper,  *)
(* is on its way to take it out, unless a thread met a fatal error.        *)
MarkersKept ==
  \/ \E t \in Thread : frame[t].pc \in {"fatal", "halted"}
  \/ \A x \in Address : memory[x] \in Marker =>
       \E w \in Word, t \in Thread :
         /\ target[memory[x].owner][w] = x
         /\ \/ Revisits(frame[t], memory[x], w)
            \/ \E i \in 1 .. Len(stack[t]) : Revisits(stack[t][i], memory[x], w)

(* The invariant that shows MarkersKept, and so QuiescentClean. *)
CleanupInv == OneCallInv /\ MarkersKept
-----------------------------------------------------------------------------
(* Calls move cells forward: markers are read for the right values. *)

Holds(t, ws, w) ==
  /\ target[t][w] = ws[w].target
  /\ expected[t][w] = ws[w].expected
  /\ desired[t][w] = ws[w].desired

(* A call in progress has its words in the State, as far as it has come.   *)
StoredOK(t) ==
  LET f == frame[t] IN
  /\ f.pc \notin {"fatal", "halted"}
  /\ words[t] = Null <=> f.pc = "idle"
  /\ words[t] # Null => words[t] \in Calls(t)
  /\ Started(t) => \E ws \in Calls(t) : \A w \in Word : Holds(t, ws, w)
  /\ words[t] # Null /\ (ss[t].stage # "Inactive" \/ f.pc = "publish")
       => \A w \in Word : Holds(t, words[t], w)
  /\ f.pc \in {"storeTarget", "storeExpected", "storeDesired"}
       => \A w \in Word : w < f.word => Holds(t, words[t], w)
  /\ f.pc \in {"storeExpected", "storeDesired"}
       => target[t][f.word] = words[t][f.word].target
  /\ f.pc = "storeDesired" => expected[t][f.word] = words[t][f.word].expected

CallStored == \A t \in Thread : StoredOK(t)

(* The operation of t has reached Setting. *)
Won(t) ==
  \/ ss[t].stage \in {"Setting", "Successful"}
  \/ ss[t].seq > 0 /\ result[t] = "Ok"

(* A word whose target has been moved for good: the marker is gone. *)
Clear(t, w) == expected[t][w] # desired[t][w] => memory[target[t][w]] # First(t)

Passed(f, w) ==
  \/ f.pc \in SetPC /\ (w < f.word \/ (f.pc = "setVerify" /\ w = f.word))
  \/ f.pc = "stageCas" /\ f.after = "Successful"
  \/ f.pc = "prepare" /\ f.after = "Ok"

(* Whoever sets the words of an operation knows it decided, and the words  *)
(* it has passed are clear.                                                *)
SettersOK ==
  \A t \in Thread : LET f == frame[t] IN
    /\ f.pc \in SetPC \/ (f.pc = "stageCas" /\ f.after = "Successful") => Won(f.op.owner)
    /\ \A w \in Word : Passed(f, w) => Clear(f.op.owner, w)

(* The cells an operation has moved do not come back to what it expected,  *)
(* so that late claims for it fail.                                        *)
Advanced ==
  \A t \in Thread : Won(t) => \A w \in Word :
    /\ expected[t][w] # desired[t][w] =>
         LET x == target[t][w] IN Rank[x][desired[t][w]] <= Rank[x][LogicalMemory[x]]
    /\ ss[t].stage # "Setting" => Clear(t, w)

(* Who gives up a call has met a value it did not expect. *)
MissesKnown ==
  \A t \in Thread : LET f == frame[t] IN
    /\ ss[t].stage \in {"Reverting", "Reverted"} => missed[t]
    /\ \/ f.pc = "claimVerify" /\ f.seen \in Value
       \/ f.pc = "stageCas" /\ f.after = "Reverting"
       => (Claiming(f.op, ss) => missed[f.op.owner])

(* missed has taken account of the present state: a step that changes what *)
(* no call sees leaves it alone.                                           *)
UpToDate ==
  missed = [t \in Thread |->
    /\ words[t] # Null
    /\ missed[t] \/ (~Applied(t) /\ ~Matching(words[t], LogicalMemory))]

(* The invariant under which each step is one of AtomicKCas, or none. *)
LinearInv ==
  OneCallInv /\ CallStored /\ SettersOK /\ Advanced /\ MissesKnown /\ UpToDate
-----------------------------------------------------------------------------
(* Who wins: the workload of tests/common/mod.rs. *)

(* Every thread calls, and calls that all threads may make on the same     *)
(* targets expect what these hold at first.                                *)
ExpectInitial ==
  /\ Thread # {}
  /\ \A t \in Thread : Len(Program[t]) = 1
  /\ \A t \in Thread : \A ws \in Calls(t) :
       (\A u \in Thread : \E us \in Calls(u) : \A w \in Word : us[w].target = ws[w].target)
         => \A w \in Word : ws[w].expected = InitialMemory[ws[w].target]

Reported == \A t \in Thread : result[t] \in Outcome <=> ss[t].seq > 0

(* The cells hold what the last winner wanted; until there is one, only     *)
(* calls that do not expect the initial contents have missed, or failed.    *)
LastWins ==
  \/ \E t \in Thread : Won(t) /\ \A w \in Word : LogicalMemory[target[t][w]] = desired[t][w]
  \/ /\ LogicalMemory = InitialMemory
     /\ \A t \in Thread :
          /\ ~Won(t)
          /\ missed[t] => ~Matching(words[t], InitialMemory)
          /\ result[t] = "ValueWasNotExpectedValue"
               => \E w \in Word : expected[t][w] # InitialMemory[target[t][w]]

(* The invariant that shows SomeCallWins. *)
WinInv == LinearInv /\ Reported /\ LastWins

(* What these invariants say of decisions: whoever drives an operation      *)
(* knows which way it was decided for as long as that matters.              *)
DecisionsKnown ==
  SettersOK /\ Advanced /\ MissesKnown /\ UpToDate /\ Reported /\ LastWins
-----------------------------------------------------------------------------
(* At every moment the operations that were decided for, replayed in some   *)
(* order, give what the cells stand for: the invariant that shows           *)
(* OutcomesExplained.                                                       *)
Winner == {t \in Thread : Won(t)}

WinnersExplain == \E order \in SetToSeqs(Winner) : Replay(order) = LogicalMemory
=============================================================================
