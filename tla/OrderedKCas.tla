---------------------------- MODULE OrderedKCas ----------------------------
(***************************************************************************)
(* KCas for programs that keep to the limitation lib.rs states: addresses  *)
(* used by two or more threads are passed in the same order.  The order is *)
(* given by a rank of the addresses, each call going up (also over those   *)
(* only one thread uses, of which lib.rs asks nothing).  Then helping is   *)
(* finite: a thread that helps the operation it waits for can only come to *)
(* wait for another one further up.                                        *)
(***************************************************************************)
EXTENDS KCasInvariant

CONSTANT Rank   \* the place of an address in the order

Ascending(tg) == \A v, w \in Word : v < w => Rank[tg[v]] < Rank[tg[w]]

ASSUME OrderAssumption ==
  /\ Rank \in [Address -> Nat]
  /\ \A t \in Thread : \A k \in DOMAIN Program[t] : \A ws \in Program[t][k] :
       Ascending([w \in Word |-> ws[w].target])

(* The words of a call are stored one by one; those of an operation that    *)
(* has been published are of one call.                                      *)
TargetsAscend ==
  \A t \in Thread : LET f == frame[t] IN
    /\ ss[t].stage # "Inactive" \/ f.pc = "publish" => Ascending(target[t])
    /\ f.pc \in {"storeTarget", "storeExpected", "storeDesired"} =>
         /\ Ascending([w \in Word |-> words[t][w].target])
         /\ \A w \in Word : w < f.word => target[t][w] = words[t][w].target
    /\ f.pc \in {"storeExpected", "storeDesired"}
         => target[t][f.word] = words[t][f.word].target

(* What an operation being claimed has claimed are its first words. *)
ClaimsArePrefixes ==
  \A x \in Address : memory[x] \in Marker /\ Claiming(memory[x], ss) =>
    LET m == memory[x] IN
    \E w \in Word : target[m.owner][w] = x /\ ClaimedUpTo(m, w + 1, memory, target)

(* An operation still being claimed has the cell in which it was seen, ...  *)
SeenStays ==
  \A t \in Thread : LET f == frame[t] IN
    f.pc \in {"claimVerify", "helpLoad"} /\ f.seen \in Marker /\ Claiming(f.seen, ss)
      => memory[f.addr] = f.seen

(* ... also while a thread that waits for that cell helps it.               *)
WaitedFor(t, i) == IF i = Len(stack[t]) THEN frame[t].op ELSE stack[t][i + 1].op

HelpedStays ==
  \A t \in Thread : \A i \in 1 .. Len(stack[t]) :
    Claiming(WaitedFor(t, i), ss) => memory[stack[t][i].addr] = WaitedFor(t, i)

(* Each claim a thread suspends is further up than those it has suspended.  *)
Above(f, st) == \A i \in 1 .. Len(st) : Rank[st[i].addr] < Rank[f.addr]

HelpClimbs ==
  \A t \in Thread :
    /\ \A i, j \in 1 .. Len(stack[t]) :
         i < j => Rank[stack[t][i].addr] < Rank[stack[t][j].addr]
    /\ \/ frame[t].pc = "helpLoad"
       \/ frame[t].pc = "claimVerify" /\ Claiming(frame[t].op, ss)
       => Above(frame[t], stack[t])

(* The invariant that shows HelpNeverCircular: whom a thread waits for, and *)
(* where, is tied to what the operations being claimed hold at the moment.  *)
OrderInv ==
  ProtocolInv /\ TargetsAscend /\ ClaimsArePrefixes /\ SeenStays /\ HelpedStays /\ HelpClimbs
=============================================================================
