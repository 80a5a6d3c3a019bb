-------------------------- MODULE LinearizableKCas --------------------------
(***************************************************************************)
(* KCas with a history variable, and the mapping under which it implements *)
(* AtomicKCas.  A call takes effect when its stage becomes Setting: until  *)
(* then its markers stand for the expected values, from then on for the    *)
(* desired ones.  A call that fails must have been in conflict with the    *)
(* targets at some moment; missed remembers that it was.                   *)
(***************************************************************************)
EXTENDS KCas, SequencesExt

VARIABLE missed

(* What a cell holds for a reader that sees through the markers. *)
Meaning(m, x) ==
  LET w == CHOOSE n \in Word : target[m.owner][n] = x IN
  IF ~\E n \in Word : target[m.owner][n] = x THEN m
  ELSE IF ss[m.owner] = [stage |-> "Setting", seq |-> m.seq] THEN desired[m.owner][w]
  ELSE expected[m.owner][w]

LogicalMemory ==
  [x \in Address |-> IF memory[x] \in Marker THEN Meaning(memory[x], x) ELSE memory[x]]

Applied(t) == words[t] # Null /\ ss[t].stage \in {"Setting", "Successful"}

Matching(ws, m) == \A w \in Word : m[ws[w].target] = ws[w].expected

HistoryInit == Init /\ missed = [t \in Thread |-> FALSE]

HistoryNext ==
  /\ Next
  /\ missed' = [t \in Thread |->
       /\ words'[t] # Null
       /\ \/ missed[t]
          \/ ~Applied(t)' /\ ~Matching(words'[t], LogicalMemory')]

HistorySpec == HistoryInit /\ [][HistoryNext]_<<vars, missed>>

Atomic == INSTANCE AtomicKCas WITH
  mem <- LogicalMemory,
  pending <- words,
  applied <- [t \in Thread |-> Applied(t)],
  Calls <- [t \in Thread |-> UNION {Program[t][k] : k \in DOMAIN Program[t]}]

(* kcas is a multi-word compare-and-swap (lib.rs, first line): every call   *)
(* that returns Ok replaced all its targets in one step during the call,    *)
(* every call that returns ValueWasNotExpectedValue was in conflict with    *)
(* its targets during the call, and nothing else changes what cells hold.   *)
ImplementsAtomicKCas == Atomic!Spec

(* One call per thread, all over: the cells hold what the calls that        *)
(* returned Ok produce one after the other in some order, each finding its  *)
(* expected values (types.rs, Successful: "all values at the target         *)
(* addresses were the expected values, and all desired values have been     *)
(* swapped in").  This does not depend on what a marker stands for.         *)
Replayed(m, t) ==
  [x \in Address |->
     IF \E w \in Word : target[t][w] = x /\ m[x] = expected[t][w]
     THEN desired[t][CHOOSE w \in Word : target[t][w] = x]
     ELSE IF \E w \in Word : target[t][w] = x THEN Null ELSE m[x]]

Replay(order) ==
  LET m[n \in 0 .. Len(order)] ==
        IF n = 0 THEN InitialMemory ELSE Replayed(m[n - 1], order[n])
  IN m[Len(order)]

OutcomesExplained ==
  Over => \E order \in SetToSeqs({t \in Thread : result[t] = "Ok"}) : Replay(order) = memory
=============================================================================
