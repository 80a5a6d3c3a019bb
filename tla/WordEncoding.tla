---------------------------- MODULE WordEncoding ----------------------------
(***************************************************************************)
(* The words of src/src/types.rs: how a stage or a thread id shares one    *)
(* usize with a sequence number.  A word is the set of the positions of    *)
(* its 1 bits, so that | is union, & is intersection and a shift moves     *)
(* positions; bits shifted past either end are lost.  Stages and thread    *)
(* ids are numbers where the code compares them, words where it packs them.*)
(***************************************************************************)
EXTENDS Naturals

CONSTANT WordBits     \* usize::BITS

ASSUME WordAssumption == WordBits \in Nat /\ WordBits >= 3

Bit == 0 .. WordBits - 1
Low(n) == 0 .. n - 1                  \* the word whose n lowest bits are 1

Shl(x, n) == {i \in Bit : i >= n /\ i - n \in x}
Shr(x, n) == {i \in Bit : i + n \in x}
Not(x) == Bit \ x

TwoTo[n \in Nat] == IF n = 0 THEN 1 ELSE 2 * TwoTo[n - 1]

(* A number as a usize keeps its WordBits low bits. *)
WordOf(n) == {i \in Bit : (n \div TwoTo[i]) % 2 = 1}
Numeral == {<<n, WordOf(n)>> : n \in 0 .. TwoTo[WordBits] - 1}
NumberOf(x) == CHOOSE n \in 0 .. TwoTo[WordBits] - 1 : <<n, x>> \in Numeral
-----------------------------------------------------------------------------
(* StageAndSequence: the stage in the 3 top bits. *)

STAGE_BIT_LENGTH == 3
StageShift == WordBits - STAGE_BIT_LENGTH

Stage == {"Inactive", "Claiming", "Setting", "Reverting", "Successful", "Reverted"}

StageAsUsize == [Inactive |-> 0, Claiming |-> 1, Setting |-> 2,
                 Reverting |-> 3, Successful |-> 4, Reverted |-> 5]

(* Stage::try_from *)
StageTryFrom(n) ==
  IF \E stage \in Stage : StageAsUsize[stage] = n
  THEN CHOOSE stage \in Stage : StageAsUsize[stage] = n
  ELSE "StageOutOfBoundsError"

SequenceMaskForStage == Not(Shl(Low(3), StageShift))

ConstructStageAndSequence(stage, sequence) ==
  Shl(WordOf(StageAsUsize[stage]), StageShift) \cup sequence

(* Deliberate bug: the shift leaves one stage bit out. *)
ExtractStageOneShort(x) == StageTryFrom(NumberOf(Shr(x, StageShift + 1)))

ExtractStage(x) == StageTryFrom(NumberOf(Shr(x, StageShift)))
ExtractSequenceOfStage(x) == x \cap SequenceMaskForStage
-----------------------------------------------------------------------------
(* ThreadAndSequence, the marker: the thread id in the top bits, as many   *)
(* as NUM_THREADS + 1 has.                                                 *)

(* The loop stops at the first shift that leaves nothing. *)
BitLength(k) ==
  CHOOSE n \in 0 .. WordBits : /\ n = WordBits \/ k \div TwoTo[n] = 0
                               /\ \A m \in Low(n) : k \div TwoTo[m] # 0

(* Deliberate bug: bits for NUM_THREADS only, none for its successor. *)
BitLengthOfNumThreadsOnly(numThreads) == BitLength(numThreads)

(* get_bit_length_of_num_threads *)
BitLengthOfNumThreads(numThreads) == BitLength(numThreads + 1)

ThreadShift(numThreads) == WordBits - BitLengthOfNumThreads(numThreads)

SequenceMaskForThread(numThreads) == Not(Shl(Bit, ThreadShift(numThreads)))

ConstructThreadAndSequence(numThreads, id, sequence) ==
  Shl(WordOf(id), ThreadShift(numThreads)) \cup sequence

ExtractThread(numThreads, x) == NumberOf(Shr(x, ThreadShift(numThreads)))
ExtractSequenceOfThread(numThreads, x) == x \cap SequenceMaskForThread(numThreads)

IsMarker(numThreads, x) == ExtractThread(numThreads, x) \in 1 .. numThreads

(* What claim makes of a value whose compare-and-swap failed: the value is *)
(* a user's if its top bits are all 0 or all 1 (a kernel pointer).         *)
IsLegalValue(numThreads, x) ==
  ExtractThread(numThreads, x) \in {0, NumberOf(Low(BitLengthOfNumThreads(numThreads)))}

(* Deliberate bug: rolls over one number too early. *)
NextSequenceBeforeMask(numThreads, sequence) ==
  WordOf((NumberOf(sequence) + 1) % NumberOf(SequenceMaskForThread(numThreads)))

(* prepare_for_next_operation: % binds more tightly than +. *)
NextSequence(numThreads, sequence) ==
  WordOf(NumberOf(sequence) + (1 % NumberOf(SequenceMaskForThread(numThreads))))
=============================================================================
