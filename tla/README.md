# kcas: specifications, model checking and proofs

`kcas` is a Rust library for multi-word compare-and-swap. Threads share a `State`; each reserves a
thread id through a wrapper and calls `kcas` with `NUM_WORDS` triples of target address, expected
value and desired value. This directory holds TLA+ modules of the algorithm, of the thread id
registry, of the two together, and of the words that markers and stages are packed into; the TLC
instances they are checked on; and proofs, for every number of threads, words and addresses, of
every safety property that is found to hold on the instances, under hypotheses stated in section 4.

## 1. Inventory

Paths are relative to the repository.

| component | state | operations |
|---|---|---|
| set up and end of an operation, `src/kcas/mod.rs` | the argument words of each thread (`target_addresses`, `expected_values`, `desired_values`), its stage and sequence number | `kcas`, `initialize_operation`, `help_thread`, `prepare_for_next_operation` |
| claim, `src/kcas/claim.rs` | the target cells | `claim_and_transition`, `help_claim_and_transition`, `claim`, `help_...` from a failed claim |
| set, `src/kcas/set.rs` | the target cells | `set`, `verify...`, transitions of owner and helper |
| revert, `src/kcas/revert.rs` | the target cells | `revert`, transitions of owner and helper |
| stage changes, `src/kcas/stage_change.rs` | stage and sequence number | `change_stage_and_transition`, `help_change_stage_and_transition`, `verify_stage_and_sequence_have_not_changed`, the transitions after a change |
| thread id registry, `src/wrapper.rs` | `thread_index_slots`, `num_threads_in_use` | `construct`, `kcas`, `drop` (the three wrappers share one algorithm) |
| word encoding, `src/types.rs` | none: markers, stages and sequence numbers packed in a `usize` | construct and extract functions |
| errors, `src/err.rs` | none | - |
| shims, `src/sync.rs`; tests and build files | none | - |

**How they interact.** Everything goes through shared atomics. An operation is *published* by the
store of stage `Claiming`. A thread claims the targets in word order by swapping expected values
for its *marker* (thread id and sequence number). It decides the operation by a compare-and-swap of
the stage to `Setting` or `Reverting`, then swaps each marker for the desired or (last word first)
the expected value. Meeting another thread's marker in a claim calls `help_thread`, which runs the
same phases for the other operation and may recurse through `claim`. When its own call ends, the
owner stores `Inactive` with the next sequence number; helpers still at work on the old operation
are not waited for.

**What is hard.** Helpers can be arbitrarily late: they may load the words of a later operation,
put a marker down for an operation that is over, or decide what has been decided. Every step acts
on something loaded before. A thread can stop anywhere. Helping nests. Values return to cells
(ABA). Nothing is persisted, and no messages or timers are involved. The individual hazards, each
with its line and the properties that watch it, are in `PROJECT.json`.

**What makes it correct.**

* *kcas as a whole* - a call that returns `Ok` replaced all its targets in one step during the
  call, a failed one was in conflict at some moment of the call; every call returns whatever
  becomes of other threads; no marker stays behind.
* *stages* - each operation follows the documented life cycle once, whoever drives it; the caller
  is told what was decided; an operation succeeds only when all its targets were claimed.
* *helping* - never meets an error `err.rs` calls impossible; never comes back to an operation it
  suspended.
* *registry* - a thread index belongs to one wrapper at a time; a scan passes over no slot
  that is free; the count is that of the wrappers; an index that changes hands starts afresh,
  whatever the calls of its last wrapper left behind.
* *words* - values, markers and stages are told apart, a marker leads back to its operation and to
  no other, from the first call to the last.

## 2. Modules

| module | what it is |
|---|---|
| `KCas` | the algorithm, one action per access to a shared atomic; the properties |
| `KCasInvariant` | the inductive invariant `ProtocolInv` |
| `MCKCas` | instances: workloads for TLC |
| `KCasStability`, `KCasFrames`, `KCasProofs` | the proof: stability lemmas; where the code goes next; one lemma per action and the theorems |
| `AtomicKCas` | what `kcas` promises: an atomic multi-word compare-and-swap |
| `LinearizableKCas`, `MCLinearizableKCas` | `KCas` with a history variable, the mapping to `AtomicKCas`, and instances |
| `ForwardKCas`, `MCForwardKCas` | `KCas` where threads call once and calls move cells forward: the invariants under which it is atomic, and an instance |
| `ForwardKCasProofs` | no marker is left, `KCas` implements `AtomicKCas`, outcomes are serial, one call wins |
| `OrderedKCas`, `MCOrderedKCas` | `KCas` under the limitation on address order of `lib.rs`, with the invariant `OrderInv`, and an instance |
| `OrderedKCasProofs` | helping never comes back to an address where a thread waits |
| `IdPool` | what the registry promises: a pool of ids |
| `ThreadRegistry` | `construct` and `drop`, slot by slot |
| `ThreadRegistryProofs` | ids are exclusive, scans miss nothing, and the registry implements `IdPool` |
| `WrappedKCas`, `MCWrappedKCas` | `IdPool` and `KCas` composed: wrappers that come and go, and an instance |
| `WrappedKCasProofs` | the composition implements `KCas` |
| `WordEncoding` | the functions of `types.rs` on words of any width |
| `EncodedOperations`, `MCEncodedOperations`, `MCEncodedWords` | calls and helpers on these words, and instances |
| `WordEncodingProofs` | what is packed into a word comes out again, and the words in shared memory are those of the history |

`LinearizableKCas` extends `KCas`; `MCKCas`, `OrderedKCas` and `WrappedKCas` do so through
`KCasInvariant`; `ForwardKCas` extends both `LinearizableKCas` and `KCasInvariant`.
`LinearizableKCas` maps to `AtomicKCas`, `ThreadRegistry` to `IdPool`, and
`WrappedKCas` to `KCas`. As `ThreadRegistry` implements `IdPool`, `WrappedKCas` uses the pool in its
place.

### KCas and the code

* `memory` is the contents of the `AtomicUsize` cells user code passes: a value or a marker.
  `target`, `expected`, `desired`, `ss` are the fields of `State` of `src/kcas/mod.rs`.
* `frame[t]` holds the program counter and live locals of the function thread `t` is in; `stack[t]`
  the claim loops it has suspended in `help_thread`, so `Helping(t)` tells owner from helper code.
  `after` is what the owner or helper does when a loop of `revert` is over, or the stage it wants.
* Each load, store and compare-and-swap is an action of its own: `StoreTarget`, `StoreExpected`,
  `StoreDesired`, `Publish`; `ClaimTarget`, `ClaimExpected`, `ClaimCas`, `ClaimVerify`;
  `HelpThread`, `HelpDone`; `StageCas`; `SetTarget`, `SetDesired`, `SetCas`, `SetVerify`;
  `RevertTarget`, `RevertExpected`, `RevertCas`; `Prepare`; `ReturnFatal`. Code between two
  accesses, local to the thread, belongs to the action of the first. `AfterVerifyError`,
  `AfterStageCasFailed`, `AfterStageCasDone`, `AfterClaim`, `AfterSet` and `AfterRevert` are the
  `match` statements that say where the code goes next, for owner and helper.
* A fatal error unwinds all suspended frames with that error and leaves markers and stage as they
  are (`ReturnFatal`); the thread makes no further call.
* `Program` says what each call of each thread may be called with; it is the only bound on the
  state space, besides the sets of threads, addresses and values. The sequence number is at most
  the number of calls.

### OrderedKCas, WrappedKCas and the code

* `OrderedKCas` adds to `KCas` the constant `Rank`, an order of the addresses that every call goes
  up. It is what the limitation of `lib.rs` (lines 85 to 99) becomes when it is to rule out cycles
  over any number of threads. It has no action of its own.
* `WrappedKCas` has a `holder` for each thread id. `Construct` and `Drop` are `construct` and `drop`
  of `wrapper.rs` as `IdPool` has them; `WrapperKcas` is the `kcas` method, which borrows the
  wrapper, so that a drop comes between calls or after a fatal error (`frame` is `"idle"` or
  `"halted"`). Neither touches the stage, the sequence number or the words of the `State`.

### ThreadRegistry and the code

* `slots` and `inUse` are `thread_index_slots` and `num_threads_in_use`; each access to one of them
  is an action: the scan of `construct` tries the slots in turn, and counts afterwards; `drop`
  frees the slot first and then applies `fetch_min`. Clients construct and drop for ever.

### WordEncoding, EncodedOperations and the code

* A word is the set of the positions of its 1 bits; `|`, `&`, `<<` and `>>` are set operations that
  lose what leaves the word. `NextSequence` is `sequence + 1 % mask` as Rust parses it.
* `EncodedOperations` follows the sequence number through a call: `Begin` reads it from the word of
  the stage (`initialize_operation`), `Claim` puts the marker in the cell, perhaps when helpers
  have decided the call already, `OwnStageChange` compares and swaps the word, `Finish` stores the
  next one (`prepare_for_next_operation`). `HelpThread` meets a marker; `LateClaim`, and
  `HelpStageChange` and `LateRevert` with the id and the number taken out of that marker, may come
  at any later time. There is one cell, setting and reverting are one step: how words are claimed in turn
  and decided is left to `KCas`. The history variables `stage`, `calls` and `origin` say what
  the words should be read as.

### Abstractions

* Atomics are sequentially consistent. The code uses acquire and release orderings; effects weaker
  than interleaving are not modelled.
* In `KCas` a marker, and a stage with its sequence number, are records, sequence numbers are
  unbounded, and values and markers are disjoint sets. This rests on `MarkersIdentify` and on the
  properties of `EncodedOperations`, which are proved for every width and hold until the sequence field is used up
  (`sequence_overflow` shows what happens then). `IllegalValue` are values with top bits that are
  neither all 0, all 1 nor a thread id.
* A spurious failure of `compare_exchange_weak` tries again with the same locals: a stuttering
  step. In fair runs spurious failures do not go on for ever.
* The cells are written by `kcas` only.
* Out-of-memory by recursion shows as `HelpNeverCircular` failing, not as a crash.

## 3. Runs

| run | module, instance | distinct states | shows |
|---|---|---|---|
| `forward_calls` | `MCForwardKCas`, `ForwardProgram`: 3 threads, one call each from a choice of two, no value comes back | 795,469 | `KCas` implements `AtomicKCas`; outcomes have a serial explanation, at the end and at every moment; one call wins where all want the same targets (the workload and assertion of `tests/common`); no marker is left; `MarkersKept` and `DecisionsKnown`, which the proofs rest on, hold |
| `repeated_calls` | `MCWrappedKCas`, `RepeatProgram`: 3 clients on 2 thread ids, 2 calls under each id from a choice, changing addresses, returning values | 64,994 | `ProtocolInv` and what it implies; ids that change hands start afresh and make no difference to `kcas` |
| `one_thread_stalled` | `MCOrderedKCas`, `ChainProgram`: (a,b), (b,c), (a,c), perhaps an illegal value; `t1` may stop anywhere | 255,857 | helping nests without coming back; `OrderInv`; no error but the illegal value's; the calls of the others return; stale markers go |
| `thread_slots` | `ThreadRegistry`: 3 clients, 2 slots, no bound on the number of wrappers | 33,407 | exclusive ids, `IdPool`, no free slot is passed over |
| `encoded_words` | `MCEncodedWords`: words of 6 bits, 7 threads, those with ids 6 and 7 call up to 4 times | 171,124 | values, markers and stages are told apart; a marker names its operation, at once or late; the invariant `EncodingInv` of the proofs holds |

Seven more runs have TLC exhibit where the code does not do what its documentation says.

| run | what happens |
|---|---|
| `returning_value` | Each of three threads calls on the one cell: `t1` 0->1, `t2` 1->0, `t3` 0->2. `t3` meets the marker of `t1`, helps, loads the expected value 0 and is overtaken: the call of `t1` reaches `Setting` and the cell is set to 1. The call of `t2` moves the cell back to 0. The late claim of `t3` puts the marker of `t1` in, which is still in `Setting`; its next set writes 1 again. `t1` and `t2` get `Ok` and the call of `t3` fails, but the cell is 1, which no order of the two successful calls gives. |
| `leaked_marker` | `t1` calls on (a, b), which fails, and then on (b, c). The claim of a helper for the first call comes when that is over. The helper finds out, and reverts using the owner's *current* words; as these name other addresses, the marker stays in a for good, and the helper's own call on (a, b) tries again for ever. No value comes back, and no thread stops. |
| `stalled_after_return` | The late claimer stops after its claim. Other threads see a marker of an operation that is over, are refused by `help_thread`, and try again for ever: the library is not lock-free once a value has returned. |
| `cyclic_order` | Three calls that agree pairwise on the order of shared addresses, as `lib.rs` asks, but cyclic as a whole: helping comes back to an address where the thread waits already. |
| `wrapper_count` | `drop` applies `fetch_min(1)` to `num_threads_in_use`. |
| `sequence_overflow` | `sequence + 1 % mask` never rolls over. After as many calls as the sequence field has numbers the number runs into the thread id, and two operations in progress have one marker. |
| `documented_threads` | With `2^n` threads, as `lib.rs` allows for values alike in their `n` top bits, the code reserves `n + 1` bits, and a value may be taken for a marker. |

`returning_value` and `stalled_after_return` need a value to come back to a cell it had left;
`leaked_marker` needs a thread to call twice. This is why `ImplementsAtomicKCas` and
`EveryCallReturns` with a stalled thread are checked, and proved, for programs in which no call moves
a cell back and each thread calls once, and why `StaleMarkersGo` is checked where each thread
calls once; the properties of `repeated_calls` hold without such a restriction. `cyclic_order` is why
`HelpNeverCircular` and the liveness properties are checked on programs that use one global address
order.

### Bounds

* *Threads, words, addresses.* Two threads suffice for an owner with a helper that is late by a
  whole operation; three for helpers of helpers, for a third party that restores a value or meets a
  stale marker, and for the smallest cyclic wait. Two words are the least for which an operation can
  be half claimed, half set or half reverted (`returning_value` needs but one). `Program` bounds the
  number of calls of each thread, and with it the sequence numbers. In `repeated_calls` a helper can
  be late by one call or more, and ids change hands as often as clients like.
* *Clients.* One more than there are slots or ids, so that some client is refused or waits. In
  `repeated_calls` clients differ only in name and no property names one, so they may be permuted
  (`SYMMETRY`); the run has no liveness property.
* *Words.* With 7 threads the thread field has 4 of 6 bits (the length of `NUM_THREADS + 1 = 8`),
  ids 6 and 7 are the highest, and the sequence field has 4 numbers; `MaxCalls` is 4, the number of
  calls that use them all. 6 bits leave 3 for the sequence number below the stage, so the overflow
  into the thread field comes before one into the stage, as in the code with 7 threads or more;
  with 3 to 6 threads the two fields are equally long, and with 1 or 2 the one below the stage is
  the shorter. `EncodedOperations` stops when `MaxCalls` is
  reached, so its runs do not check for deadlock.

`Finished` is a stuttering step at the end of a program, so that deadlock stays checked in
the runs of `KCas` and the modules that extend it; `ThreadRegistry` never ends.

### Fairness

`FairSpec` has weak fairness of `Step(t)` for each thread that is not in `Stalled`: a thread the
operating system keeps scheduling takes its next step. There is no fairness on `Call`, since nothing
obliges user code to call, and none for a thread in `Stalled`, which may stop at any point. Weak
fairness is enough: the next step of a thread in a call is always enabled. `EveryCallReturns` and
`StaleMarkersGo` are the only properties that depend on it. `ThreadRegistry`, `WrappedKCas` and
`EncodedOperations` assume none.

## 4. Proofs

The theorems about `KCas` assume `KCasAssumption` only: the sets may be of any size, `NumWords` is
positive, a null pointer is not an address, values are not markers, and programs are sequences of
sets of well-typed arguments. Nothing is assumed of the address order, of values that return, of the
number of calls, or of scheduling. The other modules have one assumption each, given in the table.

| theorem | states | besides `KCasAssumption` |
|---|---|---|
| `ProtocolHolds` | `Spec => []ProtocolInv` | |
| `TypeCorrect` | `Spec => []TypeOK` | |
| `ErrorsAreImpossible` | `Spec => []NoImpossibleError` | |
| `StagesFollowTheGraph` | `Spec => StageProtocol` | |
| `CallsReportTheDecision` | `Spec => ReportsTheDecision` | |
| `DecisionsHaveEveryClaim` | `Spec => DecisionNeedsEveryClaim` | |
| `OrderHolds`, `HelpEnds` | `Spec => []OrderInv`, `Spec => []HelpNeverCircular` | `OrderAssumption`: calls go up `Rank` |
| `WrappersImplementKCas` | `IllegalValue = {} => (WrappedSpec => ImplementsKCas)` | `ClientAssumption` |
| `ReusedIdsStartAfresh` | `IllegalValue = {} => (WrappedSpec => []NextMarkerIsFresh)` | `ClientAssumption` |
| `IndicesAreExclusive`, `ScansMissNothing`, `RegistryTypeCorrect` | `Spec => []OneWrapperPerIndex`, `[]ScanPassesNoFreeSlot`, `[]TypeOK` | `RegistryAssumption` only |
| `RegistryIsAPool` | `Spec => ImplementsIdPool` | `RegistryAssumption` only |
| `CleanupHolds`, `MarkersAreKept`, `NoMarkerIsLeft` | `Spec => []CleanupInv`, `[]MarkersKept`, `[]QuiescentClean` | `OneCall` |
| `LinearHolds`, `ForwardCallsAreAtomic` | `HistorySpec => []LinearInv`, `ImplementsAtomicKCas` | `Forward` |
| `WinnersAlwaysExplain`, `OutcomesAlwaysExplained` | `HistorySpec => []WinnersExplain`, `[]OutcomesExplained` | `Forward` |
| `WinHolds`, `DecisionsStayKnown` | `HistorySpec => []WinInv`, `[]DecisionsKnown` | `Forward` |
| `OneForwardCallWins` | `HistorySpec => []SomeCallWins` | `Forward`, `ExpectInitial` |
| `MarkerReadsBack`, `StageAndSequenceReadBack`, `MarkersIdentify` | what is packed into a word comes out again; a marker is no value; equal markers are of one operation | `WordAssumption` only; the numbers fit their fields |
| `EncodingHolds` | `Spec => []EncodingInv` | `EncodingAssumption`, `WordsSuffice` only |
| `ValuesNeverMarkers`, `StagesAlwaysReadBack`, `MarkersAlwaysName`, `OperationsStayApart` | the four invariants of `EncodedOperations` | `EncodingAssumption`, `WordsSuffice` only |

The hypotheses, which the modules for TLC check on their instances (`ProgramIsForward`,
`InstanceSuffices`):

* `OneCall` - a thread calls `kcas` at most once. With a second call, markers can be left
  behind even if all else is as below: `leaked_marker`.
* `Forward` - `OneCall`; no illegal values, after which `err.rs` (line 7) promises nothing; a call
  names no address twice; and some order `Rank` of the values of each cell is such that calls leave
  a cell alone or move it up. Without the order, `returning_value`. Counters, version numbers and
  pointers that are not reused are like that, and so are the calls of `tests/common`.
* `ExpectInitial` - every thread calls, and calls on targets that all threads might name expect the
  initial contents there, as in `tests/common`.
* `WordsSuffice` - the reserved bits of users' values are alike (the limitation of `lib.rs`, as the
  code has it, see `documented_threads`), and there are no more calls under a thread id than the
  sequence field has numbers (`sequence_overflow`). `EncodingAssumption` asks that `NUM_THREADS + 1`
  is a `usize` and leaves two bits for the sequence number, so that `1 % mask` is 1.

**The argument for KCas.** `NoImpossibleError` is far from inductive: that a thread does not reach a
fatal error depends on what it, and every claim it has suspended, knows of operations that others
drive meanwhile. `ProtocolInv` states this knowledge:

* `FramesOK` - each frame, innermost or suspended, works on an operation that has been published
  and, *while that operation is not over*, in a phase its stage allows (`PhaseOK`). A thread that is
  not helping works on its own current operation (`RoleOK`), which is why only helpers can find an
  operation over.
* `MarkersIssued` - markers in cells are of published operations, so a helper never meets
  `Inactive` under the sequence number it expects.
* `TargetsStored` - published operations have their targets, so no null pointer is loaded, even by
  a helper that reads words of a later operation.
* `EveryClaimKept` - while an operation is being claimed, the words a claim loop has passed hold
  its marker, for every claim loop on it, late, suspended or not. This gives
  `DecisionNeedsEveryClaim`.
* `ResultsOK` carries the outcome of a fatal error over the return.

The proof separates what a step does from what it must not disturb. `KCasStability` shows that
published operations stay published (`IssuedStable`), that an operation being claimed was so before
(`ClaimingBefore`), and hence that frames, stacks and claims of *other* threads survive any step
whose stages move along `StageEdge` and which takes no marker of an operation being claimed out of
a cell (`PhaseStable`, `StackStable`, `ClaimsStable`, combined in `StepOK`). `KCasFrames` shows that
each place the code goes to next fits the stage at that moment. `KCasProofs` has one lemma per
action or pair of like actions, from these two. The action properties follow from `ProtocolInv` and
from what the few actions that write stages and results do.

**The argument for OrderedKCas.** That a thread's waits go up the address order depends on whom it
waits for and on what that operation holds at the moment, both of which others change. `OrderInv`
adds five parts to `ProtocolInv`:

* `TargetsAscend` - the targets of a published operation are those of one call, hence in order,
  although the words are stored one by one.
* `ClaimsArePrefixes` - a cell that holds the marker of an operation being claimed is one of its
  targets, and the targets before it hold the marker too. Every claimer has claimed from the first
  word on, so a late helper's claim extends a prefix or renews part of one.
* `SeenStays` and `HelpedStays` - the cell where a marker was seen still holds it as long as
  its operation is being claimed, between the failed claim and the help, and while the thread that
  waits there helps.
* `HelpClimbs` - each suspended claim is further up than the ones suspended before it.

The step that matters is a failed claim that meets a new marker: the thread works for an operation
it helps, whose earlier words are claimed (`EveryClaimKept`). The cell at which it waits for
that operation holds its marker (`HelpedStays`), so by `ClaimsArePrefixes` it is not the word now
being claimed nor one after it; by `TargetsAscend` the new wait is further up. `HelpNeverCircular`
follows, as no address is further up than itself. If the operation is over, the claim returns and
helps nobody.

**The argument for WrappedKCas.** Without illegal values no call ends in a fatal error
(`ErrorsAreImpossible`), so `Drop` finds the id between calls and changes nothing of `KCas`;
`Construct` is a stutter of it. That the next operation of an id is fresh follows from
`MarkersIssued` and `FramesOK`: what is in a cell or in a thread's locals has been published, and
the next operation has not. With illegal values a wrapper can be dropped after a fatal error, and
`err.rs` (line 7) promises nothing after one.

**The argument for ThreadRegistry.** A step changes no holder, takes one free slot for a client that
has none, or frees a client's own slot (`StepKinds`). `RegistryInv` adds to the types that no two
clients have an index and that slots that are set are those of the indices some client has.
`ScanInv` adds to `ScanPassesNoFreeSlot` that the slots recorded as free ever since a scan began
(`stayedFree`) are free now, so that the slot at which a compare-and-swap fails is none of them.

**The argument for ForwardKCas.** If threads call once, the words of a published operation stay where
they are (`OnlyCall`, `ArraysKept`), so what a frame has loaded, suspended or not, is what is there
(`LocalsLoaded`), and a marker is at one of the targets of its operation (`MarkersPlaced`).

* *No marker is left.* `MarkersKept`: a marker in a cell has a keeper, a frame of some thread that
  will come to its word again (`Revisits`). The step that needs care is a late claim: the claimer
  itself becomes the keeper, as it will find the operation over and revert from this word down; no
  keeper gives up a marker except by taking it out or by failing to, because somebody else has.
* *Atomic.* A marker stands for the expected value until its operation is decided for, then for
  the desired one (`LogicalMemory`). Every step but that decision must leave `LogicalMemory`
  alone (`OthersSeeNothing`), and the decision must find all expected values and change all
  targets (`DecisionApplies`, from `EveryClaimKept`). `LinearInv` has what this takes: setters know
  that their operation was decided for, and no marker comes back to a word they have passed
  (`SettersOK`); cells an operation has moved are past what it expected in the order of the
  values, so that late claims for it fail (`Advanced`, the use made of `Rank`); who gives up a
  call has met an unexpected value while it was in progress (`MissesKnown`).
* *Outcomes.* `WinnersExplain`: the operations decided for, replayed in some order, give
  `LogicalMemory`. The order is that of their decisions; the proof carries it along with the
  contents after each (`Story`). When all calls are over no marker is left, so memory is
  `LogicalMemory`, and the operations decided for are those that returned `Ok`.
* *One call wins.* `LastWins`: the cells read as what the last operation decided for wanted or,
  if there is none, as in the beginning, and then only calls that do not expect that have failed.
  If all calls on the same targets expect the initial contents, they cannot all have failed.

**The argument for words.** A number is determined by its binary digits (`DigitsDetermine`, by
induction on the width, halving the number), so `NumberOf` undoes `WordOf`; numbers below a power of two
fit its bits, and one less than it is all ones (`DigitsEnd`, `DigitsOfOnes`). A field of a word is a
shift up, which loses nothing if the field is wide enough, or-ed with bits below it
(`FieldsReadBack`). The bits reserved for ids hold `NUM_THREADS + 1`, hence no id is all ones
(`IdsFit`). `EncodingInv` says that the word of a thread is its stage and the number of its calls so
far, and that every marker, in the cell or with a late helper, is that of one operation `<<t, n>>` of
the history. `Begin` reads back what `Finish` stored, `Finish` adds one without a carry
(`NextSequenceCounts`), and a helper only ever works with a marker it found.

Induction over numbers is used in the form that every set of numbers that is not empty has a least
one (`Least`, from the theorem that `<` is well-founded), as facts that take a predicate
are out of reach; powers of two are the recursive function `TwoTo`, as the prover knows nothing of `^`.

**Model-checked only.** Liveness (`EveryCallReturns`, `StaleMarkersGo`), as the prover reaches neither
fairness nor `ENABLED`. All other properties of passing runs are proved. The inductive invariants
`ProtocolInv`, `OrderInv`, `MarkersKept`, `WinnersExplain` and `EncodingInv` are checked by TLC too,
and so are the parts of `LinearInv` and `WinInv` that are about decisions (`DecisionsKnown`).

## 5. Not modelled

* Reuse of a thread index after a fatal error: `WrappedKCas` has the step, but there is no promise
  of the code to check it against.
* Sequence numbers of bounded width within `KCas`: as nothing rolls over, numbers do not repeat
  before markers are mixed up (or, with few threads, stages), which `EncodedOperations` has.
* User code that reads or writes target cells directly, cells that cease to exist while a late
  helper still has a pointer to them, and the same address twice in one call, on which the
  documentation says nothing.
* Weak memory orders.
* `sync.rs`, which re-exports atomics; logging, texts and conversions of errors.
* `TriedToSetValueWhichWasNotClaimMarker` and `SharedStateWasNotValidPointer`, which no statement
  of the code constructs.

## 6. Plan

Built so far, in this order: `KCas` with its invariant and proofs; `LinearizableKCas`;
`ThreadRegistry`; `WordEncoding` and `EncodedOperations`; `WrappedKCas`; `OrderedKCas` with the proof
that helping ends; `ForwardKCas` with the proof that kcas is atomic; the proofs about words. What is
left:

1. The hypotheses of `ForwardKCas` weakened: threads that call more than once, with targets that do
   not change from call to call. `OnlyCall` and `LocalsLoaded` would have to compare what a late
   helper has loaded with the words of a former call.
2. A bound on `num_threads_in_use`: what the count is good for once `drop` has capped it.
3. The steps towards liveness that are safety: that a thread which meets a marker of an
   operation that is not over finds that operation changed, or the marker gone, when it tries again.
