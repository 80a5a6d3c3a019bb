------------------------ MODULE ThreadRegistryProofs ------------------------
(* Proofs about ThreadRegistry, for every number of clients and of slots. *)
EXTENDS ThreadRegistry, FiniteSetTheorems, TLAPS

(* Two clients never have the same index, and the slots that are set are  *)
(* those of the indices some client has.                                  *)
OnlyOne == \A c, d \in Client : \A i \in Index : Has(c, i) /\ Has(d, i) => c = d
SlotsOfHolders == \A i \in Index : slots[i] <=> \E c \in Client : Has(c, i)
RegistryInv == TypeOK /\ OnlyOne /\ SlotsOfHolders

(* The scan starts at an index, and goes on to the next one only. *)
LEMMA IndexFacts ==
  /\ 0 \in Index
  /\ \A i \in Index : i + 1 < NumThreads => i + 1 \in Index
BY RegistryAssumption DEF Index

(* The history variable stays in its domain. *)
LEMMA ObserveOK ==
  ASSUME TypeOK, Observe
  PROVE  stayedFree' \in [Client -> SUBSET Index]
<1>1. Free(slots') \subseteq Index
  BY DEF Free
<1> QED BY <1>1 DEF Observe, TypeOK

(* Every step keeps the variables in their domains. *)
LEMMA TypeStep == TypeOK /\ [Next]_vars => TypeOK'
<1> SUFFICES ASSUME TypeOK, [Next]_vars PROVE TypeOK'
  OBVIOUS
<1>1. CASE UNCHANGED vars
  BY <1>1 DEF vars, TypeOK
<1>2. ASSUME NEW c \in Client,
             Construct(c) \/ ScanSlot(c) \/ CountUp(c) \/ FreeSlot(c) \/ CountDown(c)
      PROVE  TypeOK'
  <2>1. stayedFree' \in [Client -> SUBSET Index]
    BY <1>2, ObserveOK DEF Construct, ScanSlot, CountUp, FreeSlot, CountDown
  <2>2. CASE Construct(c)
    BY <2>1, <2>2, IndexFacts DEF TypeOK, Construct
  <2>3. CASE ScanSlot(c)
    BY <2>1, <2>3, IndexFacts DEF TypeOK, ScanSlot
  <2>4. CASE CountUp(c)
    BY <2>1, <2>4 DEF TypeOK, CountUp
  <2>5. CASE FreeSlot(c)
    BY <2>1, <2>5 DEF TypeOK, FreeSlot
  <2>6. CASE CountDown(c)
    BY <2>1, <2>6 DEF TypeOK, CountDown
  <2> QED BY <1>2, <2>2, <2>3, <2>4, <2>5, <2>6
<1> QED BY <1>1, <1>2 DEF Next

(* What a step does to the indices clients have: nothing, or a client that  *)
(* had none takes a free slot, or a client frees the slot of its own index. *)
Keeps == slots' = slots /\ \A d \in Client, i \in Index : Has(d, i)' <=> Has(d, i)
Takes(c, j) ==
  /\ ~slots[j] /\ slots' = [slots EXCEPT ![j] = TRUE]
  /\ \A i \in Index : ~Has(c, i)
  /\ \A d \in Client, i \in Index : Has(d, i)' <=> Has(d, i) \/ (d = c /\ i = j)
Frees(c, j) ==
  /\ Has(c, j) /\ slots' = [slots EXCEPT ![j] = FALSE]
  /\ \A d \in Client, i \in Index : Has(d, i)' <=> Has(d, i) /\ ~(d = c /\ i = j)

(* Every step is of one of these kinds. *)
LEMMA StepKinds ==
  ASSUME TypeOK, [Next]_vars
  PROVE  Keeps \/ \E c \in Client, j \in Index : Takes(c, j) \/ Frees(c, j)
<1>1. CASE UNCHANGED vars
  BY <1>1 DEF vars, Keeps, Has
<1>2. ASSUME NEW c \in Client,
             Construct(c) \/ ScanSlot(c) \/ CountUp(c) \/ FreeSlot(c) \/ CountDown(c)
      PROVE  Keeps \/ \E j \in Index : Takes(c, j) \/ Frees(c, j)
  <2>1. CASE Construct(c)
    BY <2>1 DEF TypeOK, Construct, Keeps, Has
  <2>2. CASE ScanSlot(c)
    <3>1. CASE slots[index[c]]
      BY <2>2, <3>1 DEF TypeOK, ScanSlot, Keeps, Has
    <3>2. CASE ~slots[index[c]]
      <4>1. index[c] \in Index
        BY DEF TypeOK
      <4>2. Takes(c, index[c])
        BY <2>2, <3>2, <4>1 DEF TypeOK, ScanSlot, Takes, Has
      <4> QED BY <4>1, <4>2
    <3> QED BY <3>1, <3>2
  <2>3. CASE CountUp(c)
    BY <2>3 DEF TypeOK, CountUp, Keeps, Has
  <2>4. CASE FreeSlot(c)
    <3>1. index[c] \in Index
      BY DEF TypeOK
    <3>2. Frees(c, index[c])
      BY <2>4, <3>1 DEF TypeOK, FreeSlot, Frees, Has
    <3> QED BY <3>1, <3>2
  <2>5. CASE CountDown(c)
    BY <2>5 DEF TypeOK, CountDown, Keeps, Has
  <2> QED BY <1>2, <2>1, <2>2, <2>3, <2>4, <2>5
<1> QED BY <1>1, <1>2 DEF Next
-----------------------------------------------------------------------------
(* RegistryInv holds at first, and every step keeps it. *)
LEMMA RegistryInit == Init => RegistryInv
<1> SUFFICES ASSUME Init PROVE RegistryInv
  OBVIOUS
<1>1. TypeOK
  BY IndexFacts DEF Init, TypeOK
<1> QED BY <1>1 DEF Init, RegistryInv, OnlyOne, SlotsOfHolders, Has

LEMMA RegistryStep == RegistryInv /\ [Next]_vars => RegistryInv'
<1> SUFFICES ASSUME RegistryInv, [Next]_vars PROVE RegistryInv'
  OBVIOUS
<1> USE DEF RegistryInv
<1>1. TypeOK'
  BY TypeStep
<1>2. CASE Keeps
  BY <1>1, <1>2 DEF Keeps, OnlyOne, SlotsOfHolders
<1>3. ASSUME NEW c \in Client, NEW j \in Index, Takes(c, j) PROVE RegistryInv'
  <2>1. OnlyOne'
    BY <1>3 DEF Takes, OnlyOne, SlotsOfHolders
  <2>2. SlotsOfHolders'
    BY <1>3 DEF Takes, SlotsOfHolders, TypeOK
  <2> QED BY <1>1, <2>1, <2>2
<1>4. ASSUME NEW c \in Client, NEW j \in Index, Frees(c, j) PROVE RegistryInv'
  <2>1. OnlyOne'
    BY <1>4 DEF Frees, OnlyOne
  <2>2. SlotsOfHolders'
    BY <1>4 DEF Frees, SlotsOfHolders, OnlyOne, TypeOK
  <2> QED BY <1>1, <2>1, <2>2
<1> QED BY <1>2, <1>3, <1>4, StepKinds

(* In every reachable state an index belongs to one wrapper at most. *)
THEOREM RegistryHolds == Spec => []RegistryInv
BY RegistryInit, RegistryStep, PTL DEF Spec

(* A slot is set exactly when one wrapper, and no second one, has its index. *)
THEOREM IndicesAreExclusive == Spec => []OneWrapperPerIndex
<1>1. RegistryInv => OneWrapperPerIndex
  <2> SUFFICES ASSUME RegistryInv, NEW i \in Index
               PROVE  Cardinality({c \in Client : Has(c, i)}) = (IF slots[i] THEN 1 ELSE 0)
    BY DEF OneWrapperPerIndex
  <2>1. CASE slots[i]
    <3>1. PICK c \in Client : Has(c, i)
      BY <2>1 DEF RegistryInv, SlotsOfHolders
    <3>2. {d \in Client : Has(d, i)} = {c}
      BY <3>1 DEF RegistryInv, OnlyOne
    <3> QED BY <2>1, <3>2, FS_Singleton
  <2>2. CASE ~slots[i]
    <3>1. {d \in Client : Has(d, i)} = {}
      BY <2>2 DEF RegistryInv, SlotsOfHolders
    <3> QED BY <2>2, <3>1, FS_EmptySet
  <2> QED BY <2>1, <2>2
<1> QED BY <1>1, RegistryHolds, PTL

(* The holder of an index is the client that has it, if one does. *)
HoldersRight ==
  \A i \in Index : /\ \A c \in Client : Has(c, i) => HolderOf(i) = c
                   /\ (\A c \in Client : ~Has(c, i)) => HolderOf(i) = NoOne

LEMMA HolderFacts == RegistryInv => HoldersRight
BY DEF RegistryInv, OnlyOne, HolderOf, HoldersRight

(* A step of the registry is a step of the pool, or changes no holder. *)
LEMMA PoolStep ==
  ASSUME RegistryInv, HoldersRight, HoldersRight', [Next]_vars
  PROVE  \/ \E c \in Client, j \in Index : Pool!Acquire(c, j) \/ Pool!Release(c, j)
         \/ UNCHANGED [i \in Index |-> HolderOf(i)]
<1> DEFINE holder == [i \in Index |-> HolderOf(i)]
<1>1. CASE Keeps
  <2>1. \A i \in Index : HolderOf(i)' = HolderOf(i)
    BY <1>1 DEF Keeps, HoldersRight
  <2> QED BY <2>1
<1>2. ASSUME NEW c \in Client, NEW j \in Index, Takes(c, j) PROVE Pool!Acquire(c, j)
  <2>1. HolderOf(j) = NoOne
    BY <1>2 DEF Takes, RegistryInv, SlotsOfHolders, HoldersRight
  <2>2. \A i \in Index : HolderOf(i) # c
    <3> SUFFICES ASSUME NEW i \in Index, HolderOf(i) = c PROVE FALSE
      OBVIOUS
    <3>1. ~Has(c, i) /\ c # NoOne
      BY <1>2, RegistryAssumption DEF Takes
    <3> QED BY <3>1 DEF HoldersRight
  <2>3. \A i \in Index : HolderOf(i)' = IF i = j THEN c ELSE HolderOf(i)
    <3> SUFFICES ASSUME NEW i \in Index PROVE HolderOf(i)' = IF i = j THEN c ELSE HolderOf(i)
      OBVIOUS
    <3>1. CASE i = j
      BY <1>2, <3>1 DEF Takes, HoldersRight
    <3>2. CASE i # j
      BY <1>2, <3>2 DEF Takes, HoldersRight
    <3> QED BY <3>1, <3>2
  <2>4. holder' = [holder EXCEPT ![j] = c]
    BY <2>3
  <2> QED BY <2>1, <2>2, <2>4 DEF Pool!Acquire
<1>3. ASSUME NEW c \in Client, NEW j \in Index, Frees(c, j) PROVE Pool!Release(c, j)
  <2>1. HolderOf(j) = c
    <3>1. Has(c, j)
      BY <1>3 DEF Frees
    <3>2. \A d \in Client : Has(d, j) => HolderOf(j) = d
      BY DEF HoldersRight
    <3>3. Has(c, j) => HolderOf(j) = c
      BY <3>2
    <3> QED BY <3>1, <3>3
  <2>2. \A i \in Index : HolderOf(i)' = IF i = j THEN NoOne ELSE HolderOf(i)
    <3> SUFFICES ASSUME NEW i \in Index
                 PROVE  HolderOf(i)' = IF i = j THEN NoOne ELSE HolderOf(i)
      OBVIOUS
    <3>1. CASE i = j
      BY <1>3, <3>1 DEF Frees, RegistryInv, OnlyOne, HoldersRight
    <3>2. CASE i # j
      BY <1>3, <3>2 DEF Frees, HoldersRight
    <3> QED BY <3>1, <3>2
  <2>3. holder' = [holder EXCEPT ![j] = NoOne]
    BY <2>2
  <2> QED BY <2>1, <2>3 DEF Pool!Release
<1> QED BY <1>1, <1>2, <1>3, StepKinds DEF RegistryInv

(* The slots implement the pool of ids: construct takes a free index for    *)
(* its client, drop gives back the client's own, nothing else moves one.    *)
THEOREM RegistryIsAPool == Spec => ImplementsIdPool
<1>1. Init => Pool!Init
  BY DEF Init, Pool!Init, Has, HolderOf
<1>2. RegistryInv => HoldersRight
  BY HolderFacts
<1>3. RegistryInv /\ HoldersRight /\ HoldersRight' /\ [Next]_vars
        => [Pool!Next]_([i \in Index |-> HolderOf(i)])
  BY PoolStep DEF Pool!Next
<1> QED BY <1>1, <1>2, <1>3, RegistryHolds, PTL DEF Spec, ImplementsIdPool, Pool!Spec
-----------------------------------------------------------------------------
(* While a scan goes on, the slots it could have had all along are free now. *)
ScanInv ==
  /\ TypeOK /\ ScanPassesNoFreeSlot
  /\ \A c \in Client : pc[c] = "scan" => stayedFree[c] \subseteq Free(slots)

LEMMA ScanStep == ScanInv /\ [Next]_vars => ScanInv'
<1> SUFFICES ASSUME ScanInv, [Next]_vars PROVE ScanInv'
  OBVIOUS
<1> DEFINE Passed(c) ==
             /\ pc[c] \in {"scan", "count"} => \A j \in stayedFree[c] : j >= index[c]
             /\ pc[c] = "refused" => stayedFree[c] = {}
             /\ pc[c] = "scan" => stayedFree[c] \subseteq Free(slots)
<1>1. TypeOK'
  BY TypeStep DEF ScanInv
<1>2. \A c \in Client : Passed(c)
  BY DEF ScanInv, ScanPassesNoFreeSlot
<1>3. CASE UNCHANGED vars
  BY <1>1, <1>3 DEF vars, ScanInv, ScanPassesNoFreeSlot, Free
<1>4. ASSUME NEW c \in Client,
             Construct(c) \/ ScanSlot(c) \/ CountUp(c) \/ FreeSlot(c) \/ CountDown(c),
             NEW d \in Client
      PROVE  Passed(d)'
  <2> USE DEF Free
  <2>1. /\ slots \in [Index -> BOOLEAN] /\ index \in [Client -> Index]
        /\ pc \in [Client -> {"out", "scan", "count", "held", "uncount", "refused"}]
        /\ stayedFree \in [Client -> SUBSET Index]
    BY DEF ScanInv, TypeOK
  <2>2. /\ pc'[d] # "scan" => stayedFree'[d] = stayedFree[d]
        /\ pc'[d] = "scan" /\ pc[d] # "scan" => stayedFree'[d] = Free(slots')
        /\ pc'[d] = "scan" /\ pc[d] = "scan" => stayedFree'[d] = stayedFree[d] \cap Free(slots')
    BY <1>4 DEF Construct, ScanSlot, CountUp, FreeSlot, CountDown, Observe
  <2>3. CASE d # c
    <3>1. pc'[d] = pc[d] /\ index'[d] = index[d]
      BY <1>4, <2>1, <2>3 DEF Construct, ScanSlot, CountUp, FreeSlot, CountDown
    <3> QED BY <1>2, <2>2, <3>1
  <2>4. CASE d = c /\ Construct(c)
    <3>1. pc[c] # "scan" /\ pc'[c] = "scan" /\ index'[c] = 0
      BY <2>1, <2>4 DEF Construct
    <3>2. \A j \in Index : j >= 0
      BY DEF Index
    <3> QED BY <2>2, <2>4, <3>1, <3>2
  <2>5. CASE d = c /\ ScanSlot(c)
    <3> DEFINE i == index[c]
    <3>1. pc[c] = "scan" /\ i \in Index /\ i \in Nat /\ stayedFree[c] \subseteq Free(slots)
      BY <1>2, <2>1, <2>5 DEF ScanSlot, Index
    <3>2. CASE ~slots[i] /\ pc' = [pc EXCEPT ![c] = "count"] /\ UNCHANGED index
      BY <1>2, <2>1, <2>2, <2>5, <3>1, <3>2
    <3>3. CASE slots[i] /\ index' = [index EXCEPT ![c] = i + 1] /\ UNCHANGED <<slots, pc>>
      <4>1. \A j \in stayedFree[c] : j >= i /\ j # i
        BY <1>2, <3>1, <3>3
      <4>2. \A j \in stayedFree[c] : j >= i + 1
        BY <2>1, <3>1, <4>1 DEF Index
      <4>3. pc'[c] = "scan" /\ index'[c] = i + 1
        BY <2>1, <3>1, <3>3
      <4> QED BY <2>2, <2>5, <3>1, <4>2, <4>3
    <3>4. CASE slots[i] /\ i + 1 = NumThreads /\ pc' = [pc EXCEPT ![c] = "refused"]
      <4>1. \A j \in stayedFree[c] : j \in Index /\ j >= i /\ j # i
        BY <1>2, <2>1, <3>1, <3>4
      <4>2. \A j \in Index : ~(j >= i /\ j # i)
        BY <3>1, <3>4, RegistryAssumption DEF Index
      <4>3. stayedFree[c] = {}
        BY <4>1, <4>2
      <4> QED BY <2>1, <2>2, <2>5, <3>4, <4>3
    <3> QED BY <2>5, <3>2, <3>3, <3>4 DEF ScanSlot
  <2>6. CASE d = c /\ (CountUp(c) \/ FreeSlot(c) \/ CountDown(c))
    BY <2>1, <2>6 DEF CountUp, FreeSlot, CountDown
  <2> QED BY <1>4, <2>3, <2>4, <2>5, <2>6
<1> QED BY <1>1, <1>3, <1>4 DEF Next, ScanInv, ScanPassesNoFreeSlot

(* However other wrappers come and go meanwhile, a scan passes over no slot *)
(* that stays free, and construct is refused only if none did.              *)
THEOREM ScansMissNothing == Spec => []ScanPassesNoFreeSlot
<1>1. Init => ScanInv
  BY IndexFacts DEF Init, ScanInv, TypeOK, ScanPassesNoFreeSlot
<1>2. ScanInv /\ [Next]_vars => ScanInv'
  BY ScanStep
<1>3. ScanInv => ScanPassesNoFreeSlot
  BY DEF ScanInv
<1> QED BY <1>1, <1>2, <1>3, PTL DEF Spec

(* The variables of the registry stay in their domains. *)
THEOREM RegistryTypeCorrect == Spec => []TypeOK
<1>1. RegistryInv => TypeOK
  BY DEF RegistryInv
<1> QED BY <1>1, RegistryHolds, PTL
=============================================================================
