------------------------- MODULE WordEncodingProofs -------------------------
(***************************************************************************)
(* For every width of a word, every NUM_THREADS and any number of calls    *)
(* that the sequence field has numbers for: what is packed into a word     *)
(* comes back out of it (WordEncoding), and the words in shared memory     *)
(* always say which operation they belong to (EncodedOperations).          *)
(***************************************************************************)
EXTENDS EncodedOperations, TLAPS, WellFoundedInduction

(* A set of numbers that is not empty has a least one. *)
LEMMA Least ==
  ASSUME NEW T, T \subseteq Nat, T # {}
  PROVE  \E m \in T : \A k \in T : m <= k
<1> DEFINE R == OpToRel(<, Nat)
<1>1. IsWellFoundedOn(R, Nat)
  BY NatLessThanWellFounded, Zenon
<1>2. \A x, y \in Nat : x < y => <<x, y>> \in R
  BY DEF OpToRel
<1> HIDE DEF R
<1>3. PICK m \in T : \A k \in T : <<k, m>> \notin R
  BY <1>1, WFMin
<1>4. \A k \in T : ~(k < m)
  BY <1>2, <1>3
<1> QED BY <1>3, <1>4

(* Induction, with a set in the place of a predicate. *)
LEMMA Induction ==
  ASSUME NEW T, 0 \in T, \A n \in Nat : n \in T => n + 1 \in T
  PROVE  Nat \subseteq T
<1> SUFFICES ASSUME Nat \ T # {} PROVE FALSE
  OBVIOUS
<1>1. PICK m \in Nat \ T : \A k \in Nat \ T : m <= k
  BY Least
<1>2. m # 0 /\ m - 1 \in Nat /\ m - 1 \notin Nat \ T
  BY <1>1
<1>3. (m - 1) + 1 = m
  BY <1>1
<1> QED BY <1>1, <1>2, <1>3

(* f is the power function up to n. *)
Doubles(f, n) == f \in [0 .. n -> Nat] /\ f[0] = 1 /\ \A i \in 1 .. n : f[i] = 2 * f[i - 1]

(* Two power functions agree as far as both go. *)
LEMMA Agree ==
  ASSUME NEW m \in Nat, NEW n \in Nat, NEW f, NEW g, Doubles(f, m), Doubles(g, n)
  PROVE  \A i \in Nat : i <= m /\ i <= n => f[i] = g[i]
<1> DEFINE T == {i \in Nat : i <= m /\ i <= n => f[i] = g[i]}
<1>1. 0 \in T
  BY DEF Doubles
<1>2. ASSUME NEW i \in Nat, i \in T PROVE i + 1 \in T
  <2> SUFFICES ASSUME i + 1 <= m, i + 1 <= n PROVE f[i + 1] = g[i + 1]
    OBVIOUS
  <2>1. f[i] = g[i]
    BY <1>2
  <2>2. i + 1 \in 1 .. m /\ i + 1 \in 1 .. n /\ (i + 1) - 1 = i
    OBVIOUS
  <2> QED BY <2>1, <2>2 DEF Doubles
<1> HIDE DEF T
<1>3. Nat \subseteq T
  BY <1>1, <1>2, Induction
<1> QED BY <1>3 DEF T

(* There is a power function up to every n. *)
LEMMA DoublesExists == \A n \in Nat : \E f : Doubles(f, n)
<1> DEFINE T == {n \in Nat : \E f : Doubles(f, n)}
<1>1. 0 \in T
  <2>1. Doubles([i \in 0 .. 0 |-> 1], 0)
    BY DEF Doubles
  <2> QED BY <2>1
<1>2. ASSUME NEW n \in Nat, n \in T PROVE n + 1 \in T
  <2>1. PICK f : Doubles(f, n)
    BY <1>2
  <2> DEFINE g == [i \in 0 .. n + 1 |-> IF i = n + 1 THEN 2 * f[n] ELSE f[i]]
  <2>2. \A i \in 0 .. n : g[i] = f[i] /\ f[i] \in Nat
    BY <2>1 DEF Doubles
  <2>3. g[n + 1] = 2 * f[n] /\ f[n] \in Nat
    BY <2>1 DEF Doubles
  <2>4. g \in [0 .. n + 1 -> Nat]
    BY <2>1 DEF Doubles
  <2> HIDE DEF g
  <2>5. g[0] = 1
    BY <2>1, <2>2 DEF Doubles
  <2>6. ASSUME NEW i \in 1 .. n + 1 PROVE g[i] = 2 * g[i - 1]
    <3>1. CASE i = n + 1
      BY <2>2, <2>3, <3>1
    <3>2. CASE i # n + 1
      BY <2>1, <2>2, <3>2 DEF Doubles
    <3> QED BY <3>1, <3>2
  <2>7. Doubles(g, n + 1)
    BY <2>4, <2>5, <2>6 DEF Doubles
  <2> QED BY <2>7
<1> HIDE DEF T
<1>3. Nat \subseteq T
  BY <1>1, <1>2, Induction
<1> QED BY <1>3 DEF T

(* TwoTo is the function its recursive definition describes. *)
LEMMA TwoToDef == TwoTo = [n \in Nat |-> IF n = 0 THEN 1 ELSE 2 * TwoTo[n - 1]]
<1> DEFINE h(n) == CHOOSE f : Doubles(f, n)
           g == [n \in Nat |-> h(n)[n]]
<1>1. \A n \in Nat : Doubles(h(n), n)
  BY DoublesExists
<1> HIDE DEF h
<1>2. ASSUME NEW n \in Nat PROVE g[n] = IF n = 0 THEN 1 ELSE 2 * g[n - 1]
  <2>1. CASE n = 0
    BY <1>1, <2>1 DEF Doubles
  <2>2. CASE n # 0
    <3>1. n - 1 \in Nat /\ n - 1 <= n /\ n \in 1 .. n
      BY <2>2
    <3>2. Doubles(h(n), n) /\ Doubles(h(n - 1), n - 1)
      BY <1>1, <3>1
    <3>3. h(n)[n] = 2 * h(n)[n - 1]
      BY <3>1, <3>2 DEF Doubles
    <3>4. h(n)[n - 1] = h(n - 1)[n - 1]
      BY <3>1, <3>2, Agree
    <3> QED BY <2>2, <3>1, <3>3, <3>4
  <2> QED BY <2>1, <2>2
<1>3. g = [n \in Nat |-> IF n = 0 THEN 1 ELSE 2 * g[n - 1]]
  BY <1>2
<1> HIDE DEF g
<1> QED BY <1>3 DEF TwoTo

(* TwoTo[n] is 2 to the power of n. *)
LEMMA Powers ==
  /\ TwoTo[0] = 1
  /\ \A n \in Nat : TwoTo[n] \in Nat \ {0} /\ TwoTo[n + 1] = 2 * TwoTo[n]
<1>1. TwoTo[0] = 1 /\ \A n \in Nat : TwoTo[n + 1] = 2 * TwoTo[n]
  <2>1. TwoTo[0] = 1
    BY TwoToDef
  <2>2. ASSUME NEW n \in Nat PROVE TwoTo[n + 1] = 2 * TwoTo[n]
    <3>1. n + 1 \in Nat /\ n + 1 # 0 /\ (n + 1) - 1 = n
      OBVIOUS
    <3>2. TwoTo[n + 1] = IF n + 1 = 0 THEN 1 ELSE 2 * TwoTo[(n + 1) - 1]
      BY <3>1, TwoToDef
    <3> QED BY <3>1, <3>2
  <2> QED BY <2>1, <2>2
<1> DEFINE T == {n \in Nat : TwoTo[n] \in Nat \ {0}}
<1>2. 0 \in T
  BY <1>1
<1>3. ASSUME NEW n \in Nat, n \in T PROVE n + 1 \in T
  BY <1>1, <1>3
<1> HIDE DEF T
<1>4. Nat \subseteq T
  BY <1>2, <1>3, Induction
<1> QED BY <1>1, <1>4 DEF T

(* Powers grow. *)
LEMMA PowersGrow ==
  ASSUME NEW m \in Nat, NEW n \in Nat, m <= n
  PROVE  TwoTo[m] <= TwoTo[n]
<1> DEFINE T == {i \in Nat : TwoTo[m] <= TwoTo[m + i]}
<1>1. 0 \in T
  BY Powers
<1>2. ASSUME NEW i \in Nat, i \in T PROVE i + 1 \in T
  <2>1. m + i \in Nat /\ m + (i + 1) = (m + i) + 1
    OBVIOUS
  <2>2. TwoTo[(m + i) + 1] = 2 * TwoTo[m + i] /\ TwoTo[m + i] \in Nat /\ TwoTo[m] \in Nat
    BY <2>1, Powers
  <2> QED BY <1>2, <2>1, <2>2
<1> HIDE DEF T
<1>3. n - m \in T
  BY <1>1, <1>2, Induction
<1> QED BY <1>3 DEF T

(* Digit(n, i) is the bit of n at position i. *)
Digit(n, i) == (n \div TwoTo[i]) % 2

(* The lowest bit is the remainder, the others are those of the half. *)
LEMMA DigitsOfHalf ==
  ASSUME NEW n \in Nat
  PROVE  /\ Digit(n, 0) = n % 2
         /\ \A i \in Nat : Digit(n, i + 1) = Digit(n \div 2, i)
         /\ n \div 2 \in Nat /\ n % 2 \in {0, 1} /\ n = 2 * (n \div 2) + (n % 2)
<1>1. n \div 1 = n
  OBVIOUS
<1>2. ASSUME NEW d \in Nat \ {0} PROVE n \div (2 * d) = (n \div 2) \div d
  BY <1>2
<1>3. \A i \in Nat : Digit(n, i + 1) = Digit(n \div 2, i)
  BY <1>2, Powers DEF Digit
<1> QED BY <1>1, <1>3, Powers DEF Digit

(* Beyond the width of a number there are no 1 bits. *)
LEMMA DigitsEnd ==
  ASSUME NEW k \in Nat, NEW n \in Nat, n < TwoTo[k], NEW i \in Nat, i >= k
  PROVE  Digit(n, i) = 0
<1>1. TwoTo[i] \in Nat \ {0} /\ n < TwoTo[i]
  BY Powers, PowersGrow
<1>2. n \div TwoTo[i] = 0
  BY <1>1
<1> QED BY <1>2 DEF Digit

(* A number is determined by its bits. *)
LEMMA DigitsDetermine ==
  \A k \in Nat : \A m, n \in 0 .. TwoTo[k] - 1 :
    (\A i \in 0 .. k - 1 : Digit(m, i) = Digit(n, i)) => m = n
<1> DEFINE T == {k \in Nat : \A m, n \in 0 .. TwoTo[k] - 1 :
                  (\A i \in 0 .. k - 1 : Digit(m, i) = Digit(n, i)) => m = n}
<1>1. 0 \in T
  BY Powers
<1>2. ASSUME NEW k \in Nat, k \in T PROVE k + 1 \in T
  <2>1. TwoTo[k + 1] = 2 * TwoTo[k] /\ TwoTo[k] \in Nat /\ TwoTo[k + 1] \in Nat
    BY Powers
  <2> SUFFICES ASSUME NEW m \in 0 .. TwoTo[k + 1] - 1, NEW n \in 0 .. TwoTo[k + 1] - 1,
                      \A i \in 0 .. (k + 1) - 1 : Digit(m, i) = Digit(n, i)
               PROVE  m = n
    OBVIOUS
  <2>2. m \in Nat /\ n \in Nat
    BY <2>1
  <2>3. m \div 2 \in 0 .. TwoTo[k] - 1 /\ n \div 2 \in 0 .. TwoTo[k] - 1
    BY <2>1, <2>2
  <2>4. ASSUME NEW i \in 0 .. k - 1 PROVE Digit(m \div 2, i) = Digit(n \div 2, i)
    <3>1. i \in Nat /\ i + 1 \in 0 .. (k + 1) - 1
      OBVIOUS
    <3> QED BY <2>2, <3>1, DigitsOfHalf
  <2>5. m \div 2 = n \div 2
    BY <1>2, <2>3, <2>4
  <2>6. m % 2 = n % 2
    BY <2>2, DigitsOfHalf
  <2> QED BY <2>2, <2>5, <2>6, DigitsOfHalf
<1> HIDE DEF T
<1>3. Nat \subseteq T
  BY <1>1, <1>2, Induction
<1> QED BY <1>3 DEF T

(* One less than a power of two is all ones. *)
LEMMA DigitsOfOnes ==
  \A k \in Nat : \A i \in 0 .. k - 1 : Digit(TwoTo[k] - 1, i) = 1
<1> DEFINE T == {k \in Nat : \A i \in 0 .. k - 1 : Digit(TwoTo[k] - 1, i) = 1}
<1>1. 0 \in T
  OBVIOUS
<1>2. ASSUME NEW k \in Nat, k \in T PROVE k + 1 \in T
  <2> DEFINE m == TwoTo[k] - 1
             n == TwoTo[k + 1] - 1
  <2>1. n = 2 * m + 1 /\ m \in Nat /\ n \in Nat
    BY Powers
  <2>4. \A i \in 0 .. k - 1 : Digit(m, i) = 1
    BY <1>2
  <2> HIDE DEF m, n
  <2>2. n \div 2 = m /\ n % 2 = 1
    BY <2>1
  <2>3. ASSUME NEW i \in 0 .. (k + 1) - 1 PROVE Digit(n, i) = 1
    <3>1. CASE i = 0
      BY <2>1, <2>2, <3>1, DigitsOfHalf
    <3>2. CASE i # 0
      <4>1. i - 1 \in 0 .. k - 1 /\ i - 1 \in Nat /\ (i - 1) + 1 = i
        BY <3>2
      <4>2. \A j \in Nat : Digit(n, j + 1) = Digit(m, j)
        <5>1. \A j \in Nat : Digit(n, j + 1) = Digit(n \div 2, j)
          BY <2>1, DigitsOfHalf
        <5> QED BY <2>2, <5>1, Zenon
      <4>3. PICK j \in Nat : j = i - 1
        BY <4>1
      <4>4. j \in 0 .. k - 1 /\ j + 1 = i
        BY <4>1, <4>3
      <4>5. Digit(n, i) = Digit(m, j)
        BY <4>2, <4>4
      <4> QED BY <2>4, <4>4, <4>5
    <3> QED BY <3>1, <3>2
  <2> QED BY <2>3 DEF n
<1> HIDE DEF T
<1>3. Nat \subseteq T
  BY <1>1, <1>2, Induction
<1> QED BY <1>3 DEF T

(* A word is the set of the positions where the digit is 1. *)
LEMMA WordDigits ==
  \A n : /\ WordOf(n) = {i \in Bit : Digit(n, i) = 1}
          /\ WordOf(n) \in SUBSET Bit
BY DEF WordOf, Digit

(* A number below 2 to the power of k fits k bits. *)
LEMMA NumbersFit ==
  ASSUME NEW k \in Nat, NEW n \in Nat, n < TwoTo[k]
  PROVE  WordOf(n) \subseteq Low(k)
<1> SUFFICES ASSUME NEW i \in Bit, Digit(n, i) = 1 PROVE i \in Low(k)
  BY WordDigits
<1>1. i \in Nat
  BY WordAssumption DEF Bit
<1>2. ~(i >= k)
  BY <1>1, DigitsEnd
<1> QED BY <1>1, <1>2 DEF Low

(* Different numbers that fit are different words. *)
LEMMA WordsDiffer ==
  ASSUME NEW m \in 0 .. TwoTo[WordBits] - 1, NEW n \in 0 .. TwoTo[WordBits] - 1,
         WordOf(m) = WordOf(n)
  PROVE  m = n
<1>1. m \in Nat /\ n \in Nat /\ WordBits \in Nat
  BY Powers, WordAssumption
<1>2. ASSUME NEW i \in 0 .. WordBits - 1 PROVE Digit(m, i) = Digit(n, i)
  <2>1. i \in Bit /\ i \in Nat
    BY <1>1 DEF Bit
  <2>2. Digit(m, i) = 1 <=> Digit(n, i) = 1
    BY <2>1, WordDigits
  <2>3. TwoTo[i] \in Nat \ {0}
    BY <2>1, Powers
  <2>4. Digit(m, i) \in {0, 1} /\ Digit(n, i) \in {0, 1}
    BY <1>1, <2>3 DEF Digit
  <2> QED BY <2>2, <2>4
<1> QED BY <1>1, <1>2, DigitsDetermine

(* NumberOf undoes WordOf on every number that fits a word. *)
LEMMA NumberOfWord ==
  ASSUME NEW n \in 0 .. TwoTo[WordBits] - 1
  PROVE  NumberOf(WordOf(n)) = n
<1>1. \A m, x : <<m, x>> \in Numeral <=> m \in 0 .. TwoTo[WordBits] - 1 /\ x = WordOf(m)
  BY DEF Numeral
<1>2. <<n, WordOf(n)>> \in Numeral
  BY <1>1
<1>3. /\ NumberOf(WordOf(n)) \in 0 .. TwoTo[WordBits] - 1
      /\ <<NumberOf(WordOf(n)), WordOf(n)>> \in Numeral
  BY <1>2 DEF NumberOf
<1> QED BY <1>1, <1>3, WordsDiffer

(* The word of zero has no 1, and the word of k ones is 2^k - 1. *)
LEMMA ZeroAndOnes ==
  /\ WordOf(0) = {} /\ NumberOf({}) = 0
  /\ \A k \in 0 .. WordBits : NumberOf(Low(k)) = TwoTo[k] - 1
<1> USE WordAssumption
<1>1. WordOf(0) = {}
  <2>1. WordOf(0) \subseteq Low(0)
    BY Powers, NumbersFit
  <2> QED BY <2>1 DEF Low
<1>2. NumberOf({}) = 0
  <2>1. 0 \in 0 .. TwoTo[WordBits] - 1
    BY Powers
  <2> QED BY <1>1, <2>1, NumberOfWord
<1>3. ASSUME NEW k \in 0 .. WordBits PROVE NumberOf(Low(k)) = TwoTo[k] - 1
  <2>1. k \in Nat /\ TwoTo[k] \in Nat \ {0} /\ TwoTo[k] <= TwoTo[WordBits] /\ TwoTo[WordBits] \in Nat
    BY Powers, PowersGrow
  <2>2. WordOf(TwoTo[k] - 1) \subseteq Low(k)
    BY <2>1, NumbersFit
  <2>3. ASSUME NEW i \in Low(k) PROVE i \in WordOf(TwoTo[k] - 1)
    <3>1. i \in Bit /\ i \in 0 .. k - 1
      BY DEF Low, Bit
    <3> QED BY <2>1, <3>1, DigitsOfOnes, WordDigits
  <2>4. TwoTo[k] - 1 \in 0 .. TwoTo[WordBits] - 1
    BY <2>1
  <2>5. WordOf(TwoTo[k] - 1) = Low(k)
    BY <2>2, <2>3
  <2> QED BY <2>4, <2>5, NumberOfWord
<1> QED BY <1>1, <1>2, <1>3

(* The bits set aside for thread ids hold NUM_THREADS + 1, and so every id. *)
LEMMA IdsFit ==
  ASSUME NEW numThreads \in Nat, numThreads + 1 < TwoTo[WordBits],
         NEW bits, bits = BitLengthOfNumThreads(numThreads)
  PROVE  /\ bits \in 0 .. WordBits
         /\ numThreads + 1 < TwoTo[bits]
         /\ \A id \in 0 .. numThreads : WordOf(id) \subseteq Low(bits)
                                       /\ id \in 0 .. TwoTo[WordBits] - 1
<1> USE WordAssumption
<1> DEFINE k == numThreads + 1
           Gone(n) == n = WordBits \/ k \div TwoTo[n] = 0
           T == {n \in 0 .. WordBits : Gone(n)}
<1>1. PICK m \in T : \A n \in T : m <= n
  <2>1. T \subseteq Nat /\ WordBits \in T
    OBVIOUS
  <2> QED BY <2>1, Least
<1>2. m \in 0 .. WordBits /\ Gone(m) /\ \A n \in Low(m) : k \div TwoTo[n] # 0
  <2>1. ASSUME NEW n \in Low(m) PROVE n \in 0 .. WordBits /\ n < m
    BY <1>1 DEF Low
  <2>2. ASSUME NEW n \in Low(m) PROVE n \notin T
    BY <1>1, <2>1
  <2> QED BY <1>1, <2>1, <2>2
<1>3. bits \in 0 .. WordBits /\ (bits = WordBits \/ k \div TwoTo[bits] = 0)
  <2> HIDE DEF k
  <2> QED BY <1>2 DEF BitLengthOfNumThreads, BitLength, k
<1>4. k < TwoTo[bits]
  <2>1. CASE bits = WordBits
    BY <2>1
  <2>2. CASE k \div TwoTo[bits] = 0
    <3>1. TwoTo[bits] \in Nat \ {0} /\ k \in Nat
      BY <1>3, Powers
    <3> HIDE DEF k
    <3> QED BY <2>2, <3>1
  <2> QED BY <1>3, <2>1, <2>2
<1>5. ASSUME NEW id \in 0 .. numThreads
      PROVE  WordOf(id) \subseteq Low(bits) /\ id \in 0 .. TwoTo[WordBits] - 1
  <2>1. id \in Nat /\ id < TwoTo[bits] /\ bits \in Nat /\ TwoTo[bits] \in Nat
    BY <1>3, <1>4, Powers
  <2>2. TwoTo[WordBits] \in Nat
    BY Powers
  <2> QED BY <2>1, <2>2, NumbersFit
<1> QED BY <1>3, <1>4, <1>5

(* The number of a stage is read back as the stage, and fits 3 bits. *)
LEMMA StageNumbers ==
  ASSUME NEW s \in Stage
  PROVE  /\ StageTryFrom(StageAsUsize[s]) = s
         /\ WordOf(StageAsUsize[s]) \subseteq Low(STAGE_BIT_LENGTH)
         /\ NumberOf(WordOf(StageAsUsize[s])) = StageAsUsize[s]
<1>1. StageAsUsize[s] \in 0 .. 5
  BY DEF Stage, StageAsUsize
<1>2. \A other \in Stage : StageAsUsize[other] = StageAsUsize[s] => other = s
  BY DEF Stage, StageAsUsize
<1>3. StageTryFrom(StageAsUsize[s]) = s
  BY <1>2 DEF StageTryFrom
<1>4. TwoTo[3] = 8
  <2>1. TwoTo[1] = 2
    BY Powers, 0 + 1 = 1
  <2>2. TwoTo[2] = 4
    BY Powers, 1 + 1 = 2, <2>1
  <2> QED BY Powers, 2 + 1 = 3, <2>2
<1>5. TwoTo[3] <= TwoTo[WordBits] /\ TwoTo[WordBits] \in Nat
  BY WordAssumption, Powers, PowersGrow
<1> HIDE DEF StageAsUsize
<1>6. WordOf(StageAsUsize[s]) \subseteq Low(3)
  BY <1>1, <1>4, NumbersFit
<1>7. StageAsUsize[s] \in 0 .. TwoTo[WordBits] - 1
  BY <1>1, <1>4, <1>5
<1> QED BY <1>3, <1>6, <1>7, NumberOfWord DEF STAGE_BIT_LENGTH
-----------------------------------------------------------------------------
(* A field shifted to the top by n and or-ed with n low bits: both can be  *)
(* read back when they fit their part of the word.                         *)
LEMMA FieldsReadBack ==
  ASSUME NEW n \in 0 .. WordBits, NEW field \in SUBSET Low(WordBits - n), NEW low \in SUBSET Low(n)
  PROVE  /\ Shr(Shl(field, n) \cup low, n) = field
         /\ (Shl(field, n) \cup low) \cap Not(Shl(Bit, n)) = low
         /\ Shl(field, n) \cup low \in SUBSET Bit
<1> USE WordAssumption DEF Low, Bit
<1>1. Shr(Shl(field, n) \cup low, n) = field
  <2>1. ASSUME NEW i \in field PROVE i \in Shr(Shl(field, n) \cup low, n)
    <3>1. i \in Int /\ i + n \in Bit /\ i \in Bit
      OBVIOUS
    <3>2. (i + n) - n = i /\ i + n >= n
      BY <3>1
    <3> QED BY <3>1, <3>2 DEF Shl, Shr
  <2>2. ASSUME NEW i \in Shr(Shl(field, n) \cup low, n) PROVE i \in field
    <3>1. i \in Int /\ i >= 0 /\ i + n \notin low
      BY DEF Shr
    <3>2. i + n - n \in field
      BY <3>1 DEF Shl, Shr
    <3> QED BY <3>1, <3>2
  <2> QED BY <2>1, <2>2
<1>2. (Shl(field, n) \cup low) \cap Not(Shl(Bit, n)) = low
  <2>1. ASSUME NEW i \in low PROVE i \in Bit /\ i \notin Shl(Bit, n)
    BY DEF Shl
  <2>2. ASSUME NEW i \in Shl(field, n) PROVE i \in Shl(Bit, n)
    BY DEF Shl
  <2> QED BY <2>1, <2>2 DEF Not
<1>3. Shl(field, n) \cup low \in SUBSET Bit
  <2>1. ASSUME NEW i \in low PROVE i \in Bit
    OBVIOUS
  <2>2. ASSUME NEW i \in Shl(field, n) PROVE i \in Bit
    BY DEF Shl
  <2> QED BY <2>1, <2>2
<1> QED BY <1>1, <1>2, <1>3

(* A thread id and a sequence number that fits beside it come back from the *)
(* marker built of them, whatever the width of a word and NUM_THREADS; and   *)
(* the id is no reserved bits all 0 or all 1, so the marker is no value.     *)
THEOREM MarkerReadsBack ==
  ASSUME NEW numThreads \in Nat, numThreads + 1 < TwoTo[WordBits],
         NEW id \in 1 .. numThreads,
         NEW number \in SUBSET Low(ThreadShift(numThreads))
  PROVE  LET marker == ConstructThreadAndSequence(numThreads, id, number) IN
         /\ ExtractThread(numThreads, marker) = id
         /\ ExtractSequenceOfThread(numThreads, marker) = number
         /\ IsMarker(numThreads, marker) /\ ~IsLegalValue(numThreads, marker)
         /\ marker \in SUBSET Bit
<1> DEFINE bits == BitLengthOfNumThreads(numThreads)
           n == ThreadShift(numThreads)
           marker == ConstructThreadAndSequence(numThreads, id, number)
<1>1. /\ bits \in 0 .. WordBits /\ numThreads + 1 < TwoTo[bits]
      /\ WordOf(id) \subseteq Low(bits) /\ id \in 0 .. TwoTo[WordBits] - 1
  <2> HIDE DEF bits
  <2>1. bits = BitLengthOfNumThreads(numThreads) /\ id \in 0 .. numThreads
    BY DEF bits
  <2> QED BY <2>1, IdsFit
<1>2. n \in 0 .. WordBits /\ WordBits - n = bits
  BY <1>1, WordAssumption DEF ThreadShift
<1>3. WordOf(id) \in SUBSET Low(WordBits - n) /\ number \in SUBSET Low(n)
  BY <1>1, <1>2
<1>4. marker = Shl(WordOf(id), n) \cup number
  BY DEF ConstructThreadAndSequence
<1> HIDE DEF n, bits, marker
<1>5. Shr(marker, n) = WordOf(id) /\ marker \cap Not(Shl(Bit, n)) = number /\ marker \in SUBSET Bit
  BY <1>2, <1>3, <1>4, FieldsReadBack
<1>6. ExtractThread(numThreads, marker) = id
  BY <1>1, <1>5, NumberOfWord DEF ExtractThread, n
<1>7. ExtractSequenceOfThread(numThreads, marker) = number
  BY <1>5 DEF ExtractSequenceOfThread, SequenceMaskForThread, n
<1>8. NumberOf(Low(bits)) = TwoTo[bits] - 1 /\ TwoTo[bits] \in Nat
  BY <1>1, ZeroAndOnes, Powers
<1>9. id # 0 /\ id # NumberOf(Low(bits))
  BY <1>1, <1>8
<1>10. IsMarker(numThreads, marker) /\ ~IsLegalValue(numThreads, marker)
  BY <1>6, <1>9 DEF IsMarker, IsLegalValue, bits
<1> QED BY <1>5, <1>6, <1>7, <1>10 DEF marker

(* A stage and a sequence number that fits beside it come back from their   *)
(* word: the number is untouched by the stage, and the stage by it.          *)
THEOREM StageAndSequenceReadBack ==
  ASSUME NEW s \in Stage, NEW number \in SUBSET Low(StageShift)
  PROVE  LET word == ConstructStageAndSequence(s, number) IN
         /\ ExtractSequenceOfStage(word) = number
         /\ ExtractStage(word) = s
<1> DEFINE n == StageShift
           field == WordOf(StageAsUsize[s])
<1>1. n \in 0 .. WordBits /\ WordBits - n = 3
  BY WordAssumption DEF StageShift, STAGE_BIT_LENGTH
<1>2. field \in SUBSET Low(WordBits - n) /\ number \in SUBSET Low(n)
  BY <1>1, StageNumbers DEF STAGE_BIT_LENGTH
<1>3. Shl(Low(3), n) = Shl(Bit, n)
  <2>1. n = WordBits - 3
    BY DEF StageShift, STAGE_BIT_LENGTH
  <2> HIDE DEF n
  <2>2. ASSUME NEW i \in Bit, i >= n PROVE i - n \in Low(3) /\ i - n \in Bit
    BY <1>1, <2>1, <2>2, WordAssumption DEF Bit, Low
  <2> QED BY <2>2 DEF Shl
<1>4. /\ Shr(Shl(field, n) \cup number, n) = field
      /\ (Shl(field, n) \cup number) \cap Not(Shl(Bit, n)) = number
  <2> HIDE DEF n, field
  <2> QED BY <1>1, <1>2, FieldsReadBack
<1>5. StageTryFrom(NumberOf(field)) = s
  BY StageNumbers
<1> QED BY <1>3, <1>4, <1>5 DEF ConstructStageAndSequence, ExtractSequenceOfStage, ExtractStage,
           SequenceMaskForStage

(* Two operations with fitting sequence numbers have the same marker only   *)
(* if they are of the same thread id and have the same number.               *)
THEOREM MarkersIdentify ==
  ASSUME NEW numThreads \in Nat, numThreads + 1 < TwoTo[WordBits],
         NEW id1 \in 1 .. numThreads, NEW id2 \in 1 .. numThreads,
         NEW seq1 \in SUBSET Low(ThreadShift(numThreads)),
         NEW seq2 \in SUBSET Low(ThreadShift(numThreads)),
         ConstructThreadAndSequence(numThreads, id1, seq1)
           = ConstructThreadAndSequence(numThreads, id2, seq2)
  PROVE  id1 = id2 /\ seq1 = seq2
<1> DEFINE marker == ConstructThreadAndSequence(numThreads, id1, seq1)
<1>1. ExtractThread(numThreads, marker) = id1 /\ ExtractSequenceOfThread(numThreads, marker) = seq1
  BY MarkerReadsBack
<1>2. marker = ConstructThreadAndSequence(numThreads, id2, seq2)
  OBVIOUS
<1> HIDE DEF marker
<1>3. ExtractThread(numThreads, marker) = id2 /\ ExtractSequenceOfThread(numThreads, marker) = seq2
  BY <1>2, MarkerReadsBack
<1> QED BY <1>1, <1>3
-----------------------------------------------------------------------------
(* What EncodingAssumption says of the widths. *)
LEMMA Widths ==
  /\ NumThreads \in Nat \ {0} /\ NumThreads + 1 < TwoTo[WordBits] /\ MaxCalls \in Nat
  /\ ThreadShift(NumThreads) \in 2 .. WordBits /\ StageShift \in 0 .. WordBits
  /\ BitLengthOfNumThreads(NumThreads) \in 0 .. WordBits
<1>1. BitLengthOfNumThreads(NumThreads) \in 0 .. WordBits
  BY EncodingAssumption, IdsFit
<1> QED BY <1>1, EncodingAssumption, WordAssumption DEF ThreadShift, StageShift, STAGE_BIT_LENGTH

(* The sequence numbers of all calls are different words that fit.          *)
LEMMA SequencesFit ==
  ASSUME FieldsSuffice
  PROVE  /\ \A n \in 0 .. MaxCalls : /\ n \in 0 .. TwoTo[WordBits] - 1
                                    /\ WordOf(n) \in SUBSET Low(StageShift)
         /\ \A n \in 0 .. MaxCalls - 1 : WordOf(n) \in SUBSET Low(ThreadShift(NumThreads))
<1>1. /\ TwoTo[StageShift] \in Nat /\ TwoTo[WordBits] \in Nat
      /\ TwoTo[ThreadShift(NumThreads)] \in Nat
      /\ TwoTo[StageShift] <= TwoTo[WordBits]
  BY Widths, WordAssumption, Powers, PowersGrow
<1>2. MaxCalls <= TwoTo[ThreadShift(NumThreads)] /\ MaxCalls < TwoTo[StageShift]
  BY DEF FieldsSuffice
<1>3. ASSUME NEW n \in 0 .. MaxCalls
      PROVE  n \in 0 .. TwoTo[WordBits] - 1 /\ WordOf(n) \in SUBSET Low(StageShift)
  <2>1. n \in Nat /\ n < TwoTo[StageShift] /\ StageShift \in Nat
    BY <1>1, <1>2, Widths
  <2> QED BY <1>1, <2>1, NumbersFit
<1>4. ASSUME NEW n \in 0 .. MaxCalls - 1 PROVE WordOf(n) \in SUBSET Low(ThreadShift(NumThreads))
  <2>1. n \in Nat /\ n < TwoTo[ThreadShift(NumThreads)] /\ ThreadShift(NumThreads) \in Nat
    BY <1>1, <1>2, Widths
  <2> QED BY <2>1, NumbersFit
<1> QED BY <1>3, <1>4

(* prepare_for_next_operation counts: 1 % mask is 1, the mask being at      *)
(* least two bits wide.                                                      *)
LEMMA NextSequenceCounts ==
  ASSUME NEW n \in 0 .. TwoTo[WordBits] - 1
  PROVE  NextSequence(NumThreads, WordOf(n)) = WordOf(n + 1)
<1> DEFINE k == ThreadShift(NumThreads)
<1>1. k \in 2 .. WordBits
  BY Widths
<1>2. SequenceMaskForThread(NumThreads) = Low(k)
  <2>1. SequenceMaskForThread(NumThreads) = Not(Shl(Bit, k))
    BY DEF SequenceMaskForThread
  <2> HIDE DEF k
  <2>2. ASSUME NEW i \in Bit PROVE i \in Shl(Bit, k) <=> i >= k
    BY <1>1, WordAssumption DEF Shl, Bit
  <2>3. ASSUME NEW i PROVE i \in Not(Shl(Bit, k)) <=> i \in Low(k)
    <3>1. CASE i \in Bit
      BY <1>1, <2>2, <3>1, WordAssumption DEF Not, Bit, Low
    <3>2. CASE i \notin Bit
      BY <1>1, <3>2, WordAssumption DEF Not, Bit, Low
    <3> QED BY <3>1, <3>2
  <2> QED BY <2>1, <2>3
<1> HIDE DEF k
<1>3. NumberOf(Low(k)) = TwoTo[k] - 1
  BY <1>1, ZeroAndOnes
<1>4. TwoTo[k] \in Nat /\ TwoTo[k] >= 4
  <2>1. TwoTo[1] = 2
    BY Powers, 0 + 1 = 1
  <2>2. TwoTo[2] = 4
    BY Powers, 1 + 1 = 2, <2>1
  <2> QED BY <1>1, <2>2, Powers, PowersGrow
<1>5. 1 % (TwoTo[k] - 1) = 1
  BY <1>4
<1> QED BY <1>2, <1>3, <1>5, NumberOfWord DEF NextSequence
-----------------------------------------------------------------------------
(* A marker that names an operation reads back as that operation.            *)
LEMMA NamesReadBack ==
  ASSUME WordsSuffice, NEW marker, NEW t \in Active, NEW n \in 0 .. MaxCalls - 1,
         marker = ConstructThreadAndSequence(NumThreads, t, WordOf(n))
  PROVE  /\ ExtractThread(NumThreads, marker) = t
         /\ ExtractSequenceOfThread(NumThreads, marker) = WordOf(n)
         /\ IsMarker(NumThreads, marker) /\ ~IsLegalValue(NumThreads, marker)
         /\ marker \in SUBSET Bit
<1>1. WordOf(n) \in SUBSET Low(ThreadShift(NumThreads))
  BY SequencesFit DEF WordsSuffice
<1>2. t \in 1 .. NumThreads
  BY EncodingAssumption DEF ThreadId
<1> QED BY <1>1, <1>2, Widths, MarkerReadsBack

(* A marker names one operation. *)
LEMMA NamesOne ==
  ASSUME WordsSuffice, NEW marker, NEW op1, NEW op2, Names(marker, op1), Names(marker, op2)
  PROVE  op1 = op2
<1>1. PICK t1 \in Active, n1 \in 0 .. MaxCalls - 1 :
        op1 = <<t1, n1>> /\ marker = ConstructThreadAndSequence(NumThreads, t1, WordOf(n1))
  BY DEF Names
<1>2. PICK t2 \in Active, n2 \in 0 .. MaxCalls - 1 :
        op2 = <<t2, n2>> /\ marker = ConstructThreadAndSequence(NumThreads, t2, WordOf(n2))
  BY DEF Names
<1>3. ExtractThread(NumThreads, marker) = t1 /\ ExtractSequenceOfThread(NumThreads, marker) = WordOf(n1)
  BY <1>1, NamesReadBack
<1>4. ExtractThread(NumThreads, marker) = t2 /\ ExtractSequenceOfThread(NumThreads, marker) = WordOf(n2)
  BY <1>2, NamesReadBack
<1>5. n1 \in 0 .. TwoTo[WordBits] - 1 /\ n2 \in 0 .. TwoTo[WordBits] - 1
  <2>1. n1 \in 0 .. MaxCalls /\ n2 \in 0 .. MaxCalls
    BY Widths
  <2> QED BY <2>1, SequencesFit DEF WordsSuffice
<1>6. n1 = n2
  BY <1>3, <1>4, <1>5, WordsDiffer
<1> QED BY <1>1, <1>2, <1>3, <1>4, <1>6

(* User code's values are legal values, and no marker. *)
LEMMA ValuesReadBack ==
  ASSUME WordsSuffice, NEW x \in UserValue
  PROVE  IsLegalValue(NumThreads, x) /\ ~IsMarker(NumThreads, x)
<1> DEFINE bits == BitLengthOfNumThreads(NumThreads)
<1>1. Shr(x, ThreadShift(NumThreads)) \in {{}, Low(bits)}
  BY DEF WordsSuffice, UserValuesAlike
<1> HIDE DEF bits
<1>2. ExtractThread(NumThreads, x) \in {0, NumberOf(Low(bits))}
  BY <1>1, ZeroAndOnes DEF ExtractThread
<1>3. bits \in 0 .. WordBits /\ NumThreads + 1 < TwoTo[bits]
  BY Widths, IdsFit DEF bits
<1>4. NumberOf(Low(bits)) = TwoTo[bits] - 1 /\ TwoTo[bits] \in Nat
  BY <1>3, ZeroAndOnes, Powers, WordAssumption
<1>5. 0 \notin 1 .. NumThreads /\ NumberOf(Low(bits)) \notin 1 .. NumThreads
  BY <1>3, <1>4, Widths
<1> QED BY <1>2, <1>5 DEF IsLegalValue, IsMarker, bits

(* What EncodingInv says of the word of a thread. *)
LEMMA WordReadsBack ==
  ASSUME WordsSuffice, EncodingInv, NEW t \in ThreadId
  PROVE  /\ ExtractStage(ss[t]) = stage[t]
         /\ ExtractSequenceOfStage(ss[t]) = WordOf(calls[t])
<1>1. /\ stage[t] \in Stage /\ calls[t] \in 0 .. MaxCalls
      /\ ss[t] = ConstructStageAndSequence(stage[t], WordOf(calls[t]))
  BY DEF EncodingInv
<1>2. WordOf(calls[t]) \in SUBSET Low(StageShift)
  BY <1>1, SequencesFit DEF WordsSuffice
<1> QED BY <1>1, <1>2, StageAndSequenceReadBack

(* Init establishes the invariant: word 0 is "Inactive" and number 0. *)
LEMMA EncodingInit ==
  ASSUME WordsSuffice, Init
  PROVE  EncodingInv
<1>1. 0 \in 0 .. MaxCalls /\ "Inactive" \in Stage
  BY Widths DEF Stage
<1>2. ConstructStageAndSequence("Inactive", WordOf(0)) = {}
  <2>1. WordOf(StageAsUsize["Inactive"]) = {}
    BY ZeroAndOnes DEF StageAsUsize
  <2>2. Shl({}, StageShift) = {}
    BY DEF Shl
  <2> QED BY <2>1, <2>2, ZeroAndOnes DEF ConstructStageAndSequence
<1>3. ss = [t \in ThreadId |-> ConstructStageAndSequence(stage[t], WordOf(calls[t]))]
  BY <1>2 DEF Init
<1>4. /\ stage \in [ThreadId -> Stage] /\ calls \in [ThreadId -> 0 .. MaxCalls]
      /\ sequence \in [Active -> SUBSET Bit]
      /\ \A t \in Active : stage[t] = "Inactive"
  BY <1>1, EncodingAssumption DEF Init
<1>5. /\ helping \in [Active -> [marker : SUBSET Bit, of : {None} \cup (Active \X (0 .. MaxCalls))]]
      /\ \A u \in Active : helping[u] = Nobody
  BY DEF Init, Nobody
<1>6. origin = None /\ cell \in UserValue
  BY DEF Init
<1> QED BY <1>3, <1>4, <1>5, <1>6 DEF EncodingInv

(* A step that only changes the stage of t in its word keeps the words what *)
(* the history says.                                                         *)
LEMMA StageStep ==
  ASSUME EncodingInv, NEW t \in Active, NEW to \in Stage, NEW n \in 0 .. MaxCalls,
         ss' = [ss EXCEPT ![t] = ConstructStageAndSequence(to, WordOf(n))],
         stage' = [stage EXCEPT ![t] = to],
         calls' = [calls EXCEPT ![t] = n]
  PROVE  /\ stage' \in [ThreadId -> Stage] /\ calls' \in [ThreadId -> 0 .. MaxCalls]
         /\ ss' = [u \in ThreadId |-> ConstructStageAndSequence(stage'[u], WordOf(calls'[u]))]
<1>1. t \in ThreadId
  BY EncodingAssumption
<1>2. /\ stage \in [ThreadId -> Stage] /\ calls \in [ThreadId -> 0 .. MaxCalls]
      /\ ss = [u \in ThreadId |-> ConstructStageAndSequence(stage[u], WordOf(calls[u]))]
  BY DEF EncodingInv
<1>3. /\ stage' \in [ThreadId -> Stage] /\ calls' \in [ThreadId -> 0 .. MaxCalls]
  BY <1>1, <1>2
<1>4. ASSUME NEW u \in ThreadId
      PROVE  ss'[u] = ConstructStageAndSequence(stage'[u], WordOf(calls'[u]))
  <2>1. CASE u = t
    BY <1>1, <1>2, <2>1
  <2>2. CASE u # t
    BY <1>1, <1>2, <2>2
  <2> QED BY <2>1, <2>2
<1>5. ss' = [u \in ThreadId |-> ss'[u]]
  BY <1>2
<1> QED BY <1>3, <1>4, <1>5

(* The marker of a call in progress names its operation. *)
LEMMA MarkerNames ==
  ASSUME EncodingInv, NEW t \in Active, stage[t] # "Inactive"
  PROVE  /\ calls[t] \in 0 .. MaxCalls - 1
         /\ Marker(t) = ConstructThreadAndSequence(NumThreads, t, WordOf(calls[t]))
         /\ Names(Marker(t), <<t, calls[t]>>)
<1>1. t \in ThreadId
  BY EncodingAssumption
<1>2. calls[t] \in 0 .. MaxCalls /\ calls[t] < MaxCalls /\ sequence[t] = WordOf(calls[t])
  BY <1>1 DEF EncodingInv
<1>3. calls[t] \in 0 .. MaxCalls - 1
  BY <1>2, Widths
<1> QED BY <1>2, <1>3 DEF Marker, Names

(* What Names says of an operation's type. *)
LEMMA NamesType ==
  ASSUME NEW marker, NEW op, Names(marker, op)
  PROVE  op \in Active \X (0 .. MaxCalls) /\ op # None
<1>1. PICK t \in Active, n \in 0 .. MaxCalls - 1 : op = <<t, n>>
  BY DEF Names
<1>2. n \in 0 .. MaxCalls
  BY Widths
<1> QED BY <1>1, <1>2, EncodingAssumption

(* Taking a marker away leaves a value, or another operation's marker. *)
LEMMA UnmarkNames ==
  ASSUME EncodingInv, NEW marker, Unmark(marker)
  PROVE  IF origin' = None THEN cell' \in UserValue ELSE Names(cell', origin')
BY DEF EncodingInv, Unmark, Names

(* A compare_exchange on a thread's word succeeds only for the operation in  *)
(* progress, also when a helper brings the sequence number from a marker.    *)
LEMMA StageChangeStep ==
  ASSUME WordsSuffice, EncodingInv, NEW t \in Active, NEW n \in 0 .. MaxCalls - 1,
         Decide(t, WordOf(n)) \/ Conclude(t, WordOf(n))
  PROVE  /\ stage' \in [ThreadId -> Stage] /\ calls' \in [ThreadId -> 0 .. MaxCalls]
         /\ ss' = [u \in ThreadId |-> ConstructStageAndSequence(stage'[u], WordOf(calls'[u]))]
         /\ sequence' \in [Active -> SUBSET Bit]
         /\ \A u \in Active : stage'[u] # "Inactive" =>
              calls'[u] < MaxCalls /\ sequence'[u] = WordOf(calls'[u])
         /\ UNCHANGED <<cell, origin, helping>>
<1>1. PICK from \in Stage, to \in Stage : ChangeStage(t, WordOf(n), from, to) /\ from # "Inactive"
  BY DEF Decide, Conclude, Stage
<1>2. t \in ThreadId
  BY EncodingAssumption
<1>3. calls[t] \in 0 .. MaxCalls /\ n \in 0 .. MaxCalls
  BY <1>2, Widths DEF EncodingInv
<1>4. /\ WordOf(n) \in SUBSET Low(StageShift)
      /\ calls[t] \in 0 .. TwoTo[WordBits] - 1 /\ n \in 0 .. TwoTo[WordBits] - 1
  BY <1>3, SequencesFit DEF WordsSuffice
<1>5. ExtractStage(ss[t]) = from /\ ExtractSequenceOfStage(ss[t]) = WordOf(n)
  BY <1>1, <1>4, StageAndSequenceReadBack DEF ChangeStage
<1>6. stage[t] = from /\ calls[t] = n
  BY <1>2, <1>4, <1>5, WordReadsBack, WordsDiffer
<1>7. calls[t] < MaxCalls /\ sequence[t] = WordOf(calls[t])
  BY <1>1, <1>6 DEF EncodingInv
<1>8. /\ ss' = [ss EXCEPT ![t] = ConstructStageAndSequence(to, WordOf(calls[t]))]
      /\ stage' = [stage EXCEPT ![t] = to]
      /\ calls' = [calls EXCEPT ![t] = calls[t]]
      /\ UNCHANGED <<calls, sequence, cell, origin, helping>>
  BY <1>1, <1>6 DEF ChangeStage, EncodingInv
<1>9. /\ stage' \in [ThreadId -> Stage] /\ calls' \in [ThreadId -> 0 .. MaxCalls]
      /\ ss' = [u \in ThreadId |-> ConstructStageAndSequence(stage'[u], WordOf(calls'[u]))]
  BY <1>3, <1>8, StageStep
<1>10. ASSUME NEW u \in Active, stage'[u] # "Inactive"
       PROVE  calls'[u] < MaxCalls /\ sequence'[u] = WordOf(calls'[u])
  <2>1. CASE u = t
    BY <1>7, <1>8, <2>1
  <2>2. CASE u # t
    BY <1>2, <1>8, <1>10, <2>2 DEF EncodingInv
  <2> QED BY <2>1, <2>2
<1> QED BY <1>8, <1>9, <1>10 DEF EncodingInv

LEMMA EncodingNext ==
  ASSUME WordsSuffice, EncodingInv, [Next]_vars
  PROVE  EncodingInv'
<1> DEFINE Words == /\ stage \in [ThreadId -> Stage]
                    /\ calls \in [ThreadId -> 0 .. MaxCalls]
                    /\ ss = [t \in ThreadId |-> ConstructStageAndSequence(stage[t], WordOf(calls[t]))]
           Calls == /\ sequence \in [Active -> SUBSET Bit]
                    /\ \A t \in Active : stage[t] # "Inactive" =>
                         calls[t] < MaxCalls /\ sequence[t] = WordOf(calls[t])
           Cell == IF origin = None THEN cell \in UserValue ELSE Names(cell, origin)
           Helping == /\ helping \in [Active -> [marker : SUBSET Bit,
                                                of : {None} \cup (Active \X (0 .. MaxCalls))]]
                      /\ \A u \in Active : helping[u] # Nobody =>
                           Names(helping[u].marker, helping[u].of)
<1>0. Words /\ Calls /\ Cell /\ Helping
  BY DEF EncodingInv
<1>a. SUFFICES Words' /\ Calls' /\ Cell' /\ Helping'
  BY DEF EncodingInv
<1>b. ASSUME UNCHANGED <<ss, stage, calls, sequence>> PROVE Words' /\ Calls'
  BY <1>0, <1>b
<1>c. ASSUME UNCHANGED <<cell, origin>> PROVE Cell'
  BY <1>0, <1>c DEF Names
<1>d. ASSUME UNCHANGED helping PROVE Helping'
  BY <1>0, <1>d DEF Names, Nobody
<1>1. CASE UNCHANGED vars
  BY <1>1, <1>b, <1>c, <1>d DEF vars
<1>2. ASSUME NEW t \in Active, Begin(t) PROVE Words' /\ Calls' /\ Cell' /\ Helping'
  <2>1. t \in ThreadId
    BY EncodingAssumption
  <2>2. calls[t] \in 0 .. MaxCalls /\ calls[t] < MaxCalls /\ "Claiming" \in Stage
    BY <1>0, <1>2, <2>1 DEF Begin, Stage
  <2>3. ExtractSequenceOfStage(ss[t]) = WordOf(calls[t])
    BY <2>1, WordReadsBack
  <2>4. /\ ss' = [ss EXCEPT ![t] = ConstructStageAndSequence("Claiming", WordOf(calls[t]))]
        /\ stage' = [stage EXCEPT ![t] = "Claiming"]
        /\ sequence' = [sequence EXCEPT ![t] = WordOf(calls[t])]
        /\ calls' = [calls EXCEPT ![t] = calls[t]]
        /\ calls' = calls
    BY <1>0, <1>2, <2>3 DEF Begin
  <2>5. Words'
    BY <2>2, <2>4, StageStep
  <2>6. Calls'
    BY <1>0, <2>1, <2>2, <2>4, WordDigits
  <2>7. Cell' /\ Helping'
    BY <1>2, <1>c, <1>d DEF Begin
  <2> QED BY <2>5, <2>6, <2>7
<1>3. ASSUME NEW t \in Active, Claim(t) PROVE Words' /\ Calls' /\ Cell' /\ Helping'
  <2>1. stage[t] # "Inactive" /\ cell' = Marker(t) /\ origin' = <<t, calls[t]>>
    BY <1>3 DEF Claim
  <2>2. Names(Marker(t), <<t, calls[t]>>) /\ <<t, calls[t]>> # None
    BY <2>1, MarkerNames, NamesType
  <2>3. Cell'
    BY <2>1, <2>2 DEF Names
  <2> QED BY <1>3, <1>b, <1>d, <2>3 DEF Claim
<1>4. ASSUME NEW t \in Active, OwnStageChange(t) PROVE Words' /\ Calls' /\ Cell' /\ Helping'
  <2>1. calls[t] \in 0 .. MaxCalls - 1 /\ sequence[t] = WordOf(calls[t])
    BY <1>0, <1>4, MarkerNames DEF OwnStageChange
  <2>2. Decide(t, WordOf(calls[t]))
    BY <1>4, <2>1 DEF OwnStageChange
  <2> QED BY <1>0, <1>c, <1>d, <2>1, <2>2, StageChangeStep
<1>5. ASSUME NEW t \in Active, Finish(t) PROVE Words' /\ Calls' /\ Cell' /\ Helping'
  <2>1. stage[t] # "Inactive" /\ t \in ThreadId
    BY <1>5, EncodingAssumption DEF Finish
  <2>2. /\ calls[t] \in 0 .. MaxCalls /\ calls[t] < MaxCalls /\ sequence[t] = WordOf(calls[t])
        /\ "Inactive" \in Stage
    BY <1>0, <2>1 DEF Stage
  <2>3. calls[t] \in 0 .. TwoTo[WordBits] - 1 /\ calls[t] + 1 \in 0 .. MaxCalls
    BY <2>2, Widths, SequencesFit DEF WordsSuffice
  <2>4. NextSequence(NumThreads, sequence[t]) = WordOf(calls[t] + 1)
    BY <2>2, <2>3, NextSequenceCounts
  <2>5. /\ ss' = [ss EXCEPT ![t] = ConstructStageAndSequence("Inactive", WordOf(calls[t] + 1))]
        /\ stage' = [stage EXCEPT ![t] = "Inactive"]
        /\ calls' = [calls EXCEPT ![t] = calls[t] + 1]
        /\ sequence' = sequence
    BY <1>5, <2>4 DEF Finish
  <2>6. Words'
    BY <2>2, <2>3, <2>5, StageStep
  <2>7. Calls'
    BY <1>0, <2>1, <2>5
  <2>8. Cell'
    BY <1>5, UnmarkNames DEF Finish
  <2> QED BY <1>5, <1>d, <2>6, <2>7, <2>8 DEF Finish
<1>6. ASSUME NEW u \in Active, HelpThread(u) PROVE Words' /\ Calls' /\ Cell' /\ Helping'
  <2>1. IsMarker(NumThreads, cell) /\ helping' = [helping EXCEPT ![u] = [marker |-> cell, of |-> origin]]
    BY <1>6 DEF HelpThread
  <2>2. origin # None
    BY <1>0, <2>1, ValuesReadBack
  <2>3. Names(cell, origin) /\ origin \in Active \X (0 .. MaxCalls)
    BY <1>0, <2>2, NamesType
  <2>4. cell \in SUBSET Bit
    BY <2>3, NamesReadBack DEF Names
  <2>5. Helping'
    <3>1. helping' \in [Active -> [marker : SUBSET Bit, of : {None} \cup (Active \X (0 .. MaxCalls))]]
      BY <1>0, <2>1, <2>3, <2>4
    <3>2. ASSUME NEW v \in Active, helping'[v] # Nobody PROVE Names(helping'[v].marker, helping'[v].of)
      <4>1. CASE v = u
        BY <1>0, <2>1, <2>3, <4>1
      <4>2. CASE v # u
        BY <1>0, <2>1, <3>2, <4>2
      <4> QED BY <4>1, <4>2
    <3> QED BY <3>1, <3>2 DEF Names, Nobody
  <2> QED BY <1>6, <1>b, <1>c, <2>5 DEF HelpThread
<1>7. ASSUME NEW u \in Active, LateClaim(u) PROVE Words' /\ Calls' /\ Cell' /\ Helping'
  <2>1. Names(helping[u].marker, helping[u].of) /\ helping[u].of # None
    BY <1>0, <1>7, NamesType DEF LateClaim
  <2>2. Cell'
    BY <1>7, <2>1 DEF LateClaim, Names
  <2> QED BY <1>7, <1>b, <1>d, <2>2 DEF LateClaim
<1>8. ASSUME NEW u \in Active, LateRevert(u) PROVE Words' /\ Calls' /\ Cell' /\ Helping'
  <2>1. helping' = [helping EXCEPT ![u] = Nobody]
    BY <1>8 DEF LateRevert
  <2>2. Helping'
    <3>1. Nobody \in [marker : SUBSET Bit, of : {None} \cup (Active \X (0 .. MaxCalls))]
      BY DEF Nobody
    <3>2. helping' \in [Active -> [marker : SUBSET Bit, of : {None} \cup (Active \X (0 .. MaxCalls))]]
      BY <1>0, <2>1, <3>1
    <3>3. ASSUME NEW v \in Active, helping'[v] # Nobody PROVE Names(helping'[v].marker, helping'[v].of)
      BY <1>0, <2>1, <3>3
    <3> QED BY <3>2, <3>3 DEF Names, Nobody
  <2>3. Cell'
    BY <1>8, UnmarkNames DEF LateRevert
  <2> QED BY <1>8, <1>b, <2>2, <2>3 DEF LateRevert
<1>9. ASSUME NEW u \in Active, HelpStageChange(u) PROVE Words' /\ Calls' /\ Cell' /\ Helping'
  <2> DEFINE m == helping[u].marker
  <2>1. Names(m, helping[u].of)
    BY <1>0, <1>9 DEF HelpStageChange
  <2>2. PICK t \in Active, n \in 0 .. MaxCalls - 1 : m = ConstructThreadAndSequence(NumThreads, t, WordOf(n))
    BY <2>1 DEF Names
  <2>3. ExtractThread(NumThreads, m) = t /\ ExtractSequenceOfThread(NumThreads, m) = WordOf(n)
    BY <2>2, NamesReadBack
  <2>4. Decide(t, WordOf(n)) \/ Conclude(t, WordOf(n))
    BY <1>9, <2>3 DEF HelpStageChange
  <2> QED BY <1>0, <1>c, <1>d, <2>4, StageChangeStep
<1> HIDE DEF Words, Calls, Cell, Helping
<1>10. CASE Next
  BY <1>2, <1>3, <1>4, <1>5, <1>6, <1>7, <1>8, <1>9, <1>10 DEF Next
<1> QED BY <1>1, <1>10

(* Every word in shared memory is the one the history of the calls says:     *)
(* initialize_operation, the stage changes, claim and help_thread never make *)
(* a word that mixes two operations or carries into the wrong field.         *)
THEOREM EncodingHolds == WordsSuffice => (Spec => []EncodingInv)
<1> SUFFICES ASSUME WordsSuffice PROVE Spec => []EncodingInv
  OBVIOUS
<1>1. Init => EncodingInv
  BY EncodingInit
<1>2. EncodingInv /\ [Next]_vars => EncodingInv'
  BY EncodingNext
<1> QED BY <1>1, <1>2, PTL DEF Spec

(* claim's test for a marker is right: the cell holds one exactly when kcas  *)
(* put it there, and a user's value is never an illegal value.               *)
THEOREM ValuesNeverMarkers == WordsSuffice => (Spec => []ValuesAreNotMarkers)
<1> SUFFICES ASSUME WordsSuffice PROVE Spec => []ValuesAreNotMarkers
  OBVIOUS
<1>1. ASSUME EncodingInv PROVE ValuesAreNotMarkers
  <2>1. CASE origin = None
    BY <1>1, <2>1, ValuesReadBack DEF EncodingInv, ValuesAreNotMarkers
  <2>2. CASE origin # None
    BY <1>1, <2>2, NamesReadBack DEF EncodingInv, Names, ValuesAreNotMarkers
  <2> QED BY <2>1, <2>2
<1> QED BY <1>1, EncodingHolds, PTL

(* The stage in a thread's word is the stage of its operation, whatever its  *)
(* sequence number.                                                          *)
THEOREM StagesAlwaysReadBack == WordsSuffice => (Spec => []StagesReadBack)
<1> SUFFICES ASSUME WordsSuffice PROVE Spec => []StagesReadBack
  OBVIOUS
<1>1. EncodingInv => StagesReadBack
  BY WordReadsBack DEF StagesReadBack
<1> QED BY <1>1, EncodingHolds, PTL

(* help_thread finds the thread of a marker, and sequence numbers that are    *)
(* equal exactly while the marker's operation is not over.                   *)
THEOREM MarkersAlwaysName == WordsSuffice => (Spec => []MarkersNameOperations)
<1> SUFFICES ASSUME WordsSuffice PROVE Spec => []MarkersNameOperations
  OBVIOUS
<1>1. ASSUME EncodingInv, origin # None
      PROVE  LET t == origin[1] IN
             /\ ExtractThread(NumThreads, cell) = t
             /\ ExtractSequenceOfThread(NumThreads, cell) = ExtractSequenceOfStage(ss[t])
                  <=> calls[t] = origin[2]
  <2>1. PICK t \in Active, n \in 0 .. MaxCalls - 1 :
          origin = <<t, n>> /\ cell = ConstructThreadAndSequence(NumThreads, t, WordOf(n))
    BY <1>1 DEF EncodingInv, Names
  <2>2. ExtractThread(NumThreads, cell) = t /\ ExtractSequenceOfThread(NumThreads, cell) = WordOf(n)
    BY <2>1, NamesReadBack
  <2>3. t \in ThreadId /\ ExtractSequenceOfStage(ss[t]) = WordOf(calls[t])
    BY <1>1, WordReadsBack, EncodingAssumption
  <2>4. calls[t] \in 0 .. MaxCalls /\ n \in 0 .. MaxCalls
    BY <1>1, <2>3, Widths DEF EncodingInv
  <2>5. calls[t] \in 0 .. TwoTo[WordBits] - 1 /\ n \in 0 .. TwoTo[WordBits] - 1
    BY <2>4, SequencesFit DEF WordsSuffice
  <2>6. WordOf(n) = WordOf(calls[t]) <=> calls[t] = n
    BY <2>5, WordsDiffer
  <2>7. origin[1] = t /\ origin[2] = n
    BY <2>1
  <2> QED BY <2>2, <2>3, <2>6, <2>7
<1>2. EncodingInv => MarkersNameOperations
  BY <1>1 DEF MarkersNameOperations
<1> QED BY <1>2, EncodingHolds, PTL

(* No two operations that may still claim have the same marker.              *)
THEOREM OperationsStayApart == WordsSuffice => (Spec => []OperationsApart)
<1> SUFFICES ASSUME WordsSuffice PROVE Spec => []OperationsApart
  OBVIOUS
<1>1. ASSUME EncodingInv, NEW t \in Active, stage[t] # "Inactive"
      PROVE  /\ \A u \in Active \ {t} : stage[u] # "Inactive" => Marker(t) # Marker(u)
             /\ \A u \in Active : helping[u] # Nobody /\ helping[u].of # <<t, calls[t]>>
                                    => helping[u].marker # Marker(t)
  <2>1. Names(Marker(t), <<t, calls[t]>>)
    BY <1>1, MarkerNames
  <2>2. ASSUME NEW u \in Active \ {t}, stage[u] # "Inactive" PROVE Marker(t) # Marker(u)
    <3>1. Names(Marker(u), <<u, calls[u]>>)
      BY <1>1, <2>2, MarkerNames
    <3>2. <<u, calls[u]>> # <<t, calls[t]>>
      OBVIOUS
    <3> QED BY <2>1, <3>1, <3>2, NamesOne
  <2>3. ASSUME NEW u \in Active, helping[u] # Nobody, helping[u].of # <<t, calls[t]>>
        PROVE  helping[u].marker # Marker(t)
    <3>1. Names(helping[u].marker, helping[u].of)
      BY <1>1, <2>3 DEF EncodingInv
    <3> QED BY <2>1, <2>3, <3>1, NamesOne
  <2> QED BY <2>2, <2>3
<1>2. EncodingInv => OperationsApart
  BY <1>1 DEF OperationsApart
<1> QED BY <1>2, EncodingHolds, PTL
=============================================================================
