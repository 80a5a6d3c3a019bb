------------------------ MODULE MCEncodedOperations ------------------------
(* Instances of EncodedOperations for TLC: values alike in their top bits. *)
EXTENDS EncodedOperations

Top(n) == Bit \ Low(WordBits - n)
AlikeIn(n) == {x \in SUBSET Bit : x \cap Top(n) \in {{}, Top(n)}}

(* get_bit_length_of_num_threads tells how many bits are reserved. *)
ReservedBitsAlike == AlikeIn(BitLengthOfNumThreads(NumThreads))

(* lib.rs, Limitations: with n top bits alike, NUM_THREADS may be 2^n. *)
DocumentedBitsAlike == UNION {AlikeIn(n) : n \in {m \in Bit : TwoTo[m] = NumThreads}}
=============================================================================
