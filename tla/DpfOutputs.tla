----------------------------- MODULE DpfOutputs -----------------------------
(***************************************************************************)
(* The outputs of the DPFs of the buckets, and what they combine to: a cell*)
(* of a vector is the block of the value and, if the bit is set, the       *)
(* element "bit".  A bucket is a sequence of keys; an output of its DPF is *)
(* a function of the positions, from 0.                                    *)
(***************************************************************************)
EXTENDS Shares, Sequences

\* index_in_bucket of the match of key k, or of no key.
IndexInBucket(bucket, k) ==
  IF k = -1 THEN -1 ELSE Cardinality({x \in DOMAIN bucket : bucket[x] < k})

(***************************************************************************)
(* dpf_with_beta on a bucket: what the outputs of the two parties combine  *)
(* to.  Without an index and with a beta other than 0 the value of the last*)
(* element is unspecified.                                                 *)
(***************************************************************************)
PointOf(bucket, k, beta, stray) ==
  [c \in 0 .. Len(bucket) - 1 |->
     IF c = IndexInBucket(bucket, k) THEN {"bit"} \union beta
     ELSE IF c = Len(bucket) - 1 /\ k = -1 /\ beta # Zero THEN stray
     ELSE {}]

\* The two parties' outputs: party 1's are random.
SharesOf(point, mask) ==
  <<[c \in DOMAIN point |-> mask[c + 1]], [c \in DOMAIN point |-> Xor(mask[c + 1], point[c])]>>

\* The places, in all buckets, of key k.
Hits(buckets, k) ==
  {h \in (DOMAIN buckets) \X (UNION {DOMAIN buckets[n] : n \in DOMAIN buckets}) :
     h[2] \in DOMAIN buckets[h[1]] /\ buckets[h[1]][h[2]] = k}

\* The exclusive or of all elements of the DPFs that stand for key k.
XorAt(buckets, dpfs, k) ==
  {e \in BitPos \union {"bit"} :
     Cardinality({h \in Hits(buckets, k) : e \in dpfs[h[1]][h[2] - 1]}) % 2 = 1}

=============================================================================
