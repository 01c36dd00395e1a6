---------------------------- MODULE BucketShares ----------------------------
(***************************************************************************)
(* What the two protocols over buckets (mpfss_cuckoo, mpfss_new_cuckoo)    *)
(* have in common.  The parts enter by their contracts: the buckets by     *)
(* BucketsCorrect and the assignment by AssignmentContract (module         *)
(* Assignment), the betas by PairedByRank (module BetaShares), the DPF by  *)
(* PointFunction (module DpfWithBeta).                                     *)
(*                                                                         *)
(* A cell of a vector is the block of the value and, if the bit is set, the*)
(* element "bit" (module DpfOutputs).                                      *)
(***************************************************************************)
EXTENDS DpfOutputs

CONSTANTS
  Size,     \* mc_args.size, the length of the vector
  t,        \* mc_args.t
  b,        \* mc_args.b
  Seed,     \* the values of the clock that create_rand_vector can be seeded with,
            \* those with which a key hashes to the least int left out
  Buckets,  \* Buckets[s][n]: bucket n when the hash functions come from seed s
  Mask,     \* party 1's outputs of a DPF (random) that are considered
  Values    \* the vectors of y that are considered

Key    == 0 .. Size - 1
Bucket == 0 .. b - 1
Cell   == SUBSET (BitPos \union {"bit"})
Vector == [Key -> Cell]

Home(s) == [k \in Key |-> {n \in Bucket : \E x \in DOMAIN Buckets[s][n] : Buckets[s][n][x] = k}]

\* The places in the buckets, from 1.
Place == UNION {DOMAIN Buckets[s][n] : s \in Seed, n \in Bucket}

ASSUME BucketAssumption ==
  /\ "bit" \notin BitPos
  /\ Size \in Nat /\ t \in 1 .. Size /\ b \in Nat /\ t <= b
  /\ Buckets \in [Seed -> [Bucket -> Seq(Key)]]
  /\ \A s \in Seed : \A n \in Bucket :
       /\ Buckets[s][n] # <<>>
       /\ \A x, y \in DOMAIN Buckets[s][n] : x <= y => Buckets[s][n][x] <= Buckets[s][n][y]
  /\ Mask \subseteq [Place -> Cell] /\ Mask # {} /\ Seed # {}

Injective(f) == \A x, z \in DOMAIN f : f[x] = f[z] => x = z

Indices == {x \in [0 .. t - 1 -> Key] : Injective(x)}

\* What the protocols start from: nothing matched, evaluated or put together.
Unused   == [n \in Bucket |-> -1]
NoDpf    == [n \in Bucket |-> <<>>]
NoOutput == [k \in Key |-> {}]

=============================================================================
