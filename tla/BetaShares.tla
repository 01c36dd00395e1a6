----------------------------- MODULE BetaShares -----------------------------
(***************************************************************************)
(* includes/secret_share_beta.oc: create_beta_vals.  Party 2 knows neither *)
(* which buckets are used nor by which index, yet each used bucket has to  *)
(* get one of the values that the parties share, and each unused one 0.    *)
(* The list of all buckets is sorted obliviously by index, the values are  *)
(* attached in that order, padding first, and the list is sorted back.     *)
(*                                                                         *)
(* osort_batcher is any permutation that is sorted by the comparator: for  *)
(* equal keys cmp_by_index prefers neither.                                *)
(***************************************************************************)
EXTENDS Shares

CONSTANTS
  used,  \* m->t, the number of indices, of values and of used buckets
  b,     \* m->b, the number of buckets
  Index  \* the indices that are possible

ASSUME BetaAssumption ==
  /\ used \in Nat /\ b \in Nat /\ used <= b
  /\ Index \subseteq Nat

Bucket == 0 .. b - 1
unused == b - used

VARIABLES
  val,       \* party 1's matches: the index of each bucket, -1 for none
  share,     \* share[p][k], the parties' vectors of blocks
  pc,        \* the next step of create_beta_vals
  shareXor,  \* the padded shares, combined
  list,      \* the elements that are sorted
  beta       \* matches_ext[n]->beta

vars == <<val, share, pc, shareXor, list, beta>>

Item == [index : Index \union {-1}, bucket : Bucket, beta : Block]

Matched == {n \in Bucket : val[n] # -1}

\* What create_assignement delivers: buckets with one index each.
Init ==
  /\ val \in [Bucket -> Index \union {-1}]
  /\ Cardinality(Matched) = used
  /\ \A n, c \in Matched : val[n] = val[c] => n = c
  /\ share \in [Party -> [0 .. used - 1 -> Block]]
  /\ pc = "feed"
  /\ shareXor = [n \in Bucket |-> Zero]
  /\ list = [n \in Bucket |-> [index |-> -1, bucket |-> n, beta |-> Zero]]
  /\ beta = [n \in Bucket |-> Zero]

-----------------------------------------------------------------------------
\* share_padded: as many zero blocks as there are unused buckets come first.
padded(p, n) == IF n < unused THEN Zero ELSE share[p][n - unused]

\* Both parties feed their padded shares, which are combined obliviously.
FeedShares ==
  /\ pc = "feed"
  /\ shareXor' = [n \in Bucket |-> Xor(padded(1, n), padded(2, n))]
  /\ pc' = "list"
  /\ UNCHANGED <<val, share, list, beta>>

\* Bug: the bucket is not written.
BuildList_m1 ==
  /\ pc = "list"
  /\ list' = [n \in Bucket |-> [index |-> val[n], bucket |-> 0, beta |-> Zero]]
  /\ pc' = "by_index"
  /\ UNCHANGED <<val, share, shareXor, beta>>

\* The list of buckets with party 1's indices.
BuildList ==
  /\ pc = "list"
  /\ list' = [n \in Bucket |-> [index |-> val[n], bucket |-> n, beta |-> Zero]]
  /\ pc' = "by_index"
  /\ UNCHANGED <<val, share, shareXor, beta>>

Permutation == {p \in [Bucket -> Bucket] : \A n, c \in Bucket : p[n] = p[c] => n = c}

\* The oblivious sort, with the comparator of the field.
osort_batcher(field) ==
  \E p \in Permutation :
    /\ \A n, c \in Bucket : n < c => list[p[n]][field] <= list[p[c]][field]
    /\ list' = [n \in Bucket |-> list[p[n]]]

\* Sorted by cmp_by_index, the unused buckets first.
SortByIndex ==
  /\ pc = "by_index"
  /\ osort_batcher("index")
  /\ pc' = "attach"
  /\ UNCHANGED <<val, share, shareXor, beta>>

\* Bug: the values are attached before the list is sorted.
AttachShares_m1 ==
  /\ pc = "attach"
  /\ list' = [n \in Bucket |-> [list[n] EXCEPT !.beta = shareXor[list[n].bucket]]]
  /\ pc' = "by_bucket"
  /\ UNCHANGED <<val, share, shareXor, beta>>

\* The values are written next to the sorted indices.
AttachShares ==
  /\ pc = "attach"
  /\ list' = [n \in Bucket |-> [list[n] EXCEPT !.beta = shareXor[n]]]
  /\ pc' = "by_bucket"
  /\ UNCHANGED <<val, share, shareXor, beta>>

\* Sorted back by cmp_by_bucketNo.
SortByBucket ==
  /\ pc = "by_bucket"
  /\ osort_batcher("bucket")
  /\ pc' = "read"
  /\ UNCHANGED <<val, share, shareXor, beta>>

\* Each bucket takes the value at its position.
ReadBetas ==
  /\ pc = "read"
  /\ beta' = [n \in Bucket |-> list[n].beta]
  /\ pc' = "done"
  /\ UNCHANGED <<val, share, shareXor, list>>

Done == pc = "done" /\ UNCHANGED vars

Next ==
  \/ FeedShares \/ BuildList \/ SortByIndex \/ AttachShares \/ SortByBucket
  \/ ReadBetas \/ Done

Spec == Init /\ [][Next]_vars

-----------------------------------------------------------------------------
(***************************************************************************)
(* Between the two sorts each bucket is in the list once, with its index.  *)
(***************************************************************************)
ListKeepsBuckets ==
  pc \notin {"feed", "list"} =>
    /\ \A n \in Bucket : list[n].index = val[list[n].bucket]
    /\ \A n, c \in Bucket : list[n].bucket = list[c].bucket => n = c

BTypeOK ==
  /\ val \in [Bucket -> Index \union {-1}]
  /\ share \in [Party -> [0 .. used - 1 -> Block]]
  /\ pc \in {"feed", "list", "by_index", "attach", "by_bucket", "read", "done"}
  /\ shareXor \in [Bucket -> Block]
  /\ list \in [Bucket -> Item]
  /\ beta \in [Bucket -> Block]
  /\ ListKeepsBuckets

(***************************************************************************)
(* An unused bucket gets beta = 0.  dpf_with_beta depends on it: without an*)
(* index it repairs the bit vector but not the values.                     *)
(***************************************************************************)
UnusedGetZero == pc = "done" => \A n \in Bucket : val[n] = -1 => beta[n] = Zero

(***************************************************************************)
(* The bucket of the k-th smallest index gets the k-th shared value,       *)
(* wherever cuckoo hashing has put that index.                             *)
(***************************************************************************)
PairedByRank == pc = "done" => \A n \in Bucket : beta[n] = BetaOf(share, val, n)

=============================================================================
