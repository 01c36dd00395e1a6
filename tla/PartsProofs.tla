----------------------------- MODULE PartsProofs -----------------------------
(***************************************************************************)
(* Proofs about the smaller parts:                                         *)
(*   create_beta_vals pairs the k-th smallest index with the k-th value and*)
(*     gives unused buckets 0, for all numbers of indices and buckets and  *)
(*     all outcomes of the oblivious sorts;                                *)
(*   create_indices gives distinct indices in both of its ways out, for    *)
(*     every size and every number of indices below it;                    *)
(*   the operations of a doubly linked list are right for every list and   *)
(*     every node: the first, the last, the only one, one in the middle;   *)
(*   the batch codes keep their lists, find valid matches and justify their*)
(*     outcome, for all numbers of indices and batches and all draws.      *)
(***************************************************************************)
EXTENDS BetaShares, BatchCodes, FunctionTheorems, ShareFacts

-----------------------------------------------------------------------------
\* create_beta_vals.

Pending == {"feed", "list", "by_index", "attach"}

\* What party 1's matches are.
ValInv ==
  /\ val \in [Bucket -> Index \union {-1}]
  /\ Cardinality(Matched) = used
  /\ \A n, c \in Matched : val[n] = val[c] => n = c

\* The padded shares, combined.
PaddedInv == pc # "feed" => \A n \in Bucket :
  shareXor[n] = IF n < unused THEN Zero ELSE Xor(share[1][n - unused], share[2][n - unused])

SortedInv == pc = "attach" => \A n, c \in Bucket : n < c => list[n].index <= list[c].index

\* Each element of the list has the value of its bucket.
AttachedInv == pc \in {"by_bucket", "read"} =>
  \A n \in Bucket : list[n].beta = BetaOf(share, val, list[n].bucket)

BackInv == pc = "read" => \A n \in Bucket : list[n].bucket = n

BInv == BTypeOK /\ ValInv /\ PaddedInv /\ SortedInv /\ AttachedInv /\ BackInv /\ PairedByRank

-----------------------------------------------------------------------------
\* There are b buckets.
LEMMA BucketFinite == IsFiniteSet(Bucket) /\ Cardinality(Bucket) = b /\ Bucket \subseteq Nat
  <1>1. 0 \in Int /\ b - 1 \in Int
    BY BetaAssumption
  <1>2. IsFiniteSet(0 .. b - 1) /\ Cardinality(0 .. b - 1) = IF 0 > b - 1 THEN 0 ELSE (b - 1) - 0 + 1
    BY <1>1, FS_Interval
  <1> QED BY <1>2, BetaAssumption DEF Bucket

\* An injective function on the buckets reaches every bucket.
LEMMA Onto ==
  ASSUME NEW f \in [Bucket -> Bucket], \A n, c \in Bucket : f[n] = f[c] => n = c
  PROVE  \A v \in Bucket : \E n \in Bucket : f[n] = v
  <1>1. f \in Injection(Bucket, Bucket)
    BY DEF Injection, IsInjective
  <1>2. f \in Surjection(Bucket, Bucket)
    BY <1>1, BucketFinite, FS_Injection
  <1> QED BY <1>2 DEF Surjection

\* A set that an injective function maps to another is as large as its image.
LEMMA SameSize ==
  ASSUME NEW f \in [Bucket -> Bucket], \A n, c \in Bucket : f[n] = f[c] => n = c,
         NEW S \in SUBSET Bucket, NEW T \in SUBSET Bucket,
         \A n \in Bucket : n \in S <=> f[n] \in T
  PROVE  Cardinality(S) = Cardinality(T)
  <1> DEFINE g == [n \in S |-> f[n]]
  <1>1. g \in [S -> T]
    OBVIOUS
  <1>2. \A n, c \in S : g[n] = g[c] => n = c
    OBVIOUS
  <1>3. \A v \in T : \E n \in S : g[n] = v
    BY Onto
  <1>4. g \in Bijection(S, T)
    <2> HIDE DEF g
    <2> QED BY <1>1, <1>2, <1>3 DEF Bijection, Injection, IsInjective, Surjection
  <1>5. IsFiniteSet(S)
    BY BucketFinite, FS_Subset
  <1> HIDE DEF g
  <1> QED BY <1>4, <1>5, FS_Bijection DEF ExistsBijection

\* A downward closed set of positions with k elements is 0 .. k - 1.
LEMMA InitialSegment ==
  ASSUME NEW S \in SUBSET Bucket, \A n \in S : \A c \in Bucket : c < n => c \in S
  PROVE  S = 0 .. Cardinality(S) - 1 /\ Cardinality(S) \in Nat /\ Cardinality(S) <= b
  <1>1. IsFiniteSet(S) /\ Cardinality(S) \in Nat /\ Cardinality(S) <= b
    BY BucketFinite, FS_Subset, FS_CardinalityType
  <1>2. CASE S = Bucket
    BY <1>2, BucketFinite, BetaAssumption DEF Bucket
  <1>3. CASE S # Bucket
    <2>1. Bucket \ S \in SUBSET Nat /\ Bucket \ S # {}
      BY <1>3, BucketFinite
    <2>2. PICK v \in Bucket \ S : \A c \in Bucket \ S : v <= c
      BY <2>1, LeastElement
    <2>3. v \in Nat /\ v < b
      BY BetaAssumption DEF Bucket
    <2>4. S = 0 .. v - 1
      <3>1. \A c \in S : c \in Nat /\ c < v
        BY <2>2, <2>3, BucketFinite
      <3>2. \A c \in Nat : c < v => c \in Bucket /\ c \in S
        <4>1. \A c \in Nat : c < v => c \in Bucket
          BY <2>3, BetaAssumption DEF Bucket
        <4> QED BY <2>2, <2>3, <4>1
      <3>3. \A c \in S : c \in 0 .. v - 1
        BY <2>3, <3>1
      <3>4. \A c \in 0 .. v - 1 : c \in S
        BY <2>3, <3>2
      <3> QED BY <3>3, <3>4, Zenon
    <2>5. Cardinality(0 .. v - 1) = IF 0 > v - 1 THEN 0 ELSE (v - 1) - 0 + 1
      <3>1. 0 \in Int /\ v - 1 \in Int
        BY <2>3
      <3> QED BY <3>1, FS_Interval
    <2> QED BY <1>1, <2>3, <2>4, <2>5
  <1> QED BY <1>2, <1>3

(***************************************************************************)
(* Once the list is sorted by index, the unused buckets come first and the *)
(* element at any later position n has the index of rank n - unused.       *)
(***************************************************************************)
LEMMA PositionIsRank ==
  ASSUME BTypeOK, ValInv, SortedInv, pc = "attach", NEW n \in Bucket
  PROVE  /\ list[n].index = -1 <=> n < unused
         /\ n >= unused => Rank(val, list[n].bucket) = n - unused
  <1> DEFINE f == [c \in Bucket |-> list[c].bucket]
             idx == [c \in Bucket |-> list[c].index]
             U == {c \in Bucket : idx[c] = -1}
             V == {c \in Bucket : val[c] = -1}
  <1>1. /\ f \in [Bucket -> Bucket] /\ \A c, e \in Bucket : f[c] = f[e] => c = e
        /\ \A c \in Bucket : idx[c] = val[f[c]]
        /\ \A c \in Bucket : idx[c] \in Int /\ idx[c] >= -1
    <2>1. \A c \in Bucket : list[c].bucket \in Bucket /\ list[c].index \in Index \union {-1}
      BY DEF BTypeOK, Item
    <2>2. /\ \A c, e \in Bucket : list[c].bucket = list[e].bucket => c = e
          /\ \A c \in Bucket : list[c].index = val[list[c].bucket]
      BY DEF BTypeOK, ListKeepsBuckets
    <2>3. Index \subseteq Int /\ \A x \in Index : x >= -1
      BY BetaAssumption
    <2>4. f \in [Bucket -> Bucket] /\ \A c \in Bucket : f[c] = list[c].bucket
      BY <2>1
    <2>5. \A c \in Bucket : idx[c] = list[c].index
      OBVIOUS
    <2> HIDE DEF f, idx
    <2>6. \A c, e \in Bucket : f[c] = f[e] => c = e
      BY <2>2, <2>4
    <2>7. \A c \in Bucket : idx[c] = val[f[c]]
      BY <2>2, <2>4, <2>5
    <2>8. \A c \in Bucket : idx[c] \in Int /\ idx[c] >= -1
      <3>1. -1 \in Int /\ -1 >= -1
        OBVIOUS
      <3> QED BY <2>1, <2>3, <2>5, <3>1
    <2> QED BY <2>4, <2>6, <2>7, <2>8
  <1>2. \A c, e \in Bucket : c < e => idx[c] <= idx[e]
    BY DEF SortedInv
  <1>3. \A c, e \in Bucket : idx[c] = idx[e] /\ idx[c] # -1 => c = e
    BY <1>1 DEF ValInv, Matched
  <1>4. DOMAIN val = Bucket
    BY DEF ValInv
  <1>5. f[n] = list[n].bucket /\ idx[n] = list[n].index
    OBVIOUS
  <1>6. Bucket \subseteq Int
    BY BucketFinite
  <1> HIDE DEF f, idx
  <1>7. Cardinality(V) = unused
    <2>1. V = Bucket \ Matched /\ Bucket \cap Matched = Matched
      BY DEF Matched
    <2>2. Cardinality(Bucket \ Matched) = Cardinality(Bucket) - Cardinality(Bucket \cap Matched)
      BY BucketFinite, FS_Difference
    <2> QED BY <2>1, <2>2, BucketFinite DEF ValInv, unused
  <1>8. Cardinality(U) = unused
    <2>1. \A c \in Bucket : c \in U <=> f[c] \in V
      BY <1>1
    <2>2. U \in SUBSET Bucket /\ V \in SUBSET Bucket
      OBVIOUS
    <2> HIDE DEF U, V
    <2> QED BY <1>1, <1>7, <2>1, <2>2, SameSize
  <1>9. U = 0 .. unused - 1
    <2>1. U \in SUBSET Bucket /\ \A c \in U : \A e \in Bucket : e < c => e \in U
      BY <1>1, <1>2
    <2> HIDE DEF U
    <2> QED BY <1>8, <2>1, InitialSegment
  <1>10. idx[n] = -1 <=> n < unused
    BY <1>9, BucketFinite, BetaAssumption DEF Bucket, unused
  <1>11. ASSUME n >= unused PROVE Rank(val, f[n]) = n - unused
    <2> DEFINE D == {c \in Bucket : idx[c] < idx[n]}
               L == {c \in Bucket : idx[c] # -1 /\ idx[c] < idx[n]}
               R == {c \in Bucket : val[c] # -1 /\ val[c] < val[f[n]]}
    <2>1. idx[n] # -1
      BY <1>6, <1>10, <1>11, BetaAssumption DEF unused
    <2>2. Rank(val, f[n]) = Cardinality(R)
      BY <1>4 DEF Rank
    <2>3. Cardinality(L) = Cardinality(R)
      <3>1. L \in SUBSET Bucket /\ R \in SUBSET Bucket /\ \A c \in Bucket : c \in L <=> f[c] \in R
        BY <1>1
      <3> HIDE DEF L, R
      <3> QED BY <1>1, <3>1, SameSize
    <2>4. D = 0 .. n - 1
      <3>1. \A c \in Bucket : c < n => c \in D
        BY <1>1, <1>2, <1>3, <1>6, <2>1
      <3>2. \A c \in D : c < n
        BY <1>1, <1>2, <1>6
      <3> HIDE DEF D
      <3>3. D \subseteq Bucket
        BY DEF D
      <3>4. \A c \in 0 .. n - 1 : c \in Bucket /\ c < n
        BY BetaAssumption DEF Bucket
      <3>5. \A c \in D : c \in 0 .. n - 1
        BY <3>2, <3>3, BucketFinite
      <3> QED BY <3>1, <3>4, <3>5
    <2>5. L = D \ U /\ D \cap U = U
      BY <1>1, <2>1
    <2>6. Cardinality(D) = n /\ IsFiniteSet(D)
      <3>1. n \in Nat /\ 0 \in Int /\ n - 1 \in Int
        BY BucketFinite
      <3>2. IsFiniteSet(0 .. n - 1) /\ Cardinality(0 .. n - 1) = IF 0 > n - 1 THEN 0 ELSE (n - 1) - 0 + 1
        BY <3>1, FS_Interval
      <3> HIDE DEF D
      <3> QED BY <2>4, <3>1, <3>2
    <2>7. Cardinality(D \ U) = Cardinality(D) - Cardinality(D \cap U)
      <3> HIDE DEF D, U
      <3> QED BY <2>6, FS_Difference
    <2> QED BY <1>8, <2>2, <2>3, <2>5, <2>6, <2>7
  <1> QED BY <1>5, <1>10, <1>11

\* A permutation of the buckets that is increasing is the identity.
LEMMA IncreasingIsIdentity ==
  ASSUME NEW f \in [Bucket -> Bucket], \A n, c \in Bucket : n < c => f[n] < f[c]
  PROVE  \A n \in Bucket : f[n] = n
  <1> USE BucketFinite, BetaAssumption
  <1>1. \A n \in Bucket : n <= f[n]
    <2> DEFINE Low == {n \in Bucket : f[n] < n}
    <2> SUFFICES ASSUME NEW k \in Bucket, f[k] < k PROVE FALSE
      <3>1. \A k \in Bucket : k \in Nat /\ f[k] \in Nat
        OBVIOUS
      <3> QED BY <3>1
    <2>1. PICK n \in Low : \A c \in Low : n <= c
      <3>1. Low \in SUBSET Nat /\ Low # {}
        OBVIOUS
      <3> HIDE DEF Low
      <3> QED BY <3>1, LeastElement
    <2>2. f[n] \in Bucket /\ f[n] < n /\ f[f[n]] < f[n]
      OBVIOUS
    <2>3. f[n] \in Low /\ f[n] \in Nat /\ n \in Nat
      BY <2>2
    <2> QED BY <2>1, <2>2, <2>3
  <1>2. \A n \in Bucket : f[n] <= n
    <2> DEFINE High == {n \in Bucket : n < f[n]}
               Rev == {b - 1 - n : n \in High}
    <2> SUFFICES ASSUME NEW k \in Bucket, k < f[k] PROVE FALSE
      <3>1. \A k \in Bucket : k \in Nat /\ f[k] \in Nat
        OBVIOUS
      <3> QED BY <3>1
    <2>1. Rev \in SUBSET Nat /\ Rev # {}
      <3>1. \A n \in High : b - 1 - n \in Nat
        BY DEF Bucket
      <3>2. b - 1 - k \in Rev
        OBVIOUS
      <3> QED BY <3>1, <3>2
    <2>2. PICK r \in Rev : \A x \in Rev : r <= x
      <3> HIDE DEF Rev
      <3> QED BY <2>1, LeastElement
    <2>3. PICK n \in High : r = b - 1 - n
      OBVIOUS
    <2>4. f[n] \in Bucket /\ n < f[n] /\ f[n] < f[f[n]]
      OBVIOUS
    <2>5. b - 1 - f[n] \in Rev
      BY <2>4
    <2>6. b - 1 - n <= b - 1 - f[n]
      BY <2>2, <2>3, <2>5
    <2>7. n \in Nat /\ f[n] \in Nat
      BY <2>4
    <2> HIDE DEF High, Rev
    <2> QED BY <2>4, <2>6, <2>7
  <1>3. \A n \in Bucket : n \in Int /\ f[n] \in Int
    <2> SUFFICES ASSUME NEW n \in Bucket PROVE n \in Int /\ f[n] \in Int
      OBVIOUS
    <2>1. n \in Nat /\ f[n] \in Nat
      OBVIOUS
    <2> QED BY <2>1
  <1> QED BY <1>1, <1>2, <1>3

-----------------------------------------------------------------------------
\* The invariant holds before the shares are fed.
LEMMA InitInv == Init => BInv
  <1> SUFFICES ASSUME Init PROVE BInv
    OBVIOUS
  <1>1. Zero \in Block /\ list \in [Bucket -> Item]
    BY DEF Init, Item, Zero, Block
  <1> QED BY <1>1 DEF Init, BInv, BTypeOK, ListKeepsBuckets, ValInv, PaddedInv, SortedInv,
             AttachedInv, BackInv, PairedByRank

\* Beyond the unused positions the padded vectors are the shares.
LEMMA PaddedBlock ==
  ASSUME BTypeOK, NEW n \in Bucket, n >= unused
  PROVE  \A p \in Party : padded(p, n) = share[p][n - unused] /\ share[p][n - unused] \in Block
  <1>1. n - unused \in 0 .. used - 1 /\ ~ (n < unused)
    BY BetaAssumption DEF Bucket, unused
  <1> QED BY <1>1 DEF BTypeOK, padded

\* Feeding combines the padded shares.
LEMMA FeedStep == BInv /\ FeedShares => BInv'
  <1> SUFFICES ASSUME BInv, FeedShares PROVE BInv'
    OBVIOUS
  <1>1. ASSUME NEW n \in Bucket
        PROVE  /\ shareXor'[n] \in Block
               /\ shareXor'[n] = IF n < unused THEN Zero
                                 ELSE Xor(share[1][n - unused], share[2][n - unused])
    <2>1. shareXor'[n] = Xor(padded(1, n), padded(2, n))
      BY DEF FeedShares
    <2>2. CASE n < unused
      BY <2>1, <2>2 DEF padded, Xor, Zero, Block
    <2>3. CASE ~ (n < unused)
      <3>1. n >= unused
        BY <2>3, BucketFinite, BetaAssumption DEF unused
      <3>2. /\ padded(1, n) = share[1][n - unused] /\ share[1][n - unused] \in Block
            /\ padded(2, n) = share[2][n - unused] /\ share[2][n - unused] \in Block
        BY <3>1, PaddedBlock DEF BInv, Party
      <3> QED BY <2>1, <2>3, <3>2 DEF Xor, Block
    <2> QED BY <2>2, <2>3
  <1>2. shareXor' \in [Bucket -> Block]
    <2>1. shareXor' = [n \in Bucket |-> shareXor'[n]]
      BY DEF FeedShares
    <2> QED BY <1>1, <2>1
  <1>3. pc' = "list" /\ UNCHANGED <<val, share, list, beta>>
    BY DEF FeedShares
  <1>4. BTypeOK' /\ ValInv'
    BY <1>2, <1>3 DEF BInv, BTypeOK, ListKeepsBuckets, ValInv, Matched
  <1>5. PaddedInv'
    BY <1>1, <1>3 DEF PaddedInv
  <1> QED BY <1>3, <1>4, <1>5 DEF BInv, SortedInv, AttachedInv, BackInv, PairedByRank

\* The list begins with each bucket at its own place.
LEMMA BuildStep == BInv /\ BuildList => BInv'
  <1> SUFFICES ASSUME BInv, BuildList PROVE BInv'
    OBVIOUS
  <1>1. list' \in [Bucket -> Item] /\ Zero \in Block
    BY DEF BInv, BTypeOK, BuildList, Item, Zero, Block
  <1>2. pc' = "by_index" /\ pc # "feed" /\ UNCHANGED <<val, share, shareXor, beta>>
    BY DEF BuildList
  <1>3. \A n \in Bucket : list'[n].index = val[n] /\ list'[n].bucket = n
    BY DEF BuildList
  <1>4. ListKeepsBuckets'
    BY <1>2, <1>3 DEF ListKeepsBuckets
  <1>5. BTypeOK' /\ ValInv'
    BY <1>1, <1>2, <1>4 DEF BInv, BTypeOK, ValInv, Matched
  <1> QED BY <1>2, <1>5 DEF BInv, PaddedInv, SortedInv, AttachedInv, BackInv, PairedByRank

\* A sort keeps the elements: they have the types and buckets they had.
LEMMA SortKeeps ==
  ASSUME BTypeOK, pc \notin {"feed", "list"}, NEW field, osort_batcher(field)
  PROVE  /\ list' \in [Bucket -> Item]
         /\ \A n \in Bucket : list'[n].index = val[list'[n].bucket]
         /\ \A n, c \in Bucket : list'[n].bucket = list'[c].bucket => n = c
         /\ \A n \in Bucket : \E c \in Bucket : list'[n] = list[c]
         /\ \A n, c \in Bucket : n < c => list'[n][field] <= list'[c][field]
  <1>1. PICK p \in Permutation :
          /\ \A n, c \in Bucket : n < c => list[p[n]][field] <= list[p[c]][field]
          /\ list' = [n \in Bucket |-> list[p[n]]]
    BY DEF osort_batcher
  <1>2. p \in [Bucket -> Bucket] /\ \A n, c \in Bucket : p[n] = p[c] => n = c
    BY DEF Permutation
  <1>3. \A n \in Bucket : list'[n] = list[p[n]] /\ p[n] \in Bucket
    BY <1>1, <1>2
  <1>4. list \in [Bucket -> Item] /\ ListKeepsBuckets
    BY DEF BTypeOK
  <1>5. list' \in [Bucket -> Item]
    BY <1>1, <1>2, <1>4
  <1>6. \A n \in Bucket : list'[n].index = val[list'[n].bucket]
    BY <1>3, <1>4 DEF ListKeepsBuckets
  <1>7. \A n, c \in Bucket : list'[n].bucket = list'[c].bucket => n = c
    BY <1>2, <1>3, <1>4 DEF ListKeepsBuckets
  <1>8. \A n, c \in Bucket : n < c => list'[n][field] <= list'[c][field]
    BY <1>1, <1>3
  <1> QED BY <1>3, <1>5, <1>6, <1>7, <1>8

\* The first sort orders the list by index and keeps the buckets.
LEMMA SortByIndexStep == BInv /\ SortByIndex => BInv'
  <1> SUFFICES ASSUME BInv, SortByIndex PROVE BInv'
    OBVIOUS
  <1>1. pc = "by_index" /\ pc' = "attach" /\ UNCHANGED <<val, share, shareXor, beta>>
    BY DEF SortByIndex
  <1>2. /\ list' \in [Bucket -> Item]
        /\ \A n \in Bucket : list'[n].index = val[list'[n].bucket]
        /\ \A n, c \in Bucket : list'[n].bucket = list'[c].bucket => n = c
        /\ \A n, c \in Bucket : n < c => list'[n]["index"] <= list'[c]["index"]
    BY <1>1, SortKeeps DEF BInv, SortByIndex
  <1>3. BTypeOK'
    BY <1>1, <1>2 DEF BInv, BTypeOK, ListKeepsBuckets
  <1>4. ValInv' /\ PaddedInv'
    BY <1>1 DEF BInv, ValInv, Matched, PaddedInv
  <1>5. SortedInv'
    BY <1>2 DEF SortedInv
  <1> QED BY <1>1, <1>3, <1>4, <1>5 DEF BInv, AttachedInv, BackInv, PairedByRank

(***************************************************************************)
(* The values are attached by position, and each bucket has got the one of *)
(* its index's rank.                                                       *)
(***************************************************************************)
LEMMA AttachStep == BInv /\ AttachShares => BInv'
  <1> SUFFICES ASSUME BInv, AttachShares PROVE BInv'
    OBVIOUS
  <1>1. pc = "attach" /\ pc' = "by_bucket" /\ UNCHANGED <<val, share, shareXor, beta>>
    BY DEF AttachShares
  <1>2. list \in [Bucket -> Item] /\ shareXor \in [Bucket -> Block] /\ ListKeepsBuckets
    BY DEF BInv, BTypeOK
  <1>3. list' = [n \in Bucket |-> [list[n] EXCEPT !.beta = shareXor[n]]]
    BY DEF AttachShares
  <1>4. ASSUME NEW n \in Bucket
        PROVE  /\ list'[n].index = list[n].index /\ list'[n].bucket = list[n].bucket
               /\ list'[n].beta = shareXor[n] /\ list'[n] \in Item
    BY <1>2, <1>3 DEF Item
  <1>5. list' \in [Bucket -> Item]
    <2>1. list' = [n \in Bucket |-> list'[n]]
      BY <1>3
    <2> QED BY <1>4, <2>1
  <1>6. BTypeOK'
    BY <1>1, <1>2, <1>4, <1>5 DEF BInv, BTypeOK, ListKeepsBuckets
  <1>7. ASSUME NEW n \in Bucket PROVE list'[n].beta = BetaOf(share, val, list[n].bucket)
    <2>1. /\ list[n].index = -1 <=> n < unused
          /\ n >= unused => Rank(val, list[n].bucket) = n - unused
      BY <1>1, PositionIsRank DEF BInv
    <2>2. list[n].index = val[list[n].bucket]
      BY <1>1, <1>2 DEF ListKeepsBuckets
    <2>3. n < unused \/ n >= unused
      BY BucketFinite, BetaAssumption DEF unused
    <2>4. shareXor[n] = IF n < unused THEN Zero
                        ELSE Xor(share[1][n - unused], share[2][n - unused])
      BY <1>1 DEF BInv, PaddedInv
    <2>5. CASE n < unused
      BY <1>4, <2>1, <2>2, <2>4, <2>5 DEF BetaOf
    <2>6. CASE ~ (n < unused)
      BY <1>4, <2>1, <2>2, <2>3, <2>4, <2>6 DEF BetaOf
    <2> QED BY <2>5, <2>6
  <1>8. AttachedInv'
    BY <1>1, <1>4, <1>7 DEF AttachedInv
  <1>9. ValInv' /\ PaddedInv'
    BY <1>1 DEF BInv, ValInv, Matched, PaddedInv
  <1> QED BY <1>1, <1>6, <1>8, <1>9 DEF BInv, SortedInv, BackInv, PairedByRank

\* The second sort puts each bucket back to its own place: the buckets of the list are
\* increasing, hence the identity.
LEMMA SortByBucketStep == BInv /\ SortByBucket => BInv'
  <1> SUFFICES ASSUME BInv, SortByBucket PROVE BInv'
    OBVIOUS
  <1>1. pc = "by_bucket" /\ pc' = "read" /\ UNCHANGED <<val, share, shareXor, beta>>
    BY DEF SortByBucket
  <1>2. /\ list' \in [Bucket -> Item]
        /\ \A n \in Bucket : list'[n].index = val[list'[n].bucket]
        /\ \A n, c \in Bucket : list'[n].bucket = list'[c].bucket => n = c
        /\ \A n \in Bucket : \E c \in Bucket : list'[n] = list[c]
        /\ \A n, c \in Bucket : n < c => list'[n]["bucket"] <= list'[c]["bucket"]
    BY <1>1, SortKeeps DEF BInv, SortByBucket
  <1>3. BTypeOK'
    BY <1>1, <1>2 DEF BInv, BTypeOK, ListKeepsBuckets
  <1>4. ValInv' /\ PaddedInv'
    BY <1>1 DEF BInv, ValInv, Matched, PaddedInv
  <1>5. AttachedInv'
    BY <1>1, <1>2 DEF BInv, AttachedInv
  <1>6. BackInv'
    <2> DEFINE f == [n \in Bucket |-> list'[n].bucket]
    <2>1. f \in [Bucket -> Bucket]
      BY <1>2 DEF Item
    <2>2. \A n, c \in Bucket : n < c => f[n] < f[c]
      <3>1. \A n \in Bucket : f[n] = list'[n].bucket /\ f[n] \in Int /\ n \in Int
        <4>1. \A n \in Bucket : f[n] = list'[n].bucket
          OBVIOUS
        <4> HIDE DEF f
        <4>2. \A n \in Bucket : f[n] \in Bucket
          BY <2>1
        <4>3. \A n \in Bucket : n \in Nat
          BY BucketFinite
        <4>4. \A n \in Bucket : f[n] \in Nat
          BY <4>2, <4>3
        <4> QED BY <4>1, <4>3, <4>4
      <3>2. \A n, c \in Bucket : n < c => f[n] <= f[c]
        BY <1>2
      <3>3. \A n, c \in Bucket : f[n] = f[c] => n = c
        BY <1>2
      <3> HIDE DEF f
      <3>4. ASSUME NEW n \in Bucket, NEW c \in Bucket, n < c PROVE f[n] < f[c]
        <4>1. f[n] <= f[c] /\ n # c
          BY <3>1, <3>2, <3>4
        <4>2. f[n] # f[c]
          BY <3>3, <4>1
        <4> QED BY <3>1, <4>1, <4>2
      <3> QED BY <3>4
    <2>3. \A n \in Bucket : f[n] = n
      <3> HIDE DEF f
      <3> QED BY <2>1, <2>2, IncreasingIsIdentity
    <2> QED BY <2>3 DEF BackInv
  <1> QED BY <1>1, <1>3, <1>4, <1>5, <1>6 DEF BInv, SortedInv, PairedByRank

\* What is read at the end is the value of the bucket.
LEMMA ReadStep == BInv /\ ReadBetas => BInv'
  <1> SUFFICES ASSUME BInv, ReadBetas PROVE BInv'
    OBVIOUS
  <1>1. pc = "read" /\ pc' = "done" /\ UNCHANGED <<val, share, shareXor, list>>
    BY DEF ReadBetas
  <1>2. beta' = [n \in Bucket |-> list[n].beta]
    BY DEF ReadBetas
  <1>3. beta' \in [Bucket -> Block]
    BY <1>2 DEF BInv, BTypeOK, Item
  <1>4. BTypeOK' /\ ValInv' /\ PaddedInv'
    BY <1>1, <1>3 DEF BInv, BTypeOK, ListKeepsBuckets, ValInv, Matched, PaddedInv
  <1>5. \A n \in Bucket : list[n].beta = BetaOf(share, val, n)
    BY <1>1 DEF BInv, AttachedInv, BackInv
  <1>6. PairedByRank'
    BY <1>1, <1>2, <1>5 DEF PairedByRank
  <1> QED BY <1>1, <1>4, <1>6 DEF BInv, SortedInv, AttachedInv, BackInv

\* The inductive invariant holds.
THEOREM BetaInvariant == Spec => []BInv
  <1>1. BInv /\ UNCHANGED vars => BInv'
    BY DEF BInv, BTypeOK, ListKeepsBuckets, ValInv, Matched, PaddedInv, SortedInv, AttachedInv,
           BackInv, PairedByRank, vars
  <1>2. BInv /\ [Next]_vars => BInv'
    BY <1>1, FeedStep, BuildStep, SortByIndexStep, AttachStep, SortByBucketStep, ReadStep
       DEF Next, Done
  <1> QED BY InitInv, <1>2, PTL DEF Spec

\* Types, and between the sorts each bucket is in the list once with its index.
THEOREM BetaTypeCorrect == Spec => []BTypeOK
  <1>1. BInv => BTypeOK
    BY DEF BInv
  <1> QED BY BetaInvariant, <1>1, PTL

\* Each used bucket gets the value of its index's rank (secret_share_beta.oc:120-151).
THEOREM AlwaysPairedByRank == Spec => []PairedByRank
  <1>1. BInv => PairedByRank
    BY DEF BInv
  <1> QED BY BetaInvariant, <1>1, PTL

\* Unused buckets get 0, which dpf_with_beta relies on.
THEOREM UnusedAlwaysZero == Spec => []UnusedGetZero
  <1>1. BInv => UnusedGetZero
    BY DEF BInv, PairedByRank, UnusedGetZero, BetaOf
  <1> QED BY BetaInvariant, <1>1, PTL

-----------------------------------------------------------------------------
\* create_indices.

DrawTypeOK ==
  /\ t \in Nat /\ i \in 0 .. t
  /\ indices \in [0 .. t - 1 -> Drawable]

\* What has been accepted is distinct, and the loop ends only with all of it.
AcceptedDistinct ==
  \A h, k \in 0 .. i - 1 : indices[h] = indices[k] => h = k

DrawInv == DrawTypeOK /\ (stage = "draw" => AcceptedDistinct) /\ IndicesDistinct

-----------------------------------------------------------------------------
\* Two numbers less than n apart have different remainders by n.
LEMMA RemaindersDiffer ==
  ASSUME NEW n \in Nat \ {0}, NEW a \in Nat, NEW c \in Nat, a < c, c < a + n
  PROVE  a % n # c % n
  <1> DEFINE p == a \div n
             q == c \div n
  <1>1. p \in Int /\ q \in Int /\ a = n * p + (a % n) /\ c = n * q + (c % n)
    OBVIOUS
  <1> SUFFICES ASSUME a % n = c % n PROVE FALSE
    OBVIOUS
  <1>2. c - a = n * q - n * p
    BY <1>1, a % n \in Int
  <1>3. n * q - n * p = n * (q - p)
    BY <1>1
  <1> HIDE DEF p, q
  <1>4. CASE q - p <= 0
    <2>1. n * (q - p) <= 0
      BY <1>1, <1>4
    <2> QED BY <2>1, <1>2, <1>3
  <1>5. CASE q - p >= 1
    <2>1. n * (q - p) >= n
      BY <1>1, <1>5
    <2> QED BY <2>1, <1>2, <1>3
  <1> QED BY <1>1, <1>4, <1>5

\* The consecutive numbers are drawable and, if there are enough, distinct.
LEMMA ConsecutiveDistinct ==
  ASSUME NEW rand \in Drawable, NEW n \in Nat, n <= size - 1,
         NEW h \in 0 .. n - 1, NEW k \in 0 .. n - 1,
         (rand + h) % (size - 1) = (rand + k) % (size - 1)
  PROVE  h = k
  <1>1. size - 1 \in Nat \ {0} /\ rand + h \in Nat /\ rand + k \in Nat
    BY IndicesAssumption DEF Drawable
  <1>2. ~ (h < k)
    <2> SUFFICES ASSUME h < k PROVE FALSE
      OBVIOUS
    <2>1. rand + h < rand + k /\ rand + k < (rand + h) + (size - 1)
      BY <1>1, IndicesAssumption DEF Drawable
    <2> QED BY <1>1, <2>1, RemaindersDiffer
  <1>3. ~ (k < h)
    <2> SUFFICES ASSUME k < h PROVE FALSE
      OBVIOUS
    <2>1. rand + k < rand + h /\ rand + h < (rand + k) + (size - 1)
      BY <1>1, IndicesAssumption DEF Drawable
    <2> QED BY <1>1, <2>1, RemaindersDiffer
  <1> QED BY <1>2, <1>3

-----------------------------------------------------------------------------
\* Nothing has been accepted at the beginning.
LEMMA DrawInit == t \in Nat /\ IInit => DrawInv
  BY IndicesAssumption DEF IInit, DrawInv, DrawTypeOK, AcceptedDistinct, IndicesDistinct, Drawable

\* Every iteration and both ways out keep the invariant.
LEMMA DrawStep == DrawInv /\ [INext]_ivars => DrawInv'
  <1> SUFFICES ASSUME DrawInv, [INext]_ivars PROVE DrawInv'
    OBVIOUS
  <1> USE DEF DrawInv, DrawTypeOK
  <1>1. CASE DrawIndex
    <2>1. PICK rand \in Drawable :
            LET refused == already_exists \/ \E h \in 0 .. i - 1 : indices[h] = rand IN
            /\ indices' = IF refused THEN indices ELSE [indices EXCEPT ![i] = rand]
            /\ i' = IF refused THEN i ELSE i + 1
      BY <1>1 DEF DrawIndex
    <2>2. t' = t /\ stage = "draw" /\ stage' = "draw" /\ i < t
      BY <1>1 DEF DrawIndex
    <2>3. DrawTypeOK'
      BY <2>1, <2>2
    <2>4. AcceptedDistinct'
      BY <2>1, <2>2 DEF AcceptedDistinct
    <2> QED BY <2>2, <2>3, <2>4 DEF IndicesDistinct
  <1>2. CASE Drawn
    BY <1>2 DEF Drawn, AcceptedDistinct, IndicesDistinct
  <1>3. CASE Consecutive
    <2>1. PICK rand \in Drawable :
            indices' = [h \in 0 .. t - 1 |-> (rand + h) % (size - 1)]
      BY <1>3 DEF Consecutive
    <2>2. t' = t /\ i' = i /\ stage' = "drawn"
      BY <1>3 DEF Consecutive
    <2>3. \A h \in 0 .. t - 1 : (rand + h) % (size - 1) \in Drawable
      BY IndicesAssumption DEF Drawable
    <2>4. DrawTypeOK'
      BY <2>1, <2>2, <2>3
    <2>5. IndicesDistinct'
      BY <2>1, <2>2, <2>3, ConsecutiveDistinct DEF IndicesDistinct
    <2> QED BY <2>2, <2>4, <2>5
  <1>4. CASE UNCHANGED ivars
    BY <1>4 DEF ivars, AcceptedDistinct, IndicesDistinct, Drawable
  <1> QED BY <1>1, <1>2, <1>3, <1>4 DEF INext

(***************************************************************************)
(* Whether the loop comes to its end or the limit of draws is reached, the *)
(* indices are distinct, for every t up to size - 1.                       *)
(***************************************************************************)
THEOREM IndicesAlwaysDistinct == ISpec => []IndicesDistinct
  <1>1. DrawInv => IndicesDistinct
    BY DEF DrawInv
  <1> QED BY <1>1, DrawInit, DrawStep, PTL DEF ISpec

-----------------------------------------------------------------------------
\* Lists.

\* Nodes are numbers.
Heap(D) == [D -> [is_head : BOOLEAN, prev : Int \union {NULL}, next : Int \union {NULL}]]

\* LinksExactly for one node, without the sets of nodes on both sides of it.
LinkedAt(heap, nodes, n) ==
  /\ heap[n].is_head <=> \A k \in nodes : n <= k
  /\ \/ heap[n].prev = NULL /\ \A k \in nodes : n <= k
     \/ /\ heap[n].prev \in nodes /\ heap[n].prev < n
        /\ \A k \in nodes : k < n => k <= heap[n].prev
  /\ \/ heap[n].next = NULL /\ \A k \in nodes : k <= n
     \/ /\ heap[n].next \in nodes /\ heap[n].next > n
        /\ \A k \in nodes : k > n => k >= heap[n].next

\* The neighbours p and q of a node of heap point to each other in new.
Skips(new, heap, nodes, p, q) ==
  \A k \in nodes :
    /\ new[k].is_head <=> (p = NULL /\ k = q) \/ heap[k].is_head
    /\ new[k].prev = IF k = q THEN p ELSE heap[k].prev
    /\ new[k].next = IF k = p THEN q ELSE heap[k].next

-----------------------------------------------------------------------------
\* The two descriptions of a list agree.
LEMMA LinkedEverywhere ==
  ASSUME NULL \notin Int, NEW D \in SUBSET Int, NEW heap \in Heap(D), NEW nodes \in SUBSET D
  PROVE  LinksExactly(heap, nodes) <=> \A n \in nodes : LinkedAt(heap, nodes, n)
  <1>1. nodes \subseteq DOMAIN heap
    BY DEF Heap
  <1>2. ASSUME NEW n \in nodes
        PROVE  /\ {k \in nodes : k < n} = {} <=> \A k \in nodes : n <= k
               /\ {k \in nodes : k > n} = {} <=> \A k \in nodes : k <= n
    <2>1. \A k \in nodes : k \in Int /\ n \in Int
      OBVIOUS
    <2>2. \A k \in nodes : (k < n <=> ~ n <= k) /\ (k > n <=> ~ k <= n)
      BY <2>1
    <2>3. {k \in nodes : k < n} = {} <=> \A k \in nodes : ~ k < n
      OBVIOUS
    <2>4. {k \in nodes : k > n} = {} <=> \A k \in nodes : ~ k > n
      OBVIOUS
    <2> QED BY <2>2, <2>3, <2>4
  <1>3. ASSUME NEW n \in nodes
        PROVE  LinkedAt(heap, nodes, n) <=>
                 LET below == {k \in nodes : k < n}
                     above == {k \in nodes : k > n}
                 IN  /\ heap[n].is_head <=> below = {}
                     /\ IF below = {} THEN heap[n].prev = NULL
                        ELSE heap[n].prev \in below /\ \A k \in below : k <= heap[n].prev
                     /\ IF above = {} THEN heap[n].next = NULL
                        ELSE heap[n].next \in above /\ \A k \in above : k >= heap[n].next
    BY <1>2, <1>3 DEF LinkedAt
  <1> QED BY <1>1, <1>3 DEF LinksExactly

\* If the neighbours of a node in a list point to each other, the others are a list.
LEMMA Relinked ==
  ASSUME NULL \notin Int, NEW nodes \in SUBSET Int, NEW heap, NEW new, NEW n \in nodes,
         \A k \in nodes : LinkedAt(heap, nodes, k),
         NEW p \in Int \union {NULL}, NEW q \in Int \union {NULL},
         p = heap[n].prev, q = heap[n].next,
         Skips(new, heap, nodes, p, q),
         NEW k \in nodes \ {n}
  PROVE  LinkedAt(new, nodes \ {n}, k)
  <1> DEFINE rest == nodes \ {n}
  <1>1. k \in nodes /\ k \in Int /\ n \in Int /\ k # n /\ \A c \in nodes : c \in Int
    OBVIOUS
  <1>2. \/ p = NULL /\ \A c \in nodes : n <= c
        \/ p \in nodes /\ p < n /\ \A c \in nodes : c < n => c <= p
    BY DEF LinkedAt
  <1>3. \/ q = NULL /\ \A c \in nodes : c <= n
        \/ q \in nodes /\ q > n /\ \A c \in nodes : c > n => c >= q
    BY DEF LinkedAt
  <1>4. LinkedAt(heap, nodes, k)
    OBVIOUS
  <1> DEFINE l == heap[k].prev
             r == heap[k].next
  <1>5. /\ new[k].is_head <=> (p = NULL /\ k = q) \/ heap[k].is_head
        /\ new[k].prev = IF k = q THEN p ELSE l
        /\ new[k].next = IF k = p THEN q ELSE r
        /\ l \in Int \union {NULL} /\ r \in Int \union {NULL}
    BY <1>1, <1>4 DEF LinkedAt, Skips
  <1>6. /\ heap[k].is_head <=> \A c \in nodes : k <= c
        /\ \/ l = NULL /\ \A c \in nodes : k <= c
           \/ l \in nodes /\ l < k /\ \A c \in nodes : c < k => c <= l
        /\ \/ r = NULL /\ \A c \in nodes : c <= k
           \/ r \in nodes /\ r > k /\ \A c \in nodes : c > k => c >= r
    BY <1>4 DEF LinkedAt
  <1> HIDE DEF l, r
  <1>7. new[k].is_head <=> \A c \in rest : k <= c
    <2>1. CASE p = NULL
      BY <1>1, <1>2, <1>3, <1>5, <1>6, <2>1
    <2>2. CASE p # NULL
      BY <1>1, <1>2, <1>5, <1>6, <2>2
    <2> QED BY <2>1, <2>2
  <1>8. \/ new[k].prev = NULL /\ \A c \in rest : k <= c
        \/ /\ new[k].prev \in rest /\ new[k].prev < k
           /\ \A c \in rest : c < k => c <= new[k].prev
    <2>1. CASE k = q
      BY <1>1, <1>2, <1>3, <1>5, <2>1
    <2>2. CASE k # q
      <3>1. l # n
        BY <1>1, <1>3, <1>6, <2>2
      <3> QED BY <1>1, <1>5, <1>6, <2>2, <3>1
    <2> QED BY <2>1, <2>2
  <1>9. \/ new[k].next = NULL /\ \A c \in rest : c <= k
        \/ /\ new[k].next \in rest /\ new[k].next > k
           /\ \A c \in rest : c > k => c >= new[k].next
    <2>1. CASE k = p
      BY <1>1, <1>2, <1>3, <1>5, <2>1
    <2>2. CASE k # p
      <3>1. r # n
        BY <1>1, <1>2, <1>6, <2>2
      <3> QED BY <1>1, <1>5, <1>6, <2>2, <3>1
    <2> QED BY <2>1, <2>2
  <1> QED BY <1>7, <1>8, <1>9 DEF LinkedAt

\* Unlinking a node makes its neighbours point to each other.
LEMMA DelinkSkips ==
  ASSUME NULL \notin Int,
         NEW D \in SUBSET Int, NEW heap \in Heap(D), NEW nodes \in SUBSET D, NEW n \in nodes,
         LinksExactly(heap, nodes)
  PROVE  /\ delink(heap, n) \in Heap(D)
         /\ Skips(delink(heap, n), heap, D, heap[n].prev, heap[n].next)
  <1> DEFINE p    == heap[n].prev
             q    == heap[n].next
             new  == delink(heap, n)
             Node == [is_head : BOOLEAN, prev : Int \union {NULL}, next : Int \union {NULL}]
  <1>1. \A k \in nodes : LinkedAt(heap, nodes, k)
    BY LinkedEverywhere
  <1>2. /\ n \in Int /\ D \subseteq Int /\ nodes \subseteq D
        /\ p = NULL \/ (p \in D /\ p < n)
        /\ q = NULL \/ (q \in D /\ q > n)
    BY <1>1 DEF LinkedAt
  <1>3. new = CASE p # NULL /\ q # NULL -> [heap EXCEPT ![p].next = q, ![q].prev = p]
                [] p = NULL /\ q # NULL -> [heap EXCEPT ![q].prev = NULL, ![q].is_head = TRUE]
                [] p # NULL /\ q = NULL -> [heap EXCEPT ![p].next = NULL]
                [] p = NULL /\ q = NULL -> heap
    BY DEF delink
  <1> HIDE DEF p, q, new
  <1> SUFFICES new \in Heap(D) /\ Skips(new, heap, D, p, q)
    BY DEF new, p, q
  <1>4. CASE p # NULL /\ q # NULL
    <2> DEFINE mid == [heap EXCEPT ![p].next = q]
    <2>1. p \in D /\ q \in D
      BY <1>2, <1>4
    <2>2. new = [mid EXCEPT ![q].prev = p]
      BY <1>3, <1>4
    <2>3. p \in Int \union {NULL} /\ q \in Int \union {NULL}
      BY <1>2, <2>1
    <2>4. mid \in Heap(D) /\ \A k \in D :
            /\ mid[k].is_head <=> heap[k].is_head
            /\ mid[k].prev = heap[k].prev
            /\ mid[k].next = IF k = p THEN q ELSE heap[k].next
      BY <2>1, <2>3 DEF Heap
    <2> HIDE DEF mid
    <2>5. new \in Heap(D) /\ \A k \in D :
            /\ new[k].is_head <=> mid[k].is_head
            /\ new[k].prev = IF k = q THEN p ELSE mid[k].prev
            /\ new[k].next = mid[k].next
      BY <2>1, <2>2, <2>3, <2>4 DEF Heap
    <2> QED BY <1>4, <2>4, <2>5 DEF Skips
  <1>5. CASE p = NULL /\ q # NULL
    <2> DEFINE mid == [heap EXCEPT ![q].prev = NULL]
    <2>1. q \in D
      BY <1>2, <1>5
    <2>2. new = [mid EXCEPT ![q].is_head = TRUE]
      BY <1>3, <1>5
    <2>3. NULL \in Int \union {NULL}
      OBVIOUS
    <2>4. mid \in Heap(D) /\ \A k \in D :
            /\ mid[k].is_head <=> heap[k].is_head
            /\ mid[k].prev = IF k = q THEN NULL ELSE heap[k].prev
            /\ mid[k].next = heap[k].next
      BY <2>1, <2>3 DEF Heap
    <2> HIDE DEF mid
    <2>5. new \in Heap(D) /\ \A k \in D :
            /\ new[k].is_head <=> k = q \/ mid[k].is_head
            /\ new[k].prev = mid[k].prev
            /\ new[k].next = mid[k].next
      <3>1. DOMAIN mid = D /\ \A k \in D : mid[k] \in Node
        BY <2>4 DEF Heap
      <3>2. new = [k \in D |-> IF k = q THEN [mid[q] EXCEPT !.is_head = TRUE] ELSE mid[k]]
        BY <2>1, <2>2, <3>1
      <3>3. LET head == [mid[q] EXCEPT !.is_head = TRUE] IN
            head \in Node /\ head.is_head /\ head.prev = mid[q].prev /\ head.next = mid[q].next
        BY <2>1, <3>1
      <3>4. new \in [D -> Node]
        BY <3>1, <3>2, <3>3
      <3>5. \A k \in D : k # q => new[k] = mid[k]
        BY <3>2
      <3>6. new[q].is_head /\ new[q].prev = mid[q].prev /\ new[q].next = mid[q].next
        BY <2>1, <3>2, <3>3
      <3> QED BY <3>4, <3>5, <3>6, Zenon DEF Heap
    <2>6. \A k \in D : k # p
      BY <1>2, <1>5
    <2> QED BY <1>5, <2>4, <2>5, <2>6 DEF Skips
  <1>6. CASE p # NULL /\ q = NULL
    <2>1. p \in D /\ new = [heap EXCEPT ![p].next = q] /\ q \in Int \union {NULL}
      BY <1>2, <1>3, <1>6
    <2>2. \A k \in D : k # q
      BY <1>2, <1>6
    <2>3. new \in Heap(D) /\ \A k \in D :
            /\ new[k].is_head <=> heap[k].is_head
            /\ new[k].prev = heap[k].prev
            /\ new[k].next = IF k = p THEN q ELSE heap[k].next
      BY <2>1 DEF Heap
    <2> QED BY <1>6, <2>2, <2>3 DEF Skips
  <1>7. CASE p = NULL /\ q = NULL
    <2>1. new = heap /\ \A k \in D : k # p /\ k # q
      BY <1>2, <1>3, <1>7
    <2> QED BY <2>1 DEF Skips
  <1> QED BY <1>4, <1>5, <1>6, <1>7

(***************************************************************************)
(* Whichever node of a list is unlinked, the list has exactly the other    *)
(* nodes afterwards, still in order and with one head (delink_dllnode).    *)
(***************************************************************************)
THEOREM DelinkKeepsList ==
  ASSUME NULL \notin Int,
         NEW D \in SUBSET Int, NEW heap \in Heap(D), NEW nodes \in SUBSET D, NEW n \in nodes,
         LinksExactly(heap, nodes)
  PROVE  LinksExactly(delink(heap, n), nodes \ {n})
  <1> DEFINE p   == heap[n].prev
             q   == heap[n].next
             new == delink(heap, n)
  <1>1. \A k \in nodes : LinkedAt(heap, nodes, k)
    BY LinkedEverywhere
  <1>2. p \in Int \union {NULL} /\ q \in Int \union {NULL} /\ nodes \in SUBSET Int
    BY DEF Heap
  <1>3. new \in Heap(D) /\ Skips(new, heap, D, p, q)
    BY DelinkSkips
  <1>4. p = heap[n].prev /\ q = heap[n].next
    OBVIOUS
  <1> HIDE DEF p, q, new
  <1>5. Skips(new, heap, nodes, p, q)
    BY <1>3 DEF Skips
  <1>6. \A k \in nodes \ {n} : LinkedAt(new, nodes \ {n}, k)
    BY <1>1, <1>2, <1>4, <1>5, Relinked
  <1>7. nodes \ {n} \in SUBSET D
    OBVIOUS
  <1>8. LinksExactly(new, nodes \ {n})
    BY <1>3, <1>6, <1>7, LinkedEverywhere
  <1> QED BY <1>8 DEF new

-----------------------------------------------------------------------------
\* A list in memory: its heap has these nodes and possibly others that were unlinked.
ListOf(heap, D, nodes) == nodes \subseteq D /\ heap \in Heap(D) /\ LinksExactly(heap, nodes)

\* A node that is freed leaves the heap, too (del_dllnode, del_batch).
LEMMA DelKeepsList ==
  ASSUME NULL \notin Int, NEW nodes \in SUBSET Int, NEW heap, ListOf(heap, nodes, nodes), NEW n \in nodes
  PROVE  ListOf(del(heap, n), nodes \ {n}, nodes \ {n})
  <1> DEFINE rest == nodes \ {n}
             left == delink(heap, n)
             new  == del(heap, n)
  <1>1. heap \in Heap(nodes) /\ LinksExactly(heap, nodes) /\ nodes \in SUBSET nodes
    BY DEF ListOf
  <1>2. left \in Heap(nodes) /\ LinksExactly(left, rest)
    BY <1>1, DelinkSkips, DelinkKeepsList
  <1>3. DOMAIN heap = nodes
    BY <1>1 DEF Heap
  <1>4. new = [k \in rest |-> left[k]]
    BY <1>3 DEF del
  <1>5. \A k \in rest : LinkedAt(left, rest, k)
    <2>1. rest \in SUBSET nodes
      OBVIOUS
    <2> QED BY <1>2, <2>1, LinkedEverywhere
  <1> HIDE DEF left, new
  <1>6. new \in Heap(rest)
    BY <1>2, <1>4 DEF Heap
  <1>7. \A k \in rest : LinkedAt(new, rest, k)
    <2>1. \A k \in rest : new[k] = left[k]
      BY <1>4
    <2> HIDE DEF rest
    <2> QED BY <1>5, <2>1 DEF LinkedAt
  <1>8. LinksExactly(new, rest)
    <2>1. rest \in SUBSET Int /\ rest \in SUBSET rest
      OBVIOUS
    <2> HIDE DEF rest
    <2> QED BY <1>6, <1>7, <2>1, LinkedEverywhere
  <1> QED BY <1>6, <1>8 DEF ListOf, new

\* What the links of a node say.
LEMMA Neighbours ==
  ASSUME NULL \notin Int, NEW D \in SUBSET Int, NEW nodes, NEW heap, ListOf(heap, D, nodes), NEW n \in nodes
  PROVE  LinkedAt(heap, nodes, n) /\ nodes \subseteq Int
  BY LinkedEverywhere DEF ListOf

\* delink_dllnode returns another node of the list, if there is one: the next, or
\* behind the last one the previous.
LEMMA AfterIs ==
  ASSUME NULL \notin Int, NEW D \in SUBSET Int, NEW nodes, NEW heap, ListOf(heap, D, nodes), NEW n \in nodes
  PROVE  /\ after(heap, n) = NULL <=> nodes = {n}
         /\ after(heap, n) # NULL =>
              /\ after(heap, n) \in nodes \ {n}
              /\ \/ after(heap, n) > n /\ \A k \in nodes : k > n => k >= after(heap, n)
                 \/ /\ \A k \in nodes : k <= n
                    /\ after(heap, n) < n /\ \A k \in nodes : k < n => k <= after(heap, n)
  <1>1. LinkedAt(heap, nodes, n) /\ nodes \subseteq Int
    BY Neighbours
  <1> DEFINE p == heap[n].prev
             q == heap[n].next
  <1>2. /\ \/ p = NULL /\ \A k \in nodes : n <= k
           \/ p \in nodes /\ p < n /\ \A k \in nodes : k < n => k <= p
        /\ \/ q = NULL /\ \A k \in nodes : k <= n
           \/ q \in nodes /\ q > n /\ \A k \in nodes : k > n => k >= q
    BY <1>1 DEF LinkedAt
  <1>3. after(heap, n) = IF q # NULL THEN q ELSE p
    BY DEF after
  <1> HIDE DEF p, q
  <1>4. CASE q # NULL
    <2>1. q \in nodes /\ q > n /\ q \in Int /\ n \in Int
      BY <1>1, <1>2, <1>4
    <2> QED BY <1>2, <1>3, <1>4, <2>1
  <1>5. CASE q = NULL /\ p # NULL
    <2>1. p \in nodes /\ p < n /\ p \in Int /\ n \in Int
      BY <1>1, <1>2, <1>5
    <2>2. nodes # {n} /\ p \in nodes \ {n}
      BY <2>1
    <2>3. \A k \in nodes : k <= n
      BY <1>1, <1>2, <1>5
    <2>4. \A k \in nodes : k < n => k <= p
      BY <1>1, <1>2, <1>5, <2>1
    <2>5. after(heap, n) = p
      BY <1>3, <1>5
    <2> QED BY <1>5, <2>1, <2>2, <2>3, <2>4, <2>5, Zenon
  <1>6. CASE q = NULL /\ p = NULL
    <2>1. \A k \in nodes : k \in Int /\ n <= k /\ k <= n
      BY <1>1, <1>2, <1>6
    <2>2. \A k \in nodes : k = n
      BY <1>1, <2>1
    <2> QED BY <1>3, <1>6, <2>2
  <1> QED BY <1>4, <1>5, <1>6

\* The list of the numbers first .. last.
Chain(first, last) ==
  [k \in first .. last |-> [is_head |-> k = first,
                            prev |-> IF k = first THEN NULL ELSE k - 1,
                            next |-> IF k = last THEN NULL ELSE k + 1]]

\* A list of one node is a head, a longer one has a node inserted behind the last.
LEMMA ChainGrows ==
  ASSUME NEW first \in Int, NEW n \in Int, first <= n
  PROVE  Chain(first, n) = IF n = first THEN create_head(n)
                           ELSE insert_dllnode(Chain(first, n - 1), n - 1, n)
  <1>1. CASE n = first
    <2>1. first .. n = {n}
      BY <1>1
    <2> QED BY <1>1, <2>1 DEF Chain, create_head
  <1>2. CASE n # first
    <2> DEFINE old == Chain(first, n - 1)
               D   == first .. n - 1
               mid == [old EXCEPT ![n - 1].next = n]
               end == [is_head |-> FALSE, prev |-> n - 1, next |-> NULL]
               E   == first .. n
    <2>1. DOMAIN mid = D /\ E = D \union {n} /\ n \notin D /\ n - 1 \in D
      BY <1>2 DEF Chain
    <2>2. insert_dllnode(old, n - 1, n) = With(mid, n, end)
      BY Zenon DEF insert_dllnode
    <2>3. With(mid, n, end) = [k \in E |-> IF k = n THEN end ELSE mid[k]]
      <3> HIDE DEF mid, end, D, E
      <3> QED BY <2>1, Zenon DEF With
    <2>4. \A k \in D : mid[k] = Chain(first, n)[k]
      <3> SUFFICES ASSUME NEW k \in D PROVE mid[k] = Chain(first, n)[k]
        OBVIOUS
      <3>1. /\ k \in Int /\ k \in first .. n /\ k # n
            /\ old[k] = [is_head |-> k = first, prev |-> IF k = first THEN NULL ELSE k - 1,
                         next |-> IF k = n - 1 THEN NULL ELSE k + 1]
        BY DEF Chain
      <3>2. Chain(first, n)[k] = [is_head |-> k = first, prev |-> IF k = first THEN NULL ELSE k - 1,
                                  next |-> k + 1]
        BY <3>1 DEF Chain
      <3>3. CASE k = n - 1
        <4>1. mid[k] = [old[k] EXCEPT !.next = n]
          BY <2>1, <3>3 DEF Chain
        <4> HIDE DEF mid, old
        <4> QED BY <3>1, <3>2, <3>3, <4>1
      <3>4. CASE k # n - 1
        <4>1. mid[k] = old[k]
          BY <3>4 DEF Chain
        <4> HIDE DEF mid, old
        <4> QED BY <3>1, <3>2, <3>4, <4>1
      <3> QED BY <3>3, <3>4
    <2>5. Chain(first, n)[n] = end
      <3>1. n \in first .. n /\ (n = first) = FALSE
        BY <1>2
      <3>2. Chain(first, n)[n] = [is_head |-> n = first, prev |-> IF n = first THEN NULL ELSE n - 1,
                                  next |-> IF n = n THEN NULL ELSE n + 1]
        BY <3>1 DEF Chain
      <3>3. [is_head |-> n = first, prev |-> IF n = first THEN NULL ELSE n - 1,
             next |-> IF n = n THEN NULL ELSE n + 1] = end
        BY <1>2, <3>1
      <3> QED BY <3>2, <3>3
    <2>6. Chain(first, n) = [k \in E |-> Chain(first, n)[k]]
      BY DEF Chain
    <2> HIDE DEF mid, end, D, E, old
    <2>7. [k \in E |-> Chain(first, n)[k]] = [k \in E |-> IF k = n THEN end ELSE mid[k]]
      BY <2>1, <2>4, <2>5
    <2> QED BY <1>2, <2>2, <2>3, <2>6, <2>7 DEF old
  <1> QED BY <1>1, <1>2

\* What insert_dllnode makes of a head, node after node.
LEMMA NewListIs ==
  ASSUME NEW first \in Int, NEW last \in Int, first <= last
  PROVE  NewList(first, last) = Chain(first, last)
  <1> DEFINE Dom    == first .. last
             Rec(f) == [n \in Dom |-> IF n = first THEN create_head(n)
                                      ELSE insert_dllnode(f[n - 1], n - 1, n)]
             F      == [n \in Dom |-> Chain(first, n)]
             value  == CHOOSE f : f = Rec(f)
  <1>1. NewList(first, last) = value[last]
    BY DEF NewList
  <1>2. F = Rec(F)
    <2>1. ASSUME NEW n \in Dom PROVE F[n] = Rec(F)[n]
      <3>1. n \in Int /\ first <= n /\ F[n] = Chain(first, n)
        OBVIOUS
      <3>2. n # first => F[n - 1] = Chain(first, n - 1)
        OBVIOUS
      <3>3. Rec(F)[n] = IF n = first THEN create_head(n) ELSE insert_dllnode(F[n - 1], n - 1, n)
        OBVIOUS
      <3> HIDE DEF F, Rec
      <3> QED BY <3>1, <3>2, <3>3, ChainGrows
    <2>2. F = [n \in Dom |-> F[n]] /\ Rec(F) = [n \in Dom |-> Rec(F)[n]]
      OBVIOUS
    <2> HIDE DEF F, Rec, Dom
    <2>3. [n \in Dom |-> F[n]] = [n \in Dom |-> Rec(F)[n]]
      BY <2>1
    <2> QED BY <2>2, <2>3
  <1>3. value = Rec(value)
    <2> HIDE DEF F, Rec
    <2> QED BY <1>2
  <1> DEFINE S == {k \in Nat : first + k <= last => value[first + k] = Chain(first, first + k)}
  <1> HIDE DEF value
  <1>4. \A k \in Nat : k \in S
    <2>1. 0 \in S
      <3>1. first \in Dom /\ first + 0 = first
        OBVIOUS
      <3>2. value[first] = create_head(first)
        BY <1>3, <3>1
      <3> QED BY <3>1, <3>2, ChainGrows
    <2>2. ASSUME NEW k \in Nat, k \in S PROVE k + 1 \in S
      <3> SUFFICES ASSUME first + (k + 1) <= last, NEW n, n = first + (k + 1)
                   PROVE  value[n] = Chain(first, n)
        OBVIOUS
      <3>1. n \in Dom /\ n \in Int /\ first <= n /\ n # first /\ n - 1 = first + k /\ first + k <= last
        OBVIOUS
      <3>2. value[n - 1] = Chain(first, n - 1)
        BY <2>2, <3>1
      <3>3. value[n] = insert_dllnode(value[n - 1], n - 1, n)
        <4> HIDE DEF Dom
        <4> QED BY <1>3, <3>1
      <3> QED BY <3>1, <3>2, <3>3, ChainGrows
    <2> HIDE DEF S
    <2> QED BY <2>1, <2>2, SetInduction
  <1>5. last - first \in S /\ first + (last - first) = last
    BY <1>4
  <1> QED BY <1>1, <1>5

\* So the new list has exactly these nodes.
LEMMA NewListLinked ==
  ASSUME NULL \notin Int, NEW first \in Int, NEW last \in Int, first <= last
  PROVE  ListOf(NewList(first, last), first .. last, first .. last)
  <1> DEFINE D == first .. last
             heap == Chain(first, last)
  <1>1. heap \in Heap(D)
    BY DEF Chain, Heap
  <1>2. ASSUME NEW n \in D PROVE LinkedAt(heap, D, n)
    <2>1. heap[n] = [is_head |-> n = first, prev |-> IF n = first THEN NULL ELSE n - 1,
                     next |-> IF n = last THEN NULL ELSE n + 1]
      BY DEF Chain
    <2>2. heap[n].is_head <=> \A k \in D : n <= k
      <3>1. heap[n].is_head <=> n = first
        <4>1. heap[n].is_head = (n = first)
          BY <2>1
        <4> HIDE DEF heap
        <4> QED BY <4>1
      <3>2. first \in D /\ n \in Int
        OBVIOUS
      <3>3. n = first <=> \A k \in D : n <= k
        BY <3>2
      <3> QED BY <3>1, <3>3, Zenon
    <2>3. \/ heap[n].prev = NULL /\ \A k \in D : n <= k
          \/ /\ heap[n].prev \in D /\ heap[n].prev < n
             /\ \A k \in D : k < n => k <= heap[n].prev
      <3>1. heap[n].prev = IF n = first THEN NULL ELSE n - 1
        BY <2>1
      <3> HIDE DEF heap
      <3> QED BY <3>1
    <2>4. \/ heap[n].next = NULL /\ \A k \in D : k <= n
          \/ /\ heap[n].next \in D /\ heap[n].next > n
             /\ \A k \in D : k > n => k >= heap[n].next
      <3>1. heap[n].next = IF n = last THEN NULL ELSE n + 1
        BY <2>1
      <3> HIDE DEF heap
      <3> QED BY <3>1
    <2> QED BY <2>2, <2>3, <2>4 DEF LinkedAt
  <1>3. D \in SUBSET Int /\ D \in SUBSET D
    OBVIOUS
  <1>4. LinksExactly(heap, D)
    <2> HIDE DEF D, heap
    <2> QED BY <1>1, <1>2, <1>3, LinkedEverywhere
  <1>5. NewList(first, last) = heap
    BY NewListIs
  <1> HIDE DEF D, heap
  <1> QED BY <1>1, <1>3, <1>4, <1>5 DEF ListOf, D

Below(nodes, x) == {k \in nodes : k < x}
back(heap, x) == IF heap[x].is_head THEN x ELSE heap[x].prev

\* One step back leads to the head or past one node.
LEMMA BackStep ==
  ASSUME NULL \notin Int, NEW D \in SUBSET Int, IsFiniteSet(D), NEW nodes, NEW heap,
         ListOf(heap, D, nodes), NEW x \in nodes
  PROVE  /\ back(heap, x) \in nodes
         /\ Cardinality(Below(nodes, x)) \in Nat
         /\ \/ Cardinality(Below(nodes, back(heap, x))) = 0
            \/ Cardinality(Below(nodes, back(heap, x))) = Cardinality(Below(nodes, x)) - 1
  <1>1. LinkedAt(heap, nodes, x) /\ nodes \subseteq Int
    BY Neighbours
  <1>2. IsFiniteSet(nodes)
    BY FS_Subset DEF ListOf
  <1>3. IsFiniteSet(Below(nodes, x)) /\ Cardinality(Below(nodes, x)) \in Nat
    <2>1. Below(nodes, x) \in SUBSET nodes
      BY DEF Below
    <2> QED BY <1>2, <2>1, FS_Subset, FS_CardinalityType
  <1>4. CASE heap[x].is_head
    <2>1. \A k \in nodes : x <= k
      BY <1>1, <1>4 DEF LinkedAt
    <2>2. \A k \in nodes : ~ (k < x)
      BY <1>1, <2>1
    <2>3. Below(nodes, x) = {}
      BY <2>2 DEF Below
    <2> QED BY <1>3, <1>4, <2>3, FS_EmptySet DEF back
  <1>5. CASE ~ heap[x].is_head
    <2> DEFINE y == heap[x].prev
    <2>1. y \in nodes /\ y < x /\ \A k \in nodes : k < x => k <= y
      BY <1>1, <1>5 DEF LinkedAt
    <2>2. back(heap, x) = y
      BY <1>5 DEF back
    <2> HIDE DEF y
    <2>3. \A k \in nodes : k < y <=> k < x /\ k # y
      BY <1>1, <2>1
    <2>4. \A k : k \in Below(nodes, y) <=> k \in Below(nodes, x) \ {y}
      BY <2>3 DEF Below
    <2>5. Below(nodes, y) = Below(nodes, x) \ {y} /\ y \in Below(nodes, x)
      BY <2>1, <2>4 DEF Below
    <2>6. Cardinality(Below(nodes, x) \ {y}) =
            IF y \in Below(nodes, x) THEN Cardinality(Below(nodes, x)) - 1
            ELSE Cardinality(Below(nodes, x))
      BY <1>3, FS_RemoveElement, Zenon
    <2>7. Cardinality(Below(nodes, y)) = Cardinality(Below(nodes, x)) - 1
      BY <2>5, <2>6
    <2> QED BY <1>3, <2>1, <2>2, <2>7
  <1> QED BY <1>4, <1>5

\* From every node of a list its head is reached.
LEMMA HeadIs ==
  ASSUME NULL \notin Int, NEW D \in SUBSET Int, IsFiniteSet(D), NEW nodes, NEW heap,
         ListOf(heap, D, nodes), NEW n \in nodes
  PROVE  get_head(heap, n) \in nodes /\ \A k \in nodes : get_head(heap, n) <= k
  <1> DEFINE N      == Cardinality(D)
             Rec(w) == [k \in 0 .. N |-> IF k = 0 THEN n ELSE back(heap, w[k - 1])]
             value  == CHOOSE w : w = Rec(w)
             Walks(K, w) == /\ w \in [0 .. K -> nodes] /\ w[0] = n
                            /\ \A k \in 1 .. K : w[k] = back(heap, w[k - 1])
  <1>1. DOMAIN heap = D
    BY DEF ListOf, Heap
  <1>2. get_head(heap, n) = value[N]
    BY <1>1 DEF get_head, back
  <1>3. N \in Nat /\ nodes \subseteq Int
    BY FS_CardinalityType, Neighbours
  <1>4. \E w : Walks(N, w)
    <2> DEFINE S == {K \in Nat : \E w : Walks(K, w)}
    <2>1. 0 \in S
      <3> DEFINE w == [k \in 0 .. 0 |-> n]
      <3>1. Walks(0, w)
        OBVIOUS
      <3> HIDE DEF w, Walks
      <3> QED BY <3>1
    <2>2. ASSUME NEW K \in Nat, K \in S PROVE K + 1 \in S
      <3>1. PICK w : Walks(K, w)
        BY <2>2
      <3> DEFINE z == [k \in 0 .. K + 1 |-> IF k = K + 1 THEN back(heap, w[K]) ELSE w[k]]
      <3>2. w \in [0 .. K -> nodes] /\ w[0] = n /\ \A k \in 1 .. K : w[k] = back(heap, w[k - 1])
        BY <3>1
      <3>3. w[K] \in nodes /\ \A k \in 0 .. K : w[k] \in nodes
        BY <3>2
      <3>4. back(heap, w[K]) \in nodes
        BY <3>3, BackStep
      <3>5. z[0] = n /\ z[K + 1] = back(heap, w[K]) /\ \A k \in 0 .. K : z[k] = w[k]
        BY <3>2
      <3>6. z \in [0 .. K + 1 -> nodes]
        BY <3>3, <3>4
      <3> HIDE DEF z
      <3>7. ASSUME NEW k \in 1 .. K + 1 PROVE z[k] = back(heap, z[k - 1])
        <4>1. CASE k = K + 1
          <5>1. k - 1 = K /\ K \in 0 .. K
            BY <4>1
          <5> QED BY <3>5, <4>1, <5>1
        <4>2. CASE k # K + 1
          <5>1. k \in 1 .. K /\ k \in 0 .. K /\ k - 1 \in 0 .. K
            BY <4>2
          <5> QED BY <3>2, <3>5, <5>1
        <4> QED BY <4>1, <4>2
      <3>8. Walks(K + 1, z)
        BY <3>5, <3>6, <3>7
      <3> HIDE DEF Walks
      <3> QED BY <3>8
    <2> HIDE DEF S, N
    <2>3. N \in S
      BY <1>3, <2>1, <2>2, SetInduction
    <2> HIDE DEF Walks
    <2> QED BY <2>3 DEF S
  <1>5. value = Rec(value)
    <2>1. PICK w : Walks(N, w)
      BY <1>4
    <2>2. w = Rec(w)
      <3>1. /\ w \in [0 .. N -> nodes] /\ w[0] = n
            /\ \A k \in 1 .. N : w[k] = back(heap, w[k - 1])
        BY <2>1
      <3>2. w = [k \in 0 .. N |-> w[k]]
        BY <3>1
      <3>3. \A k \in 0 .. N : w[k] = IF k = 0 THEN n ELSE back(heap, w[k - 1])
        <4> HIDE DEF N
        <4> QED BY <1>3, <3>1
      <3> HIDE DEF N
      <3> QED BY <3>2, <3>3
    <2> HIDE DEF Rec
    <2> QED BY <2>2
  <1> DEFINE S == {k \in Nat : k <= N => value[k] \in nodes /\ Cardinality(Below(nodes, value[k])) <= N - k}
  <1> HIDE DEF value
  <1>6. ASSUME NEW x \in nodes PROVE Cardinality(Below(nodes, x)) \in 0 .. N
    <2>1. Below(nodes, x) \in SUBSET D
      BY DEF Below, ListOf
    <2> QED BY <1>3, <2>1, BackStep, FS_Subset
  <1>7. \A k \in Nat : k \in S
    <2>1. 0 \in S
      <3>1. value[0] = n
        BY <1>3, <1>5
      <3> QED BY <1>3, <1>6, <3>1
    <2>2. ASSUME NEW k \in Nat, k \in S PROVE k + 1 \in S
      <3> SUFFICES ASSUME k + 1 <= N
                   PROVE  value[k + 1] \in nodes /\ Cardinality(Below(nodes, value[k + 1])) <= N - (k + 1)
        OBVIOUS
      <3>1. value[k] \in nodes /\ Cardinality(Below(nodes, value[k])) <= N - k
        BY <1>3, <2>2
      <3>2. value[k + 1] = back(heap, value[k])
        <4>1. k + 1 \in 0 .. N /\ k + 1 # 0 /\ (k + 1) - 1 = k
          BY <1>3
        <4> HIDE DEF N
        <4> QED BY <1>5, <4>1
      <3>3. /\ value[k + 1] \in nodes
            /\ Cardinality(Below(nodes, value[k])) \in Nat
            /\ \/ Cardinality(Below(nodes, value[k + 1])) = 0
               \/ Cardinality(Below(nodes, value[k + 1])) = Cardinality(Below(nodes, value[k])) - 1
        BY <3>1, <3>2, BackStep
      <3> HIDE DEF N
      <3> QED BY <1>3, <3>1, <3>3
    <2> HIDE DEF S
    <2> QED BY <2>1, <2>2, SetInduction
  <1>8. value[N] \in nodes /\ Cardinality(Below(nodes, value[N])) = 0
    <2>1. value[N] \in nodes /\ Cardinality(Below(nodes, value[N])) <= N - N
      BY <1>3, <1>7
    <2>2. Cardinality(Below(nodes, value[N])) \in 0 .. N
      BY <1>6, <2>1
    <2> HIDE DEF N
    <2>3. N - N = 0
      BY <1>3
    <2>4. \A c \in 0 .. N : c <= 0 => c = 0
      BY <1>3
    <2> QED BY <2>1, <2>2, <2>3, <2>4
  <1>9. Below(nodes, value[N]) = {}
    <2>1. IsFiniteSet(Below(nodes, value[N]))
      <3>1. Below(nodes, value[N]) \in SUBSET D
        BY DEF Below, ListOf
      <3> QED BY <3>1, FS_Subset
    <2> QED BY <1>8, <2>1, FS_EmptySet
  <1>10. \A k \in nodes : ~ (k < value[N])
    BY <1>9 DEF Below
  <1>11. \A k \in nodes : value[N] <= k
    <2> SUFFICES ASSUME NEW k \in nodes PROVE value[N] <= k
      OBVIOUS
    <2>1. k \in Int /\ value[N] \in Int /\ ~ (k < value[N])
      BY <1>3, <1>8, <1>10
    <2> HIDE DEF N
    <2> QED BY <2>1
  <1> HIDE DEF N
  <1> QED BY <1>2, <1>8, <1>11, Zenon

-----------------------------------------------------------------------------
\* The batch codes.

made == Cardinality(DOMAIN matches)
UpTo(x) == {c \in Unmatched : c <= x}
Searched(x) == \A c \in UpTo(x) : ~ Contains(c, index)
Left == {-1} \union (made .. t - 1)

BatchTypes ==
  /\ <<t, m>> \in Shapes /\ method \in {"bst", "ll"}
  /\ stage \in {"draw", "drawn", "bst", "ll", "ok", "failed", "done", "undefined"}
  /\ sanity \in 0 .. limit /\ already_exists \in BOOLEAN
  /\ header \in Key
  /\ fed \in 0 .. size * d /\ batches \in [0 .. m - 1 -> Seq(Key)]
  /\ j \in -1 .. t \/ j = NULL
  /\ element \in -1 .. m - 1 /\ skipped \in 0 .. m - 1
  /\ mpfss_vector \in [Key -> BOOLEAN]

\* Match k is of a batch that has its value at the position.
Fits(k) ==
  /\ matches[k].batch \in 0 .. m - 1
  /\ matches[k].index_in_batch \in 0 .. Len(batches[matches[k].batch]) - 1
  /\ batches[matches[k].batch][matches[k].index_in_batch + 1] = matches[k].val

FitOnce ==
  /\ IsFiniteSet(DOMAIN matches)
  /\ \A k \in DOMAIN matches : Fits(k)
  /\ \A k, l \in DOMAIN matches : matches[k].batch = matches[l].batch => k = l

\* The matches are of the first indices.
BstMatches == method = "bst" =>
  /\ \A k \in DOMAIN matches : matches[k].batch = k
  /\ made <= t
  /\ {matches[k].val : k \in DOMAIN matches} = {indices[k] : k \in 0 .. made - 1}

LlMatches == method = "ll" =>
  /\ DOMAIN matches = 0 .. made - 1 /\ made <= t + 1
  /\ \A k \in DOMAIN matches : matches[k].val = IF k < t THEN indices[k] ELSE header

BatchList ==
  IF method = "bst" THEN ListOf(batch_list, 0 .. m - 1, Unmatched)
  ELSE ListOf(batch_list, Unmatched \union {-1}, Unmatched \union {-1})

IndexList == method = "ll" /\ j # NULL => ListOf(index_list, Left, Left)

\* Where the search is.
BeforeInv == stage \in {"draw", "drawn"} => matches = <<>> /\ j = 0 /\ element = 0 /\ skipped = 0

BstInv == stage = "bst" =>
  /\ method = "bst" /\ j = made /\ element \in Unmatched
  /\ j < t => Searched(element - 1)

LlInv == stage = "ll" =>
  /\ method = "ll" /\ made <= t /\ j = IF made < t THEN made ELSE -1
  /\ element \in Unmatched \union {-1}
  /\ skipped = Cardinality(UpTo(element)) /\ skipped < m - made
  /\ Searched(element)

EndInv ==
  /\ stage = "failed" => \A c \in Unmatched : ~ Contains(c, index)
  /\ stage \in {"ok", "done"} => made = IF m <= t THEN m ELSE IF method = "bst" THEN t ELSE t + 1
  /\ stage = "done" =>
       \A x \in Key : mpfss_vector[x] <=> \E k \in DOMAIN matches : matches[k].val = x

MatchInv == FitOnce /\ BstMatches /\ LlMatches
StageInv == BeforeInv /\ BstInv /\ LlInv /\ EndInv
BatchInv == DrawInv /\ BatchTypes /\ MatchInv /\ BatchList /\ IndexList /\ StageInv

-----------------------------------------------------------------------------
\* Numbers of indices and of batches.
LEMMA ShapeFacts ==
  ASSUME BatchTypes
  PROVE  /\ t \in Nat \ {0} /\ m \in Nat \ {0} /\ limit \in Nat
         /\ NULL \notin Int /\ d \in Nat \ {0} /\ size \in Nat \ {0, 1}
  <1>1. t \in Nat \ {0} /\ m \in Nat \ {0}
    BY BatchAssumption DEF BatchTypes
  <1>2. LimitPerIndex \in Nat
    BY IndicesAssumption
  <1>3. t * LimitPerIndex \in Nat
    BY <1>1, <1>2
  <1> QED BY <1>1, <1>3, BatchAssumption, IndicesAssumption DEF limit

\* How many batches have no match.
LEMMA UnmatchedSize ==
  ASSUME m \in Nat, FitOnce
  PROVE  /\ Unmatched \subseteq 0 .. m - 1 /\ IsFiniteSet(Unmatched)
         /\ made \in 0 .. m /\ Cardinality(Unmatched) = m - made
  <1> DEFINE Taken == {matches[k].batch : k \in DOMAIN matches}
             f == [k \in DOMAIN matches |-> matches[k].batch]
             A == 0 .. m - 1
  <1>1. InjectiveOn(f, DOMAIN matches) /\ ImageOf(f, DOMAIN matches) = Taken
    BY DEF FitOnce, InjectiveOn, ImageOf
  <1>2. IsFiniteSet(Taken) /\ Cardinality(Taken) = made
    <2> HIDE DEF f, Taken
    <2> QED BY <1>1, ImageSize DEF FitOnce, made
  <1>3. Taken \in SUBSET A
    BY DEF FitOnce, Fits
  <1>4. IsFiniteSet(A) /\ Cardinality(A) = m
    <2>1. 0 \in Int /\ m - 1 \in Int
      OBVIOUS
    <2>2. IsFiniteSet(0 .. m - 1) /\ Cardinality(0 .. m - 1) = IF 0 > m - 1 THEN 0 ELSE (m - 1) - 0 + 1
      BY <2>1, FS_Interval
    <2> QED BY <2>2
  <1>5. Unmatched = A \ Taken
    BY DEF Unmatched
  <1> HIDE DEF Taken, A
  <1>6. Cardinality(Taken) <= Cardinality(A) /\ Cardinality(Taken) \in Nat
    BY <1>2, <1>3, <1>4, FS_Subset, FS_CardinalityType
  <1>7. A \intersect Taken = Taken
    BY <1>3
  <1>8. IsFiniteSet(A \ Taken) /\ Cardinality(A \ Taken) = Cardinality(A) - Cardinality(Taken)
    BY <1>4, <1>7, FS_Difference
  <1> QED BY <1>2, <1>4, <1>5, <1>6, <1>8 DEF A

\* A batch is searched in vain if and only if it does not contain the index.
LEMMA PlacesOrNot ==
  ASSUME BatchTypes, NEW c \in 0 .. m - 1
  PROVE  Places(c) = {} <=> ~ Contains(c, index)
  <1>1. batches[c] \in Seq(Key)
    BY DEF BatchTypes
  <1> DEFINE s == batches[c]
             v == index
  <1> HIDE DEF s, v
  <1>2. Len(s) \in Nat /\ DOMAIN s = 1 .. Len(s)
    BY <1>1 DEF s
  <1>3. (\E p \in 0 .. Len(s) - 1 : s[p + 1] = v) <=> (\E p \in 1 .. Len(s) : s[p] = v)
    <2>1. ASSUME NEW p \in 0 .. Len(s) - 1, s[p + 1] = v PROVE \E q \in 1 .. Len(s) : s[q] = v
      <3>1. p + 1 \in 1 .. Len(s)
        BY <1>2
      <3> QED BY <2>1, <3>1
    <2>2. ASSUME NEW p \in 1 .. Len(s), s[p] = v PROVE \E q \in 0 .. Len(s) - 1 : s[q + 1] = v
      <3>1. p - 1 \in 0 .. Len(s) - 1 /\ (p - 1) + 1 = p
        BY <1>2
      <3> QED BY <2>2, <3>1
    <2> QED BY <2>1, <2>2
  <1>4. Places(c) = {p \in 0 .. Len(s) - 1 : s[p + 1] = v}
    BY DEF Places, s, v
  <1>5. Contains(c, index) <=> \E p \in DOMAIN s : s[p] = v
    BY DEF Contains, s, v
  <1> QED BY <1>2, <1>3, <1>4, <1>5

\* Without any match.
LEMMA NoMatches ==
  ASSUME BatchTypes, matches = <<>>
  PROVE  made = 0 /\ Unmatched = 0 .. m - 1 /\ MatchInv
  <1>1. DOMAIN matches = {}
    OBVIOUS
  <1>2. made = 0 /\ IsFiniteSet(DOMAIN matches)
    BY <1>1, FS_EmptySet DEF made
  <1>3. Unmatched = 0 .. m - 1
    BY <1>1 DEF Unmatched
  <1>4. 0 .. 0 - 1 = {} /\ t \in Nat
    BY ShapeFacts
  <1>5. FitOnce
    BY <1>1, <1>2 DEF FitOnce
  <1>6. BstMatches
    BY <1>1, <1>2, <1>4 DEF BstMatches
  <1>7. LlMatches
    BY <1>1, <1>2, <1>4 DEF LlMatches
  <1> QED BY <1>2, <1>3, <1>5, <1>6, <1>7 DEF MatchInv

\* What nothing but a match changes.
LEMMA MatchesKept ==
  ASSUME UNCHANGED <<t, m, method, header, indices, batches, matches>>
  PROVE  /\ made' = made /\ Unmatched' = Unmatched /\ Left' = Left
         /\ MatchInv => MatchInv'
  <1>1. made' = made /\ Unmatched' = Unmatched
    BY DEF made, Unmatched
  <1>2. Left' = Left
    BY <1>1 DEF Left
  <1>3. FitOnce => FitOnce'
    BY DEF FitOnce, Fits
  <1>4. BstMatches => BstMatches'
    BY <1>1 DEF BstMatches
  <1>5. LlMatches => LlMatches'
    BY <1>1 DEF LlMatches
  <1> QED BY <1>1, <1>2, <1>3, <1>4, <1>5 DEF MatchInv

\* The indices are drawn once and for all.
LEMMA DrawKept ==
  ASSUME DrawInv, UNCHANGED selection, stage # "draw", stage' # "draw"
  PROVE  DrawInv'
  BY DEF DrawInv, DrawTypeOK, IndicesDistinct, selection

\* One match more: of a batch without one, under a new number.
LEMMA MatchAdds ==
  ASSUME BatchTypes, FitOnce, NEW k, k \notin DOMAIN matches, NEW c \in Unmatched,
         NEW pos, First(c, pos), matches' = With(matches, k, pointinfo(c, pos)),
         m' = m, batches' = batches
  PROVE  /\ FitOnce' /\ made' = made + 1 /\ Unmatched' = Unmatched \ {c}
         /\ DOMAIN matches' = DOMAIN matches \union {k}
         /\ matches'[k].val = index /\ matches'[k].batch = c
         /\ \A x \in DOMAIN matches : matches'[x] = matches[x]
  <1> DEFINE new == pointinfo(c, pos)
  <1>1. new.val = index /\ new.batch = c /\ new.index_in_batch = pos
    BY DEF pointinfo
  <1>2. /\ c \in 0 .. m - 1 /\ pos \in 0 .. Len(batches[c]) - 1 /\ batches[c][pos + 1] = index
        /\ \A x \in DOMAIN matches : matches[x].batch # c
    BY DEF First, Places, Unmatched
  <1> HIDE DEF new
  <1>3. /\ DOMAIN matches' = DOMAIN matches \union {k} /\ matches'[k] = new
        /\ \A x \in DOMAIN matches : matches'[x] = matches[x]
    BY DEF With, new
  <1>4. IsFiniteSet(DOMAIN matches') /\ made' = made + 1
    <2>1. IsFiniteSet(DOMAIN matches)
      BY DEF FitOnce
    <2> QED BY <1>3, <2>1, FS_AddElement, Zenon DEF made
  <1>5. Unmatched' = Unmatched \ {c}
    <2>1. {matches'[x].batch : x \in DOMAIN matches'} = {matches[x].batch : x \in DOMAIN matches} \union {c}
      BY <1>1, <1>3
    <2> QED BY <2>1 DEF Unmatched
  <1>6. \A x \in DOMAIN matches' : Fits(x)'
    <2> SUFFICES ASSUME NEW x \in DOMAIN matches' PROVE Fits(x)'
      OBVIOUS
    <2>1. CASE x = k
      BY <1>1, <1>2, <1>3, <2>1 DEF Fits
    <2>2. CASE x # k
      <3>1. x \in DOMAIN matches /\ matches'[x] = matches[x]
        BY <1>3, <2>2
      <3>2. Fits(x)
        BY <3>1 DEF FitOnce
      <3> QED BY <3>1, <3>2 DEF Fits
    <2> QED BY <2>1, <2>2
  <1>7. \A x, z \in DOMAIN matches' : matches'[x].batch = matches'[z].batch => x = z
    BY <1>1, <1>2, <1>3 DEF FitOnce
  <1>8. FitOnce'
    BY <1>4, <1>6, <1>7 DEF FitOnce
  <1> QED BY <1>1, <1>3, <1>4, <1>5, <1>8

-----------------------------------------------------------------------------
\* In the beginning there are neither elements nor matches.
LEMMA BatchInit == BInit => BatchInv
  <1> SUFFICES ASSUME BInit PROVE BatchInv
    OBVIOUS
  <1>1. <<t, m>> \in Shapes
    <2>1. PICK s \in Shapes : t = s[1] /\ m = s[2]
      BY DEF BInit
    <2>2. s = <<s[1], s[2]>>
      BY BatchAssumption
    <2> QED BY <2>1, <2>2
  <1>2. t \in Nat \ {0} /\ m \in Nat \ {0} /\ NULL \notin Int
    BY <1>1, BatchAssumption
  <1>3. BatchTypes
    <2>1. 0 \in Key /\ 0 \in 0 .. m - 1 /\ 0 \in -1 .. m - 1 /\ 0 \in -1 .. t
      BY <1>2, IndicesAssumption DEF Key
    <2>2. 0 \in 0 .. size * d
      <3>1. size \in Nat /\ d \in Nat
        BY IndicesAssumption, BatchAssumption
      <3>2. size * d \in Nat
        BY <3>1
      <3> QED BY <3>2
    <2>3. 0 \in 0 .. limit
      <3>1. LimitPerIndex \in Nat
        BY IndicesAssumption
      <3>2. t * LimitPerIndex \in Nat
        BY <1>2, <3>1
      <3> QED BY <3>2 DEF limit
    <2>4. batches \in [0 .. m - 1 -> Seq(Key)]
      BY DEF BInit
    <2>5. sanity = 0 /\ already_exists = FALSE /\ stage = "draw"
      BY DEF BInit, IInit
    <2> QED BY <1>1, <2>1, <2>2, <2>3, <2>4, <2>5 DEF BInit, BatchTypes
  <1>4. DrawInv
    BY <1>2, DrawInit DEF BInit
  <1>5. stage = "draw" /\ matches = <<>> /\ j = 0 /\ element = 0 /\ skipped = 0
    BY DEF BInit, IInit
  <1>6. made = 0 /\ Unmatched = 0 .. m - 1 /\ MatchInv
    BY <1>3, <1>5, NoMatches
  <1>7. StageInv
    BY <1>5 DEF StageInv, BeforeInv, BstInv, LlInv, EndInv
  <1>8. BatchList
    <2>1. CASE method = "bst"
      <3>1. batch_list = NewList(0, m - 1) /\ 0 \in Int /\ m - 1 \in Int /\ 0 <= m - 1
        BY <1>2, <2>1 DEF BInit
      <3> QED BY <1>2, <1>6, <2>1, <3>1, NewListLinked DEF BatchList
    <2>2. CASE method # "bst"
      <3>1. batch_list = NewList(-1, m - 1) /\ -1 \in Int /\ m - 1 \in Int /\ -1 <= m - 1
        BY <1>2, <2>2 DEF BInit
      <3>2. -1 .. m - 1 = Unmatched \union {-1}
        BY <1>2, <1>6
      <3>3. ListOf(batch_list, -1 .. m - 1, -1 .. m - 1)
        BY <1>2, <3>1, NewListLinked
      <3> QED BY <2>2, <3>2, <3>3 DEF BatchList
    <2> QED BY <2>1, <2>2
  <1>9. IndexList
    <2> SUFFICES ASSUME method = "ll" PROVE ListOf(index_list, Left, Left)
      BY DEF IndexList
    <2>1. index_list = NewList(-1, t - 1) /\ -1 \in Int /\ t - 1 \in Int /\ -1 <= t - 1
      BY <1>2 DEF BInit
    <2>2. -1 .. t - 1 = Left
      BY <1>2, <1>6 DEF Left
    <2>3. ListOf(index_list, -1 .. t - 1, -1 .. t - 1)
      BY <1>2, <2>1, NewListLinked
    <2> QED BY <2>2, <2>3
  <1> QED BY <1>3, <1>4, <1>6, <1>7, <1>8, <1>9 DEF BatchInv

\* Drawing the indices.
LEMMA SelectStep == BatchInv /\ Select => BatchInv'
  <1> SUFFICES ASSUME BatchInv, Select PROVE BatchInv'
    OBVIOUS
  <1>1. /\ stage = "draw" /\ stage' \in {"draw", "drawn"} /\ t' = t
        /\ sanity' = sanity \/ (sanity < limit /\ sanity' = sanity + 1)
        /\ already_exists \in BOOLEAN => already_exists' \in BOOLEAN
    BY DEF Select, INext, DrawIndex, Drawn, Consecutive
  <1>2. UNCHANGED <<method, m, header, batches, fed, batch_list, index_list, j, element, skipped,
                    matches, mpfss_vector>>
    BY DEF Select, content
  <1>3. DrawInv'
    BY DrawStep DEF BatchInv, Select
  <1>4. BatchTypes
    BY DEF BatchInv
  <1>5. BatchTypes'
    <2>1. sanity' \in 0 .. limit /\ limit' = limit
      <3>1. limit \in Nat /\ sanity \in 0 .. limit
        BY <1>4, ShapeFacts DEF BatchTypes
      <3>2. limit' = limit
        BY <1>1 DEF limit
      <3> QED BY <1>1, <3>1, <3>2
    <2> QED BY <1>1, <1>2, <1>4, <2>1 DEF BatchTypes
  <1>6. matches = <<>> /\ j = 0 /\ element = 0 /\ skipped = 0
    BY <1>1 DEF BatchInv, StageInv, BeforeInv
  <1>7. MatchInv'
    <2>1. (BatchTypes /\ matches = <<>> => MatchInv)'
      BY NoMatches, PTL
    <2> QED BY <1>2, <1>5, <1>6, <2>1
  <1>8. made' = made /\ Unmatched' = Unmatched /\ Left' = Left
    BY <1>1, <1>2 DEF made, Unmatched, Left
  <1>9. BatchList' /\ IndexList'
    BY <1>2, <1>8 DEF BatchInv, BatchList, IndexList
  <1>10. StageInv'
    BY <1>1, <1>2, <1>6 DEF StageInv, BeforeInv, BstInv, LlInv, EndInv
  <1> QED BY <1>3, <1>5, <1>7, <1>9, <1>10 DEF BatchInv

\* A number below size, d times each.
LEMMA ElementIsKey ==
  ASSUME BatchTypes, fed < size * d
  PROVE  fed \div d \in Key /\ fed + 1 \in 0 .. size * d
  <1>1. fed \in Nat /\ d \in Nat \ {0} /\ size \in Nat
    BY ShapeFacts DEF BatchTypes
  <1> DEFINE q == fed \div d
             r == fed % d
  <1>2. q \in Nat /\ r \in 0 .. d - 1 /\ fed = d * q + r
    BY <1>1
  <1> HIDE DEF q, r
  <1>3. ~ (size <= q)
    <2> SUFFICES ASSUME size <= q PROVE FALSE
      OBVIOUS
    <2>1. size * d <= q * d /\ q * d = d * q /\ q * d \in Nat /\ size * d \in Nat
      BY <1>1, <1>2, Products
    <2> QED BY <1>1, <1>2, <2>1
  <1>4. size * d \in Nat
    BY <1>1
  <1> QED BY <1>1, <1>2, <1>3, <1>4 DEF Key, q

LEMMA CreateElementStep == BatchInv /\ CreateElement => BatchInv'
  <1> SUFFICES ASSUME BatchInv, CreateElement PROVE BatchInv'
    OBVIOUS
  <1>1. stage = "drawn" /\ stage' = stage /\ fed < size * d
    BY DEF CreateElement
  <1>2. UNCHANGED <<selection, method, m, header, batch_list, index_list, j, element, skipped,
                    matches, mpfss_vector>>
    BY DEF CreateElement, shape
  <1>3. PICK r_a, r_b \in 0 .. m - 1 :
          /\ batches' = [batches EXCEPT ![(r_a + r_b) % m] = Append(@, fed \div d)]
          /\ fed' = fed + 1
    BY DEF CreateElement, PutInto
  <1>4. BatchTypes /\ m \in Nat \ {0}
    BY ShapeFacts DEF BatchInv
  <1>5. BatchTypes'
    <2>1. (r_a + r_b) % m \in 0 .. m - 1
      BY <1>4
    <2>2. fed' \in 0 .. size * d /\ fed \div d \in Key
      BY <1>1, <1>3, <1>4, ElementIsKey
    <2>3. batches' \in [0 .. m - 1 -> Seq(Key)]
      <3> DEFINE r == (r_a + r_b) % m
      <3>1. batches \in [0 .. m - 1 -> Seq(Key)] /\ r \in 0 .. m - 1
        BY <1>4, <2>1 DEF BatchTypes
      <3>2. Append(batches[r], fed \div d) \in Seq(Key)
        <4> DEFINE K == Key
                   s == batches[r]
                   e == fed \div d
        <4>1. s \in Seq(K) /\ e \in K
          BY <2>2, <3>1
        <4> HIDE DEF K, s, e
        <4>2. Append(s, e) \in Seq(K)
          BY <4>1
        <4> QED BY <4>2 DEF K, s, e
      <3>3. batches' = [batches EXCEPT ![r] = Append(batches[r], fed \div d)]
        BY <1>3
      <3> HIDE DEF r
      <3> QED BY <3>1, <3>2, <3>3
    <2> QED BY <1>1, <1>2, <1>4, <2>2, <2>3 DEF BatchTypes, selection, limit
  <1>6. matches = <<>> /\ j = 0 /\ element = 0 /\ skipped = 0
    BY <1>1 DEF BatchInv, StageInv, BeforeInv
  <1>7. MatchInv'
    <2>1. (BatchTypes /\ matches = <<>> => MatchInv)'
      BY NoMatches, PTL
    <2> QED BY <1>2, <1>5, <1>6, <2>1
  <1>8. made' = made /\ Unmatched' = Unmatched /\ Left' = Left
    BY <1>1, <1>2 DEF made, Unmatched, Left, selection
  <1>9. BatchList' /\ IndexList'
    BY <1>2, <1>8 DEF BatchInv, BatchList, IndexList
  <1>10. StageInv'
    BY <1>1, <1>2, <1>6 DEF StageInv, BeforeInv, BstInv, LlInv, EndInv
  <1>11. DrawInv'
    BY <1>1, <1>2, DrawKept DEF BatchInv
  <1> QED BY <1>5, <1>7, <1>9, <1>10, <1>11 DEF BatchInv

\* The search begins in front of the first batch, or with it.
LEMMA BeginStep == BatchInv /\ BeginMatching => BatchInv'
  <1> SUFFICES ASSUME BatchInv, BeginMatching PROVE BatchInv'
    OBVIOUS
  <1>1. /\ stage = "drawn" /\ stage' = method
        /\ element' = IF method = "bst" THEN 0 ELSE -1
        /\ header' \in IF method = "bst" THEN {0} ELSE Key
        /\ UNCHANGED <<selection, method, m, batches, fed, batch_list, index_list, j, skipped,
                       matches, mpfss_vector>>
    BY DEF BeginMatching, content
  <1>2. /\ BatchTypes /\ m \in Nat \ {0} /\ t \in Nat \ {0} /\ size \in Nat \ {0, 1}
        /\ method \in {"bst", "ll"}
    BY ShapeFacts DEF BatchInv, BatchTypes
  <1>3. BatchTypes'
    <2>1. header' \in Key /\ element' \in -1 .. m - 1 /\ stage' \in {"bst", "ll"}
      BY <1>1, <1>2 DEF Key
    <2> QED BY <1>1, <1>2, <2>1 DEF BatchTypes, selection, limit
  <1>4. matches = <<>> /\ j = 0 /\ element = 0 /\ skipped = 0
    BY <1>1 DEF BatchInv, StageInv, BeforeInv
  <1>5. made' = 0 /\ Unmatched' = 0 .. m - 1 /\ MatchInv'
    <2>1. (BatchTypes /\ matches = <<>> => made = 0 /\ Unmatched = 0 .. m - 1 /\ MatchInv)'
      BY NoMatches, PTL
    <2> QED BY <1>1, <1>3, <1>4, <2>1
  <1>6. made' = made /\ Unmatched' = Unmatched /\ Left' = Left
    BY <1>1 DEF made, Unmatched, Left, selection
  <1>7. BatchList' /\ IndexList'
    BY <1>1, <1>6 DEF BatchInv, BatchList, IndexList
  <1>8. UpTo(-1)' = {}
    BY <1>1, <1>2, <1>5 DEF UpTo
  <1>9. BstInv'
    <2> SUFFICES ASSUME method = "bst" PROVE BstInv'
      BY <1>1, <1>2 DEF BstInv
    <2>1. element' = 0 /\ element' - 1 = -1 /\ 0 \in Unmatched'
      BY <1>1, <1>2, <1>5
    <2>2. UpTo(element - 1)' = {}
      BY <1>8, <2>1 DEF UpTo
    <2>3. Searched(element - 1)'
      BY <2>2 DEF Searched
    <2> QED BY <1>1, <1>4, <1>5, <2>1, <2>3 DEF BstInv
  <1>10. LlInv'
    <2> SUFFICES ASSUME method = "ll" PROVE LlInv'
      BY <1>1, <1>2 DEF LlInv
    <2>1. UpTo(element)' = {} /\ element' = -1
      BY <1>1, <1>8 DEF UpTo
    <2>2. skipped' = Cardinality(UpTo(element)') /\ skipped' < m' - made'
      BY <1>1, <1>2, <1>4, <1>5, <2>1, FS_EmptySet
    <2>3. Searched(element)'
      BY <2>1 DEF Searched
    <2> QED BY <1>1, <1>2, <1>4, <1>5, <2>1, <2>2, <2>3 DEF LlInv, selection
  <1>11. BeforeInv' /\ EndInv'
    BY <1>1, <1>2 DEF BeforeInv, EndInv
  <1>12. DrawInv'
    BY <1>1, <1>2, DrawKept DEF BatchInv
  <1> QED BY <1>3, <1>5, <1>7, <1>9, <1>10, <1>11, <1>12 DEF BatchInv, StageInv

\* What the steps after the beginning leave alone.
Settled ==
  /\ UNCHANGED <<selection, method, m, header, batches, fed>>
  /\ stage \notin {"draw", "drawn"} /\ stage' \notin {"draw", "drawn"}

LEMMA SettledKeeps ==
  ASSUME BatchInv, Settled
  PROVE  /\ DrawInv' /\ BeforeInv' /\ UNCHANGED <<t, m, method, header, indices, batches>>
         /\ /\ stage' \in {"bst", "ll", "ok", "failed", "done", "undefined"}
            /\ j' \in -1 .. t \/ j' = NULL
            /\ element' \in -1 .. m - 1 /\ skipped' \in 0 .. m - 1
            /\ mpfss_vector' \in [Key -> BOOLEAN]
            => BatchTypes'
  <1>1. DrawInv'
    BY DrawKept DEF BatchInv, Settled
  <1>2. BeforeInv'
    BY DEF Settled, BeforeInv
  <1>3. BatchTypes /\ limit' = limit
    BY DEF BatchInv, Settled, selection, limit
  <1>4. UNCHANGED <<t, m, method, header, indices, batches, sanity, already_exists, fed>>
    BY DEF Settled, selection
  <1> QED BY <1>1, <1>2, <1>3, <1>4 DEF BatchTypes

\* The list of the batches, when the search goes through it.
LEMMA BatchesLinked ==
  ASSUME BatchInv, method = "bst"
  PROVE  /\ NULL \notin Int /\ 0 .. m - 1 \in SUBSET Int /\ IsFiniteSet(0 .. m - 1)
         /\ ListOf(batch_list, 0 .. m - 1, Unmatched)
         /\ t \in Nat \ {0} /\ m \in Nat \ {0}
         /\ Unmatched \subseteq 0 .. m - 1 /\ IsFiniteSet(Unmatched)
         /\ made \in 0 .. m /\ Cardinality(Unmatched) = m - made
  <1>1. NULL \notin Int /\ t \in Nat \ {0} /\ m \in Nat \ {0}
    BY ShapeFacts DEF BatchInv
  <1>2. /\ Unmatched \subseteq 0 .. m - 1 /\ IsFiniteSet(Unmatched)
        /\ made \in 0 .. m /\ Cardinality(Unmatched) = m - made
    BY <1>1, UnmatchedSize DEF BatchInv, MatchInv
  <1>3. IsFiniteSet(0 .. m - 1)
    <2>1. 0 \in Int /\ m - 1 \in Int
      BY <1>1
    <2> QED BY <2>1, FS_Interval
  <1>4. ListOf(batch_list, 0 .. m - 1, Unmatched)
    BY DEF BatchInv, BatchList
  <1> QED BY <1>1, <1>2, <1>3, <1>4

\* A match in method "bst" is one more match, and of one more index.
LEMMA BstMatches1 ==
  ASSUME BatchInv, method = "bst", stage = "bst", j < t,
         NEW pos, First(element, pos), matches' = With(matches, element, pointinfo(element, pos)),
         UNCHANGED <<t, m, method, indices, batches>>
  PROVE  /\ MatchInv' /\ made' = made + 1 /\ Unmatched' = Unmatched \ {element}
         /\ j = made /\ element \in Unmatched
  <1>1. j = made /\ element \in Unmatched
    BY DEF BatchInv, StageInv, BstInv
  <1>2. BatchTypes /\ FitOnce /\ BstMatches /\ made \in 0 .. m /\ t \in Nat /\ m \in Nat
    BY BatchesLinked DEF BatchInv, MatchInv
  <1>3. element \notin DOMAIN matches
    BY <1>1, <1>2 DEF BstMatches, Unmatched
  <1>4. /\ FitOnce' /\ made' = made + 1 /\ Unmatched' = Unmatched \ {element}
        /\ DOMAIN matches' = DOMAIN matches \union {element}
        /\ matches'[element].val = index /\ matches'[element].batch = element
        /\ \A x \in DOMAIN matches : matches'[x] = matches[x]
    BY <1>1, <1>2, <1>3, MatchAdds
  <1>5. index = indices[made]
    BY <1>1, <1>2 DEF index
  <1>6. BstMatches'
    <2>1. \A k \in DOMAIN matches' : matches'[k].batch = k
      BY <1>2, <1>4 DEF BstMatches
    <2>2. made' <= t'
      BY <1>1, <1>2, <1>4
    <2>3. {matches'[k].val : k \in DOMAIN matches'} = {matches[k].val : k \in DOMAIN matches} \union {index}
      BY <1>3, <1>4
    <2>4. {indices[k] : k \in 0 .. made' - 1} = {indices[k] : k \in 0 .. made - 1} \union {indices[made]}
      <3>1. made \in Nat /\ 0 .. made' - 1 = (0 .. made - 1) \union {made}
        BY <1>2, <1>4
      <3> QED BY <3>1
    <2>5. {matches'[k].val : k \in DOMAIN matches'} = {indices'[k] : k \in 0 .. made' - 1}
      <3>1. {matches[k].val : k \in DOMAIN matches} = {indices[k] : k \in 0 .. made - 1}
        BY <1>2 DEF BstMatches
      <3>2. {indices'[k] : k \in 0 .. made' - 1} = {indices[k] : k \in 0 .. made' - 1}
        OBVIOUS
      <3> QED BY <1>5, <2>3, <2>4, <3>1, <3>2, Zenon
    <2> QED BY <2>1, <2>2, <2>5 DEF BstMatches
  <1>7. LlMatches'
    BY DEF LlMatches
  <1> QED BY <1>1, <1>4, <1>6, <1>7 DEF MatchInv

LEMMA BstMatchStep == BatchInv /\ BstMatch => BatchInv'
  <1> SUFFICES ASSUME BatchInv, BstMatch PROVE BatchInv'
    OBVIOUS
  <1>1. /\ stage = "bst" /\ j < t /\ element < t /\ stage' \in {"bst", "ok"}
        /\ batch_list' = delink(batch_list, element)
        /\ UNCHANGED <<selection, method, m, header, batches, fed, index_list, skipped, mpfss_vector>>
    BY DEF BstMatch, shape, content
  <1>2. method = "bst" /\ BatchTypes
    BY <1>1 DEF BatchInv, StageInv, BstInv
  <1>3. PICK pos : First(element, pos) /\ matches' = With(matches, element, pointinfo(element, pos))
    BY DEF BstMatch
  <1>4. /\ MatchInv' /\ made' = made + 1 /\ Unmatched' = Unmatched \ {element}
        /\ j = made /\ element \in Unmatched
    BY <1>1, <1>2, <1>3, BstMatches1 DEF selection
  <1> DEFINE D == 0 .. m - 1
             next == after(batch_list, element)
  <1>5. /\ NULL \notin Int /\ D \in SUBSET Int /\ IsFiniteSet(D)
        /\ ListOf(batch_list, D, Unmatched)
        /\ t \in Nat \ {0} /\ m \in Nat \ {0}
        /\ Unmatched \subseteq D /\ IsFiniteSet(Unmatched)
        /\ made \in 0 .. m /\ Cardinality(Unmatched) = m - made
    BY <1>2, BatchesLinked
  <1>6. ListOf(batch_list', D, Unmatched')
    <2>1. batch_list \in Heap(D) /\ Unmatched \in SUBSET D /\ LinksExactly(batch_list, Unmatched)
      BY <1>5 DEF ListOf
    <2> HIDE DEF D
    <2> QED BY <1>1, <1>4, <1>5, <2>1, DelinkSkips, DelinkKeepsList DEF ListOf
  <1>7. BatchList' /\ IndexList'
    BY <1>1, <1>2, <1>6 DEF BatchList, IndexList
  <1>8. LlInv'
    BY <1>1, <1>2 DEF LlInv
  <1>9. /\ next = NULL <=> Unmatched = {element}
        /\ next # NULL => next \in Unmatched'
    <2> HIDE DEF D
    <2> QED BY <1>4, <1>5, AfterIs
  <1> HIDE DEF next, D
  <1>10. CASE next = NULL
    <2>1. stage' = "ok" /\ j' = j /\ element' = element
      BY <1>10 DEF BstMatch, next
    <2>2. Settled
      BY <1>1, <2>1 DEF Settled
    <2>3. m - made = 1 /\ made' = m
      <3>1. Cardinality(Unmatched) = 1
        BY <1>9, <1>10, FS_Singleton
      <3> QED BY <1>4, <1>5, <3>1
    <2>4. EndInv'
      <3>1. made' = m /\ m <= t /\ m' = m /\ t' = t
        BY <1>1, <1>4, <1>5, <2>3 DEF selection
      <3> QED BY <2>1, <3>1 DEF EndInv
    <2>5. BstInv'
      BY <2>1 DEF BstInv
    <2>6. BatchTypes'
      BY <1>1, <1>2, <2>1, <2>2, SettledKeeps DEF BatchTypes
    <2> QED BY <1>4, <1>7, <1>8, <2>2, <2>4, <2>5, <2>6, SettledKeeps DEF BatchInv, StageInv
  <1>11. CASE next # NULL
    <2>1. stage' = stage /\ j' = j + 1 /\ element' = get_head(batch_list', next)
      BY <1>11 DEF BstMatch, next
    <2>2. Settled
      BY <1>1, <2>1 DEF Settled
    <2>3. element' \in Unmatched' /\ \A k \in Unmatched' : element' <= k
      BY <1>5, <1>6, <1>9, <1>11, <2>1, HeadIs
    <2>4. element' \in 0 .. m - 1 /\ Unmatched' \subseteq Int
      BY <1>4, <1>5, <2>3 DEF D
    <2>5. UpTo(element - 1)' = {}
      <3>1. ASSUME NEW k \in Unmatched' PROVE ~ (k <= element' - 1)
        <4>1. k \in Int /\ element' \in Int /\ element' <= k
          BY <2>3, <2>4
        <4>2. \A x, z \in Int : z <= x => ~ (x <= z - 1)
          OBVIOUS
        <4> QED BY <4>1, <4>2, Zenon
      <3> QED BY <3>1 DEF UpTo
    <2>6. BstInv'
      <3>1. Searched(element - 1)'
        BY <2>5 DEF Searched
      <3> QED BY <1>1, <1>2, <1>4, <2>1, <2>3, <3>1 DEF BstInv
    <2>7. EndInv'
      BY <1>1, <2>1 DEF EndInv
    <2>8. BatchTypes'
      <3>1. j' \in -1 .. t
        BY <1>1, <1>4, <1>5, <2>1
      <3>2. element' \in -1 .. m - 1
        BY <1>5, <2>4
      <3> QED BY <1>1, <1>2, <2>1, <2>2, <3>1, <3>2, SettledKeeps DEF BatchTypes
    <2> QED BY <1>4, <1>7, <1>8, <2>2, <2>6, <2>7, <2>8, SettledKeeps DEF BatchInv, StageInv
  <1> QED BY <1>10, <1>11

LEMMA BstMissStep == BatchInv /\ BstMiss => BatchInv'
  <1> SUFFICES ASSUME BatchInv, BstMiss PROVE BatchInv'
    OBVIOUS
  <1>1. /\ stage = "bst" /\ j < t /\ Places(element) = {} /\ stage' \in {"bst", "failed"}
        /\ UNCHANGED <<selection, method, m, header, batches, fed, batch_list, index_list, j, skipped,
                       matches, mpfss_vector>>
    BY DEF BstMiss, shape, content
  <1>2. method = "bst" /\ BatchTypes /\ j = made /\ element \in Unmatched /\ Searched(element - 1)
    BY <1>1 DEF BatchInv, StageInv, BstInv
  <1> DEFINE D == 0 .. m - 1
             next == batch_list[element].next
  <1>3. /\ NULL \notin Int /\ D \in SUBSET Int /\ IsFiniteSet(D)
        /\ ListOf(batch_list, D, Unmatched)
        /\ t \in Nat \ {0} /\ m \in Nat \ {0}
        /\ Unmatched \subseteq D
    BY <1>2, BatchesLinked
  <1>4. ~ Contains(element, index)
    BY <1>1, <1>2, <1>3, PlacesOrNot
  <1>5. \A k \in Unmatched : k <= element => ~ Contains(k, index)
    <2> SUFFICES ASSUME NEW k \in Unmatched, k <= element, k # element PROVE ~ Contains(k, index)
      BY <1>4
    <2>1. k \in Int /\ element \in Int
      BY <1>2, <1>3
    <2>2. k <= element - 1
      BY <2>1
    <2> QED BY <1>2, <2>2 DEF Searched, UpTo
  <1>6. \/ next = NULL /\ \A k \in Unmatched : k <= element
        \/ next \in Unmatched /\ \A k \in Unmatched : k > element => k >= next
    <2>1. LinkedAt(batch_list, Unmatched, element)
      <3> HIDE DEF D
      <3> QED BY <1>2, <1>3, Neighbours
    <2> QED BY <2>1 DEF LinkedAt
  <1>7. MatchInv' /\ made' = made /\ Unmatched' = Unmatched /\ Left' = Left
    BY <1>1, MatchesKept DEF BatchInv, selection
  <1>8. BatchList' /\ IndexList'
    BY <1>1, <1>7 DEF BatchList, IndexList, BatchInv
  <1>9. LlInv'
    BY <1>1, <1>2 DEF LlInv
  <1>10. index' = index
    BY <1>1 DEF index, selection
  <1>11. ASSUME NEW k PROVE Contains(k, index)' <=> Contains(k, index)
    BY <1>1, <1>10 DEF Contains
  <1> HIDE DEF next
  <1>12. CASE next = NULL
    <2>1. stage' = "failed" /\ element' = element
      BY <1>12 DEF BstMiss, next
    <2>2. Settled
      BY <1>1, <2>1 DEF Settled
    <2>3. \A k \in Unmatched : ~ Contains(k, index)
      BY <1>3, <1>5, <1>6, <1>12
    <2>4. EndInv'
      BY <1>7, <1>11, <2>1, <2>3 DEF EndInv
    <2>5. BstInv'
      BY <2>1 DEF BstInv
    <2>6. BatchTypes'
      BY <1>1, <1>2, <2>1, <2>2, SettledKeeps DEF BatchTypes
    <2> QED BY <1>7, <1>8, <1>9, <2>2, <2>4, <2>5, <2>6, SettledKeeps DEF BatchInv, StageInv
  <1>13. CASE next # NULL
    <2>1. stage' = stage /\ element' = next
      BY <1>13 DEF BstMiss, next
    <2>2. Settled
      BY <1>1, <2>1 DEF Settled
    <2>3. next \in Unmatched /\ next \in D /\ \A k \in Unmatched : k > element => k >= next
      BY <1>3, <1>6, <1>13
    <2>4. ASSUME NEW k \in Unmatched, k <= next - 1 PROVE ~ Contains(k, index)
      <3>1. k \in Int /\ element \in Int /\ next \in Int
        BY <1>2, <1>3, <2>3
      <3>2. k <= element
        BY <2>3, <2>4, <3>1
      <3> QED BY <1>5, <3>2
    <2>5. Searched(element - 1)'
      <3>1. \A k \in UpTo(element - 1)' : k \in Unmatched /\ k <= next - 1
        BY <1>7, <2>1 DEF UpTo
      <3> QED BY <1>11, <2>4, <3>1 DEF Searched
    <2>6. BstInv'
      BY <1>1, <1>2, <1>7, <2>1, <2>3, <2>5 DEF BstInv, selection
    <2>7. EndInv'
      BY <1>1, <2>1 DEF EndInv
    <2>8. element' \in -1 .. m - 1
      BY <1>3, <2>1, <2>3
    <2>9. BatchTypes'
      BY <1>1, <1>2, <2>1, <2>2, <2>8, SettledKeeps DEF BatchTypes
    <2> QED BY <1>7, <1>8, <1>9, <2>2, <2>6, <2>7, <2>9, SettledKeeps DEF BatchInv, StageInv
  <1> QED BY <1>12, <1>13

\* The ways out of the search: all indices have a batch, or matches overruns.
LEMMA BstEndStep == BatchInv /\ (BstEnd \/ BstOverrun) => BatchInv'
  <1> SUFFICES ASSUME BatchInv, BstEnd \/ BstOverrun PROVE BatchInv'
    OBVIOUS
  <1>1. /\ UNCHANGED <<selection, method, m, header, batches, fed, batch_list, index_list, j, element,
                       skipped, matches, mpfss_vector>>
        /\ \/ stage = "bst" /\ j = t /\ stage' = "ok"
           \/ stage \in {"bst", "ok"} /\ stage' = "undefined"
    BY DEF BstEnd, BstOverrun, shape, content
  <1>2. Settled
    BY <1>1 DEF Settled
  <1>3. MatchInv' /\ made' = made /\ Unmatched' = Unmatched /\ Left' = Left
    BY <1>1, MatchesKept DEF BatchInv, selection
  <1>4. BatchList' /\ IndexList'
    BY <1>1, <1>3 DEF BatchList, IndexList, BatchInv
  <1>5. BstInv' /\ LlInv'
    BY <1>1 DEF BstInv, LlInv
  <1>6. BatchTypes'
    BY <1>1, <1>2, SettledKeeps DEF BatchTypes, BatchInv
  <1>7. EndInv'
    <2>1. CASE stage = "bst" /\ j = t /\ stage' = "ok"
      <3>1. method = "bst" /\ made = t /\ element \in Unmatched
        BY <2>1 DEF BatchInv, StageInv, BstInv
      <3>2. /\ IsFiniteSet(Unmatched) /\ Cardinality(Unmatched) = m - made /\ made \in 0 .. m
            /\ m \in Nat /\ t \in Nat
        BY <3>1, BatchesLinked
      <3>3. Cardinality(Unmatched) # 0
        BY <3>1, <3>2, FS_EmptySet
      <3>4. t < m
        BY <3>1, <3>2, <3>3
      <3> QED BY <1>1, <1>3, <2>1, <3>1, <3>2, <3>4 DEF EndInv, selection
    <2>2. CASE stage' = "undefined"
      BY <2>2 DEF EndInv
    <2> QED BY <1>1, <2>1, <2>2
  <1> QED BY <1>2, <1>3, <1>4, <1>5, <1>6, <1>7, SettledKeeps DEF BatchInv, StageInv

\* The vector has the values of the matches.
LEMMA CombineStep == BatchInv /\ CombineVectors => BatchInv'
  <1> SUFFICES ASSUME BatchInv, CombineVectors PROVE BatchInv'
    OBVIOUS
  <1>1. /\ stage = "ok" /\ method = "bst" /\ stage' = "done"
        /\ UNCHANGED <<selection, method, m, header, batches, fed, batch_list, index_list, j, element,
                       skipped, matches>>
    BY DEF CombineVectors, shape, content
  <1>2. mpfss_vector' = [x \in Key |-> \E c \in 0 .. m - 1 : \E pos \in 0 .. Len(batches[c]) - 1 :
                           batches[c][pos + 1] = x /\ vectors(c, pos)]
    BY DEF CombineVectors
  <1>3. Settled
    BY <1>1 DEF Settled
  <1>4. MatchInv' /\ made' = made /\ Unmatched' = Unmatched /\ Left' = Left
    BY <1>1, MatchesKept DEF BatchInv, selection
  <1>5. BatchList' /\ IndexList'
    BY <1>1, <1>4 DEF BatchList, IndexList, BatchInv
  <1>6. BstInv' /\ LlInv'
    BY <1>1 DEF BstInv, LlInv
  <1>7. BatchTypes'
    <2>1. mpfss_vector' \in [Key -> BOOLEAN]
      BY <1>2
    <2> QED BY <1>1, <1>3, <2>1, SettledKeeps DEF BatchTypes, BatchInv
  <1>8. ASSUME NEW x \in Key
        PROVE  mpfss_vector'[x] <=> \E k \in DOMAIN matches : matches[k].val = x
    <2>1. \A k \in DOMAIN matches : Fits(k) /\ matches[k].batch = k
      BY <1>1 DEF BatchInv, MatchInv, FitOnce, BstMatches
    <2>2. \A k \in DOMAIN matches :
            /\ k \in 0 .. m - 1 /\ matches[k].index_in_batch \in 0 .. Len(batches[k]) - 1
            /\ batches[k][matches[k].index_in_batch + 1] = matches[k].val
      BY <2>1 DEF Fits
    <2>3. mpfss_vector'[x] = \E c \in 0 .. m - 1 : \E pos \in 0 .. Len(batches[c]) - 1 :
            batches[c][pos + 1] = x /\ c \in DOMAIN matches /\ matches[c].index_in_batch = pos
      BY <1>2 DEF vectors
    <2> QED BY <2>2, <2>3
  <1>9. EndInv'
    BY <1>1, <1>4, <1>8 DEF EndInv, BatchInv, StageInv, selection
  <1> QED BY <1>3, <1>4, <1>5, <1>6, <1>7, <1>9, SettledKeeps DEF BatchInv, StageInv

-----------------------------------------------------------------------------
\* The search in a list of batches with a head: there is a batch behind the one in hand.
LEMMA CurrentBatch ==
  ASSUME BatchInv, stage = "ll"
  PROVE  /\ NULL \notin Int /\ t \in Nat \ {0} /\ m \in Nat \ {0} /\ method = "ll"
         /\ Unmatched \subseteq 0 .. m - 1 /\ IsFiniteSet(Unmatched)
         /\ made \in 0 .. m /\ Cardinality(Unmatched) = m - made
         /\ ListOf(batch_list, Unmatched \union {-1}, Unmatched \union {-1})
         /\ batch_current \in Unmatched
         /\ UpTo(batch_current) = UpTo(element) \union {batch_current}
         /\ Cardinality(UpTo(batch_current)) = skipped + 1
         /\ no_available_batches = m - made
  <1> DEFINE N == Unmatched \union {-1}
             c == batch_current
  <1>1. /\ method = "ll" /\ element \in N /\ skipped = Cardinality(UpTo(element))
        /\ skipped < m - made
    BY DEF BatchInv, StageInv, LlInv
  <1>2. NULL \notin Int /\ t \in Nat \ {0} /\ m \in Nat \ {0}
    BY ShapeFacts DEF BatchInv
  <1>3. /\ Unmatched \subseteq 0 .. m - 1 /\ IsFiniteSet(Unmatched)
        /\ made \in 0 .. m /\ Cardinality(Unmatched) = m - made
    BY <1>2, UnmatchedSize DEF BatchInv, MatchInv
  <1>4. ListOf(batch_list, N, N)
    BY <1>1 DEF BatchInv, BatchList
  <1>5. N \in SUBSET Int
    BY <1>2, <1>3
  <1>6. c = batch_list[element].next
    BY DEF batch_current
  <1>7. no_available_batches = m - made
    BY DEF no_available_batches, made
  <1> HIDE DEF N, c
  <1>8. \/ c = NULL /\ \A k \in N : k <= element
        \/ c \in N /\ c > element /\ \A k \in N : k > element => k >= c
    <2>1. LinkedAt(batch_list, N, element)
      BY <1>1, <1>2, <1>4, <1>5, Neighbours
    <2> QED BY <1>6, <2>1 DEF LinkedAt
  <1>9. \A k \in Unmatched : k \in N /\ k \in Int /\ k >= 0
    BY <1>2, <1>3 DEF N
  <1>10. c \in N /\ c > element /\ \A k \in N : k > element => k >= c
    <2> SUFFICES ASSUME \A k \in N : k <= element PROVE FALSE
      BY <1>8
    <2>1. UpTo(element) = Unmatched
      BY <1>9 DEF UpTo
    <2> QED BY <1>1, <1>2, <1>3, <2>1
  <1>11. element \in Int /\ element >= -1 /\ c \in Int
    BY <1>1, <1>2, <1>3, <1>5, <1>10 DEF N
  <1>12. c \in Unmatched
    <2>1. c # -1
      BY <1>10, <1>11
    <2> QED BY <1>10, <2>1 DEF N
  <1>13. UpTo(c) = UpTo(element) \union {c} /\ c \notin UpTo(element)
    <2>1. ASSUME NEW k \in Unmatched PROVE k <= c <=> k <= element \/ k = c
      <3>1. k \in Int /\ k \in N
        BY <1>9
      <3>2. k > element => k >= c
        BY <1>10, <3>1
      <3>3. c > element
        BY <1>10
      <3> QED BY <1>11, <3>1, <3>2, <3>3
    <2>2. ~ (c <= element)
      BY <1>10, <1>11
    <2> QED BY <1>12, <2>1, <2>2 DEF UpTo
  <1>14. Cardinality(UpTo(c)) = skipped + 1
    <2>1. IsFiniteSet(UpTo(element))
      <3>1. UpTo(element) \in SUBSET Unmatched
        BY DEF UpTo
      <3> QED BY <1>3, <3>1, FS_Subset
    <2>2. Cardinality(UpTo(element) \union {c}) =
            IF c \in UpTo(element) THEN Cardinality(UpTo(element)) ELSE Cardinality(UpTo(element)) + 1
      BY <2>1, FS_AddElement, Zenon
    <2> QED BY <1>1, <1>13, <2>2
  <1> QED BY <1>1, <1>2, <1>3, <1>4, <1>7, <1>12, <1>13, <1>14 DEF N, c

\* The next index is the one with the next number, and after the last the head.
LEMMA NextIndex ==
  ASSUME BatchInv, stage = "ll"
  PROVE  /\ made < t => /\ ListOf(del(index_list, j), Left \ {j}, Left \ {j})
                        /\ Left \ {j} = {-1} \union (made + 1 .. t - 1)
                        /\ after(index_list, j) = IF made + 1 < t THEN made + 1 ELSE -1
         /\ ~ (made < t) => made = t /\ after(index_list, j) = NULL
  <1>1. /\ NULL \notin Int /\ t \in Nat \ {0} /\ made \in Nat /\ method = "ll"
    BY CurrentBatch
  <1>2. made <= t /\ j = IF made < t THEN made ELSE -1
    BY DEF BatchInv, StageInv, LlInv
  <1>3. j \in Left /\ j \in Int
    BY <1>1, <1>2 DEF Left
  <1>4. Left \in SUBSET Int /\ ListOf(index_list, Left, Left)
    <2>1. j # NULL
      BY <1>1, <1>3
    <2> QED BY <1>1, <2>1 DEF BatchInv, IndexList, Left
  <1>5. /\ after(index_list, j) = NULL <=> Left = {j}
        /\ after(index_list, j) # NULL =>
             /\ after(index_list, j) \in Left \ {j}
             /\ \/ after(index_list, j) > j /\ \A k \in Left : k > j => k >= after(index_list, j)
                \/ /\ \A k \in Left : k <= j
                   /\ after(index_list, j) < j /\ \A k \in Left : k < j => k <= after(index_list, j)
    BY <1>1, <1>3, <1>4, AfterIs
  <1> DEFINE a == after(index_list, j)
  <1>6. CASE made < t
    <2>1. j = made /\ -1 \in Left /\ -1 # j
      BY <1>1, <1>2, <1>6 DEF Left
    <2>2. ListOf(del(index_list, j), Left \ {j}, Left \ {j})
      BY <1>1, <1>3, <1>4, DelKeepsList
    <2>3. Left \ {j} = {-1} \union (made + 1 .. t - 1)
      BY <1>1, <2>1 DEF Left
    <2>4. a # NULL
      BY <1>5, <2>1
    <2>5. /\ a \in {-1} \union (made + 1 .. t - 1)
          /\ \/ a > j /\ \A k \in Left : k > j => k >= a
             \/ (\A k \in Left : k <= j) /\ a < j
      BY <1>5, <2>3, <2>4
    <2> HIDE DEF a
    <2>6. CASE made + 1 < t
      <3>1. made + 1 \in Left /\ made + 1 > j /\ ~ (made + 1 <= j)
        BY <1>1, <2>1, <2>6 DEF Left
      <3>2. a > j /\ made + 1 >= a
        BY <2>5, <3>1
      <3>3. a = made + 1
        BY <1>1, <2>1, <2>5, <3>2
      <3> QED BY <1>6, <2>2, <2>3, <2>6, <3>3 DEF a
    <2>7. CASE ~ (made + 1 < t)
      <3>1. made + 1 .. t - 1 = {}
        BY <1>1, <2>7
      <3>2. a = -1
        BY <2>5, <3>1
      <3> QED BY <1>6, <2>2, <2>3, <2>7, <3>2 DEF a
    <2> QED BY <2>6, <2>7
  <1>7. CASE ~ (made < t)
    <2>1. made = t /\ j = -1
      BY <1>1, <1>2, <1>7
    <2>2. Left = {j}
      BY <1>1, <2>1 DEF Left
    <2> QED BY <1>5, <1>7, <2>1, <2>2
  <1> QED BY <1>6, <1>7

LEMMA LlMatchStep == BatchInv /\ LlMatch => BatchInv'
  <1> SUFFICES ASSUME BatchInv, LlMatch PROVE BatchInv'
    OBVIOUS
  <1> DEFINE c == batch_current
             N == Unmatched \union {-1}
  <1>1. /\ stage = "ll" /\ stage' \in {"ok", "ll"}
        /\ batch_list' = del(batch_list, c) /\ index_list' = del(index_list, j)
        /\ j' = after(index_list, j)
        /\ stage' = IF no_available_batches = 1 \/ j' = NULL THEN "ok" ELSE "ll"
        /\ element' = -1 /\ skipped' = 0
        /\ UNCHANGED <<selection, method, m, header, batches, fed, mpfss_vector>>
    BY DEF LlMatch, shape, content
  <1>2. PICK pos : First(c, pos) /\ matches' = With(matches, m - no_available_batches, pointinfo(c, pos))
    BY DEF LlMatch
  <1>3. /\ NULL \notin Int /\ t \in Nat \ {0} /\ m \in Nat \ {0} /\ method = "ll"
        /\ Unmatched \subseteq 0 .. m - 1 /\ made \in 0 .. m
        /\ ListOf(batch_list, N, N) /\ c \in Unmatched
        /\ no_available_batches = m - made
    BY <1>1, CurrentBatch
  <1>4. /\ made <= t /\ j = (IF made < t THEN made ELSE -1) /\ 0 < m - made
    <2>1. /\ made <= t /\ j = (IF made < t THEN made ELSE -1) /\ skipped < m - made
          /\ skipped \in 0 .. m - 1
      BY <1>1 DEF BatchInv, StageInv, LlInv, BatchTypes
    <2> QED BY <1>3, <2>1
  <1>5. m - no_available_batches = made
    BY <1>3
  <1>6. /\ BatchTypes /\ FitOnce /\ DOMAIN matches = 0 .. made - 1
        /\ \A k \in DOMAIN matches : matches[k].val = IF k < t THEN indices[k] ELSE header
    BY <1>3 DEF BatchInv, MatchInv, LlMatches
  <1>7. made \notin DOMAIN matches
    BY <1>3, <1>6
  <1> HIDE DEF c
  <1>8. /\ FitOnce' /\ made' = made + 1 /\ Unmatched' = Unmatched \ {c}
        /\ DOMAIN matches' = DOMAIN matches \union {made}
        /\ matches'[made].val = index
        /\ \A x \in DOMAIN matches : matches'[x] = matches[x]
    BY <1>1, <1>2, <1>3, <1>5, <1>6, <1>7, MatchAdds
  <1>9. MatchInv'
    <2>1. DOMAIN matches' = 0 .. made' - 1 /\ made' <= t' + 1
      <3>1. made \in Nat /\ made' - 1 = made /\ t' = t
        BY <1>1, <1>3, <1>8 DEF selection
      <3>2. 0 .. made = (0 .. made - 1) \union {made}
        BY <3>1
      <3>3. made' <= t' + 1
        BY <1>3, <1>4, <1>8, <3>1
      <3> QED BY <1>6, <1>8, <3>1, <3>2, <3>3
    <2>2. index = IF made < t THEN indices[made] ELSE header
      BY <1>3, <1>4 DEF index
    <2>3. \A k \in DOMAIN matches' : matches'[k].val = IF k < t THEN indices[k] ELSE header
      BY <1>6, <1>8, <2>2
    <2>4. LlMatches'
      BY <1>1, <2>1, <2>3 DEF LlMatches, selection
    <2>5. BstMatches'
      BY <1>1, <1>3 DEF BstMatches
    <2> QED BY <1>8, <2>4, <2>5 DEF MatchInv
  <1>10. BatchList'
    <2>1. N \in SUBSET Int /\ c \in N
      BY <1>3
    <2>2. N \ {c} = Unmatched' \union {-1}
      <3>1. c # -1
        BY <1>3
      <3> QED BY <1>8, <3>1
    <2> HIDE DEF N
    <2>3. ListOf(batch_list', N \ {c}, N \ {c})
      BY <1>1, <1>3, <2>1, DelKeepsList
    <2> QED BY <1>1, <1>3, <2>2, <2>3 DEF BatchList
  <1> HIDE DEF N
  <1>11. /\ made < t => /\ ListOf(index_list', Left', Left')
                        /\ j' = IF made' < t THEN made' ELSE -1
         /\ ~ (made < t) => made = t /\ j' = NULL
    <2>1. Left' = {-1} \union (made + 1 .. t - 1)
      BY <1>1, <1>8 DEF Left, selection
    <2>2. CASE made < t
      <3>1. /\ ListOf(index_list', Left \ {j}, Left \ {j})
            /\ Left \ {j} = {-1} \union (made + 1 .. t - 1)
            /\ j' = IF made + 1 < t THEN made + 1 ELSE -1
        BY <1>1, <2>2, NextIndex
      <3> QED BY <1>8, <2>1, <2>2, <3>1
    <2>3. CASE ~ (made < t)
      BY <1>1, <2>3, NextIndex
    <2> QED BY <2>2, <2>3
  <1>12. IndexList'
    <2>1. CASE made < t
      BY <1>11, <2>1 DEF IndexList
    <2>2. CASE ~ (made < t)
      BY <1>11, <2>2 DEF IndexList
    <2> QED BY <2>1, <2>2
  <1>13. Settled
    BY <1>1 DEF Settled
  <1>14. BatchTypes'
    <2>1. j' \in -1 .. t \/ j' = NULL
      BY <1>3, <1>4, <1>8, <1>11
    <2>2. element' \in -1 .. m - 1 /\ skipped' \in 0 .. m - 1
      BY <1>1, <1>3
    <2> QED BY <1>1, <1>6, <1>13, <2>1, <2>2, SettledKeeps DEF BatchTypes
  <1>15. BstInv'
    BY <1>1 DEF BstInv
  <1>16. LlInv'
    <2> SUFFICES ASSUME stage' = "ll" PROVE LlInv'
      BY DEF LlInv
    <2>1. m - made # 1 /\ j' # NULL
      BY <1>1, <1>3
    <2>2. made < t
      BY <1>11, <2>1
    <2>3. UpTo(element)' = {}
      <3>1. \A k \in Unmatched' : k \in Nat
        BY <1>3, <1>8
      <3>2. \A k \in Unmatched' : ~ (k <= -1)
        BY <3>1
      <3> QED BY <1>1, <3>2 DEF UpTo
    <2>4. skipped' = Cardinality(UpTo(element)')
      BY <1>1, <2>3, FS_EmptySet
    <2>5. Searched(element)'
      BY <2>3 DEF Searched
    <2>6. made' <= t /\ 0 < m - made'
      BY <1>3, <1>4, <1>8, <2>1, <2>2
    <2> QED BY <1>1, <1>3, <1>11, <2>2, <2>4, <2>5, <2>6 DEF LlInv, selection
  <1>17. EndInv'
    <2>1. stage' = "ok" => made' = IF m <= t THEN m ELSE t + 1
      <3> SUFFICES ASSUME stage' = "ok" PROVE made' = IF m <= t THEN m ELSE t + 1
        OBVIOUS
      <3>1. m - made = 1 \/ j' = NULL
        BY <1>1, <1>3
      <3>2. CASE m - made = 1
        BY <1>3, <1>4, <1>8, <3>2
      <3>3. CASE j' = NULL
        <4>1. made = t
          <5>1. made < t => j' \in Int
            BY <1>3, <1>8, <1>11
          <5> QED BY <1>3, <1>11, <3>3, <5>1
        <4> QED BY <1>3, <1>4, <1>8, <4>1
      <3> QED BY <3>1, <3>2, <3>3
    <2> QED BY <1>1, <1>3, <2>1 DEF EndInv, selection
  <1> QED BY <1>9, <1>10, <1>12, <1>13, <1>14, <1>15, <1>16, <1>17, SettledKeeps DEF BatchInv, StageInv

LEMMA LlMissStep == BatchInv /\ (LlMiss \/ LlEmpty) => BatchInv'
  <1> SUFFICES ASSUME BatchInv, LlMiss \/ LlEmpty PROVE BatchInv'
    OBVIOUS
  <1> DEFINE c == batch_current
  <1>1. /\ stage = "ll" /\ stage' \in {"ll", "failed"}
        /\ UNCHANGED <<selection, method, m, header, batches, fed, batch_list, index_list, j, matches,
                       mpfss_vector>>
        /\ \/ /\ Places(c) = {}
              /\ \/ /\ skipped + 1 = no_available_batches /\ stage' = "failed"
                    /\ UNCHANGED <<element, skipped>>
                 \/ /\ skipped + 1 # no_available_batches /\ stage' = stage
                    /\ element' = c /\ skipped' = skipped + 1
           \/ stage' = stage /\ element' = -1 /\ skipped' = 0
    BY DEF LlMiss, LlEmpty, shape, content
  <1>2. /\ t \in Nat \ {0} /\ m \in Nat \ {0} /\ method = "ll"
        /\ Unmatched \subseteq 0 .. m - 1 /\ IsFiniteSet(Unmatched)
        /\ made \in 0 .. m /\ Cardinality(Unmatched) = m - made
        /\ c \in Unmatched /\ UpTo(c) = UpTo(element) \union {c}
        /\ Cardinality(UpTo(c)) = skipped + 1
        /\ no_available_batches = m - made
    BY <1>1, CurrentBatch
  <1>3. /\ BatchTypes /\ made <= t /\ j = (IF made < t THEN made ELSE -1)
        /\ skipped < m - made /\ Searched(element)
    BY <1>1 DEF BatchInv, StageInv, LlInv
  <1>4. MatchInv' /\ made' = made /\ Unmatched' = Unmatched /\ Left' = Left
    BY <1>1, MatchesKept DEF BatchInv, selection
  <1>5. BatchList' /\ IndexList'
    BY <1>1, <1>4 DEF BatchList, IndexList, BatchInv
  <1>6. Settled
    BY <1>1 DEF Settled
  <1>7. index' = index
    BY <1>1 DEF index, selection
  <1>8. ASSUME NEW k PROVE Contains(k, index)' <=> Contains(k, index)
    BY <1>1, <1>7 DEF Contains
  <1>9. BstInv'
    BY <1>1 DEF BstInv
  <1> HIDE DEF c
  <1>10. Places(c) = {} => Searched(c)
    BY <1>2, <1>3, PlacesOrNot DEF Searched
  <1>11. CASE stage' = "failed"
    <2>1. Places(c) = {} /\ skipped + 1 = m - made /\ UNCHANGED <<element, skipped>>
      BY <1>1, <1>2, <1>11
    <2>2. UpTo(c) = Unmatched
      <3>1. UpTo(c) \in SUBSET Unmatched /\ Cardinality(Unmatched) = Cardinality(UpTo(c))
        BY <1>2, <2>1 DEF UpTo
      <3> QED BY <1>2, <3>1, FS_Subset
    <2>3. EndInv'
      BY <1>4, <1>8, <1>10, <1>11, <2>1, <2>2 DEF EndInv, Searched
    <2>4. LlInv'
      BY <1>11 DEF LlInv
    <2>5. BatchTypes'
      BY <1>1, <1>3, <1>6, <1>11, <2>1, SettledKeeps DEF BatchTypes
    <2> QED BY <1>4, <1>5, <1>6, <1>9, <2>3, <2>4, <2>5, SettledKeeps DEF BatchInv, StageInv
  <1>12. CASE stage' = "ll"
    <2>1. /\ element' \in Unmatched \union {-1} /\ skipped' = Cardinality(UpTo(element'))
          /\ skipped' < m - made /\ skipped' \in Nat /\ Searched(element')
      <3>1. CASE Places(c) = {} /\ skipped + 1 # no_available_batches /\ element' = c /\ skipped' = skipped + 1
        <4>1. skipped \in Nat
          BY <1>3 DEF BatchTypes
        <4> QED BY <1>2, <1>3, <1>10, <3>1, <4>1
      <3>2. CASE element' = -1 /\ skipped' = 0
        <4>1. \A k \in Unmatched : ~ (k <= -1)
          <5>1. \A k \in Unmatched : k \in Nat
            BY <1>2
          <5> QED BY <5>1
        <4>2. UpTo(-1) = {}
          BY <4>1 DEF UpTo
        <4>3. Searched(-1) /\ Cardinality(UpTo(-1)) = 0
          BY <4>2, FS_EmptySet DEF Searched
        <4>4. 0 < m - made
          BY <1>2, <1>3 DEF BatchTypes
        <4> QED BY <3>2, <4>3, <4>4
      <3> QED BY <1>1, <1>12, <3>1, <3>2
    <2>2. UpTo(element)' = UpTo(element')
      BY <1>4 DEF UpTo
    <2>3. Searched(element)'
      BY <1>8, <2>1, <2>2 DEF Searched
    <2>4. LlInv'
      BY <1>1, <1>2, <1>3, <1>4, <2>1, <2>2, <2>3 DEF LlInv, selection
    <2>5. EndInv'
      BY <1>12 DEF EndInv
    <2>6. element' \in -1 .. m - 1 /\ skipped' \in 0 .. m - 1
      BY <1>2, <2>1
    <2>7. BatchTypes'
      BY <1>1, <1>3, <1>6, <1>12, <2>6, SettledKeeps DEF BatchTypes
    <2> QED BY <1>4, <1>5, <1>6, <1>9, <2>4, <2>5, <2>7, SettledKeeps DEF BatchInv, StageInv
  <1> QED BY <1>1, <1>11, <1>12

-----------------------------------------------------------------------------
\* Every step keeps the invariant.
LEMMA BatchStep == BatchInv /\ [BNext]_bvars => BatchInv'
  <1> SUFFICES ASSUME BatchInv, [BNext]_bvars PROVE BatchInv'
    OBVIOUS
  <1>1. CASE UNCHANGED bvars
    <2>1. /\ UNCHANGED <<t, indices, i, sanity, already_exists, stage, method, m, header, batches, fed>>
          /\ UNCHANGED <<batch_list, index_list, j, element, skipped, matches, mpfss_vector>>
      BY <1>1 DEF bvars, ivars
    <2>2. DrawInv'
      BY <2>1, DrawStep DEF BatchInv, ivars
    <2>3. BatchTypes'
      BY <2>1 DEF BatchInv, BatchTypes, limit
    <2>4. MatchInv' /\ made' = made /\ Unmatched' = Unmatched /\ Left' = Left
      BY <2>1, MatchesKept DEF BatchInv
    <2>5. BatchList' /\ IndexList'
      BY <2>1, <2>4 DEF BatchList, IndexList, BatchInv
    <2>6. index' = index
      BY <2>1 DEF index
    <2>7. ASSUME NEW k PROVE Contains(k, index)' <=> Contains(k, index)
      BY <2>1, <2>6 DEF Contains
    <2>8. UpTo(element)' = UpTo(element) /\ UpTo(element - 1)' = UpTo(element - 1)
      BY <2>1, <2>4 DEF UpTo
    <2>9. BstInv'
      BY <2>1, <2>4, <2>7, <2>8 DEF BatchInv, StageInv, BstInv, Searched
    <2>10. LlInv'
      BY <2>1, <2>4, <2>7, <2>8 DEF BatchInv, StageInv, LlInv, Searched
    <2>11. BeforeInv' /\ EndInv'
      BY <2>1, <2>4, <2>7 DEF BatchInv, StageInv, BeforeInv, EndInv
    <2> QED BY <2>2, <2>3, <2>4, <2>5, <2>9, <2>10, <2>11 DEF BatchInv, StageInv
  <1> QED BY <1>1, SelectStep, CreateElementStep, BeginStep, BstMatchStep, BstMissStep, BstEndStep,
             CombineStep, LlMatchStep, LlMissStep DEF BNext

(***************************************************************************)
(* The inductive invariant of the batch codes, for every number of indices *)
(* and batches, every size and every draw: the lists are as ListsSound has *)
(* them, the matches as MatchesValid has them, and the search has looked at*)
(* all batches without a match in front of the one in hand.                *)
(***************************************************************************)
THEOREM BatchInvariant == BSpec => []BatchInv
  BY BatchInit, BatchStep, PTL DEF BSpec

\* The types; in particular the counters stay in their ranges.
THEOREM BatchTypeCorrect == BSpec => []BCTypeOK
  <1>1. BatchInv => BCTypeOK
    <2> SUFFICES ASSUME BatchInv PROVE BCTypeOK
      OBVIOUS
    <2>1. indices \in [0 .. t - 1 -> Key]
      <3>1. \A x \in Drawable : x \in Key
        BY IndicesAssumption DEF Drawable, Key
      <3> QED BY <3>1 DEF BatchInv, DrawInv, DrawTypeOK
    <2> QED BY <2>1 DEF BCTypeOK, BatchInv, BatchTypes, DrawInv, DrawTypeOK
  <1> QED BY BatchInvariant, <1>1, PTL

\* The batch codes are given distinct indices, too.
THEOREM SelectedAlwaysDistinct == BSpec => []IndicesDistinct
  <1>1. BatchInv => IndicesDistinct
    BY DEF BatchInv, DrawInv
  <1> QED BY BatchInvariant, <1>1, PTL

\* After every deletion the lists have exactly the nodes that are left, in order.
THEOREM ListsAlwaysSound == BSpec => []ListsSound
  <1>1. BatchInv => ListsSound
    BY DEF BatchInv, BatchTypes, BatchList, IndexList, ListOf, ListsSound, Left, made
  <1> QED BY BatchInvariant, <1>1, PTL

\* The matches are of the first indices, in different batches that contain them, and the
\* vector is their indicator.
THEOREM MatchesAlwaysValid == BSpec => []MatchesValid
  <1>1. BatchInv => MatchesValid
    <2> SUFFICES ASSUME BatchInv PROVE MatchesValid
      OBVIOUS
    <2>1. FitOnce /\ method \in {"bst", "ll"} /\ t \in Nat /\ m \in Nat
      BY ShapeFacts DEF BatchInv, MatchInv, BatchTypes
    <2>2. \A k \in DOMAIN matches :
            /\ matches[k].index_in_batch \in 0 .. Len(batches[matches[k].batch]) - 1
            /\ batches[matches[k].batch][matches[k].index_in_batch + 1] = matches[k].val
      BY <2>1 DEF FitOnce, Fits
    <2>3. made \in Nat
      BY <2>1, UnmatchedSize
    <2>4. {matches[k].val : k \in DOMAIN matches} =
            {IF k < t THEN indices[k] ELSE header : k \in 0 .. made - 1}
      <3>1. CASE method = "bst"
        <4>1. made <= t /\ {matches[k].val : k \in DOMAIN matches} = {indices[k] : k \in 0 .. made - 1}
          BY <3>1 DEF BatchInv, MatchInv, BstMatches
        <4>2. \A k \in 0 .. made - 1 : k < t
          BY <2>1, <2>3, <4>1
        <4> QED BY <4>1, <4>2
      <3>2. CASE method = "ll"
        BY <3>2 DEF BatchInv, MatchInv, LlMatches
      <3> QED BY <2>1, <3>1, <3>2
    <2>5. stage = "done" =>
            \A x \in Key : mpfss_vector[x] <=> \E k \in DOMAIN matches : matches[k].val = x
      BY DEF BatchInv, StageInv, EndInv
    <2> QED BY <2>1, <2>2, <2>4, <2>5 DEF MatchesValid, FitOnce, made
  <1> QED BY BatchInvariant, <1>1, PTL

\* The search fails only if no batch is left that has the index in hand, and with at least
\* as many batches as indices it succeeds only if all indices have a match
\* (binary_search_tree_focused_batch_creation.oc:117-171,
\* list_focused_batch_creation.oc:225-283).
THEOREM OutcomeAlwaysJustified == BSpec => []OutcomeJustified
  <1>1. BatchInv => OutcomeJustified
    <2> SUFFICES ASSUME BatchInv, stage \in {"ok", "done"}, m >= t, NEW n \in 0 .. t - 1
                 PROVE  \E k \in DOMAIN matches : matches[k].val = indices[n]
      BY DEF BatchInv, StageInv, EndInv, OutcomeJustified
    <2>1. method \in {"bst", "ll"} /\ t \in Nat /\ m \in Nat
      BY ShapeFacts DEF BatchInv, BatchTypes
    <2>2. made \in Nat /\ made >= t
      BY <2>1 DEF BatchInv, StageInv, EndInv
    <2>3. n \in 0 .. made - 1 /\ n < t
      BY <2>1, <2>2
    <2>4. CASE method = "bst"
      <3>1. {matches[k].val : k \in DOMAIN matches} = {indices[k] : k \in 0 .. made - 1}
        BY <2>4 DEF BatchInv, MatchInv, BstMatches
      <3>2. indices[n] \in {matches[k].val : k \in DOMAIN matches}
        BY <2>3, <3>1
      <3> QED BY <3>2
    <2>5. CASE method = "ll"
      BY <2>3, <2>5 DEF BatchInv, MatchInv, LlMatches
    <2> QED BY <2>1, <2>4, <2>5
  <1> QED BY BatchInvariant, <1>1, PTL

=============================================================================
