----------------------------- MODULE Assignment -----------------------------
(***************************************************************************)
(* code_master/mpfss_cuckoo/buckets.cpp on top of Cuckoo: the buckets that *)
(* both parties generate (preparations) and the assignment of the first    *)
(* party's indices to them (create_assignement).                           *)
(*                                                                         *)
(* The cuckoo hash table is the single table of b slots that               *)
(* create_assignement initializes; slot n stands for bucket n.             *)
(***************************************************************************)
EXTENDS Cuckoo, Sequences

\* RunIndexProvider: b = 1.5 * t and max_loop = 0.5 * size, truncated.
NoBuckets(t)     == (3 * t) \div 2
MaxLoopFor(size) == size \div 2

CONSTANT Size   \* size, the length of the vector that is shared

ASSUME AssignmentAssumption ==
  /\ Size \in Nat \ {0}
  /\ Key = 0 .. Size - 1
  /\ NoKeys \in 1 .. Size
  /\ NoHashTables = 1
  /\ SizeHashTables = [t \in {0} |-> NoBuckets(NoKeys)]
  /\ MaxLoop = MaxLoopFor(Size)

b      == NoBuckets(NoKeys)
Bucket == 0 .. b - 1

VARIABLES
  phase,        \* the function that is running, or how it ended
  gen_key,      \* generate_buckets_cuckoo: the loop counter key
  gen_j,        \* generate_buckets_cuckoo: the loop counter j
  all_buckets,  \* the keys of each bucket, in order
  matches       \* the match of each bucket; <<>> until create_assignement fills it

bucketVars == <<gen_key, gen_j, all_buckets>>
avars == <<vars, phase, bucketVars, matches>>

AInit ==
  /\ Init
  /\ phase = "buckets"
  /\ gen_key = 0 /\ gen_j = 0
  /\ all_buckets = [n \in Bucket |-> <<>>]
  /\ matches = <<>>

-----------------------------------------------------------------------------
\* generate_buckets_cuckoo: the bucket of the current key under function gen_j.
bucket_number == hash_this(gen_key, rands[gen_j], b)

\* Bug: the last hash function is left out.
PushKey_m1 ==
  /\ phase = "buckets" /\ gen_key < Size
  /\ bucket_number \in Bucket
  /\ all_buckets' = [all_buckets EXCEPT ![bucket_number] = Append(@, gen_key)]
  /\ IF gen_j + 1 < NoHashFunctions - 1
     THEN gen_j' = gen_j + 1 /\ gen_key' = gen_key
     ELSE gen_j' = 0 /\ gen_key' = gen_key + 1
  /\ UNCHANGED <<vars, phase, matches>>

\* Bug: new keys are put in front.
PushKey_m2 ==
  /\ phase = "buckets" /\ gen_key < Size
  /\ bucket_number \in Bucket
  /\ all_buckets' = [all_buckets EXCEPT ![bucket_number] = <<gen_key>> \o @]
  /\ IF gen_j + 1 < NoHashFunctions
     THEN gen_j' = gen_j + 1 /\ gen_key' = gen_key
     ELSE gen_j' = 0 /\ gen_key' = gen_key + 1
  /\ UNCHANGED <<vars, phase, matches>>

\* generate_buckets_cuckoo: one iteration of the inner loop.  A key goes into
\* its bucket once per hash function, twice if two functions agree on it.
PushKey ==
  /\ phase = "buckets" /\ gen_key < Size
  /\ bucket_number \in Bucket
  /\ all_buckets' = [all_buckets EXCEPT ![bucket_number] = Append(@, gen_key)]
  /\ IF gen_j + 1 < NoHashFunctions
     THEN gen_j' = gen_j + 1 /\ gen_key' = gen_key
     ELSE gen_j' = 0 /\ gen_key' = gen_key + 1
  /\ UNCHANGED <<vars, phase, matches>>

\* all_buckets.at() throws for a negative bucket number.
PushThrows ==
  /\ phase = "buckets" /\ gen_key < Size
  /\ bucket_number \notin Bucket
  /\ phase' = "crashed"
  /\ UNCHANGED <<vars, bucketVars, matches>>

\* preparations() returns and create_assignement() calls cuckoo().
BucketsDone ==
  /\ phase = "buckets" /\ gen_key = Size
  /\ phase' = "cuckoo"
  /\ UNCHANGED <<vars, bucketVars, matches>>

\* A step of cuckoo(), called by create_assignement().
CuckooStep ==
  /\ phase = "cuckoo"
  /\ StartKey \/ Finish \/ (\E f \in Function : place(f))
  /\ UNCHANGED <<phase, bucketVars, matches>>

\* std::lower_bound on a sorted vector, as an index from 0.
lower_bound(v, val) ==
  CHOOSE p \in 0 .. Len(v) :
    /\ \A n \in 1 .. p : v[n] < val
    /\ \A n \in p + 1 .. Len(v) : v[n] >= val

\* Bug: upper_bound instead of lower_bound.
MatchOf_m2(n) ==
  IF table_usage[<<0, n>>]
  THEN [bucket |-> n, val |-> table[<<0, n>>],
        index_in_bucket |-> lower_bound(all_buckets[n], table[<<0, n>>] + 1)]
  ELSE [bucket |-> n, val |-> -1, index_in_bucket |-> -1]

\* create_assignement: the match of bucket n.
MatchOf(n) ==
  IF table_usage[<<0, n>>]
  THEN [bucket |-> n, val |-> table[<<0, n>>],
        index_in_bucket |-> lower_bound(all_buckets[n], table[<<0, n>>])]
  ELSE [bucket |-> n, val |-> -1, index_in_bucket |-> -1]

\* create_assignement: cuckoo() succeeded, the matches are filled in.
BuildMatches ==
  /\ phase = "cuckoo" /\ pc = "ok"
  /\ matches' = [n \in Bucket |-> MatchOf(n)]
  /\ phase' = "done"
  /\ UNCHANGED <<vars, bucketVars>>

\* Bug: the failure of cuckoo() is ignored.
AssignFailed_m1 ==
  /\ phase = "cuckoo" /\ pc = "max_loop"
  /\ matches' = [n \in Bucket |-> MatchOf(n)]
  /\ phase' = "done"
  /\ UNCHANGED <<vars, bucketVars>>

\* create_assignement: cuckoo() returned -1, and so does the function.
AssignFailed ==
  /\ phase = "cuckoo" /\ pc = "max_loop"
  /\ phase' = "failed"
  /\ UNCHANGED <<vars, bucketVars, matches>>

\* The call has returned or the program has ended.
ADone ==
  /\ phase \in {"done", "failed", "crashed"} \/ pc = "out_of_range"
  /\ UNCHANGED avars

ANext ==
  \/ PushKey \/ PushThrows \/ BucketsDone
  \/ CuckooStep \/ BuildMatches \/ AssignFailed
  \/ ADone

ASpec == AInit /\ [][ANext]_avars

-----------------------------------------------------------------------------
Match == [bucket : Bucket, val : Key \union {-1}, index_in_bucket : Nat \union {-1}]

ATypeOK ==
  /\ TypeOK
  /\ phase \in {"buckets", "cuckoo", "done", "failed", "crashed"}
  /\ gen_key \in 0 .. Size /\ gen_j \in Function
  /\ all_buckets \in [Bucket -> Seq(Key)]
  /\ matches = <<>> \/ matches \in [Bucket -> Match]

\* The buckets that hold key k once they are complete.
Home(k) == {hash_this(k, rands[f], b) : f \in Function}

\* The hash function f has already been applied to key k.
Pushed(k, f) == k < gen_key \/ (k = gen_key /\ f < gen_j)

(***************************************************************************)
(* The buckets contain what has been pushed and nothing else, in ascending *)
(* order: the precondition of the binary search in create_assignement      *)
(* (buckets.cpp:101-103), and what lets both parties compute the same      *)
(* buckets independently.                                                  *)
(***************************************************************************)
BucketsSorted ==
  \A n \in Bucket : \A x, y \in DOMAIN all_buckets[n] :
    x <= y => all_buckets[n][x] <= all_buckets[n][y]

BucketsExact ==
  \A n \in Bucket : \A k \in Key :
    (\E x \in DOMAIN all_buckets[n] : all_buckets[n][x] = k)
      <=> (\E f \in Function : Pushed(k, f) /\ hash_this(k, rands[f], b) = n)

BucketsCorrect == BucketsSorted /\ BucketsExact

(***************************************************************************)
(* buckets_test.cpp:64-98: a match is in its bucket at the position it     *)
(* states, an unused bucket has -1 for both, every index has a match; and  *)
(* no index has two.                                                       *)
(***************************************************************************)
MatchesConsistent ==
  phase = "done" =>
    /\ \A n \in Bucket :
         \/ matches[n].val = -1 /\ matches[n].index_in_bucket = -1
         \/ /\ matches[n].index_in_bucket \in 0 .. Len(all_buckets[n]) - 1
            /\ all_buckets[n][matches[n].index_in_bucket + 1] = matches[n].val
    /\ \A j \in 0 .. NoKeys - 1 : \E n \in Bucket :
         /\ matches[n].val = keys[j]
         /\ \A m \in Bucket : matches[m].val = keys[j] => m = n

(***************************************************************************)
(* A hash of the least int ends the program while the buckets are          *)
(* generated (buckets.cpp:51), for some key of 0 .. size-1; the cuckoo     *)
(* table, whose keys are among them, is never reached with one.            *)
(***************************************************************************)
CuckooNeverThrows == pc # "out_of_range"

-----------------------------------------------------------------------------
\* The assignment in terms of its contract.
Contract == INSTANCE AssignmentContract WITH
  Bucket   <- Bucket,
  indices  <- {keys[j] : j \in 0 .. NoKeys - 1},
  home     <- [k \in Key |-> Home(k)],
  outcome  <- IF phase \in {"buckets", "cuckoo"} THEN "working"
              ELSE IF phase = "done" THEN "assigned" ELSE phase,
  assigned <- [n \in DOMAIN matches |-> matches[n].val]

(***************************************************************************)
(* create_assignement implements its contract: it ends in one step with a  *)
(* valid assignment, or it fails and leaves no partial one.                *)
(***************************************************************************)
ImplementsContract == Contract!Spec

=============================================================================
