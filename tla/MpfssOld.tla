------------------------------ MODULE MpfssOld ------------------------------
(***************************************************************************)
(* code_master/mpfss_cuckoo: RunIndexProvider (party 1) and                *)
(* RunValueProvider (party 2), called Runs times on the same object by     *)
(* run_cuckoo_single_party_threads.cpp.                                    *)
(*                                                                         *)
(* One connection per call carries the outcome of the assignment and one   *)
(* protocol, mpfss_batch_cuckoo.  With more than one thread this protocol  *)
(* is split, and parallize gives each part a range of the buckets, whose   *)
(* DPFs are evaluated without the correlated generator (parallel_dpf.oc    *)
(* gets false for cprg).  Such a DPF is taken to return once both parties  *)
(* evaluate it, which module FssAltered states with exceptions: see RunDpf.*)
(***************************************************************************)
EXTENDS BucketShares

CONSTANTS
  Threads,  \* the numbers of threads that are considered
  Schedule, \* the distributions of the ranges to OpenMP threads that are considered
  Runs,     \* how often the driver calls the two functions
  MemBytes, \* memblocksize
  Byte,     \* Byte[n]: the bit that stands for byte n of a block
  SizeOfT   \* sizeof(T), the type of the values

\* parallize has room for b ranges.
Ranges == 0 .. b - 1

(***************************************************************************)
(* One bit of each byte is modelled.  A value of type T has its bytes      *)
(* numbered from the least significant one; fss_altered needs two elements.*)
(***************************************************************************)
T == SUBSET (0 .. SizeOfT - 1)

ASSUME OldAssumption ==
  /\ Threads \subseteq Nat \ {0} /\ Schedule \subseteq [Ranges -> Nat] /\ Schedule # {}
  /\ Runs \in Nat \ {0}
  /\ \A s \in Seed : \A n \in Bucket : Len(Buckets[s][n]) >= 2
  /\ MemBytes \in Nat \ {0} /\ SizeOfT \in Nat \ {0}
  /\ Byte \in [0 .. MemBytes - 1 -> BitPos] /\ Injective(Byte)
  /\ Values \subseteq [0 .. t - 1 -> T]

VARIABLES
  threads,   \* mc_args.threads, the same in both parties
  pc,        \* where each party is
  run,       \* the number of the call, in each party
  seed,      \* the seed of mc_args.rands; -1 as long as buckets_set is false
  indices,   \* party 1's indices
  y,         \* the values of each party
  matches,   \* party 1's matches: the index of each bucket, -1 for none
  wire,      \* succ on the way from party 1 to party 2
  owner,     \* owner[p][k]: the OpenMP thread of party p that runs range k
  at,        \* at[p][k]: the state of range k in party p
  i,         \* i[p][k]: its bucket
  dpf,       \* dpf[p][n]: dpf_vectors and dpf_value_vectors of bucket n
  output,    \* mpfss_output_raw, with the bits
  result     \* mpfss_output

call == <<threads, seed, indices, y>>
loop == <<owner, at, i>>
vars == <<call, pc, run, matches, wire, loop, dpf, output, result>>

lim == IF SizeOfT < MemBytes THEN SizeOfT ELSE MemBytes

\* The last lim bytes of beta_value_vector, the least significant one at the end.
ToBytes(beta_int) == {Byte[MemBytes - 1 - n] : n \in {n \in beta_int : n < lim}}

\* The loop of prepare_results: value, which is not initialized, is shifted left by
\* a byte and gets the next one.
Shifted(block, garbage) ==
  LET value[ii \in MemBytes - lim .. MemBytes] ==
        IF ii = MemBytes - lim THEN garbage
        ELSE {n + 1 : n \in {n \in value[ii - 1] : n + 1 < SizeOfT}}
             \union IF Byte[ii - 1] \in block THEN {0} ELSE {}
  IN  value

\* Bug: one byte too few.
FromBytes_m1(block, garbage) == Shifted(block, garbage)[MemBytes - 1]

FromBytes(block, garbage) == Shifted(block, garbage)[MemBytes]

share == [p \in Party |-> [n \in DOMAIN y[p] |-> ToBytes(y[p][n])]]

\* parallize: the ranges of buckets, which are base long or one longer.
used_threads == IF b < threads THEN b ELSE threads
base == b \div threads

\* Bug: rest is not decremented.
max_arr_m1 == [k \in Ranges |-> (k + 1) * base + IF b - base * threads > 0 THEN k + 1 ELSE 0]

max_arr == [k \in Ranges |->
  (k + 1) * base + IF k < b - base * threads THEN k + 1 ELSE b - base * threads]

min_arr == [k \in Ranges |-> IF k = 0 THEN 0 ELSE max_arr[k - 1]]

Used == {k \in 0 .. used_threads - 1 : min_arr[k] < max_arr[k]}

Idle == [k \in Ranges |-> "ended"]

Init ==
  /\ threads \in Threads
  /\ pc = <<"listen", "connect">> /\ run = <<1, 1>>
  /\ seed = <<-1, -1>>
  /\ indices \in Indices /\ y \in [Party -> Values]
  /\ matches = Unused /\ wire = "empty"
  /\ owner = [p \in Party |-> [k \in Ranges |-> 0]]
  /\ at = [p \in Party |-> Idle] /\ i = [p \in Party |-> [k \in Ranges |-> 0]]
  /\ dpf = [p \in Party |-> NoDpf]
  /\ output = [p \in Party |-> NoOutput] /\ result = [p \in Party |-> [k \in Key |-> {}]]

-----------------------------------------------------------------------------
\* get_connection.
Listen ==
  /\ pc[1] = "listen"
  /\ pc' = [pc EXCEPT ![1] = "accept"]
  /\ UNCHANGED <<call, run, matches, wire, loop, dpf, output, result>>

Connect ==
  /\ pc[1] = "accept" /\ pc[2] = "connect"
  /\ pc' = <<"buckets", "buckets">>
  /\ UNCHANGED <<call, run, matches, wire, loop, dpf, output, result>>

\* Nobody listens: party 2 goes on without a connection, and crashes when it
\* wants to receive from it.
Refused ==
  /\ pc[1] # "accept" /\ pc[2] = "connect"
  /\ pc' = [pc EXCEPT ![2] = "crash"]
  /\ UNCHANGED <<call, run, matches, wire, loop, dpf, output, result>>

\* Buckets are created in the first call, from the party's own clock.  A seed
\* with which some key hashes to the least int would end the program here
\* (Assignment!PushThrows): Seed has the others only.
CreateBuckets(p) ==
  /\ pc[p] = "buckets"
  /\ \/ run[p] = 1 /\ \E s \in Seed : seed' = [seed EXCEPT ![p] = s]
     \/ run[p] > 1 /\ UNCHANGED seed
  /\ pc' = [pc EXCEPT ![p] = "assign"]
  /\ UNCHANGED <<threads, indices, y, run, matches, wire, loop, dpf, output, result>>

Contract == INSTANCE AssignmentContract WITH
  indices  <- {indices[j] : j \in DOMAIN indices},
  home     <- Home(seed[1]),
  outcome  <- pc[1],
  assigned <- matches

\* create_assignement in party 1, which tells party 2 the outcome.
Assign ==
  /\ pc[1] = "assign"
  /\ matches' \in [Bucket -> Key \union {-1}] /\ Contract!ValidAssignment(matches')
  /\ wire' = "assigned"
  /\ pc' = [pc EXCEPT ![1] = "yao"]
  /\ UNCHANGED <<call, run, loop, dpf, output, result>>

\* Bug: the failure is not sent.
AssignFails_m1 ==
  /\ pc[1] = "assign"
  /\ pc' = [pc EXCEPT ![1] = "failed"]
  /\ UNCHANGED <<call, run, matches, wire, loop, dpf, output, result>>

AssignFails ==
  /\ pc[1] = "assign"
  /\ wire' = "failed"
  /\ pc' = [pc EXCEPT ![1] = "failed"]
  /\ UNCHANGED <<call, run, matches, loop, dpf, output, result>>

Receive ==
  /\ pc[2] = "assign" /\ wire # "empty"
  /\ wire' = "empty"
  /\ pc' = [pc EXCEPT ![2] = IF wire = "assigned" THEN "yao" ELSE "failed"]
  /\ UNCHANGED <<call, run, matches, loop, dpf, output, result>>

-----------------------------------------------------------------------------
(***************************************************************************)
(* mpfss_batch_cuckoo in both parties up to the loop: the protocol is      *)
(* split, create_beta_vals reads the matches and the values, the parties   *)
(* are synchronized by a broadcast.                                        *)
(***************************************************************************)
EnterLoop ==
  /\ pc = <<"yao", "yao">>
  /\ pc' = <<"loop", "loop">>
  /\ owner' \in [Party -> Schedule]
  /\ at' = [p \in Party |-> [k \in Ranges |-> IF k \in Used THEN "todo" ELSE "ended"]]
  /\ i' = [p \in Party |-> min_arr]
  /\ UNCHANGED <<call, run, matches, wire, dpf, output, result>>

\* A thread takes its ranges in ascending order; the protocol of a range blocks
\* until the other party runs it.
CanBegin(p, k) ==
  /\ at[p][k] = "todo"
  /\ \A c \in Used : owner[p][c] = owner[p][k] /\ c < k => at[p][c] = "ended"

Begin(p, k) ==
  /\ CanBegin(p, k)
  /\ at' = [at EXCEPT ![p][k] = "running"]
  /\ UNCHANGED <<call, pc, run, matches, wire, owner, i, dpf, output, result>>

BucketOf(p, k) == Buckets[seed[p]][i[p][k]]

\* Both parties are in the loop of range k.
AtDpf(k) == \A p \in Party : at[p][k] = "running" /\ i[p][k] < max_arr[k]

\* The DPF of a range's bucket, on buckets of the same length.  It is taken to
\* return in both parties: fss_altered does where their teams use the same
\* connection and no master runs fss_Z_pusher (module FssAltered, SameConnection
\* and pusher); where it does not, the range would block here.
RunDpf(k) ==
  /\ AtDpf(k) /\ Len(BucketOf(1, k)) = Len(BucketOf(2, k))
  /\ LET n == i[1][k] IN
     \E mask \in Mask, stray \in Block :
       LET point == PointOf(BucketOf(1, k), matches[n], BetaOf(share, matches, n), stray) IN
       dpf' = [p \in Party |-> [dpf[p] EXCEPT ![i[p][k]] = SharesOf(point, mask)[p]]]
  /\ i' = [p \in Party |-> [i[p] EXCEPT ![k] = @ + 1]]
  /\ UNCHANGED <<call, pc, run, matches, wire, owner, at, output, result>>

\* On buckets of different lengths the circuits differ and the outcome is undefined.
OutOfStep(k) ==
  /\ AtDpf(k) /\ Len(BucketOf(1, k)) # Len(BucketOf(2, k))
  /\ pc' = <<"undefined", "undefined">>
  /\ at' = [p \in Party |-> Idle]
  /\ UNCHANGED <<call, run, matches, wire, owner, i, dpf, output, result>>

CanEnd(p, k) == at[p][k] = "running" /\ i[p][k] = max_arr[k]

EndRange(p, k) ==
  /\ CanEnd(p, k)
  /\ at' = [at EXCEPT ![p][k] = "ended"]
  /\ UNCHANGED <<call, pc, run, matches, wire, owner, i, dpf, output, result>>

\* create_mpfss_vector_cuckoo: all elements of the DPFs that stand for key k.
Sum(p, k) == XorAt(Buckets[seed[p]], dpf[p], k)

\* All ranges have ended: the vector is put together and converted; the arguments
\* and the team of threads are no more.
CanReturn(p) == pc[p] = "loop" /\ \A k \in Ranges : at[p][k] = "ended"

Return(p) ==
  /\ CanReturn(p)
  /\ output' = [output EXCEPT ![p] = [k \in Key |-> Sum(p, k)]]
  /\ \E garbage \in T :
       result' = [result EXCEPT ![p] = [k \in Key |-> FromBytes(Sum(p, k), garbage)]]
  /\ pc' = [pc EXCEPT ![p] = "ok"]
  /\ dpf' = [dpf EXCEPT ![p] = NoDpf]
  /\ matches' = IF p = 1 THEN Unused ELSE matches
  /\ owner' = [owner EXCEPT ![p] = [k \in Ranges |-> 0]]
  /\ UNCHANGED <<call, run, wire, at, i>>

\* main: the next call on the same object; the results of the last one remain.
NextRun(p) ==
  /\ pc[p] \in {"ok", "failed"} /\ run[p] < Runs
  /\ run' = [run EXCEPT ![p] = @ + 1]
  /\ pc' = [pc EXCEPT ![p] = IF p = 1 THEN "listen" ELSE "connect"]
  /\ \E v \in Values : y' = [y EXCEPT ![p] = v]
  /\ IF p = 1 THEN indices' \in Indices ELSE indices' = indices
  /\ UNCHANGED <<threads, seed, matches, wire, loop, dpf, output, result>>

Next ==
  \/ Listen \/ Connect \/ Refused
  \/ \E p \in Party : CreateBuckets(p)
  \/ Assign \/ AssignFails \/ Receive
  \/ EnterLoop
  \/ \E p \in Party, k \in Ranges : Begin(p, k) \/ EndRange(p, k)
  \/ \E k \in Ranges : RunDpf(k) \/ OutOfStep(k)
  \/ \E p \in Party : Return(p) \/ NextRun(p)

Spec == Init /\ [][Next]_vars

-----------------------------------------------------------------------------
\* What the type invariant says beyond types: the loops of a range are in the
\* same place in both parties and within the range, the ranges within the buckets.
OTypeOK ==
  /\ threads \in Threads
  /\ pc[1] \in {"listen", "accept", "buckets", "assign", "yao", "loop", "ok", "failed",
                "undefined"}
  /\ pc[2] \in {"connect", "buckets", "assign", "yao", "loop", "ok", "failed", "crash",
                "undefined"}
  /\ run \in [Party -> 1 .. Runs] /\ seed \in [Party -> Seed \union {-1}]
  /\ indices \in Indices /\ y \in [Party -> Values]
  /\ matches \in [Bucket -> Key \union {-1}]
  /\ wire \in {"empty", "assigned", "failed"}
  /\ owner \in [Party -> [Ranges -> Nat]]
  /\ at \in [Party -> [Ranges -> {"todo", "running", "ended"}]]
  /\ i[1] = i[2] /\ \A k \in Used : i[1][k] <= max_arr[k] /\ max_arr[k] <= b
  /\ output \in [Party -> Vector] /\ result \in [Party -> [Key -> T]]

(***************************************************************************)
(* For every number of threads the vectors that the parties return combine *)
(* to the function that is 0 except at the indices and, at the k-th        *)
(* smallest index, the combination of the parties' k-th values; provided   *)
(* that both clocks gave the same seed (cuckoo.cpp:211).  The values are   *)
(* those of mpfss_output, and right whatever was in the variable that is   *)
(* not initialized, unless T is wider than a block.                        *)
(***************************************************************************)
ThreadsShareFunction ==
  run[1] = run[2] /\ pc = <<"ok", "ok">> /\ seed[1] = seed[2] =>
    /\ \A k \in Key \ {indices[j] : j \in DOMAIN indices} :
         output[1][k] = output[2][k] /\ (SizeOfT <= MemBytes => result[1][k] = result[2][k])
    /\ \A j \in DOMAIN indices :
         LET r == Rank(indices, j) IN
         /\ "bit" \in Xor(output[1][indices[j]], output[2][indices[j]])
         /\ SizeOfT <= MemBytes =>
              Xor(result[1][indices[j]], result[2][indices[j]]) = Xor(y[1][r], y[2][r])

(***************************************************************************)
(* Where the two processes may stop: all calls have returned, with the same*)
(* status in both parties, party 2 found nobody listening, or the seeds    *)
(* differ and the circuits are out of step.                                *)
(***************************************************************************)
Ended ==
  (\A p \in Party : run[p] = Runs) /\ pc[1] = pc[2] /\ pc[1] \in {"ok", "failed"}

Over == Ended \/ pc[2] = "crash" \/ (pc[2] = "undefined" /\ seed[1] # seed[2])

\* A step that a party or one of its threads may take: what the actions of Next
\* wait for.
CanProceed ==
  \/ pc[1] \in {"listen", "assign"} \/ pc[2] = "connect"
  \/ \E p \in Party : pc[p] = "buckets"
  \/ pc[2] = "assign" /\ wire # "empty"
  \/ \A p \in Party : pc[p] = "yao"
  \/ \E p \in Party, k \in Ranges : CanBegin(p, k) \/ CanEnd(p, k)
  \/ \E k \in Ranges : AtDpf(k)
  \/ \E p \in Party : CanReturn(p) \/ (pc[p] \in {"ok", "failed"} /\ run[p] < Runs)

(***************************************************************************)
(* No deadlock: neither the connection and the outcome, for which a party  *)
(* waits, nor the ranges, which the threads of the two parties may take in *)
(* different orders and leave at different times, keep both parties waiting*)
(* (parallize.oc, parallel_dpf.oc); a party that is in the next call       *)
(* already does not keep the other one from ending its loop.               *)
(***************************************************************************)
OldNeverStuck == CanProceed \/ Over

\* What is left to do in the loop: ranges to be taken and to be ended, buckets whose
\* DPF has not been executed.
ToDo(p)  == {k \in Ranges : at[p][k] = "todo"}
Open(p)  == {k \in Ranges : at[p][k] # "ended"}
ToRun(p) == {e \in Used \X Bucket : i[p][e[1]] <= e[2] /\ e[2] < max_arr[e[1]]}

InLoop(p) == Cardinality(ToDo(p)) + Cardinality(Open(p)) + Cardinality(ToRun(p))

\* The work of a call is at most CallWork - 1 steps, and that of a party is what
\* is left of this call and of the next ones.
CallWork == b * b + 2 * b + 7

InCall(p) ==
  CASE pc[p] = "listen"               -> CallWork - 1
    [] pc[p] \in {"accept", "connect"} -> CallWork - 2
    [] pc[p] = "buckets"              -> CallWork - 3
    [] pc[p] = "assign"               -> CallWork - 4
    [] pc[p] = "yao"                  -> CallWork - 5
    [] pc[p] = "loop"                 -> InLoop(p) + 1
    [] OTHER                          -> 0

WorkOf(p) == (Runs - run[p]) * CallWork + InCall(p)

(***************************************************************************)
(* Every step brings the party that takes it, or both, nearer to the end of*)
(* its calls, takes the other one not back, and leads to a state in which  *)
(* they can go on or all is over: the loops over the calls, the ranges and *)
(* the buckets (parallel_dpf.oc:27) all end, whatever the threads run.     *)
(***************************************************************************)
OldProgress ==
  [][/\ OldNeverStuck'
     /\ \A p \in Party : 0 <= WorkOf(p)' /\ WorkOf(p)' <= WorkOf(p)
     /\ \E p \in Party : WorkOf(p)' < WorkOf(p)]_vars

=============================================================================
