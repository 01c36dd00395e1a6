------------------------------ MODULE MpfssNew ------------------------------
(***************************************************************************)
(* code_master/mpfss_new_cuckoo: RunIndexProvider (party 1) and            *)
(* RunValueProvider (party 2), called Runs times on the same object by     *)
(* run_cuckoo_new_single_party_threads.cpp.                                *)
(*                                                                         *)
(* Of the connections there is what the code uses them for: the rendezvous *)
(* of accept and connect, the outcome of the assignment that party 1 sends,*)
(* and the b protocols that need both parties.                             *)
(***************************************************************************)
EXTENDS BucketShares

CONSTANTS
  Schedule, \* the distributions of the protocols to threads that are considered
  Runs      \* how often the driver calls the two functions

ASSUME NewAssumption ==
  /\ Schedule \subseteq [Bucket -> Nat]
  /\ Runs \in Nat \ {0}
  /\ Values \subseteq [0 .. t - 1 -> Block]

VARIABLES
  pc,        \* where each party is
  run,       \* the number of the call, in each party
  conns,     \* the connections established in this call (pd_temp)
  seed,      \* the seed of mc_args.rands; -1 as long as buckets_set is false
  indices,   \* party 1's indices
  y,         \* the values of each party
  matches,   \* party 1's matches: the index of each bucket, -1 for none
  wire,      \* succ on the way from party 1 to party 2
  owner,     \* owner[p][n]: the OpenMP thread of party p that runs protocol n
  proto,     \* proto[p][n]: the state of protocol n in party p
  dpf,       \* dpf[p][n]: dpf_bit_output and dpf_output of protocol n
  output     \* mpfss_bit_output and mpfss_output

call == <<seed, indices, y>>
vars == <<pc, run, conns, call, matches, wire, owner, proto, dpf, output>>

Todo == [n \in Bucket |-> "todo"]

Init ==
  /\ pc = <<"listen", "connect">>
  /\ run = <<1, 1>> /\ conns = <<0, 0>>
  /\ seed = <<-1, -1>>
  /\ indices \in Indices /\ y \in [Party -> Values]
  /\ matches = Unused /\ wire = "empty"
  /\ owner = [p \in Party |-> [n \in Bucket |-> 0]]
  /\ proto = [p \in Party |-> Todo]
  /\ dpf = [p \in Party |-> NoDpf]
  /\ output = [p \in Party |-> NoOutput]

-----------------------------------------------------------------------------
(***************************************************************************)
(* establish_connections.  Party 1 listens anew for each of the b          *)
(* connections; party 2 sleeps a second after each so that party 1 will    *)
(* have come to listen again.                                              *)
(***************************************************************************)
Listen ==
  /\ pc[1] = "listen"
  /\ pc' = [pc EXCEPT ![1] = "accept"]
  /\ UNCHANGED <<run, conns, call, matches, wire, owner, proto, dpf, output>>

Connect ==
  /\ pc[1] = "accept" /\ pc[2] = "connect"
  /\ conns' = [p \in Party |-> conns[p] + 1]
  /\ pc' = <<IF conns[1] + 1 < b THEN "listen" ELSE "buckets", "sleep">>
  /\ UNCHANGED <<run, call, matches, wire, owner, proto, dpf, output>>

\* Nobody listens: protocolConnectTcp2P fails and party 2 exits.
Refused ==
  /\ pc[1] # "accept" /\ pc[2] = "connect"
  /\ pc' = [pc EXCEPT ![2] = "exit"]
  /\ UNCHANGED <<run, conns, call, matches, wire, owner, proto, dpf, output>>

\* Bug: one connection less.
Wake_m1 ==
  /\ pc[2] = "sleep"
  /\ pc' = [pc EXCEPT ![2] = IF conns[2] + 1 < b THEN "connect" ELSE "buckets"]
  /\ UNCHANGED <<run, conns, call, matches, wire, owner, proto, dpf, output>>

Wake ==
  /\ pc[2] = "sleep"
  /\ pc' = [pc EXCEPT ![2] = IF conns[2] < b THEN "connect" ELSE "buckets"]
  /\ UNCHANGED <<run, conns, call, matches, wire, owner, proto, dpf, output>>

-----------------------------------------------------------------------------
\* create_buckets: each party seeds the hash functions with its own clock, in
\* the first call only.  A seed with which some key hashes to the least int would
\* end the program here (Assignment!PushThrows): Seed has the others only.
CreateBuckets(p) ==
  /\ pc[p] = "buckets"
  /\ \/ run[p] = 1 /\ \E s \in Seed : seed' = [seed EXCEPT ![p] = s]
     \/ run[p] > 1 /\ UNCHANGED seed
  /\ pc' = [pc EXCEPT ![p] = "assign"]
  /\ UNCHANGED <<run, conns, indices, y, matches, wire, owner, proto, dpf, output>>

Contract == INSTANCE AssignmentContract WITH
  indices  <- {indices[j] : j \in DOMAIN indices},
  home     <- Home(seed[1]),
  outcome  <- pc[1],
  assigned <- matches

\* run_exec_yao begins in party p: new arguments, the loop is distributed.
EnterYao(p) ==
  /\ pc' = [pc EXCEPT ![p] = "yao"]
  /\ \E o \in Schedule : owner' = [owner EXCEPT ![p] = o]

\* run_create_assignement in party 1, which tells party 2 the outcome.
Assign ==
  /\ pc[1] = "assign"
  /\ matches' \in [Bucket -> Key \union {-1}] /\ Contract!ValidAssignment(matches')
  /\ wire' = "assigned"
  /\ EnterYao(1)
  /\ UNCHANGED <<run, conns, call, proto, dpf, output>>

\* Bug: the failure is not sent.
AssignFails_m1 ==
  /\ pc[1] = "assign"
  /\ pc' = [pc EXCEPT ![1] = "failed"]
  /\ UNCHANGED <<run, conns, call, matches, wire, owner, proto, dpf, output>>

AssignFails ==
  /\ pc[1] = "assign"
  /\ wire' = "failed"
  /\ pc' = [pc EXCEPT ![1] = "failed"]
  /\ UNCHANGED <<run, conns, call, matches, owner, proto, dpf, output>>

\* Bug: party 2 does not look at what it received.
Receive_m1 ==
  /\ pc[2] = "assign" /\ wire # "empty"
  /\ wire' = "empty"
  /\ EnterYao(2)
  /\ UNCHANGED <<run, conns, call, matches, proto, dpf, output>>

\* run_create_assignement in party 2.
Receive ==
  /\ pc[2] = "assign" /\ wire # "empty"
  /\ wire' = "empty"
  /\ \/ wire = "assigned" /\ EnterYao(2)
     \/ wire = "failed" /\ pc' = [pc EXCEPT ![2] = "failed"] /\ UNCHANGED owner
  /\ UNCHANGED <<run, conns, call, matches, proto, dpf, output>>

-----------------------------------------------------------------------------
\* Bug: party 2 takes the protocols of a thread from the last to the first.
CanBegin_m1(p, n) ==
  /\ pc[p] = "yao" /\ proto[p][n] = "todo"
  /\ \A c \in Bucket : owner[p][c] = owner[p][n] /\ (IF p = 1 THEN c < n ELSE c > n)
       => proto[p][c] = "done"

CanBegin(p, n) ==
  /\ pc[p] = "yao" /\ proto[p][n] = "todo"
  /\ \A c \in Bucket : owner[p][c] = owner[p][n] /\ c < n => proto[p][c] = "done"

\* run_exec_yao: a thread takes its protocols in ascending order, and blocks in
\* execYaoProtocol until the other party runs the same one.
Begin(p, n) ==
  /\ CanBegin(p, n)
  /\ proto' = [proto EXCEPT ![p][n] = "running"]
  /\ UNCHANGED <<pc, run, conns, call, matches, wire, owner, dpf, output>>

BothRun(n) == \A p \in Party : proto[p][n] = "running"

BucketOf(p, n) == Buckets[seed[p]][n]

\* mpfss_single_bucket: protocol n, when both parties run it on buckets of the same length.
RunProtocol(n) ==
  /\ BothRun(n)
  /\ Len(BucketOf(1, n)) = Len(BucketOf(2, n))
  /\ \E mask \in Mask, stray \in Block :
       LET point == PointOf(BucketOf(1, n), matches[n], BetaOf(y, matches, n), stray) IN
       dpf' = [p \in Party |-> [dpf[p] EXCEPT ![n] = SharesOf(point, mask)[p]]]
  /\ proto' = [p \in Party |-> [proto[p] EXCEPT ![n] = "done"]]
  /\ UNCHANGED <<pc, run, conns, call, matches, wire, owner, output>>

\* On buckets of different lengths the parties run different circuits, and
\* what becomes of them is undefined.
OutOfStep(n) ==
  /\ BothRun(n)
  /\ Len(BucketOf(1, n)) # Len(BucketOf(2, n))
  /\ pc' = [p \in Party |-> "undefined"]
  /\ UNCHANGED <<run, conns, call, matches, wire, owner, proto, dpf, output>>

\* Bug: a value overwrites what earlier buckets contributed.
Sum_m1(p, k) ==
  {e \in BitPos \union {"bit"} : \E h \in Hits(Buckets[seed[p]], k) :
     /\ e \in dpf[p][h[1]][h[2] - 1]
     /\ \A g \in Hits(Buckets[seed[p]], k) : g[1] < h[1] \/ (g[1] = h[1] /\ g[2] <= h[2])}

\* prepare_results_new: the exclusive or of all elements of party p's DPFs that
\* stand for key k.
Sum(p, k) == XorAt(Buckets[seed[p]], dpf[p], k)

CanReturn(p) == pc[p] = "yao" /\ \A n \in Bucket : proto[p][n] = "done"

\* All protocols have ended: prepare_results_new, and the arguments and matches
\* are freed.
Return(p) ==
  /\ CanReturn(p)
  /\ output' = [output EXCEPT ![p] = [k \in Key |-> Sum(p, k)]]
  /\ pc' = [pc EXCEPT ![p] = "ok"]
  /\ proto' = [proto EXCEPT ![p] = Todo]
  /\ dpf' = [dpf EXCEPT ![p] = NoDpf]
  /\ matches' = IF p = 1 THEN Unused ELSE matches
  /\ UNCHANGED <<run, conns, call, wire, owner>>

\* Bug: connections are added to those of the previous call.
NextRun_m1(p) ==
  /\ pc[p] \in {"ok", "failed"} /\ run[p] < Runs
  /\ run' = [run EXCEPT ![p] = @ + 1]
  /\ pc' = [pc EXCEPT ![p] = IF p = 1 THEN "listen" ELSE "connect"]
  /\ output' = [output EXCEPT ![p] = NoOutput]
  /\ \E v \in Values : y' = [y EXCEPT ![p] = v]
  /\ IF p = 1 THEN indices' \in Indices ELSE indices' = indices
  /\ UNCHANGED <<conns, seed, matches, wire, owner, proto, dpf>>

\* main: the next call on the same object, with new indices and values.
NextRun(p) ==
  /\ pc[p] \in {"ok", "failed"} /\ run[p] < Runs
  /\ run' = [run EXCEPT ![p] = @ + 1]
  /\ conns' = [conns EXCEPT ![p] = 0]
  /\ pc' = [pc EXCEPT ![p] = IF p = 1 THEN "listen" ELSE "connect"]
  /\ output' = [output EXCEPT ![p] = NoOutput]
  /\ \E v \in Values : y' = [y EXCEPT ![p] = v]
  /\ IF p = 1 THEN indices' \in Indices ELSE indices' = indices
  /\ UNCHANGED <<seed, matches, wire, owner, proto, dpf>>

Next ==
  \/ Listen \/ Connect \/ Refused \/ Wake
  \/ \E p \in Party : CreateBuckets(p)
  \/ Assign \/ AssignFails \/ Receive
  \/ \E p \in Party, n \in Bucket : Begin(p, n)
  \/ \E n \in Bucket : RunProtocol(n) \/ OutOfStep(n)
  \/ \E p \in Party : Return(p)
  \/ \E p \in Party : NextRun(p)

Spec == Init /\ [][Next]_vars

\* Both processes and their threads keep running.
FairSpec == Spec /\ WF_vars(Next)

-----------------------------------------------------------------------------
NTypeOK ==
  /\ pc[1] \in {"listen", "accept", "buckets", "assign", "yao", "ok", "failed", "undefined"}
  /\ pc[2] \in {"connect", "sleep", "buckets", "assign", "yao", "ok", "failed",
                "exit", "undefined"}
  /\ run \in [Party -> 1 .. Runs] /\ conns \in [Party -> 0 .. b]
  /\ seed \in [Party -> Seed \union {-1}]
  /\ indices \in Indices /\ y \in [Party -> Values]
  /\ matches \in [Bucket -> Key \union {-1}]
  /\ wire \in {"empty", "assigned", "failed"}
  /\ owner \in [Party -> [Bucket -> Nat]]
  /\ proto \in [Party -> [Bucket -> {"todo", "running", "done"}]]
  /\ output \in [Party -> Vector]

(***************************************************************************)
(* A connection is established, and everything after it done, only between *)
(* the same calls of the two parties: a party that is ahead has no         *)
(* connection yet, and no party goes on without all of its connections.    *)
(***************************************************************************)
CallsAligned ==
  /\ run[1] > run[2] => pc[1] \in {"listen", "accept"} /\ conns[1] = 0
  /\ run[2] > run[1] => pc[2] \in {"connect", "exit"} /\ conns[2] = 0
  /\ run[1] = run[2] => conns[1] = conns[2]
  /\ \A p \in Party :
       pc[p] \notin {"listen", "accept", "connect", "sleep", "exit"} => conns[p] = b

(***************************************************************************)
(* Both parties get the same status from a call: an assignment that failed *)
(* in party 1 is a failure in party 2, and an outcome is never left over   *)
(* for the next call.                                                      *)
(***************************************************************************)
OutcomesAgree ==
  /\ run[1] = run[2] =>
       /\ pc[1] = "failed" => pc[2] \notin {"yao", "ok"}
       /\ pc[2] = "failed" => pc[1] = "failed"
       /\ pc[2] \in {"yao", "ok"} => pc[1] \in {"yao", "ok"}
  /\ wire # "empty" => pc[2] \in {"sleep", "buckets", "assign"}

\* The thread of party p that owns protocol n is running it or about to.
AtTurn(p, n) ==
  /\ proto[p][n] # "done"
  /\ \A c \in Bucket \ {n} : owner[p][c] = owner[p][n] =>
       /\ proto[p][c] # "running"
       /\ c < n => proto[p][c] = "done"

(***************************************************************************)
(* No deadlock among the threads: while both parties are in run_exec_yao,  *)
(* there is a protocol that both are running or about to run, however many *)
(* threads each has and however the loop is distributed to them.           *)
(***************************************************************************)
SomeProtocolCanProceed ==
  (\A p \in Party : pc[p] = "yao") /\ (\E p \in Party, n \in Bucket : proto[p][n] # "done")
    => \E n \in Bucket : \A p \in Party : AtTurn(p, n)

(***************************************************************************)
(* The vectors that the parties return combine to the function that is 0   *)
(* except at the indices and, at the k-th smallest index, the combination  *)
(* of the parties' k-th values; provided that both clocks gave the same    *)
(* seed (cuckoo.cpp:211).                                                  *)
(***************************************************************************)
Returned == run[1] = run[2] /\ pc[1] = "ok" /\ pc[2] = "ok" /\ seed[1] = seed[2]

ResultsShareFunction ==
  Returned =>
    /\ \A k \in Key \ {indices[j] : j \in DOMAIN indices} : output[1][k] = output[2][k]
    /\ \A j \in DOMAIN indices :
         LET r == Rank(indices, j) IN
         Xor(output[1][indices[j]], output[2][indices[j]]) =
           {"bit"} \union Xor(y[1][r], y[2][r])

(***************************************************************************)
(* README.md:14-16: combining the two vectors gives the input function,    *)
(* the one whose value at indices[j] the parties gave as y[j].             *)
(***************************************************************************)
InputFunctionShared ==
  Returned => \A j \in DOMAIN indices :
    Xor(output[1][indices[j]], output[2][indices[j]]) = {"bit"} \union Xor(y[1][j], y[2][j])

(***************************************************************************)
(* Where the two processes may stop: all calls have returned, party 2 found*)
(* nobody listening, or the seeds differ and the protocols are out of step.*)
(***************************************************************************)
Ended == \A p \in Party : run[p] = Runs /\ pc[p] \in {"ok", "failed"}
Over  == Ended \/ pc[2] = "exit" \/ (pc[2] = "undefined" /\ seed[1] # seed[2])

(***************************************************************************)
(* A step that a party or one of its threads may take: what the actions of *)
(* Next wait for.                                                          *)
(***************************************************************************)
CanProceed ==
  \/ pc[1] \in {"listen", "assign"} \/ pc[2] \in {"connect", "sleep"}
  \/ pc[2] = "assign" /\ wire # "empty"
  \/ \E p \in Party : \/ pc[p] = "buckets" \/ CanReturn(p)
                      \/ pc[p] \in {"ok", "failed"} /\ run[p] < Runs
  \/ \E n \in Bucket : BothRun(n) \/ \E p \in Party : CanBegin(p, n)

(***************************************************************************)
(* No deadlock between the two processes: in no call does a party wait for *)
(* a connection, for the outcome of the assignment or for a protocol that  *)
(* the other party will not come to, whatever the other one is at.         *)
(***************************************************************************)
NewNeverStuck == CanProceed \/ Over

(***************************************************************************)
(* What is left to do for party p: its calls, at most CallWork steps each, *)
(* and in a call the connections, the protocols to begin and those to end. *)
(***************************************************************************)
CallWork == 4 * b + 6

ToRun(p) == Cardinality({n \in Bucket : proto[p][n] = "todo"})
              + Cardinality({n \in Bucket : proto[p][n] # "done"})

ToConnect(p) == 2 * (b - conns[p]) + CASE pc[p] = "accept" -> -1 [] pc[p] = "sleep" -> 1 [] OTHER -> 0

InCall(p) ==
  CASE pc[p] \in {"listen", "accept", "connect", "sleep"} -> 2 * b + 4 + ToConnect(p)
    [] pc[p] = "buckets"   -> 2 * b + 4
    [] pc[p] = "assign"    -> 2 * b + 3
    [] pc[p] = "yao"       -> 1 + ToRun(p)
    [] pc[p] = "undefined" -> ToRun(p)
    [] OTHER -> 0

WorkOf(p) == (Runs - run[p]) * CallWork + InCall(p)

(***************************************************************************)
(* Neither party goes round in circles or is left waiting: every step      *)
(* leaves less to do in one of them and no more in the other one, and      *)
(* leads to a state in which they can go on or all is over.                *)
(***************************************************************************)
NewProgress ==
  [][/\ NewNeverStuck'
     /\ \A p \in Party : 0 <= WorkOf(p)' /\ WorkOf(p)' <= WorkOf(p)
     /\ \E p \in Party : WorkOf(p)' < WorkOf(p)]_vars

(***************************************************************************)
(* Equal seeds keep the protocols in step; and all calls return in both    *)
(* parties, unless party 2 finds nobody listening or the seeds differ.     *)
(***************************************************************************)
EndsTogether == <>Over

=============================================================================
