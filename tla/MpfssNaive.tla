----------------------------- MODULE MpfssNaive -----------------------------
(***************************************************************************)
(* includes/mpfss_naive: the protocol without hashing.  One DPF of the full*)
(* length per index; each party xors its outputs into one vector.          *)
(*                                                                         *)
(* With threads > 1, parallize_naive gives each thread a range of DPFs and *)
(* a protocol of its own, split off before; the threads of a party xor into*)
(* the same vector without a lock.  One thread stands for the sequential   *)
(* code as well, which does the same for the whole range.                  *)
(*                                                                         *)
(* A cell of the vector, bit and value, is read and written as one place;  *)
(* in the code it is seventeen bytes that are read and written one by one. *)
(***************************************************************************)
EXTENDS Shares

CONSTANTS
  Size,        \* mpfss->size
  MaxT,        \* the greatest t
  MaxThreads,  \* the greatest number of threads
  Mask,        \* party 1's outputs of a DPF (random) that are considered
  Inputs,      \* the vectors of indices that are considered
  Values       \* the pairs of the parties' vectors of shares that are considered

Key  == 0 .. Size - 1
Cell == SUBSET (BitPos \union {"bit"})

Injective(f) == \A x, z \in DOMAIN f : f[x] = f[z] => x = z

ASSUME NaiveAssumption ==
  /\ Size \in Nat \ {0} /\ MaxT \in 1 .. Size /\ MaxThreads \in Nat \ {0}
  /\ Mask \subseteq [Key -> Cell]
  /\ Inputs \subseteq UNION {{x \in [0 .. n - 1 -> Key] : Injective(x)} : n \in 1 .. MaxT}
  /\ Values \subseteq [Party -> [0 .. MaxT - 1 -> Block]]

VARIABLES
  t,        \* mpfss->t
  threads,  \* mpfss->threads
  given,    \* party 1's indices as they were given
  indices,  \* indices_notobliv, sorted in place by get_mpfss_vectors
  share,    \* beta_share of each party
  pc,       \* "sort", "dpfs" or "done", for both parties
  at,       \* at[p][k]: what thread k of party p does
  j,        \* j[p][k]: its DPF
  i,        \* i[p][k]: its position in the vector
  loaded,   \* loaded[p][k]: the cell it has read
  local,    \* local[p][k]: its local_output_ret
  output,   \* output[p]: mpfss_bit_output and mpfss_value_output
  ran       \* ran[n]: how often DPF n has been executed

input  == <<t, threads, given, share>>
thread == <<at, j, i, loaded, local>>
vars == <<input, indices, pc, thread, output, ran>>

Thread == 0 .. MaxThreads - 1

\* parallize_naive: the number of threads and the first DPF after a thread's range.
used_threads == IF t < threads THEN t ELSE threads
base == t \div threads

\* Bug: the remainder is left out.
max_arr_m1 == [k \in Thread |-> (k + 1) * base]

\* Each range is base long, the first rest ones are one longer.
max_arr == [k \in Thread |->
  (k + 1) * base + IF k < t - base * threads THEN k + 1 ELSE t - base * threads]

min_arr == [k \in Thread |-> IF k = 0 THEN 0 ELSE max_arr[k - 1]]

\* The threads that have a range.
Used == {k \in 0 .. used_threads - 1 : min_arr[k] < max_arr[k]}

Each(v) == [p \in Party |-> [k \in Thread |-> v]]

Init ==
  /\ given \in Inputs /\ t = Cardinality(DOMAIN given) /\ indices = given
  /\ threads \in 1 .. MaxThreads
  /\ share \in Values
  /\ pc = "sort"
  /\ at = Each("idle") /\ j = Each(0) /\ i = Each(0)
  /\ loaded = Each({}) /\ local = Each([k \in Key |-> {}])
  /\ output = [p \in Party |-> [k \in Key |-> {}]]
  /\ ran = [n \in 0 .. t - 1 |-> 0]

-----------------------------------------------------------------------------
\* Bug: the sort copies an element over another one.
Sort_m1 ==
  /\ pc = "sort"
  /\ indices' \in [0 .. t - 1 -> {given[n] : n \in 0 .. t - 1}]
  /\ \A n, m \in 0 .. t - 1 : n < m => indices'[n] <= indices'[m]
  /\ pc' = "dpfs"
  /\ at' = [p \in Party |-> [k \in Thread |-> IF k \in Used THEN "dpf" ELSE "ended"]]
  /\ j' = [p \in Party |-> min_arr]
  /\ UNCHANGED <<input, i, loaded, local, output, ran>>

(***************************************************************************)
(* get_mpfss_vectors: party 1's indices are sorted (party 2's are all 0),  *)
(* the shares are not; then the loop over the threads begins.              *)
(***************************************************************************)
Sort ==
  /\ pc = "sort"
  /\ indices' \in [0 .. t - 1 -> {given[n] : n \in 0 .. t - 1}]
  /\ \A n, m \in 0 .. t - 1 : n < m => indices'[n] < indices'[m]
  /\ pc' = "dpfs"
  /\ at' = [p \in Party |-> [k \in Thread |-> IF k \in Used THEN "dpf" ELSE "ended"]]
  /\ j' = [p \in Party |-> min_arr]
  /\ UNCHANGED <<input, i, loaded, local, output, ran>>

\* dpf_with_beta for index n, in both parties: PointFunction of DpfWithBeta.
Point(n) == [k \in Key |->
  IF k = indices[n] THEN {"bit"} \union Xor(share[1][n], share[2][n]) ELSE {}]

\* Thread k runs its DPF; both parties have to come to it.
Dpf(k) ==
  /\ \A p \in Party : at[p][k] = "dpf" /\ j[p][k] < max_arr[k]
  /\ \E mask \in Mask :
       LET point == Point(j[1][k]) IN
       local' = <<[local[1] EXCEPT ![k] = mask],
                  [local[2] EXCEPT ![k] = [c \in Key |-> Xor(mask[c], point[c])]]>>
  /\ ran' = [ran EXCEPT ![j[1][k]] = @ + 1]
  /\ at' = [p \in Party |-> [at[p] EXCEPT ![k] = "read"]]
  /\ i' = [p \in Party |-> [i[p] EXCEPT ![k] = 0]]
  /\ UNCHANGED <<input, indices, pc, j, loaded, output>>

\* The cell is read ...
Read(p, k) ==
  /\ at[p][k] = "read" /\ i[p][k] < Size
  /\ loaded' = [loaded EXCEPT ![p][k] = output[p][i[p][k]]]
  /\ at' = [at EXCEPT ![p][k] = "write"]
  /\ UNCHANGED <<input, indices, pc, j, i, local, output, ran>>

\* Bug: the output of the DPF replaces what is there.
Write_m1(p, k) ==
  /\ at[p][k] = "write"
  /\ output' = [output EXCEPT ![p][i[p][k]] = local[p][k][i[p][k]]]
  /\ i' = [i EXCEPT ![p][k] = @ + 1]
  /\ at' = [at EXCEPT ![p][k] = "read"]
  /\ UNCHANGED <<input, indices, pc, j, loaded, local, ran>>

\* ... and written back with the output of the DPF.
Write(p, k) ==
  /\ at[p][k] = "write"
  /\ output' = [output EXCEPT ![p][i[p][k]] = Xor(loaded[p][k], local[p][k][i[p][k]])]
  /\ i' = [i EXCEPT ![p][k] = @ + 1]
  /\ at' = [at EXCEPT ![p][k] = "read"]
  /\ UNCHANGED <<input, indices, pc, j, loaded, local, ran>>

\* The next DPF of the range, or the end of it.
NextDpf(p, k) ==
  /\ at[p][k] = "read" /\ i[p][k] = Size
  /\ j' = [j EXCEPT ![p][k] = @ + 1]
  /\ at' = [at EXCEPT ![p][k] = IF j[p][k] + 1 < max_arr[k] THEN "dpf" ELSE "ended"]
  /\ UNCHANGED <<input, indices, pc, i, loaded, local, output, ran>>

\* All threads of both parties have ended.
Join ==
  /\ pc = "dpfs"
  /\ \A p \in Party, k \in Thread : at[p][k] = "ended"
  /\ pc' = "done"
  /\ UNCHANGED <<input, indices, thread, output, ran>>

Done == pc = "done" /\ UNCHANGED vars

Next ==
  \/ Sort \/ Join \/ Done
  \/ \E k \in Thread : Dpf(k)
  \/ \E p \in Party, k \in Thread : Read(p, k) \/ Write(p, k) \/ NextDpf(p, k)

Spec == Init /\ [][Next]_vars

-----------------------------------------------------------------------------
VTypeOK ==
  /\ t \in 1 .. MaxT /\ threads \in 1 .. MaxThreads
  /\ given \in [0 .. t - 1 -> Key] /\ Injective(given) /\ share \in Values
  /\ indices \in [0 .. t - 1 -> Key] /\ Injective(indices)
  /\ pc \in {"sort", "dpfs", "done"}
  /\ at \in [Party -> [Thread -> {"idle", "dpf", "read", "write", "ended"}]]
  /\ j \in [Party -> [Thread -> Nat]] /\ \A p \in Party, k \in Used : j[p][k] \in 0 .. t
  /\ i \in [Party -> [Thread -> 0 .. Size]]
  /\ loaded \in [Party -> [Thread -> Cell]]
  /\ local \in [Party -> [Thread -> [Key -> Cell]]]
  /\ output \in [Party -> [Key -> Cell]]
  /\ ran \in [0 .. t - 1 -> Nat]

(***************************************************************************)
(* The ranges are a partition: no DPF is executed twice, by one thread or  *)
(* by two, and none is left out, for every t and number of threads.        *)
(***************************************************************************)
EachDpfOnce ==
  /\ \A n \in DOMAIN ran : ran[n] <= 1
  /\ pc = "done" => \A n \in DOMAIN ran : ran[n] = 1

\* The parties' cells at the k-th smallest index, and everywhere else, combined.
SharesOfSortedFunction ==
  /\ \A k \in Key \ {given[n] : n \in DOMAIN given} : output[1][k] = output[2][k]
  /\ \A n \in DOMAIN given :
       LET r == Rank(given, n) IN
       Xor(output[1][given[n]], output[2][given[n]]) =
         {"bit"} \union Xor(share[1][r], share[2][r])

(***************************************************************************)
(* With one thread the vectors combine to the function that has the k-th   *)
(* shared value at the k-th smallest index.                                *)
(***************************************************************************)
SequentialShares == pc = "done" /\ threads = 1 => SharesOfSortedFunction

(***************************************************************************)
(* README.md:14-16, for every number of threads: combining the two vectors *)
(* gives the function, evaluated everywhere.                               *)
(***************************************************************************)
ThreadedShares == pc = "done" => SharesOfSortedFunction

=============================================================================
