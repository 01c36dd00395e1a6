# A TLA+ development of MPFSS_Cuckoo

The program lets two parties compute secret shares of a *multi-point function*: a vector of
`size` elements that is zero except at `t` indices that only party 1 knows; the value at an index
is itself shared. The indices are put into buckets by cuckoo hashing, one distributed point
function (DPF) is evaluated per bucket inside a two-party computation (Obliv-C), and each party
combines the outputs of its DPFs into one vector. The older protocol evaluates one DPF of the full
length per index instead.

The modules here describe that code, line ranges in `PROJECT.json`; TLC checks them on small
instances and TLAPS proves the safety properties for all values of the constants, those of the search trees
excepted; that the processes and their threads neither deadlock nor run in circles is among them.

## 1. Inventory

| Component | Code | State | Operations | What is hard |
|---|---|---|---|---|
| Cuckoo hashing | `includes/cuckoo/cuckoo.cpp` | tables, usage bits, seeds | `initialize`, `place` (recursive random walk), `cuckoo` | long walks; failure in the middle of one; `abs(INT_MIN)`; the equality test with `max_loop` |
| Buckets, assignment | `mpfss_cuckoo/buckets.cpp` | `all_buckets`, `bucket_lenghts`, `matches` | `preparations`, `generate_buckets_cuckoo`, `create_assignement` | table slots and bucket numbers have to agree; binary search; failure without a partial result |
| FSS with correlated PRG | `fss-altered/fss_cprg_altered.{c,oc}` | two node buffers that swap roles, control bits, accumulators, Z and advice per level | `offline_start`, `offline_process_round`, `offline_finalize`, `traverselevels` | pruned trees of any size; buffers that alternate; corrections that both parties apply |
| DPF with beta | `mpfss_naive/mpfss_naive.oc:56-268`, `:282-388` | outputs, `temp_local` | `dpf_with_beta`, `dpf_proper` | index -1 of an unused bucket; repair of one bit; the product in `dpf_proper` |
| Shared values | `includes/secret_share_beta.oc` | padded shares, list of buckets | `create_beta_vals` | two oblivious sorts; positions instead of names |
| MPFSS, one protocol per bucket | `mpfss_new_cuckoo/` | `mc_args` (buckets, matches, results), `pd_vec` | `RunIndexProvider`, `RunValueProvider` and what they call | b connections, an outcome message, b protocols on OpenMP threads in both parties, repeated calls on one object |
| Naive MPFSS | `includes/mpfss_naive/` | result vectors, ranges of threads | `run_mpfss_naive`, `get_mpfss_vectors`, `parallize_naive` | threads that share the result vector; ranges; a sort in place |
| FSS without correlated PRG | `fss-altered/fss_altered.{c,oc}` | `readycount` in both structures, Z and advice per level, two node buffers | `fss_traverselevels`, `fss_Z_pusher`, `fss_offline_readblockvector`, `fss_offline_parallelizer` | three activities per party that wait for each other by polling counters |
| MPFSS in one protocol | `mpfss_cuckoo/` | as above, one connection | `RunIndexProvider`, `RunValueProvider`, `mpfss_batch_cuckoo`, `parallize` | outcome message, threads over ranges of buckets, values as bytes and back |
| Selection of indices | `includes/util.c:108-157` (`create_indices.c` is an earlier copy that `BUILD` does not compile) | array of indices | `create_indices` | a flag that is never reset; the fallback |
| Batch codes (list, tree) | `linked_list.c`, `list_utils.c`, `binary_search_tree.c`, `*_batch_creation.oc` | lists of batches and of indices, one search tree per batch, matches | insertion and deletion in lists and trees, creation of batches, matching of indices with batches, combination of the vectors | pointer structures under deletion at any place; the ends of lists; empty batches; fewer or more batches than indices |
| 128-bit arithmetic | `includes/uint128.c` | none | `mult64to128`, which nothing calls | carries |
| Structures, benchmarks, drivers, `vole.cpp` (commented out) | | | | no decisions of their own |

**Interaction.** A driver calls `RunIndexProvider` in one process and `RunValueProvider` in the
other, several times with the same object. Each call opens `b = 1.5 t` TCP connections, builds the
buckets in the first call (both parties, from the same seeds), runs the assignment in party 1, sends
its outcome to party 2 over connection 0, runs one `mpfss_single_bucket` per connection on OpenMP
threads (each of them `create_beta_vals` for all buckets and one `dpf_with_beta`) and sums up the
outputs. `create_assignement` calls `cuckoo`, which calls `place`. The naive protocol takes its indices from
`create_indices`. The batch codes are what the assignment was before cuckoo hashing: they take indices from
`create_indices`, and create the batches in both parties from random numbers that they exchange. No driver calls
them any more, `mpfss_batch_codes.oh` is missing, and line 275 of the tree version passes `create_indices` an
argument that it no longer has.

**Correctness.** Assignment: every index in one bucket that contains it, at the right position, or
a clean failure. DPF: shares of the point function, for every size and for unused buckets.
FSS: no interleaving of its activities expands a level with a correction that is not there, and none blocks.
Values: the value of the right rank, zero in unused buckets. Protocol: both parties agree on the
outcome and the call, no circular waiting, and the two vectors combine to the function. Indices: distinct.
Batch codes: lists and trees keep exactly what was not deleted; every index in a batch of its own that contains it, or
failure because there is none; an end.

## 2. Modules

| Module | Models | Extends / uses |
|---|---|---|
| `Cuckoo` | cuckoo.cpp: one step per activation of `place` | |
| `AssignmentContract` | abstract: one step to a valid assignment, or to failure | |
| `Assignment` | buckets.cpp around the cuckoo table | extends `Cuckoo`, refines `AssignmentContract` |
| `Shares` | blocks as sets of bits, xor, rank of an index | |
| `FssTree` | generator, powers of two and buffers of both FSS | extends `Shares` |
| `FssCprg` | the tree of both parties, node by node | extends `FssTree` |
| `FssAltered` | the concurrent activities of fss_altered in both parties | extends `FssTree` |
| `DpfWithBeta` | `dpf_with_beta` and `dpf_proper` around it | extends `FssCprg` |
| `BetaShares` | `create_beta_vals` | extends `Shares` |
| `DpfOutputs` | what the outputs of the DPFs of buckets are and combine to, as operators | extends `Shares` |
| `BucketShares` | buckets, indices, DPFs and their sum, for the two protocols over buckets | extends `DpfOutputs` |
| `MpfssNew` | both parties of mpfss_new_cuckoo, repeated calls | extends `BucketShares`, uses `AssignmentContract` |
| `MpfssOld` | both parties of mpfss_cuckoo, repeated calls | extends `BucketShares`, uses `AssignmentContract` |
| `MpfssNaive` | both parties of mpfss_naive, threads | extends `Shares` |
| `CreateIndices` | `create_indices`: draws, fallback | |
| `LinkedList` | linked_list.c and `del_batch`: operators on a heap of nodes | |
| `SearchTree` | binary_search_tree.c: recursive operators, and what they promise | |
| `BatchCodes` | both batch codes, from the selection of indices to the result | extends `CreateIndices`, `LinkedList` |
| `MC*` | the instances for TLC | `MCBatchCodes` uses `SearchTree` |
| `ShareFacts` | lemmas about numbers, cardinalities, ranges of threads and outputs of DPFs | extends `DpfOutputs` |
| `*Proofs` | proofs about a module; `PartsProofs` about the smaller ones | extend their module, `ShareFacts` but for `AssignmentProofs` |

How state and actions correspond to the code:

* **Cuckoo.** `keys`, `rands` are the arguments, `table`/`table_usage` the fields of
  `cuckoo_hashing` indexed by (table, position), `pc`, `i`, `key`, `tableID`, `cnt` the frames of
  `cuckoo` and of the tail-recursive `place`. `StartKey` calls `place` for the next key; `PlaceFree`,
  `PlaceEvict`, `PlaceFail` and `PlaceThrow` are the branches of one activation, with the random walk's
  choice as `\E f`; `Finish` returns. `rand_no` (the second component of a cell) never influences a
  choice and is left out. Integers are two's complement of a constant width, because
  `abs` of the least one matters.
* **Assignment.** `PushKey` is one iteration of the inner loop of `generate_buckets_cuckoo`,
  `CuckooStep` any step of `Cuckoo`, `AssignFailed` and `BuildMatches` the two endings. The contract has
  the indices, the buckets of each key and the resulting function only.
* **FssCprg.** One `Party` function per buffer; `ProcessNode` is one iteration of the offline loop for
  *both* parties. They do not communicate between two reveals, so the order of their nodes cannot
  matter and lock step loses nothing. `Reveal` is one level of `traverselevels`, done inside the
  two-party computation. A block is a set of bits, the PRG an arbitrary pair of functions.
  `Pow2` is a constant function with its recurrence as assumption, so that the proofs need no
  exponentiation.
* **DpfWithBeta.** `RevealDelta`, `CorrectValues`, `CorrectIndex` are the three
  sections of `dpf_with_beta` after the FSS. `dpf_proper` differs in two places, so `set_beta` says which of the two
  runs: its beta is 1 in every byte, or 0 without an index (`BetaOfProper`), and it reveals the product
  (`RevealProduct`).
* **FssAltered.** `TraverseLevel` is one round of `fss_traverselevels` in the master thread; oblivious values
  are one for both parties, fixed when party 1 garbles them, and party 2 can evaluate what has been
  `flushed`. `RevealTo2`, `RevealTo1`, `ReceiveAnswer`, `WriteZ`, `CountZ` are one round of `fss_Z_pusher`: the two
  halves of the reveal, the write to `fss_offline` and, separately, its counter. `ExpandLevel` and
  `ExpandLeaves` are one level of `fss_offline_readblockvector`, whose threads write disjoint cells between two
  barriers. `StartTask` is OpenMP: `task[p][a]` is who runs a task, `team[p]` the number of threads the party
  got, `proto[p]` the master's current protocol afterwards.
* **BetaShares.** One action per section of `create_beta_vals`; `osort_batcher` is any
  permutation sorted by the given field.
* **MpfssNew.** `pc[p]` is where party p is in its function, `proto[p][n]` the state of iteration n of
  its OpenMP loop, `owner[p]` the distribution of iterations to threads, which run theirs in
  ascending order and block until the other party is in the same protocol. `Refused`
  is a connect that nobody listens for. `seed[p]` is what party p's clock gave
  `create_rand_vector`. The components enter by the properties checked (and proved) for them: buckets
  are constants with `BucketsCorrect`'s order, `Assign` uses the contract, `PointOf` is
  `PointFunction` with the betas of `PairedByRank`.
* **MpfssOld.** The same calls with one connection. `src/README.md:124` says that this code "does not allow
  multi-threading during execution"; it does have threads (`parallize` in parallel.c, with the number that
  run_cuckoo_single_party_threads.cpp passes), so they are modelled, and one thread is one of the cases. `EnterLoop` is `mpfss_batch_cuckoo` up to the loop, in both
  parties together because splitting, `create_beta_vals` and the broadcast need both; `Begin`, `RunDpf`,
  `EndRange` are the loop of `call_dpf_threaded` over range k (`at`, `i`), one range for the loop
  without threads; `Sum` is `create_mpfss_vector_cuckoo`. A value is the set of its bytes that are not zero, one
  bit of each: `ToBytes` puts them at the end of a block, `FromBytes` is the loop that shifts them into a variable
  nobody initialized (`garbage`).
* **MpfssNaive.** `at[p][k]`, `j[p][k]`, `i[p][k]` are control, DPF and position of thread k of party p;
  reading and writing a cell of the result are two steps, as there is no lock. One thread stands for
  the sequential loop too, which has the same body.
* **CreateIndices.** `DrawIndex` is one iteration of the loop; `Drawn` and `Consecutive` are the two endings.
* **LinkedList.** A list is a function from nodes to their pointers, so that unlinking one node is an update of its
  neighbours; `del` removes the node from the heap, `get_head` is a loop as long as the heap.
* **SearchTree.** A tree is a value, and an operator returns the tree that its function leaves. `s` is what is stored
  with a key. `FindsFirst` and `ListsAll` say what `search` and `inorder_array` make of the tree of a sequence of
  keys inserted in turn; they are what `BatchCodes` takes a batch for.
* **BatchCodes.** `method` says which of the two is run. `PutInto` is the body of the loops over numbers and copies;
  the two parties are one, since the numbers drawn are exchanged and nothing else differs. A batch is the sequence
  of its numbers in the order in which they were put in: `Places` are the positions of an index, and a search finds
  the first of them, `First`. That the tree of such a sequence does this is `TreesCorrect`. `BstMatch`, `BstMiss`,
  `BstEnd`, `BstOverrun` are the outcomes of one search (`element` is the batch), `CombineVectors` the combination of the DPFs;
  `LlMatch`, `LlMiss`, `LlEmpty` those of `check_this_batch_ll` with what its caller makes of them.

## 3. Runs

| Run | Instance | Result |
|---|---|---|
| `cuckoo` | 4 keys, 2 tables of lengths 2 and 3, 2 hash functions, `max_loop` 4, 4-bit ints | passes |
| `assignment` | 3 indices of 6 keys, 4 buckets, 2 hash functions, 5-bit ints | passes, with the refinement |
| `dpf` | all sizes 1..6, all indices and -1, blocks of 2 bits, all betas and roots, `dpf_with_beta` and `dpf_proper` | passes |
| `beta_shares` | `used` = 2, b = 4, 3 possible indices, all shares | passes |
| `fss_altered` | sizes 2, 3, 5, all indices and -1, blocks of 2 bits, teams of 1 to 3 threads per party | passes |
| `mpfss_old` | size 3, t = 2, b = 3, 2 calls, 1, 2 or 4 threads, 1 or 2 OpenMP threads per party, 2 seeds, values of 2 bytes in blocks of 3 | passes |
| `mpfss_new` | size 4, t = 2, b = 3, 2 calls, 1 or 2 threads per party, 2 seeds | passes |
| `mpfss_naive` | size 3, up to 3 DPFs, 1 or 2 threads per party | passes |
| `batch_codes` | 4 numbers in 2 batches each, (t, m) = (3, 3), (3, 2), (2, 3), (1, 2); all trees of up to 5 of 4 keys, and those of the batches, of up to 8 | passes |
| `mpfss_new_order` | as `mpfss_new`, one call | `InputFunctionShared` is violated |
| `mpfss_naive_race` | as `mpfss_naive` | `ThreadedShares` is violated |
| `dpf_proper` | as `dpf` | `ProperPointFunction` is violated |

Why the bounds are enough to be interesting. *cuckoo*: four keys in five slots with colliding functions
give walks of every length up to the limit, failures and the throwing hash. *assignment*: the
seeds make two functions collide on some keys (a key twice in a bucket) and one of them hit the
least integer. *dpf*: sizes 1, 2, 4 are full trees, 3, 5, 6 pruned ones, depths 0 to 3 cover both
parities of the buffers. *beta_shares*: as many unused as used buckets, all positions, both orders.
*mpfss_new*: the first seed has buckets with a key twice, the second has other lengths, so that a clock
that moves on between the parties is covered; two calls show what is left over from the first, whether it
succeeded or failed. *fss_altered*: trees of one level, of a pruned and of three levels (size 5: the master can be two levels
ahead of the pusher and the pusher ahead of the expansion); a team of one runs the tasks one after the other,
a team of two makes the master take the second one, a team of three takes both at once. *mpfss_old*: with 2
threads the ranges differ in length, with 4 there are more threads than buckets. *mpfss_naive*: 3 DPFs over 2 threads leave a remainder, 1 DPF over 2 threads
leaves a thread without work. *batch_codes*: the draws give every distribution of the numbers, with empty
batches and batches that have a number twice; two draws per index (100000 in the code) are enough for a collision
and the fallback. Trees of five nodes have a node with two children below and above another.

`CHECK_DEADLOCK FALSE` appears in the runs of `MpfssNew`, `MpfssOld` and `FssAltered`: in the first two both
processes return from the last call, or party 2 exits and party 1 waits in accept for ever; in the third the function
returns, or the two pushers wait on different connections. There the program really stops. The other specifications
stutter explicitly when they are done.

**What the violations show.**

1. `ThreadedShares` (mpfss_naive.oc:543-546). With more than one thread two threads of a party read the
   same byte of the result before either writes it, and one contribution is lost. The
   combined vectors are then not the function. `SequentialShares` holds.
2. `InputFunctionShared` (secret_share_beta.oc:120-138). Values are paired with *sorted* indices: `create_beta_vals`
   attaches them by rank. A caller whose indices are not ascending, as the drivers' are not, gets the values at other
   indices than it gave them for. `ResultsShareFunction` states what does hold. The older protocols pair values in the
   same way (`get_mpfss_vectors` sorts its indices in place), and `SequentialShares` and
   `ThreadsShareFunction` say so.
3. `ProperPointFunction` (mpfss_naive.oc:337-348). `dpf_proper` multiplies the difference of the active blocks by a beta
   that is 1 in every byte, and xors the product into the elements with the bit set. The product *is* the difference,
   so that the outputs agree at the index as everywhere else: they combine to 0, where the comment (lines 278-279) and
   `TEST_dpf_proper` (mpfss_naive_unittest.oc:407-427) want the difference itself. `ProperAlwaysCancels` proves that this is so for
   every size, index and generator. The bits are right (`PointFunction`).

**What the passing runs say with a condition.** These are the places where a property excepts a case; the hazards of
those cases are in `PROJECT.json` without a property, with a note.

* `CuckooNeverThrows`: a key whose hash is the least int ends the process in `generate_buckets_cuckoo` already (`PushThrows`,
  buckets.cpp:51). The property says that it is never found out in the middle of a walk.
* `LevelsFit`: for a vector of one element the two blocks of the first level go behind a buffer of one entry
  (fss_cprg_altered.c:71). The buffers of the model have room for them, and the property excepts this size.
* `FssProgress`, `FssEnds`: if one party gets a team of one thread and the other does not (fss_altered.c:315; OpenMP
  may give fewer threads than were asked for), one pusher uses the current protocol and the other pd2, and they wait for ever.
  `AllEnded` further accepts that the master has run `fss_Z_pusher` itself in one party only, so that its current protocol remains
  pd2 (fss_altered.oc:32) and the parties would go on over different connections. The model stops at this point, before
  `fss_free` frees pd2 (fss_altered.oc:285-288), whether it is the current protocol or not.
* `NewProgress`, `EndsTogether`, `OldProgress`: they except a party 2 that finds nobody listening, and seeds that differ because the
  clock step of 21000 s fell between the two; `ResultsShareFunction` and `ThreadsShareFunction` except the latter.
* `BatchEnds` excepts an empty batch before one that has the index (list_focused_batch_creation.oc:222): the search then
  starts over for ever.
* `OutcomeJustified` says that a search fails only if no batch is left for its index, and that success with at least as many
  batches as indices means a match for each index. It claims nothing of two things the code does otherwise than
  it says. With fewer batches than indices the tree version announces "All indices have been assigned"
  (binary_search_tree_focused_batch_creation.oc:153) when all batches are used up. With more, the list version
  matches the head of the list as an index, too, though the lists "do not use header for infos"
  (list_focused_batch_creation.oc:229), one match more than `matches` has room for. The tree version indexes `matches` by
  batch, so that with more batches than indices it writes or reads behind it; what happens then is not
  defined (`BstOverrun`), and `OutcomeJustified` and `MatchesValid` speak of the matches up to there.
* `TreesCorrect` says that deletion keeps the other keys, and what is stored with them, for all nodes but the one that moves. "Copy the
  inorder successor's content", says line 123 of binary_search_tree.c; line 124 copies the key only, so that the successor is found
  with the deleted node's contents. No code deletes. The property also says that a search in the tree of a batch finds its
  first element with the index, and that `inorder_array` lists all its elements. Numbers are inserted in ascending order and equal ones
  to the right, so that the trees of the batches are lists, "O(log(n) pro insert)" notwithstanding.

**Deadlock and termination.** For the three specifications in which processes and threads wait for each other, `CanProceed`
lists what the actions of `Next` wait for, and `FssNeverStuck`, `NewNeverStuck`,
`OldNeverStuck` say that something can proceed or all is over. (On the instances `CanProceed` is true in
exactly the states in which `Next` is enabled.) `FssProgress`, `NewProgress`, `OldProgress` say of every step that this is so after
it, and that it lowers a natural number: levels to follow, to push and to expand; calls, connections, and protocols, or ranges and
buckets, of a party, where no step of the other party may raise it. That is what the liveness properties
below need besides fairness. For `MpfssOld` no liveness property is checked: its graph is the largest, and `OldProgress`,
which does not need the whole of it at once, says what is not due to fairness.

**Fairness.** The liveness properties, `EndsTogether`, `FssEnds` and `BatchEnds`, assume weak fairness of the whole
next-state relation: some step
that can be taken is eventually taken, that is, the processes, their threads and the connections
keep working. Nothing stronger is needed: apart from the batch that is searched for ever, which `BatchEnds` names, every
behaviour is finite, because loops are bounded (the measures above), so no action can be postponed for ever by others, and
no fairness between random choices is assumed.

## 4. Proofs

All for arbitrary constants satisfying the named assumptions.

* **AssignmentProofs**, the cuckoo table: `TypeCorrect`, `KeysNeverLost`, `SlotsAlwaysHashed`, `NeverOverwritten`,
  `WalkAlwaysBounded`, `ThrowsOnly`. `NoKeyLost` is inductive together with `TypeOK`: it names the key in hand as the only one
  in no slot. `SlotsHoldHashedKeys` needs in addition that the key in hand is a key of the vector
  (`KeyFromVector`); the bound on the walk uses both, since a single key must never meet a used slot for
  `max_loop = 0` to be safe.
* **AssignmentProofs**, the assignment: `RunsCuckoo` shows that an assignment is a behaviour of `Cuckoo`, so the theorems
  above carry over. `BucketInv` (what has been pushed so far) gives `BucketsAlwaysCorrect`; `PhaseInv` says that
  complete buckets exclude the hash that throws (`CuckooIsSafe`); with both, `MatchesAlwaysConsistent` and
  the refinement `AssignmentImplementsContract`.
* **DpfProofs**: `IndInv` describes the two buffers of the two parties in the middle of a level: which
  cells already hold the next level, that they differ below the path only, and that the accumulators are the
  xor of the differences. From it `SharesAlwaysMeet`, `LevelsAlwaysFit`,
  `AlwaysDifferOnlyAtIndex`, `OneBitSuffices`, `SharesOfPointFunction` and `ProperAlwaysCancels` (with an index the values
  of `dpf_proper` combine to 0 everywhere: why the run `dpf_proper` ends as it does), for every size, generator and block length. What both entry points make of the outputs is `EntryInv` (which beta, which
  correction) and `CorrectionInv` (the values after it). The arithmetic of pruned trees (`SizeFacts`, `PathStep`, `BlocksFacts`) is proved from the recurrence
  of `Pow2`.
* **FssAlteredProofs**, in two invariants. `CountInv` is about the counters of the three activities: `sent` and `answered`, which
  count reveals over the connection, are the levels pushed by their party and one more while `at` says that a reveal is under way;
  nothing is revealed that the master has not made ready (`PusherInv`); what has been written to `fss_offline` are the Z
  and advice of that level (`PushedInv`); and a level that is expanded has been pushed (`TaskInv`). It gives `FTypeCorrect`.
  `TreeInv` says what the vectors are although the tasks run at their own pace: there *are* two trees `N` and bits
  `B` of which only the master's traversal makes the next level, with `Grown` as their definition, `Agree` (they differ on the path
  only) and `Follows` (the last node of the path is the active block), and the expansion reproduces one level of its
  party's tree after the other (`Expanding`, `Expanded`). The witnesses change only in `TraverseLevel`. From it
  `AlwaysExpandsPointFunction`, for all sizes, generators, teams and interleavings.
  For `FssNoDeadlock`, `EndsInv` adds how the activities end: party 1 flushes what it computes, a pusher ends with the last level
  and not before, and on a team of one thread the pusher ends before the expansion begins. If nothing can proceed, the
  master has made all levels ready, so the pushers are at the same level and have pushed it (`NobodyWaits`, by the counters
  of `CountInv`), so the expansion has its corrections. `FssTerminates` shows that every step lowers `Work`, which is
  `12 * Levels + 9` at first, so that there are at most so many steps.
* **MpfssNewProofs**: `IInv` is the type invariant and the relation of the two parties' control:
  `SameCall` (both in the same call, and what one's place tells of the other's), `AheadOne` and `AheadTwo` (one
  has returned and begun the next call, where it cannot pass the first connection), `Links` (connections
  counted in both), `Threads` (the protocols of a thread are done in order, and in both parties or in
  neither). From it `NewTypeCorrect`, `CallsAlwaysAligned`, `OutcomesAlwaysAgree`; `NoCircularWaiting` takes the
  least protocol that is not done, whose turn it must be in its thread in both parties. `DataInv` adds the
  data: while both parties are in one call with equal seeds, there is one assignment and one family of outputs,
  which each party's `dpf` is until it returns and of which its `output` is the sum afterwards; the outputs of a finished protocol
  share the point of its bucket. `FunctionOfShares` turns this into `ResultsAlwaysShareFunction`.
  `NewNoDeadlock` follows from `IInv` and `SeedsDiffer` (the circuits are out of step only if the clocks gave different seeds):
  a party that waits for a connection or an outcome is in the same call as the other one or ahead of it, and in
  `run_exec_yao` the protocol of `TurnOfOne` can be begun or run. `NewTerminates`: each party takes part in less than
  `Runs * (4 * b + 6)` steps.
* **MpfssOldProofs**: `IInv` with `Loops` (a thread works in its range only, and has ended where its range does) gives
  `OldTypeCorrect`. `DataInv` as above; that all buckets are evaluated when all threads have ended is
  `RangesCover`. The loop that shifts bytes into a value has a closed form (`AfterBytes`), proved by `SetInduction`, from
  which a value survives the way to bytes and back whatever `garbage` was. From it `ThreadsAlwaysShareFunction`, for
  every number of threads.
  For `OldNoDeadlock`, `LoopsEnd` extends what `Loops` says of ended ranges to a party that is still in its loop when the other
  one is in the next call already. The first range that is open in either party is at its turn in both, and can be
  taken, evaluated or left (`LoopGoesOn`). `OldTerminates` counts ranges and the pairs of a range and a bucket to evaluate; each
  party takes part in less than `Runs * (b * b + 2 * b + 7)` steps.
* **MpfssNaiveProofs**: `Control` gives `NaiveTypeCorrect` and `EachDpfAlwaysOnce`: `Begun` counts a DPF whose output
  is being added as executed, which is what the two parties have in common in a range. The result of the sequential loop is
  stated about the cells as they will be when the DPF in hand has been added (`Added`): they combine to the points of
  the DPFs so far (`OneThread`). With the sorted indices at the places of their ranks (`PlaceOfRank`) follows
  `SequentialAlwaysShares`.
* **PartsProofs**, `create_beta_vals`: `BInv` says what the list is between its sections.
  `PositionIsRank` is the heart: in a list sorted by index, the first `unused` elements are the
  unused buckets and element `n` has rank `n - unused`, because the smaller indices are an initial segment
  (counted by cardinality). `IncreasingIsIdentity` shows that the second sort restores the order of the
  buckets. From it `BetaTypeCorrect`, `AlwaysPairedByRank`, `UnusedAlwaysZero`, for all `used <= b`.
* **PartsProofs**, `create_indices`: `DrawInv` says that the indices accepted so far are distinct and in range, whatever the flag is.
  The fallback needs that `t <= size - 1` consecutive numbers have different remainders (`RemaindersDiffer`). From both
  `IndicesAlwaysDistinct`, for every number of indices, size and limit.
* **PartsProofs**, lists: `DelinkKeepsList`: unlinking any node of any set of nodes leaves exactly the others linked in
  order, with the first one as head. The proof is by the four cases of `delink_dllnode`; `LinkedEverywhere` gives the
  neighbours of a node, `Relinked` what changes for them. `NewListIs` is the closed form of repeated insertion, and
  `HeadIs` shows that `get_head` arrives at the first node, because each step back leaves fewer nodes below.
* **PartsProofs**, batch codes: `BatchInv` joins three things. *Matches*: each is of a batch of its own, at a position where the
  batch has the value (`FitOnce`), and they are of the first indices (`BstMatches`, `LlMatches`, the latter with the
  head as one match too many). *Lists*: the heap is exactly the batches without a match, and the indices that are left,
  in order (`BatchList`, `IndexList`). *Place of the search* (`StageInv`): no batch without a match up to the one in hand has the
  index; in the list version `skipped` is the number of these batches, so that the search fails only when it has seen
  all of them. From it `BatchTypeCorrect`, `SelectedAlwaysDistinct`, `ListsAlwaysSound`, `MatchesAlwaysValid`,
  `OutcomeAlwaysJustified`, for all numbers of indices and batches, in both versions.
* **ShareFacts** has what several of them need: least elements and induction without an operator parameter (`LeastElement`,
  `SetInduction`), the depth of a tree (`DepthFacts`), the parity of cardinalities and with it the xor of families of sets
  (`OneMore`, `XorOfFamilies`), the ranges of threads as a partition (`RangesCover`), and the function that
  the outputs of all buckets combine to (`FunctionOfShares`).

The assumptions are those named in the modules. Most say of which type a constant is. Those that stand for code are: in
`BucketShares` that buckets are sorted and that each has an element, in `MpfssOld` two (section 5); in `CreateIndices`
that an index may be drawn at least twice; in `MpfssNaive` that the indices are distinct, which `create_indices` gives.
In `MpfssOld`, `Byte` is injective: the bytes of a block are different bits.

`ThrowsOnly`, `NeverOverwritten`, `UnusedAlwaysZero`, `ProperAlwaysCancels`, `OneBitSuffices` (when `dpf_with_beta` compares the bits of the parties, at most
one differs) and `NoCircularWaiting` are proved only: no run checks what they say. Every safety
property of a passing run is proved with one exception. Model-checked only are

* the liveness properties `EndsTogether`, `FssEnds`, `BatchEnds`: the prover has neither fairness nor ENABLED. For the
  first two, all that is left to TLC is the last step: that a behaviour that is never stuck, whose every step lowers a
  natural number, and that takes a step whenever it can, comes to its end;
* `TreesCorrect`: the operators of `SearchTree` are recursive, and their correctness is an induction over trees, an induction
  over data. `BatchCodes` takes a batch as a sequence, so that only the step from the sequence to its tree rests on TLC
  (on trees of up to eight nodes).

The proofs corrected the model in one place: the type of a thread's position in `MpfssNaive` (`VTypeOK`) was wrong for three
threads or more, which the instance of the run does not have.

## 5. Not modelled

* 128-bit arithmetic: nothing in the repository calls it.
* `create_rand_vector` (the seeds): its loop is that of `create_indices`; the modules assume that the seeds differ.
* The end of `generate_buckets_cuckoo` by an exception (buckets.cpp:52, a key whose hash is the least int) in the protocols over
  buckets: `Assignment` has it, `CreateBuckets` of `MpfssNew` and `MpfssOld` takes the seeds without such a key.
* In `MpfssOld`, a DPF that does not return: `RunDpf` ends in both parties as soon as both run it. `FssAltered` shows this
  for teams that use the same connection; its exceptions (section 3) would block the range, and are not carried over.
* `bcRandomInt` is external. Its bound is taken to be exclusive, so that `create_indices` never draws `size - 1`, though
  its comment has [0, size); if it is inclusive, `size - 1` is drawn as well, and the fallback alone leaves it out.
* `create_indices` with more indices than fit: `t * 100000` is assumed not to overflow an int (`t` below 21475).
* The DPFs of the batches (`get_batch_vectors`), which are not in the repository; `vectors` is what they are used as.
  `set_head` and `set_values` of linked_list.c have no caller.
* vole.cpp: all of it is commented out.
* fss_altered for vectors of one element: `fss_new` takes 1 from an unsigned depth of 0, and nothing is written
  to the output. A bucket of one element in the threaded older protocol would come to this; `MpfssOld`
  assumes that buckets have two (`OldAssumption`).
* blocks of more than 16 bytes (`blockmultiple` is 1 in all callers); `mpfss_vole_batch_cuckoo`.
* Memory: what is freed, leaked or left dangling (`RunIndexProvider` returning early,
  `span_output` assigned by value, `free_mc_args_content_new`).
* The circuits of Obliv-C, TCP, AES and the hash function of Abseil: external, present as what the
  code relies on. A protocol on buckets of different lengths is undefined (`OutOfStep`).
* The repository as it stands does not link in one place: `create_structs_new.h:17` declares
  `new_mpfss_cuckoo` with seven arguments, `create_structs.h:37` with eight.
* Benchmark output, logging, DEBUG exchanges.

## 6. Plan

1. Done: all modules of section 2, the runs of section 3 and the proofs of section 4, that is, every safety property of a
   passing run but `TreesCorrect`.
2. Open: the trees as functions from paths to nodes, as the lists are functions from nodes to pointers. Then what one
   insertion or deletion changes could be stated without recursion, as `DelinkKeepsList` is, and proved; the searches would
   remain with TLC.
3. Open: a measure for `BatchCodes`, where only the search that starts over for ever raises what is left to do.
