------------------------------- MODULE FssCprg -------------------------------
(***************************************************************************)
(* includes/fss-altered/fss_cprg_altered.{oc,c}: the distributed point     *)
(* function that expands a binary tree level by level in both parties.     *)
(*                                                                         *)
(* Each party holds the nodes of one level (data) and a control bit per    *)
(* node (bits).  Between two levels the parties meet in the oblivious part *)
(* of the protocol, which sees the shared index and reveals a correction Z *)
(* and two advice bits to both.  Between two meetings a party reads and    *)
(* writes its own memory only, so the loop over the nodes of a level is    *)
(* taken in both parties at once, one node per step.                       *)
(*                                                                         *)
(* blockmultiple is 1 (block_no of mpfss_naive.oc).                        *)
(***************************************************************************)
EXTENDS FssTree

VARIABLES
  size,            \* the length of the vector, the number of leaves
  index,           \* the oblivious index; -1 stands for no index
  pc,              \* where both parties are
  level,           \* thislevel
  thislevelblocks,
  nextlevelblocks,
  ii,              \* the loop counter over the nodes of a level
  front,           \* the buffer that lda and lba point to; ldb and lbb: the other
  data,            \* data[p][buffer][cell], the nodes
  bits,            \* bits[p][buffer][cell], their control bits
  acc,             \* acc[p][side]: accL and accR, then L_local and R_local
  Z,               \* Z_local, the same in both parties
  advice           \* advicebit_L_local and advicebit_R_local, likewise

shape == <<size, index>>
vars == <<shape, pc, level, thislevelblocks, nextlevelblocks, ii, front, data, bits,
          acc, Z, advice>>

\* fss_cprg_new and fss_cprg_offline_new: the depth of the tree.
endlevel == LOG2LL(size) + IF Pow2[LOG2LL(size)] < size THEN 1 ELSE 0

back == IF front = "level" THEN "output" ELSE "level"

NoAcc == [p \in Party |-> [s \in Side |-> Zero]]

(***************************************************************************)
(* local_output is allocated with calloc, level_data and level_bits with   *)
(* malloc: what they hold at first is arbitrary.                           *)
(***************************************************************************)
Init ==
  /\ size \in 1 .. MaxSize
  /\ index \in -1 .. size - 1
  /\ pc = "start"
  /\ level = 0 /\ thislevelblocks = 1 /\ nextlevelblocks = 2 /\ ii = 0
  /\ front = "level"
  /\ \E garbage \in [Party -> Block] :
       /\ data = [p \in Party |-> [m \in Buffer |-> [c \in Cell |->
                    IF m = "level" THEN garbage[p] ELSE Zero]]]
       /\ bits = [p \in Party |-> [m \in Buffer |-> [c \in Cell |->
                    m = "level" /\ Bit(garbage[p])]]]
  /\ acc = NoAcc
  /\ Z = Zero
  /\ advice = [s \in Side |-> FALSE]

-----------------------------------------------------------------------------
(***************************************************************************)
(* fss_cprg_offline_start: a random root whose control bit is 0 in party 1 *)
(* and 1 in party 2; its children; for a tree that is its root, the output.*)
(***************************************************************************)
Start ==
  /\ pc = "start"
  /\ \E root \in [Party -> Block] :
       /\ ~ Bit(root[1]) /\ Bit(root[2])
       /\ data' = [p \in Party |-> [m \in Buffer |-> [c \in Cell |->
                     IF c = 0 /\ (m = "level" \/ endlevel = 0) THEN root[p]
                     ELSE IF c \in Side /\ m = "output" THEN PRG[c][root[p]]
                     ELSE data[p][m][c]]]]
       /\ bits' = [p \in Party |-> [m \in Buffer |-> [c \in Cell |->
                     IF c = 0 /\ (m = "level" \/ endlevel = 0) THEN Bit(root[p])
                     ELSE bits[p][m][c]]]]
       /\ acc' = [p \in Party |-> [s \in Side |->
                    IF endlevel = 0 /\ s = 0 THEN root[p] ELSE PRG[s][root[p]]]]
  /\ pc' = IF endlevel = 0 THEN "delta" ELSE "reveal"
  /\ UNCHANGED <<shape, level, thislevelblocks, nextlevelblocks, ii, front, Z, advice>>

\* The bit of the index that chooses the child of a node of level lv - 1.
levelindex(lv) == (index \div Pow2[endlevel - lv]) % 2

\* fss_cprg_getadvice: advice 0 is diff_L ^ rightblock ^ 1, advice 1 diff_R ^ rightblock.
getadvice(diff, right) ==
  [s \in Side |-> IF s = 0 THEN Bit(diff[0]) # (right = 0) ELSE Bit(diff[1]) # (right = 1)]

\* Bug: the correction is the difference of the child on the path.
Correction_m1(diff, right) == IF right = 0 THEN diff[0] ELSE diff[1]

\* The correction is the difference of the child that is off the path.
Correction(diff, right) == IF right = 0 THEN diff[1] ELSE diff[0]

\* Bug: no pruning, every node has two children.
BlocksAt_m2(lv) == Pow2[lv]

\* fss_cprg_offline_process_round: the nodes needed on level lv, rounded up.
BlocksAt(lv) == (size + Pow2[endlevel - lv] - 1) \div Pow2[endlevel - lv]

(***************************************************************************)
(* fss_cprg_traverselevels: one iteration up to the call of the offline    *)
(* part.  Both parties contribute L_local and R_local and wait for what is *)
(* revealed (oflush).  Then the head of process_round or finalize: next    *)
(* level, buffers swapped, accumulators cleared.                           *)
(***************************************************************************)
Reveal ==
  LET diff == [s \in Side |-> Xor(acc[1][s], acc[2][s])]
      lv   == level + 1
  IN
  /\ pc = "reveal" /\ level < endlevel
  /\ Z' = Correction(diff, levelindex(lv))
  /\ advice' = getadvice(diff, levelindex(lv))
  /\ level' = lv
  /\ thislevelblocks' = nextlevelblocks
  /\ nextlevelblocks' = IF lv < endlevel THEN BlocksAt(lv + 1) ELSE nextlevelblocks
  /\ front' = back
  /\ acc' = NoAcc
  /\ ii' = 0
  /\ pc' = "node"
  /\ UNCHANGED <<shape, data, bits>>

\* The control bit of the parent, lbb[ii/2].
parentbit(p) == bits[p][back][ii \div 2]

\* Node ii with the correction applied, if its parent's control bit is set.
corrected(p) ==
  IF parentbit(p) THEN Xor(data[p][front][ii], Z) ELSE data[p][front][ii]

\* The control bit of node ii: of the block before the correction, and advice.
nodebit(p) == Bit(data[p][front][ii]) # (parentbit(p) /\ advice[ii % 2])

\* Bug: one node too many.
ProcessNode_m1 ==
  /\ pc = "node" /\ level < endlevel /\ ii <= thislevelblocks
  /\ bits' = [p \in Party |-> [bits[p] EXCEPT ![front][ii] = nodebit(p)]]
  /\ data' = [p \in Party |-> [m \in Buffer |-> [c \in Cell |->
                IF m = front /\ c = ii THEN corrected(p)
                ELSE IF m = back /\ c \div 2 = ii /\ c < nextlevelblocks
                THEN PRG[c % 2][corrected(p)]
                ELSE data[p][m][c]]]]
  /\ acc' = [p \in Party |-> [s \in Side |->
               IF 2 * ii + s < nextlevelblocks THEN Xor(acc[p][s], PRG[s][corrected(p)])
               ELSE acc[p][s]]]
  /\ ii' = ii + 1
  /\ UNCHANGED <<shape, pc, level, thislevelblocks, nextlevelblocks, front, Z, advice>>

(***************************************************************************)
(* fss_cprg_offline_process_round: node ii and the children the next level *)
(* needs; the last node may have a left child only.                        *)
(***************************************************************************)
ProcessNode ==
  /\ pc = "node" /\ level < endlevel /\ ii < thislevelblocks
  /\ bits' = [p \in Party |-> [bits[p] EXCEPT ![front][ii] = nodebit(p)]]
  /\ data' = [p \in Party |-> [m \in Buffer |-> [c \in Cell |->
                IF m = front /\ c = ii THEN corrected(p)
                ELSE IF m = back /\ c \div 2 = ii /\ c < nextlevelblocks
                THEN PRG[c % 2][corrected(p)]
                ELSE data[p][m][c]]]]
  /\ acc' = [p \in Party |-> [s \in Side |->
               IF 2 * ii + s < nextlevelblocks THEN Xor(acc[p][s], PRG[s][corrected(p)])
               ELSE acc[p][s]]]
  /\ ii' = ii + 1
  /\ UNCHANGED <<shape, pc, level, thislevelblocks, nextlevelblocks, front, Z, advice>>

\* fss_cprg_offline_process_round returns.
RoundEnd ==
  /\ pc = "node" /\ level < endlevel /\ ii = thislevelblocks
  /\ pc' = "reveal"
  /\ UNCHANGED <<shape, level, thislevelblocks, nextlevelblocks, ii, front, data, bits,
                 acc, Z, advice>>

\* Bug: the two cases of the parity are swapped.
ResultBuffer_m1 == IF level % 2 = 0 THEN front ELSE back

\* fss_cprg_offline_finalize: where the leaves go, by the parity of the depth.
ResultBuffer == IF level % 2 = 0 THEN back ELSE front

\* fss_cprg_offline_finalize: leaf ii.
FinalizeLeaf ==
  /\ pc = "node" /\ level = endlevel /\ ii < thislevelblocks
  /\ bits' = [p \in Party |-> [bits[p] EXCEPT ![front][ii] = nodebit(p)]]
  /\ data' = [p \in Party |-> [data[p] EXCEPT ![ResultBuffer][ii] = corrected(p)]]
  /\ acc' = [p \in Party |-> [acc[p] EXCEPT ![0] = Xor(@, corrected(p))]]
  /\ ii' = ii + 1
  /\ UNCHANGED <<shape, pc, level, thislevelblocks, nextlevelblocks, front, Z, advice>>

\* fss_cprg_offline_finalize returns; for an even depth it copies the bits.
FinalizeEnd ==
  /\ pc = "node" /\ level = endlevel /\ ii = thislevelblocks
  /\ bits' = [p \in Party |-> [bits[p] EXCEPT
                ![ResultBuffer] = [c \in Cell |->
                   IF c < thislevelblocks THEN bits[p][front][c] ELSE @[c]]]]
  /\ pc' = "delta"
  /\ UNCHANGED <<shape, level, thislevelblocks, nextlevelblocks, ii, front, data,
                 acc, Z, advice>>

Next == Start \/ Reveal \/ ProcessNode \/ RoundEnd \/ FinalizeLeaf \/ FinalizeEnd

Spec == Init /\ [][Next]_vars

-----------------------------------------------------------------------------
Control == {"start", "reveal", "node", "delta"}

TypeOK ==
  /\ size \in 1 .. MaxSize /\ index \in -1 .. size - 1
  /\ level \in 0 .. endlevel
  /\ thislevelblocks \in Nat /\ nextlevelblocks \in Nat
  /\ ii \in 0 .. thislevelblocks
  /\ front \in Buffer
  /\ data \in [Party -> [Buffer -> [Cell -> Block]]]
  /\ bits \in [Party -> [Buffer -> [Cell -> BOOLEAN]]]
  /\ acc \in [Party -> [Side -> Block]]
  /\ Z \in Block
  /\ advice \in [Side -> BOOLEAN]

(***************************************************************************)
(* The node of level lv on the path to the index.  Without an index (-1,   *)
(* all bits set) the path goes right on every level.                       *)
(***************************************************************************)
Path(lv) == IF index = -1 THEN Pow2[lv] - 1 ELSE index \div Pow2[endlevel - lv]

(***************************************************************************)
(* No level needs more nodes than the vector has elements: the buffers     *)
(* level_bits, local_output and local_bit_output hold size entries         *)
(* (fss_cprg_altered.c:383, mpfss_naive.oc:99-100).                        *)
(***************************************************************************)
LevelsFit == endlevel > 0 => thislevelblocks <= size /\ nextlevelblocks <= size

(***************************************************************************)
(* What the two parties have in common when they meet after a level: the   *)
(* control bits differ on the path and nowhere else, and all nodes of the  *)
(* next level but the children of the path's node are equal, although      *)
(* neither party knows the path.                                           *)
(***************************************************************************)
SharesMeet ==
  pc = "reveal" =>
    /\ \A c \in 0 .. thislevelblocks - 1 :
         bits[1][front][c] # bits[2][front][c] <=> c = Path(level)
    /\ \A c \in 0 .. nextlevelblocks - 1 :
         c \div 2 # Path(level) => data[1][back][c] = data[2][back][c]

(***************************************************************************)
(* The vectors of the two parties agree except at the index, in the values *)
(* and in the bits; and L_local holds the parties' shares of the difference*)
(* there, active_block_delta.  Without an index the difference shows up at *)
(* the last element if the size is a power of two, and nowhere otherwise.  *)
(***************************************************************************)
DifferOnlyAtIndex ==
  pc = "delta" =>
    /\ \A c \in 0 .. size - 1 :
         /\ bits[1]["output"][c] # bits[2]["output"][c] <=> c = Path(endlevel)
         /\ data[1]["output"][c] # data[2]["output"][c] => c = Path(endlevel)
    /\ Xor(acc[1][0], acc[2][0]) =
         IF Path(endlevel) < size
         THEN Xor(data[1]["output"][Path(endlevel)], data[2]["output"][Path(endlevel)])
         ELSE Zero

=============================================================================
