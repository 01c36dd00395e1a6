------------------------------ MODULE DpfProofs ------------------------------
(***************************************************************************)
(* Proofs about FssCprg and DpfWithBeta: for every size, every block length*)
(* and every pseudorandom generator, the outputs of the parties are shares *)
(* of the point function.                                                  *)
(***************************************************************************)
EXTENDS DpfWithBeta, ShareFacts

-----------------------------------------------------------------------------
\* Arithmetic of the tree.

\* A power of two exceeds its exponent.
LEMMA Pow2Grows == \A k \in 0 .. MaxSize + 1 : Pow2[k] \in Nat /\ Pow2[k] >= k + 1
  <1>1. PowersOfTwo(Pow2, MaxSize) /\ MaxSize \in Nat
    BY Pow2Assumption, SizeAssumption DEF PowersOfTwo
  <1> QED BY <1>1, PowersGrow

\* The depth of the tree: the least one with at least size leaves.
LEMMA Depth ==
  ASSUME size \in 1 .. MaxSize
  PROVE  /\ endlevel \in 0 .. MaxSize
         /\ size <= Pow2[endlevel]
         /\ endlevel > 0 => Pow2[endlevel - 1] < size
  <1>1. PowersOfTwo(Pow2, MaxSize) /\ MaxSize \in Nat \ {0}
    BY Pow2Assumption, SizeAssumption DEF PowersOfTwo
  <1>2. endlevel = DepthOf(Pow2, MaxSize, size)
    BY DEF endlevel, LOG2LL, DepthOf
  <1> QED BY <1>1, <1>2, DepthFacts

\* The facts about the size and the depth that the following proofs use.
LEMMA SizeFacts ==
  ASSUME TypeOK
  PROVE  /\ size \in Nat \ {0} /\ index \in Int /\ index >= -1 /\ index < size
         /\ endlevel \in Nat /\ endlevel \in 0 .. MaxSize
         /\ size <= Pow2[endlevel]
         /\ endlevel > 0 => Pow2[endlevel - 1] < size
         /\ \A k \in 0 .. endlevel : Pow2[k] \in Nat \ {0}
         /\ \A k \in 0 .. endlevel : k > 0 => Pow2[k] = 2 * Pow2[k - 1]
  <1>1. size \in 1 .. MaxSize /\ index \in -1 .. size - 1
    BY DEF TypeOK
  <1>2. /\ endlevel \in 0 .. MaxSize
        /\ size <= Pow2[endlevel]
        /\ endlevel > 0 => Pow2[endlevel - 1] < size
    BY <1>1, Depth
  <1>3. \A k \in 0 .. endlevel : Pow2[k] \in Nat \ {0}
    BY <1>2, Pow2Grows, SizeAssumption
  <1>4. ASSUME NEW k \in 0 .. endlevel, k > 0 PROVE Pow2[k] = 2 * Pow2[k - 1]
    <2>1. k - 1 \in 0 .. MaxSize /\ (k - 1) + 1 = k
      BY <1>2, <1>4, SizeAssumption
    <2>2. Pow2[(k - 1) + 1] = 2 * Pow2[k - 1]
      BY <2>1, Pow2Assumption
    <2> QED BY <2>1, <2>2
  <1> QED BY <1>1, <1>2, <1>3, <1>4, SizeAssumption

\* The path: its next node is a child of its last one, by the level's index bit.
LEMMA PathStep ==
  ASSUME TypeOK, NEW lv \in 1 .. endlevel
  PROVE  /\ levelindex(lv) \in {0, 1}
         /\ Path(lv - 1) \in Nat
         /\ Path(lv) = 2 * Path(lv - 1) + levelindex(lv)
  <1> DEFINE P == Pow2[endlevel - lv]
  <1>1. endlevel \in Nat /\ endlevel - lv \in 0 .. endlevel
        /\ endlevel - (lv - 1) \in 0 .. endlevel /\ lv \in 0 .. endlevel
        /\ lv - 1 \in 0 .. endlevel
        /\ (endlevel - (lv - 1)) - 1 = endlevel - lv
    BY SizeFacts
  <1>2. P \in Nat \ {0} /\ Pow2[endlevel - (lv - 1)] = 2 * P
    BY <1>1, SizeFacts
  <1>3. Pow2[lv] = 2 * Pow2[lv - 1] /\ Pow2[lv - 1] \in Nat \ {0}
    BY <1>1, SizeFacts
  <1>4. index \in Int /\ index >= -1
    BY SizeFacts
  <1> HIDE DEF P
  <1>5. levelindex(lv) = (index \div P) % 2
    BY DEF levelindex, P
  <1>6. index \div P \in Int
    BY <1>2, <1>4
  <1>7. (index \div P) % 2 \in {0, 1}
    BY <1>6
  <1>8. CASE index = -1
    <2>1. index \div P = -1
      BY <1>2, <1>8
    <2>2. levelindex(lv) = 1
      BY <2>1, <1>5
    <2> QED BY <2>2, <1>3, <1>8 DEF Path
  <1>9. CASE index # -1
    <2>1. index \in Nat
      BY <1>4, <1>9
    <2>2. Path(lv) = index \div P /\ Path(lv - 1) = index \div (2 * P)
      BY <1>2, <1>9 DEF Path, P
    <2>3. index \div (2 * P) \in Nat
      BY <2>1, <1>2
    <2>4. index \div P = 2 * (index \div (2 * P)) + ((index \div P) % 2)
      BY <1>2, <1>4, Halves
    <2> QED BY <2>2, <2>3, <2>4, <1>5, <1>7
  <1> QED BY <1>8, <1>9

\* The path begins at the root and ends at the index.
LEMMA PathEnds ==
  ASSUME TypeOK
  PROVE  /\ Path(0) = 0
         /\ \A lv \in 0 .. endlevel : Path(lv) \in Nat
         /\ index # -1 => Path(endlevel) = index
         /\ index = -1 => Path(endlevel) = Pow2[endlevel] - 1
  <1>1. endlevel \in Nat /\ endlevel \in 0 .. endlevel /\ 0 \in 0 .. endlevel
        /\ endlevel - 0 = endlevel /\ endlevel - endlevel = 0
    BY SizeFacts
  <1>2. index \in Int /\ index >= -1 /\ index < size /\ size <= Pow2[endlevel]
        /\ Pow2[endlevel] \in Nat \ {0} /\ size \in Nat
    BY <1>1, SizeFacts
  <1>3. Pow2[0] = 1
    BY Pow2Assumption
  <1>4. Path(0) = 0
    <2>1. index # -1 => index \div Pow2[endlevel] = 0
      BY <1>2
    <2> QED BY <2>1, <1>1, <1>3 DEF Path
  <1>5. ASSUME NEW lv \in 0 .. endlevel PROVE Path(lv) \in Nat
    <2>1. endlevel - lv \in 0 .. endlevel
      BY <1>1
    <2>2. Pow2[endlevel - lv] \in Nat \ {0} /\ Pow2[lv] \in Nat \ {0}
      BY <2>1, SizeFacts
    <2>3. index # -1 => index \div Pow2[endlevel - lv] \in Nat
      BY <2>2, <1>2
    <2> QED BY <2>2, <2>3 DEF Path
  <1>6. index # -1 => Path(endlevel) = index
    <2>1. index \div 1 = index
      BY <1>2
    <2> QED BY <2>1, <1>1, <1>3 DEF Path
  <1> QED BY <1>4, <1>5, <1>6 DEF Path

\* The numbers of blocks: one root, at most two children each, size leaves.
LEMMA BlocksFacts ==
  ASSUME TypeOK
  PROVE  /\ BlocksAt(0) = 1
         /\ BlocksAt(endlevel) = size
         /\ endlevel > 0 => BlocksAt(1) = 2
         /\ \A lv \in 0 .. endlevel : BlocksAt(lv) \in 1 .. size
         /\ \A lv \in 1 .. endlevel : BlocksAt(lv) <= 2 * BlocksAt(lv - 1)
  <1>1. endlevel \in Nat /\ size \in Nat \ {0} /\ endlevel - endlevel = 0 /\ endlevel - 0 = endlevel
    BY SizeFacts
  <1>2. Pow2[0] = 1
    BY Pow2Assumption
  <1>3. ASSUME NEW lv \in 0 .. endlevel PROVE BlocksAt(lv) \in 1 .. size
    <2>1. endlevel - lv \in 0 .. endlevel
      BY <1>1
    <2>2. Pow2[endlevel - lv] \in Nat \ {0}
      BY <2>1, SizeFacts
    <2> QED BY <2>2, <1>1, CeilHalves DEF BlocksAt
  <1>4. ASSUME NEW lv \in 1 .. endlevel PROVE BlocksAt(lv) <= 2 * BlocksAt(lv - 1)
    <2>1. endlevel - lv \in 0 .. endlevel
          /\ endlevel - (lv - 1) \in 0 .. endlevel /\ endlevel - (lv - 1) > 0
          /\ (endlevel - (lv - 1)) - 1 = endlevel - lv
      BY <1>1
    <2>2. Pow2[endlevel - lv] \in Nat \ {0}
          /\ Pow2[endlevel - (lv - 1)] = 2 * Pow2[endlevel - lv]
      BY <2>1, SizeFacts
    <2> QED BY <2>2, <1>1, CeilHalves DEF BlocksAt
  <1>5. BlocksAt(0) = 1
    <2> DEFINE P == Pow2[endlevel]
    <2>1. P \in Nat /\ size <= P
      BY <1>1, SizeFacts
    <2> HIDE DEF P
    <2>2. (size + P - 1) \div P = 1
      BY <2>1, <1>1
    <2> QED BY <2>2, <1>1 DEF BlocksAt, P
  <1>6. BlocksAt(endlevel) = size
    BY <1>1, <1>2 DEF BlocksAt
  <1>7. ASSUME endlevel > 0 PROVE BlocksAt(1) = 2
    <2> DEFINE P == Pow2[endlevel - 1]
    <2>1. P \in Nat \ {0} /\ P < size /\ size <= 2 * P
      <3>1. endlevel - 1 \in 0 .. endlevel /\ endlevel \in 0 .. endlevel
        BY <1>1, <1>7
      <3> QED BY <3>1, <1>7, SizeFacts
    <2> HIDE DEF P
    <2>2. (size + P - 1) \div P = 2
      BY <2>1, <1>1
    <2> QED BY <2>2 DEF BlocksAt, P
  <1> QED BY <1>3, <1>4, <1>5, <1>6, <1>7

\* Exclusive or of blocks.
LEMMA XorFacts ==
  ASSUME NEW x \in Block, NEW y \in Block, NEW z \in Block
  PROVE  /\ Xor(x, y) \in Block
         /\ Xor(x, y) = Xor(y, x)
         /\ Xor(x, y) = Zero <=> x = y
         /\ Xor(x, Zero) = x
         /\ Xor(Xor(x, y), z) = Xor(x, Xor(y, z))
         /\ Xor(x, y) = z => Xor(x, z) = y
         /\ (Bit(Xor(x, y)) <=> (Bit(x) # Bit(y)))
  BY DEF Xor, Block, Zero, Bit

-----------------------------------------------------------------------------
(***************************************************************************)
(* The inductive invariant.  Diff relates a cell of the two parties; the   *)
(* parties themselves see their own cell only.                             *)
(***************************************************************************)
Diff(m, c) == Xor(data[1][m][c], data[2][m][c])
BitsDiffer(m, c) == bits[1][m][c] # bits[2][m][c]

\* The counters and the buffers of the level.
Shape ==
  /\ pc \in Control \union {"correct", "index", "done"}
  /\ thislevelblocks = BlocksAt(level)
  /\ level < endlevel => nextlevelblocks = BlocksAt(level + 1)
  /\ endlevel > 0 => nextlevelblocks <= size
  /\ front = IF level % 2 = 0 THEN "level" ELSE "output"
  /\ pc = "start" => level = 0
  /\ pc = "reveal" => level < endlevel
  /\ pc = "node" => level > 0
  /\ pc \notin {"start", "reveal", "node"} => level = endlevel

\* Between two levels.
RevealInv ==
  /\ \A c \in 0 .. thislevelblocks - 1 : BitsDiffer(front, c) <=> c = Path(level)
  /\ \A c \in 0 .. nextlevelblocks - 1 : c \div 2 # Path(level) => data[1][back][c] = data[2][back][c]
  /\ \A s \in Side : Xor(acc[1][s], acc[2][s]) =
       IF 2 * Path(level) + s < nextlevelblocks THEN Diff(back, 2 * Path(level) + s) ELSE Zero

\* The nodes of the level that are still to be processed.
PendingInv ==
  /\ \A c \in 0 .. thislevelblocks - 1 :
       BitsDiffer(back, c \div 2) <=> c \div 2 = Path(level - 1)
  /\ \A c \in ii .. thislevelblocks - 1 :
       /\ c \div 2 # Path(level - 1) => data[1][front][c] = data[2][front][c]
       /\ c \div 2 = Path(level - 1) /\ c # Path(level) => Diff(front, c) = Z
       /\ c \div 2 = Path(level - 1) =>
            (advice[c % 2] <=> (Bit(Diff(front, c)) <=> c # Path(level)))

\* The nodes that are done.
ProcessedInv == \A c \in 0 .. ii - 1 : BitsDiffer(front, c) <=> c = Path(level)

\* Their children.
ChildrenInv ==
  /\ \A c \in 0 .. nextlevelblocks - 1 :
       c \div 2 < ii /\ c \div 2 # Path(level) => data[1][back][c] = data[2][back][c]
  /\ \A s \in Side : Xor(acc[1][s], acc[2][s]) =
       IF Path(level) < ii /\ 2 * Path(level) + s < nextlevelblocks
       THEN Diff(back, 2 * Path(level) + s) ELSE Zero

\* The leaves that are done.
LeavesInv ==
  /\ \A c \in 0 .. ii - 1 : c # Path(level) => data[1]["output"][c] = data[2]["output"][c]
  /\ Xor(acc[1][0], acc[2][0]) = IF Path(level) < ii THEN Diff("output", Path(level)) ELSE Zero

\* The result of the traversal.
ResultInv ==
  /\ \A c \in 0 .. size - 1 : BitsDiffer("output", c) <=> c = Path(endlevel)
  /\ \A c \in 0 .. size - 1 :
       c # Path(endlevel) => data[1]["output"][c] = data[2]["output"][c]
  /\ Xor(acc[1][0], acc[2][0]) =
       IF Path(endlevel) < size THEN Diff("output", Path(endlevel)) ELSE Zero

\* After the correction of the values.
CorrectedInv ==
  /\ \A c \in 0 .. size - 1 : BitsDiffer("output", c) <=> c = Path(endlevel)
  /\ \A c \in 0 .. size - 1 :
       Diff("output", c) = IF c = Path(endlevel) THEN Xor(Delta, temp_local) ELSE Zero

\* The correction, in both entry points.
CorrectionInv ==
  temp_local = IF set_beta THEN Xor(Delta, beta) ELSE IF index = -1 THEN Zero ELSE Delta

\* The beta of dpf_proper.
EntryInv == ~ set_beta => beta = BetaOfProper

\* What the product of dpf_proper amounts to: with an index the correction is the
\* difference itself, so that no values of the parties differ any more.
ProperCancels ==
  pc = "done" /\ ~ set_beta /\ index # -1 => \A c \in 0 .. size - 1 : Value(c) = Zero

IndInv ==
  /\ DTypeOK
  /\ Shape
  /\ pc = "reveal" => RevealInv
  /\ pc = "node" => PendingInv /\ ProcessedInv
  /\ pc = "node" /\ level < endlevel => ChildrenInv
  /\ pc = "node" /\ level = endlevel => LeavesInv
  /\ pc = "delta" => ResultInv
  /\ pc = "correct" => ResultInv /\ CorrectionInv
  /\ pc = "index" => CorrectedInv /\ CorrectionInv
  /\ pc = "done" => PointFunction /\ ProperCancels

-----------------------------------------------------------------------------
\* What the type invariant says of single cells.
LEMMA CellTypes ==
  ASSUME TypeOK, NEW p \in Party, NEW m \in Buffer, NEW c \in Cell
  PROVE  data[p][m][c] \in Block /\ bits[p][m][c] \in BOOLEAN
  BY DEF TypeOK

\* What the type invariant says of the accumulators.
LEMMA AccTypes ==
  ASSUME TypeOK, NEW p \in Party, NEW s \in Side
  PROVE  acc[p][s] \in Block
  BY DEF TypeOK

\* The back buffer is the other one.
LEMMA BackType == back \in Buffer /\ (front \in Buffer => back # front)
  BY DEF back, Buffer

\* The tree does not change during the protocol.
LEMMA SameTree ==
  ASSUME UNCHANGED shape
  PROVE  /\ size' = size /\ index' = index /\ endlevel' = endlevel
         /\ \A lv \in Int : Path(lv)' = Path(lv)
         /\ \A lv \in Int : BlocksAt(lv)' = BlocksAt(lv)
  <1>1. size' = size /\ index' = index
    BY DEF shape
  <1>2. endlevel' = endlevel
    BY <1>1 DEF endlevel, LOG2LL
  <1> QED BY <1>1, <1>2 DEF Path, BlocksAt

\* The initial states satisfy the invariant.
LEMMA InitInv == DInit => IndInv
  <1> SUFFICES ASSUME DInit PROVE IndInv
    OBVIOUS
  <1> USE DEF DInit
  <1>1. size \in 1 .. MaxSize /\ index \in -1 .. size - 1 /\ level = 0 /\ thislevelblocks = 1
        /\ nextlevelblocks = 2 /\ ii = 0 /\ front = "level" /\ pc = "start" /\ acc = NoAcc /\ Z = Zero
        /\ advice = [s \in Side |-> FALSE] /\ beta \in Block /\ temp_local = Zero
        /\ set_beta \in BOOLEAN /\ (~ set_beta => beta = BetaOfProper)
    BY BlockAssumption DEF Init, BetaOfProper, Block, Zero
  <1>2. data \in [Party -> [Buffer -> [Cell -> Block]]] /\ bits \in [Party -> [Buffer -> [Cell -> BOOLEAN]]]
    <2>1. PICK garbage \in [Party -> Block] :
            /\ data = [p \in Party |-> [m \in Buffer |-> [c \in Cell |->
                         IF m = "level" THEN garbage[p] ELSE Zero]]]
            /\ bits = [p \in Party |-> [m \in Buffer |-> [c \in Cell |->
                         m = "level" /\ Bit(garbage[p])]]]
      BY DEF Init
    <2>2. Zero \in Block
      BY DEF Zero, Block
    <2> QED BY <2>1, <2>2
  <1>3. Zero \in Block
    BY DEF Zero, Block
  <1>4. endlevel \in 0 .. MaxSize
    BY <1>1, Depth
  <1>5. TypeOK
    BY <1>1, <1>2, <1>3, <1>4 DEF TypeOK, NoAcc, Buffer
  <1>6. BlocksAt(0) = 1 /\ (endlevel > 0 => BlocksAt(0 + 1) = 2 /\ 2 <= size)
    <2>1. endlevel > 0 => 1 \in 0 .. endlevel
      BY <1>4
    <2>2. endlevel > 0 => BlocksAt(1) \in 1 .. size
      BY <2>1, <1>5, BlocksFacts
    <2> QED BY <2>2, <1>5, BlocksFacts
  <1>7. Shape
    BY <1>1, <1>4, <1>6 DEF Shape, Control
  <1> QED BY <1>1, <1>3, <1>5, <1>7 DEF IndInv, DTypeOK, Control

-----------------------------------------------------------------------------
\* offline_start.
LEMMA StartInv == IndInv /\ Start /\ UNCHANGED <<set_beta, beta, temp_local>> => IndInv'
  <1> SUFFICES ASSUME IndInv, Start, UNCHANGED <<set_beta, beta, temp_local>> PROVE IndInv'
    OBVIOUS
  <1>0. TypeOK /\ Shape /\ DTypeOK
    BY DEF IndInv, DTypeOK
  <1>1. pc = "start" /\ level = 0 /\ UNCHANGED <<size, index, level, thislevelblocks, nextlevelblocks, ii, front, Z, advice>>
        /\ pc' = IF endlevel = 0 THEN "delta" ELSE "reveal"
    BY <1>0 DEF Start, Shape, shape
  <1>2. thislevelblocks = 1 /\ front = "level" /\ (0 < endlevel => nextlevelblocks = 2)
    BY <1>0, <1>1, BlocksFacts DEF Shape
  <1>3. endlevel' = endlevel /\ (\A lv \in Int : Path(lv)' = Path(lv))
        /\ (\A lv \in Int : BlocksAt(lv)' = BlocksAt(lv))
    BY SameTree DEF Start
  <1>4. endlevel \in Nat /\ size \in Nat \ {0} /\ MaxSize \in Nat /\ size <= MaxSize
        /\ 0 \in Cell /\ 1 \in Cell
    BY <1>0, SizeFacts, SizeAssumption DEF TypeOK, Cell
  <1>5. PICK root \in [Party -> Block] :
       /\ ~ Bit(root[1]) /\ Bit(root[2])
       /\ data' = [p \in Party |-> [m \in Buffer |-> [c \in Cell |->
                     IF c = 0 /\ (m = "level" \/ endlevel = 0) THEN root[p]
                     ELSE IF c \in Side /\ m = "output" THEN PRG[c][root[p]]
                     ELSE data[p][m][c]]]]
       /\ bits' = [p \in Party |-> [m \in Buffer |-> [c \in Cell |->
                     IF c = 0 /\ (m = "level" \/ endlevel = 0) THEN Bit(root[p])
                     ELSE bits[p][m][c]]]]
       /\ acc' = [p \in Party |-> [s \in Side |->
                    IF endlevel = 0 /\ s = 0 THEN root[p] ELSE PRG[s][root[p]]]]
    BY DEF Start
  <1>6. \A p \in Party : root[p] \in Block /\ PRG[0][root[p]] \in Block /\ PRG[1][root[p]] \in Block
    BY PRGAssumption DEF Side
  <1>7. TypeOK'
    <2>1. data' \in [Party -> [Buffer -> [Cell -> Block]]]
      <3>1. ASSUME NEW p \in Party, NEW m \in Buffer, NEW c \in Cell
            PROVE  (IF c = 0 /\ (m = "level" \/ endlevel = 0) THEN root[p]
                     ELSE IF c \in Side /\ m = "output" THEN PRG[c][root[p]]
                     ELSE data[p][m][c]) \in Block
        BY <1>0, <1>6, CellTypes DEF Side
      <3> QED BY <3>1, <1>5
    <2>2. bits' \in [Party -> [Buffer -> [Cell -> BOOLEAN]]]
      <3>1. ASSUME NEW p \in Party, NEW m \in Buffer, NEW c \in Cell
            PROVE  (IF c = 0 /\ (m = "level" \/ endlevel = 0) THEN Bit(root[p])
                     ELSE bits[p][m][c]) \in BOOLEAN
        <4>1. Bit(root[p]) \in BOOLEAN
          BY DEF Bit
        <4>2. bits[p][m][c] \in BOOLEAN
          BY <1>0, CellTypes
        <4> QED BY <4>1, <4>2, Zenon
      <3> QED BY <3>1, <1>5
    <2>3. acc' \in [Party -> [Side -> Block]]
      BY <1>5, <1>6 DEF Side
    <2> QED BY <1>0, <1>1, <1>3, <2>1, <2>2, <2>3 DEF TypeOK
  <1>8. Shape'
    BY <1>0, <1>1, <1>2, <1>3, <1>4 DEF Shape, Control
  <1>9. Path(0) = 0 /\ Path(0)' = 0
    BY <1>0, <1>3, PathEnds
  <1>10. ASSUME endlevel # 0 PROVE RevealInv'
    <2>1. back' = "output" /\ front' = "level" /\ level' = 0 /\ thislevelblocks' = 1 /\ nextlevelblocks' = 2
      BY <1>1, <1>2, <1>4, <1>10 DEF back
    <2>2. ~ bits'[1]["level"][0] /\ bits'[2]["level"][0]
      BY <1>0, <1>4, <1>5 DEF TypeOK, Buffer, Party
    <2>3. \A p \in Party, s \in Side : data'[p]["output"][s] = PRG[s][root[p]] /\ acc'[p][s] = PRG[s][root[p]]
      BY <1>0, <1>4, <1>5, <1>10 DEF TypeOK, Buffer, Side
    <2>4. \A s \in Side : Xor(acc'[1][s], acc'[2][s]) = Xor(data'[1]["output"][s], data'[2]["output"][s])
      BY <2>3 DEF Party
    <2>5. Path(level)' = 0
      BY <1>3, <1>9, <2>1
    <2>7. \A s \in Side : 2 * 0 + s < 2 /\ 2 * 0 + s = s
      BY DEF Side
    <2>6. \A c \in 0 .. 1 : c \div 2 = 0
      OBVIOUS
    <2>8. \A c \in 0 .. 0 : bits'[1]["level"][c] # bits'[2]["level"][c] <=> c = 0
      BY <2>2
    <2>9. \A s \in Side : Xor(acc'[1][s], acc'[2][s]) =
            IF 2 * 0 + s < 2 THEN Xor(data'[1]["output"][2 * 0 + s], data'[2]["output"][2 * 0 + s]) ELSE Zero
      BY <2>4, <2>7
    <2> QED BY <2>1, <2>5, <2>6, <2>8, <2>9 DEF RevealInv, BitsDiffer, Diff
  <1>11. ASSUME endlevel = 0 PROVE ResultInv'
    <2>1. size = 1
      <3>1. BlocksAt(0) = 1 /\ BlocksAt(endlevel) = size
        BY <1>0, BlocksFacts
      <3> QED BY <3>1, <1>11
    <2>2. Path(endlevel)' = 0
      BY <1>3, <1>9, <1>11
    <2>3. ~ bits'[1]["output"][0] /\ bits'[2]["output"][0]
      BY <1>0, <1>4, <1>5, <1>11 DEF TypeOK, Buffer, Party
    <2>4. \A p \in Party : data'[p]["output"][0] = root[p] /\ acc'[p][0] = root[p]
      BY <1>0, <1>4, <1>5, <1>11 DEF TypeOK, Buffer, Side
    <2>5. size' = 1
      BY <2>1, <1>1
    <2>6. Xor(acc'[1][0], acc'[2][0]) = Xor(data'[1]["output"][0], data'[2]["output"][0])
      BY <2>4 DEF Party
    <2>7. \A c \in 0 .. 0 : bits'[1]["output"][c] # bits'[2]["output"][c] <=> c = 0
      BY <2>3
    <2> QED BY <2>2, <2>5, <2>6, <2>7 DEF ResultInv, BitsDiffer, Diff
  <1> QED BY <1>0, <1>1, <1>7, <1>8, <1>10, <1>11 DEF IndInv, DTypeOK, Control, Shape

-----------------------------------------------------------------------------
\* The oblivious part.
LEMMA RevealStep == IndInv /\ Reveal /\ UNCHANGED <<set_beta, beta, temp_local>> => IndInv'
  <1> SUFFICES ASSUME IndInv, Reveal, UNCHANGED <<set_beta, beta, temp_local>> PROVE IndInv'
    OBVIOUS
  <1> DEFINE lv == level + 1
             P == Path(level)
             b == levelindex(lv)
             diff == [s \in Side |-> Xor(acc[1][s], acc[2][s])]
  <1>0. TypeOK /\ Shape /\ DTypeOK /\ RevealInv /\ pc = "reveal" /\ level < endlevel
    BY DEF IndInv, DTypeOK, Reveal
  <1>1. /\ Z' = Correction(diff, b) /\ advice' = getadvice(diff, b) /\ level' = lv
        /\ thislevelblocks' = nextlevelblocks
        /\ nextlevelblocks' = IF lv < endlevel THEN BlocksAt(lv + 1) ELSE nextlevelblocks
        /\ front' = back /\ acc' = NoAcc /\ ii' = 0 /\ pc' = "node"
        /\ UNCHANGED <<shape, data, bits, set_beta, beta, temp_local>>
    BY DEF Reveal
  <1>2. endlevel' = endlevel /\ size' = size /\ index' = index
        /\ (\A l \in Int : Path(l)' = Path(l)) /\ (\A l \in Int : BlocksAt(l)' = BlocksAt(l))
    BY <1>1, SameTree
  <1>3. /\ level \in Nat /\ endlevel \in Nat /\ lv \in 1 .. endlevel /\ lv - 1 = level
        /\ level \in 0 .. endlevel
    BY <1>0, SizeFacts DEF TypeOK
  <1>4. b \in {0, 1} /\ P \in Nat /\ Path(lv) = 2 * P + b
    BY <1>0, <1>3, PathStep
  <1>5. /\ thislevelblocks \in Nat /\ nextlevelblocks \in Nat /\ nextlevelblocks <= 2 * thislevelblocks
        /\ nextlevelblocks = BlocksAt(lv)
    <2>1. thislevelblocks = BlocksAt(level) /\ nextlevelblocks = BlocksAt(lv)
      BY <1>0 DEF Shape
    <2>2. BlocksAt(lv) <= 2 * BlocksAt(lv - 1)
      BY <1>0, <1>3, BlocksFacts
    <2> QED BY <2>1, <2>2, <1>0, <1>3 DEF TypeOK
  <1>6. back' = front /\ back \in Buffer
    BY <1>0, <1>1 DEF back, TypeOK, Buffer
  <1>7. \A s \in Side : diff[s] \in Block
    BY <1>0, AccTypes, XorFacts DEF Party
  <1>8. \A s \in Side : 2 * P + s < nextlevelblocks => diff[s] = Diff(back, 2 * P + s)
    BY <1>0 DEF RevealInv
  <1>9. TypeOK'
    <2>1. Z' \in Block
      BY <1>1, <1>7 DEF Correction, Side
    <2>2. advice' \in [Side -> BOOLEAN]
      BY <1>1 DEF getadvice, Bit, Side
    <2>3. acc' \in [Party -> [Side -> Block]]
      BY <1>1 DEF NoAcc, Zero, Block
    <2>4. nextlevelblocks' \in Nat
      <3>1. lv < endlevel => lv + 1 \in 0 .. endlevel
        BY <1>3
      <3>2. lv < endlevel => BlocksAt(lv + 1) \in Nat
        BY <3>1, <1>0, BlocksFacts
      <3> QED BY <3>2, <1>1, <1>5
    <2> QED BY <2>1, <2>2, <2>3, <2>4, <1>0, <1>1, <1>2, <1>3, <1>5, <1>6 DEF TypeOK
  <1>10. Shape'
    <2>1. level % 2 = 0 <=> lv % 2 # 0
      BY <1>3
    <2>2. front' = IF level' % 2 = 0 THEN "level" ELSE "output"
      BY <2>1, <1>0, <1>1 DEF Shape, back
    <2>3. BlocksAt(level)' = BlocksAt(lv) /\ BlocksAt(level + 1)' = BlocksAt(lv + 1)
      BY <1>1, <1>2, <1>3
    <2>4. nextlevelblocks' <= size
      <3>1. lv < endlevel => lv + 1 \in 0 .. endlevel
        BY <1>3
      <3> QED BY <3>1, <1>0, <1>1, <1>3, BlocksFacts DEF Shape
    <2> QED BY <2>2, <2>3, <2>4, <1>1, <1>2, <1>3, <1>5 DEF Shape, Control
  <1> HIDE DEF diff, P, b, lv
  <1>11. PendingInv'
    <2>1. Path(level)' = 2 * P + b /\ Path(level - 1)' = P
      <3>1. Path(level)' = Path(lv)
        BY <1>1, <1>2, <1>3
      <3>2. Path(level - 1)' = Path(level)
        BY <1>1, <1>2, <1>3
      <3> QED BY <3>1, <3>2, <1>4 DEF P
    <2>2. ASSUME NEW c \in 0 .. nextlevelblocks - 1
          PROVE  BitsDiffer(front, c \div 2) <=> c \div 2 = P
      <3>1. c \div 2 \in 0 .. thislevelblocks - 1
        BY <1>5
      <3> QED BY <3>1, <1>0 DEF RevealInv, P
    <2>3. ASSUME NEW c \in 0 .. nextlevelblocks - 1
          PROVE  /\ c \div 2 # P => data[1][back][c] = data[2][back][c]
                 /\ c \div 2 = P /\ c # 2 * P + b => Diff(back, c) = Z'
                 /\ c \div 2 = P => (advice'[c % 2] <=> (Bit(Diff(back, c)) <=> c # 2 * P + b))
      <3>1. c \div 2 # P => data[1][back][c] = data[2][back][c]
        BY <1>0 DEF RevealInv, P
      <3>2. ASSUME c \div 2 = P PROVE c % 2 \in Side /\ c = 2 * P + (c % 2) /\ diff[c % 2] = Diff(back, c)
        <4>1. c % 2 \in Side /\ c = 2 * P + (c % 2)
          BY <3>2 DEF Side
        <4> QED BY <4>1, <1>5, <1>8
      <3>3. ASSUME c \div 2 = P, c # 2 * P + b PROVE Diff(back, c) = Z'
        <4>1. c % 2 # b /\ c % 2 \in {0, 1}
          BY <3>2, <3>3 DEF Side
        <4> QED BY <4>1, <3>2, <3>3, <1>1, <1>4 DEF Correction
      <3>4. ASSUME c \div 2 = P PROVE advice'[c % 2] <=> (Bit(Diff(back, c)) <=> c # 2 * P + b)
        <4>1. c # 2 * P + b <=> c % 2 # b
          BY <3>2, <3>4, <1>4
        <4>0. Bit(diff[0]) \in BOOLEAN /\ Bit(diff[1]) \in BOOLEAN
          BY DEF Bit
        <4>2. CASE c % 2 = 0
          <5>1. advice'[0] <=> (Bit(diff[0]) # (b = 0))
            BY <1>1 DEF getadvice, Side
          <5> QED BY <5>1, <4>0, <4>1, <4>2, <3>2, <3>4, <1>4
        <4>3. CASE c % 2 = 1
          <5>1. advice'[1] <=> (Bit(diff[1]) # (b = 1))
            BY <1>1 DEF getadvice, Side
          <5> QED BY <5>1, <4>0, <4>1, <4>3, <3>2, <3>4, <1>4
        <4> QED BY <4>2, <4>3, <3>2, <3>4 DEF Side
      <3> QED BY <3>1, <3>3, <3>4
    <2> QED BY <2>1, <2>2, <2>3, <1>1, <1>6 DEF PendingInv, BitsDiffer, Diff
  <1>12. ProcessedInv'
    BY <1>1 DEF ProcessedInv
  <1>13. \A s \in Side : Xor(acc'[1][s], acc'[2][s]) = Zero
    BY <1>1 DEF NoAcc, Party, Zero, Xor
  <1>14. Path(level)' \in Nat
    BY <1>1, <1>2, <1>3, <1>4
  <1>15. ChildrenInv'
    <2>1. \A c \in 0 .. nextlevelblocks' - 1 : ~ (c \div 2 < 0)
      OBVIOUS
    <2> QED BY <2>1, <1>1, <1>13, <1>14 DEF ChildrenInv
  <1>16. LeavesInv'
    BY <1>1, <1>13, <1>14 DEF LeavesInv, Side
  <1> QED BY <1>0, <1>1, <1>9, <1>10, <1>11, <1>12, <1>15, <1>16 DEF IndInv, DTypeOK, Control

-----------------------------------------------------------------------------
\* A node of the current level, corrected: equal in both parties off the path,
\* and there the control bits differ and nowhere else.
LEMMA NodeCorrected ==
  ASSUME TypeOK, Shape, pc = "node", ii < thislevelblocks, PendingInv
  PROVE  /\ \A p \in Party : corrected(p) \in Block /\ nodebit(p) \in BOOLEAN
         /\ ii # Path(level) => corrected(1) = corrected(2)
         /\ nodebit(1) # nodebit(2) <=> ii = Path(level)
  <1> DEFINE d1 == data[1][front][ii]
             d2 == data[2][front][ii]
             b1 == parentbit(1)
             b2 == parentbit(2)
             a  == advice[ii % 2]
  <1>1. /\ level \in Nat /\ endlevel \in Nat /\ level \in 1 .. endlevel
        /\ thislevelblocks \in Nat /\ ii \in Nat /\ ii \in 0 .. thislevelblocks - 1
        /\ thislevelblocks <= size /\ size <= MaxSize /\ MaxSize \in Nat /\ size \in Nat
    <2>1. level \in 1 .. endlevel /\ endlevel \in Nat /\ size \in Nat
      BY SizeFacts DEF TypeOK, Shape
    <2>2. thislevelblocks \in 1 .. size
      BY <2>1, BlocksFacts DEF Shape
    <2> QED BY <2>1, <2>2, SizeAssumption DEF TypeOK
  <1>2. /\ levelindex(level) \in {0, 1} /\ Path(level - 1) \in Nat
        /\ Path(level) = 2 * Path(level - 1) + levelindex(level)
    BY <1>1, PathStep
  <1>3. ii \in Cell /\ ii \div 2 \in Cell /\ ii % 2 \in Side
    <2>1. ii \div 2 \in Nat /\ ii \div 2 <= ii /\ ii % 2 \in {0, 1}
      BY <1>1
    <2> QED BY <2>1, <1>1 DEF Cell, Side
  <1>4. d1 \in Block /\ d2 \in Block /\ Z \in Block /\ a \in BOOLEAN
        /\ b1 \in BOOLEAN /\ b2 \in BOOLEAN
    BY <1>3, BackType, CellTypes DEF TypeOK, parentbit, Party
  <1>5. /\ corrected(1) = IF b1 THEN Xor(d1, Z) ELSE d1
        /\ corrected(2) = IF b2 THEN Xor(d2, Z) ELSE d2
        /\ nodebit(1) = (Bit(d1) # (b1 /\ a))
        /\ nodebit(2) = (Bit(d2) # (b2 /\ a))
    BY DEF corrected, nodebit
  <1>6. \A p \in Party : corrected(p) \in Block /\ nodebit(p) \in BOOLEAN
    <2>1. \A p \in Party : data[p][front][ii] \in Block /\ Xor(data[p][front][ii], Z) \in Block
      BY <1>3, <1>4, CellTypes, XorFacts DEF TypeOK
    <2> QED BY <2>1 DEF corrected, nodebit
  <1>7. /\ b1 # b2 <=> ii \div 2 = Path(level - 1)
        /\ ii \div 2 # Path(level - 1) => d1 = d2
        /\ ii \div 2 = Path(level - 1) /\ ii # Path(level) => Xor(d1, d2) = Z
        /\ ii \div 2 = Path(level - 1) => (a <=> (Bit(Xor(d1, d2)) <=> ii # Path(level)))
    <2>1. ii \in ii .. thislevelblocks - 1
      BY <1>1
    <2> QED BY <2>1, <1>1 DEF PendingInv, BitsDiffer, Diff, parentbit
  <1>8. (Bit(Xor(d1, d2)) <=> (Bit(d1) # Bit(d2)))
        /\ Bit(d1) \in BOOLEAN /\ Bit(d2) \in BOOLEAN
    BY <1>4, XorFacts DEF Bit
  <1> HIDE DEF d1, d2, b1, b2, a
  <1>9. CASE ii \div 2 # Path(level - 1)
    <2>1. ii # Path(level)
      BY <1>1, <1>2, <1>9
    <2>2. b1 = b2 /\ d1 = d2
      BY <1>7, <1>9
    <2> QED BY <2>1, <2>2, <1>5, <1>6
  <1>10. CASE ii \div 2 = Path(level - 1) /\ ii # Path(level)
    <2>1. Xor(d1, Z) = d2 /\ Xor(d2, Z) = d1
      BY <1>4, <1>7, <1>10, XorFacts
    <2>2. b1 # b2
      BY <1>7, <1>10
    <2>3. corrected(1) = corrected(2)
      BY <2>1, <2>2, <1>4, <1>5
    <2>4. a <=> (Bit(d1) # Bit(d2))
      BY <1>7, <1>8, <1>10
    <2>5. ~ (nodebit(1) # nodebit(2))
      BY <2>2, <2>4, <1>4, <1>5, <1>8
    <2> QED BY <2>3, <2>5, <1>6, <1>10
  <1>11. CASE ii \div 2 = Path(level - 1) /\ ii = Path(level)
    <2>1. b1 # b2
      BY <1>7, <1>11
    <2>2. a <=> ~ (Bit(d1) # Bit(d2))
      BY <1>7, <1>8, <1>11
    <2>3. nodebit(1) # nodebit(2)
      BY <2>1, <2>2, <1>4, <1>5, <1>8
    <2> QED BY <2>3, <1>6, <1>11
  <1> QED BY <1>9, <1>10, <1>11

\* Accumulating in both parties accumulates the difference.
LEMMA XorFour ==
  ASSUME NEW x \in Block, NEW y \in Block, NEW k \in Block, NEW l \in Block
  PROVE  /\ Xor(Xor(x, k), Xor(y, l)) = Xor(Xor(x, y), Xor(k, l))
         /\ k = l => Xor(Xor(x, k), Xor(y, l)) = Xor(x, y)
         /\ x = y => Xor(Xor(x, k), Xor(y, l)) = Xor(k, l)
  BY DEF Xor, Block

\* The numbers that bound a node of the current level.
LEMMA NodeNumbers ==
  ASSUME TypeOK, Shape, pc = "node"
  PROVE  /\ level \in 1 .. endlevel /\ level \in Nat /\ endlevel \in Nat
         /\ thislevelblocks \in Nat /\ thislevelblocks <= size /\ size \in Nat /\ size <= MaxSize
         /\ MaxSize \in Nat /\ ii \in Nat /\ ii <= thislevelblocks /\ Path(level) \in Nat
         /\ level < endlevel => nextlevelblocks \in Nat /\ nextlevelblocks <= size
         /\ \A c \in 0 .. size - 1 : c \in Cell /\ c \div 2 \in Cell
  <1>1. level \in 1 .. endlevel /\ endlevel \in Nat /\ size \in Nat /\ level \in 0 .. endlevel /\ level \in Nat
    BY SizeFacts DEF TypeOK, Shape
  <1>2. thislevelblocks \in 1 .. size
    BY <1>1, BlocksFacts DEF Shape
  <1>3. ASSUME level < endlevel PROVE nextlevelblocks \in 1 .. size
    <2>1. level + 1 \in 0 .. endlevel
      BY <1>1, <1>3
    <2> QED BY <2>1, <1>3, BlocksFacts DEF Shape
  <1>4. Path(level) \in Nat
    BY <1>1, PathEnds
  <1>5. size <= MaxSize /\ MaxSize \in Nat
    BY SizeAssumption DEF TypeOK
  <1>6. ASSUME NEW c \in 0 .. size - 1 PROVE c \in Cell /\ c \div 2 \in Cell
    <2>1. c \div 2 \in Nat /\ c \div 2 <= c
      BY <1>1
    <2> QED BY <2>1, <1>1, <1>5 DEF Cell
  <1> QED BY <1>1, <1>2, <1>3, <1>4, <1>5, <1>6 DEF TypeOK

\* A node of an inner level and its children.
LEMMA ProcessNodeStep == IndInv /\ ProcessNode /\ UNCHANGED <<set_beta, beta, temp_local>> => IndInv'
  <1> SUFFICES ASSUME IndInv, ProcessNode, UNCHANGED <<set_beta, beta, temp_local>> PROVE IndInv'
    OBVIOUS
  <1> DEFINE P == Path(level)
             k(p, s) == PRG[s][corrected(p)]
  <1>0. TypeOK /\ Shape /\ DTypeOK /\ PendingInv /\ ProcessedInv /\ ChildrenInv
        /\ pc = "node" /\ level < endlevel /\ ii < thislevelblocks
    BY DEF IndInv, DTypeOK, ProcessNode
  <1>1. /\ ii' = ii + 1
        /\ UNCHANGED <<shape, pc, level, thislevelblocks, nextlevelblocks, front, Z, advice>>
        /\ UNCHANGED <<set_beta, beta, temp_local>>
    BY DEF ProcessNode
  <1>2. endlevel' = endlevel /\ size' = size /\ index' = index
        /\ (\A l \in Int : Path(l)' = Path(l)) /\ (\A l \in Int : BlocksAt(l)' = BlocksAt(l))
    BY <1>1, SameTree
  <1>3. /\ level \in 1 .. endlevel /\ level \in Nat /\ endlevel \in Nat
        /\ thislevelblocks \in Nat /\ thislevelblocks <= size /\ size \in Nat /\ size <= MaxSize
        /\ MaxSize \in Nat /\ ii \in Nat /\ P \in Nat
        /\ nextlevelblocks \in Nat /\ nextlevelblocks <= size
        /\ \A c \in 0 .. size - 1 : c \in Cell /\ c \div 2 \in Cell
    BY <1>0, NodeNumbers
  <1>4. /\ \A p \in Party : corrected(p) \in Block /\ nodebit(p) \in BOOLEAN
        /\ ii # P => corrected(1) = corrected(2)
        /\ nodebit(1) # nodebit(2) <=> ii = P
    BY <1>0, NodeCorrected
  <1>5. ii \in Cell /\ back \in Buffer /\ front \in Buffer /\ back # front /\ back' = back
    BY <1>0, <1>1, <1>3, BackType DEF TypeOK, back, Cell
  <1>6. \A p \in Party, s \in Side : k(p, s) \in Block /\ acc[p][s] \in Block
    BY <1>0, <1>4, AccTypes, PRGAssumption
  <1>7. \A p \in Party, m \in Buffer, c \in Cell : data'[p][m][c] =
          IF m = front /\ c = ii THEN corrected(p)
          ELSE IF m = back /\ c \div 2 = ii /\ c < nextlevelblocks THEN k(p, c % 2)
          ELSE data[p][m][c]
    BY DEF ProcessNode
  <1>8. \A p \in Party, c \in Cell :
          /\ bits'[p][back][c] = bits[p][back][c]
          /\ c # ii => bits'[p][front][c] = bits[p][front][c]
          /\ c = ii => bits'[p][front][c] = nodebit(p)
    <2>1. bits' = [p \in Party |-> [bits[p] EXCEPT ![front][ii] = nodebit(p)]]
      BY DEF ProcessNode
    <2> QED BY <2>1, <1>0, <1>5 DEF TypeOK
  <1>9. \A p \in Party, s \in Side : acc'[p][s] =
          IF 2 * ii + s < nextlevelblocks THEN Xor(acc[p][s], k(p, s)) ELSE acc[p][s]
    BY DEF ProcessNode
  <1>10. TypeOK'
    <2>1. data' \in [Party -> [Buffer -> [Cell -> Block]]]
      <3>1. ASSUME NEW p \in Party, NEW m \in Buffer, NEW c \in Cell
            PROVE  data'[p][m][c] \in Block
        <4>1. c % 2 \in Side
          BY <1>3 DEF Side, Cell
        <4> QED BY <4>1, <1>0, <1>4, <1>6, <1>7, CellTypes
      <3>2. data' = [p \in Party |-> [m \in Buffer |-> [c \in Cell |-> data'[p][m][c]]]]
        BY DEF ProcessNode
      <3> QED BY <3>1, <3>2
    <2>2. bits' \in [Party -> [Buffer -> [Cell -> BOOLEAN]]]
      <3>1. ASSUME NEW p \in Party
            PROVE  [bits[p] EXCEPT ![front][ii] = nodebit(p)] \in [Buffer -> [Cell -> BOOLEAN]]
        BY <1>0, <1>4, <1>5 DEF TypeOK
      <3> QED BY <3>1 DEF ProcessNode
    <2>3. acc' \in [Party -> [Side -> Block]]
      <3>1. \A p \in Party, s \in Side : Xor(acc[p][s], k(p, s)) \in Block
        BY <1>6, XorFacts
      <3>2. \A p \in Party, s \in Side : acc'[p][s] \in Block
        BY <3>1, <1>6, <1>9
      <3>3. acc' = [p \in Party |-> [s \in Side |-> acc'[p][s]]]
        BY DEF ProcessNode
      <3> QED BY <3>2, <3>3
    <2> QED BY <2>1, <2>2, <2>3, <1>0, <1>1, <1>2, <1>3 DEF TypeOK
  <1>11. Shape'
    BY <1>0, <1>1, <1>2, <1>3 DEF Shape
  <1> HIDE DEF P, k
  <1>12. Path(level)' = P /\ Path(level - 1)' = Path(level - 1)
    BY <1>1, <1>2, <1>3 DEF P
  <1>13. PendingInv'
    <2>1. \A c \in 0 .. thislevelblocks - 1 : c \in Cell /\ c \div 2 \in Cell
      BY <1>3
    <2>2. \A c \in 0 .. thislevelblocks - 1 :
            bits'[1][back][c \div 2] # bits'[2][back][c \div 2] <=> c \div 2 = Path(level - 1)
      BY <2>1, <1>0, <1>8 DEF PendingInv, BitsDiffer, Party
    <2>3. ASSUME NEW c \in ii + 1 .. thislevelblocks - 1
          PROVE  /\ c \in ii .. thislevelblocks - 1
                 /\ \A p \in Party : data'[p][front][c] = data[p][front][c]
      BY <2>1, <1>3, <1>5, <1>7
    <2> QED BY <2>2, <2>3, <1>0, <1>1, <1>5, <1>12 DEF PendingInv, BitsDiffer, Diff, Party, P
  <1>14. ProcessedInv'
    <2>1. ASSUME NEW c \in 0 .. ii
          PROVE  bits'[1][front][c] # bits'[2][front][c] <=> c = P
      <3>1. c \in Cell
        BY <1>0, <1>3
      <3>2. CASE c = ii
        BY <3>1, <3>2, <1>4, <1>8 DEF Party
      <3>3. CASE c # ii
        <4>1. c \in 0 .. ii - 1
          BY <3>3, <1>3
        <4> QED BY <3>1, <3>3, <4>1, <1>0, <1>8 DEF Party, ProcessedInv, BitsDiffer, P
      <3> QED BY <3>2, <3>3
    <2>2. 0 .. ii' - 1 = 0 .. ii
      BY <1>1, <1>3
    <2> QED BY <2>1, <2>2, <1>1, <1>12 DEF ProcessedInv, BitsDiffer
  <1>15. ChildrenInv'
    <2>1. ASSUME NEW c \in 0 .. nextlevelblocks - 1, c \div 2 < ii + 1, c \div 2 # P
          PROVE  data'[1][back][c] = data'[2][back][c]
      <3>1. c \in Cell /\ c < nextlevelblocks /\ c \div 2 \in Nat
        BY <1>3
      <3>2. CASE c \div 2 = ii
        <4>1. corrected(1) = corrected(2)
          BY <1>4, <2>1, <3>2
        <4>2. data'[1][back][c] = k(1, c % 2) /\ data'[2][back][c] = k(2, c % 2)
          BY <3>1, <3>2, <1>5, <1>7 DEF Party
        <4> QED BY <4>1, <4>2 DEF k
      <3>3. CASE c \div 2 # ii
        <4>1. c \div 2 < ii
          BY <2>1, <3>1, <3>3, <1>3
        <4>2. data[1][back][c] = data[2][back][c]
          BY <4>1, <2>1, <1>0 DEF ChildrenInv, P
        <4> QED BY <4>2, <3>1, <3>3, <1>5, <1>7 DEF Party
      <3> QED BY <3>2, <3>3
    <2>2. ASSUME NEW s \in Side
          PROVE  Xor(acc'[1][s], acc'[2][s]) =
                   IF P < ii + 1 /\ 2 * P + s < nextlevelblocks
                   THEN Xor(data'[1][back][2 * P + s], data'[2][back][2 * P + s]) ELSE Zero
      <3>1. s \in {0, 1} /\ (2 * P + s) \div 2 = P /\ (2 * P + s) % 2 = s /\ 2 * P + s \in Nat
        BY <1>3 DEF Side
      <3>2. Xor(acc[1][s], acc[2][s]) = IF P < ii /\ 2 * P + s < nextlevelblocks
              THEN Xor(data[1][back][2 * P + s], data[2][back][2 * P + s]) ELSE Zero
        BY <1>0 DEF ChildrenInv, Diff, P
      <3>3. 2 * P + s < nextlevelblocks => 2 * P + s \in Cell
        BY <3>1, <1>3
      <3>4. acc[1][s] \in Block /\ acc[2][s] \in Block /\ k(1, s) \in Block /\ k(2, s) \in Block
        BY <1>6 DEF Party
      <3>5. CASE P = ii
        <4>1. Xor(acc[1][s], acc[2][s]) = Zero /\ acc[1][s] = acc[2][s]
          BY <3>2, <3>4, <3>5, <1>3, XorFacts
        <4>2. CASE 2 * P + s < nextlevelblocks
          <5>1. Xor(acc'[1][s], acc'[2][s]) = Xor(k(1, s), k(2, s))
            BY <4>1, <4>2, <3>4, <3>5, <1>9, XorFour DEF Party
          <5>2. data'[1][back][2 * P + s] = k(1, s) /\ data'[2][back][2 * P + s] = k(2, s)
            BY <4>2, <3>1, <3>3, <3>5, <1>5, <1>7 DEF Party
          <5> QED BY <5>1, <5>2, <4>2, <3>5, <1>3
        <4>3. CASE ~ (2 * P + s < nextlevelblocks)
          BY <4>1, <4>3, <3>5, <1>9 DEF Party
        <4> QED BY <4>2, <4>3
      <3>6. CASE P # ii
        <4>1. k(1, s) = k(2, s)
          BY <3>6, <1>4 DEF k
        <4>2. Xor(acc'[1][s], acc'[2][s]) = Xor(acc[1][s], acc[2][s])
          BY <4>1, <3>4, <1>9, XorFour DEF Party
        <4>3. 2 * P + s < nextlevelblocks => \A p \in Party : data'[p][back][2 * P + s] = data[p][back][2 * P + s]
          BY <3>1, <3>3, <3>6, <1>5, <1>7
        <4>4. P < ii + 1 <=> P < ii
          BY <3>6, <1>3
        <4> QED BY <4>2, <4>3, <4>4, <3>2 DEF Party
      <3> QED BY <3>5, <3>6
    <2> QED BY <2>1, <2>2, <1>1, <1>5, <1>12 DEF ChildrenInv, Diff
  <1> QED BY <1>0, <1>1, <1>2, <1>3, <1>10, <1>11, <1>13, <1>14, <1>15 DEF IndInv, DTypeOK, Control

\* The round is over: the invariant of the processed nodes is that of the meeting.
LEMMA RoundEndStep == IndInv /\ RoundEnd /\ UNCHANGED <<set_beta, beta, temp_local>> => IndInv'
  <1> SUFFICES ASSUME IndInv, RoundEnd, UNCHANGED <<set_beta, beta, temp_local>> PROVE IndInv'
    OBVIOUS
  <1>0. TypeOK /\ Shape /\ DTypeOK /\ PendingInv /\ ProcessedInv /\ ChildrenInv
        /\ pc = "node" /\ level < endlevel /\ ii = thislevelblocks
    BY DEF IndInv, DTypeOK, RoundEnd
  <1>1. /\ pc' = "reveal"
        /\ UNCHANGED <<shape, level, thislevelblocks, nextlevelblocks, ii, front, data, bits, acc, Z, advice>>
        /\ UNCHANGED <<set_beta, beta, temp_local>>
    BY DEF RoundEnd
  <1>2. endlevel' = endlevel /\ size' = size /\ index' = index
        /\ (\A l \in Int : Path(l)' = Path(l)) /\ (\A l \in Int : BlocksAt(l)' = BlocksAt(l))
    BY <1>1, SameTree
  <1>3. level \in Nat /\ thislevelblocks \in Nat /\ nextlevelblocks \in Nat /\ Path(level) \in Nat
        /\ nextlevelblocks <= 2 * thislevelblocks /\ endlevel \in Nat
    <2>1. level \in Nat /\ thislevelblocks \in Nat /\ nextlevelblocks \in Nat /\ Path(level) \in Nat /\ endlevel \in Nat
      BY <1>0, NodeNumbers
    <2>2. level + 1 \in 1 .. endlevel /\ (level + 1) - 1 = level
      BY <2>1, <1>0
    <2>3. BlocksAt(level + 1) <= 2 * BlocksAt((level + 1) - 1)
      BY <2>2, <1>0, BlocksFacts
    <2> QED BY <2>1, <2>2, <2>3, <1>0 DEF Shape
  <1>4. TypeOK'
    BY <1>0, <1>1, <1>2 DEF TypeOK
  <1>5. Shape'
    BY <1>0, <1>1, <1>2, <1>3 DEF Shape, Control
  <1>6. back' = back /\ Path(level)' = Path(level)
    BY <1>1, <1>2, <1>3 DEF back
  <1>7. \A c \in 0 .. nextlevelblocks - 1 : c \div 2 < ii
    BY <1>0, <1>3
  <1>8. \A s \in Side : 2 * Path(level) + s < nextlevelblocks => Path(level) < ii
    BY <1>0, <1>3 DEF Side
  <1>9. RevealInv'
    <2>1. \A c \in 0 .. thislevelblocks - 1 : bits[1][front][c] # bits[2][front][c] <=> c = Path(level)
      BY <1>0 DEF ProcessedInv, BitsDiffer
    <2>2. \A c \in 0 .. nextlevelblocks - 1 : c \div 2 # Path(level) => data[1][back][c] = data[2][back][c]
      BY <1>0, <1>7 DEF ChildrenInv
    <2>3. \A s \in Side : Xor(acc[1][s], acc[2][s]) =
            IF 2 * Path(level) + s < nextlevelblocks
            THEN Xor(data[1][back][2 * Path(level) + s], data[2][back][2 * Path(level) + s]) ELSE Zero
      BY <1>0, <1>8 DEF ChildrenInv, Diff
    <2> QED BY <2>1, <2>2, <2>3, <1>1, <1>6 DEF RevealInv, BitsDiffer, Diff
  <1> QED BY <1>0, <1>1, <1>4, <1>5, <1>9 DEF IndInv, DTypeOK, Control

\* The leaves end up in local_output, whatever the parity of the depth.
LEMMA LeavesGoToOutput ==
  ASSUME TypeOK, Shape
  PROVE  ResultBuffer = "output" /\ (front # "output" <=> back = "output")
  BY DEF Shape, ResultBuffer, back, TypeOK, Buffer

\* A leaf.
LEMMA FinalizeLeafStep == IndInv /\ FinalizeLeaf /\ UNCHANGED <<set_beta, beta, temp_local>> => IndInv'
  <1> SUFFICES ASSUME IndInv, FinalizeLeaf, UNCHANGED <<set_beta, beta, temp_local>> PROVE IndInv'
    OBVIOUS
  <1> DEFINE P == Path(level)
  <1>0. TypeOK /\ Shape /\ DTypeOK /\ PendingInv /\ ProcessedInv /\ LeavesInv
        /\ pc = "node" /\ level = endlevel /\ ii < thislevelblocks
    BY DEF IndInv, DTypeOK, FinalizeLeaf
  <1>1. /\ ii' = ii + 1
        /\ UNCHANGED <<shape, pc, level, thislevelblocks, nextlevelblocks, front, Z, advice>>
        /\ UNCHANGED <<set_beta, beta, temp_local>>
    BY DEF FinalizeLeaf
  <1>2. endlevel' = endlevel /\ size' = size /\ index' = index
        /\ (\A l \in Int : Path(l)' = Path(l)) /\ (\A l \in Int : BlocksAt(l)' = BlocksAt(l))
    BY <1>1, SameTree
  <1>3. /\ level \in 1 .. endlevel /\ level \in Nat /\ endlevel \in Nat
        /\ thislevelblocks \in Nat /\ thislevelblocks <= size /\ size \in Nat /\ size <= MaxSize
        /\ MaxSize \in Nat /\ ii \in Nat /\ P \in Nat
        /\ \A c \in 0 .. size - 1 : c \in Cell /\ c \div 2 \in Cell
    BY <1>0, NodeNumbers
  <1>4. /\ \A p \in Party : corrected(p) \in Block /\ nodebit(p) \in BOOLEAN
        /\ ii # P => corrected(1) = corrected(2)
        /\ nodebit(1) # nodebit(2) <=> ii = P
    BY <1>0, NodeCorrected
  <1>5. ii \in Cell /\ back \in Buffer /\ front \in Buffer /\ back # front /\ back' = back
        /\ "output" \in Buffer
    BY <1>0, <1>1, <1>3, BackType DEF TypeOK, back, Cell, Buffer
  <1>6. \A p \in Party, m \in Buffer, c \in Cell :
          /\ m = "output" /\ c = ii => data'[p][m][c] = corrected(p)
          /\ m # "output" \/ c # ii => data'[p][m][c] = data[p][m][c]
    <2>1. data' = [p \in Party |-> [data[p] EXCEPT !["output"][ii] = corrected(p)]]
      BY <1>0, LeavesGoToOutput DEF FinalizeLeaf
    <2> QED BY <2>1, <1>0, <1>5 DEF TypeOK
  <1>7. \A p \in Party, c \in Cell :
          /\ bits'[p][back][c] = bits[p][back][c]
          /\ c # ii => bits'[p][front][c] = bits[p][front][c]
          /\ c = ii => bits'[p][front][c] = nodebit(p)
    <2>1. bits' = [p \in Party |-> [bits[p] EXCEPT ![front][ii] = nodebit(p)]]
      BY DEF FinalizeLeaf
    <2> QED BY <2>1, <1>0, <1>5 DEF TypeOK
  <1>8. \A p \in Party : acc'[p][0] = Xor(acc[p][0], corrected(p))
    BY <1>0 DEF FinalizeLeaf, TypeOK, Side
  <1>9. acc[1][0] \in Block /\ acc[2][0] \in Block /\ corrected(1) \in Block /\ corrected(2) \in Block
    BY <1>0, <1>4, AccTypes DEF Party, Side
  <1>10. TypeOK'
    <2>1. data' \in [Party -> [Buffer -> [Cell -> Block]]]
      <3>1. ASSUME NEW p \in Party
            PROVE  [data[p] EXCEPT !["output"][ii] = corrected(p)] \in [Buffer -> [Cell -> Block]]
        BY <1>0, <1>4, <1>5 DEF TypeOK
      <3> QED BY <3>1, <1>0, LeavesGoToOutput DEF FinalizeLeaf
    <2>2. bits' \in [Party -> [Buffer -> [Cell -> BOOLEAN]]]
      <3>1. ASSUME NEW p \in Party
            PROVE  [bits[p] EXCEPT ![front][ii] = nodebit(p)] \in [Buffer -> [Cell -> BOOLEAN]]
        BY <1>0, <1>4, <1>5 DEF TypeOK
      <3> QED BY <3>1 DEF FinalizeLeaf
    <2>3. acc' \in [Party -> [Side -> Block]]
      <3>1. ASSUME NEW p \in Party
            PROVE  [acc[p] EXCEPT ![0] = Xor(@, corrected(p))] \in [Side -> Block]
        <4>1. acc[p] \in [Side -> Block] /\ acc[p][0] \in Block
          BY <1>0 DEF TypeOK, Side
        <4>2. Xor(acc[p][0], corrected(p)) \in Block
          BY <4>1, <1>4, XorFacts
        <4> QED BY <4>1, <4>2
      <3> QED BY <3>1 DEF FinalizeLeaf
    <2> QED BY <2>1, <2>2, <2>3, <1>0, <1>1, <1>2, <1>3 DEF TypeOK
  <1>11. Shape'
    BY <1>0, <1>1, <1>2, <1>3 DEF Shape
  <1> HIDE DEF P
  <1>12. Path(level)' = P /\ Path(level - 1)' = Path(level - 1)
    BY <1>1, <1>2, <1>3 DEF P
  <1>13. PendingInv'
    <2>1. \A c \in 0 .. thislevelblocks - 1 : c \in Cell /\ c \div 2 \in Cell
      BY <1>3
    <2>2. \A c \in 0 .. thislevelblocks - 1 :
            bits'[1][back][c \div 2] # bits'[2][back][c \div 2] <=> c \div 2 = Path(level - 1)
      BY <2>1, <1>0, <1>7 DEF PendingInv, BitsDiffer, Party
    <2>3. ASSUME NEW c \in ii + 1 .. thislevelblocks - 1
          PROVE  /\ c \in ii .. thislevelblocks - 1
                 /\ \A p \in Party : data'[p][front][c] = data[p][front][c]
      BY <2>1, <1>3, <1>5, <1>6
    <2> QED BY <2>2, <2>3, <1>0, <1>1, <1>5, <1>12 DEF PendingInv, BitsDiffer, Diff, Party, P
  <1>14. ProcessedInv'
    <2>1. ASSUME NEW c \in 0 .. ii
          PROVE  bits'[1][front][c] # bits'[2][front][c] <=> c = P
      <3>1. c \in Cell
        BY <1>0, <1>3
      <3>2. CASE c = ii
        BY <3>1, <3>2, <1>4, <1>7 DEF Party
      <3>3. CASE c # ii
        <4>1. c \in 0 .. ii - 1
          BY <3>3, <1>3
        <4> QED BY <3>1, <3>3, <4>1, <1>0, <1>7 DEF Party, ProcessedInv, BitsDiffer, P
      <3> QED BY <3>2, <3>3
    <2>2. 0 .. ii' - 1 = 0 .. ii
      BY <1>1, <1>3
    <2> QED BY <2>1, <2>2, <1>1, <1>12 DEF ProcessedInv, BitsDiffer
  <1>15. LeavesInv'
    <2>1. ASSUME NEW c \in 0 .. ii, c # P
          PROVE  data'[1]["output"][c] = data'[2]["output"][c]
      <3>1. c \in Cell
        BY <1>0, <1>3
      <3>2. CASE c = ii
        BY <3>1, <3>2, <2>1, <1>4, <1>5, <1>6 DEF Party
      <3>3. CASE c # ii
        <4>1. c \in 0 .. ii - 1
          BY <3>3, <1>3
        <4> QED BY <3>1, <3>3, <4>1, <2>1, <1>0, <1>5, <1>6 DEF Party, LeavesInv, P
      <3> QED BY <3>2, <3>3
    <2>2. Xor(acc[1][0], acc[2][0]) =
            IF P < ii THEN Xor(data[1]["output"][P], data[2]["output"][P]) ELSE Zero
      BY <1>0 DEF LeavesInv, Diff, P
    <2>3. Xor(acc'[1][0], acc'[2][0]) =
            IF P < ii + 1 THEN Xor(data'[1]["output"][P], data'[2]["output"][P]) ELSE Zero
      <3>1. CASE P = ii
        <4>1. acc[1][0] = acc[2][0]
          BY <2>2, <3>1, <1>3, <1>9, XorFacts
        <4>2. Xor(acc'[1][0], acc'[2][0]) = Xor(corrected(1), corrected(2))
          BY <4>1, <1>8, <1>9, XorFour DEF Party
        <4> QED BY <4>2, <3>1, <1>3, <1>5, <1>6 DEF Party
      <3>2. CASE P # ii
        <4>1. Xor(acc'[1][0], acc'[2][0]) = Xor(acc[1][0], acc[2][0])
          BY <3>2, <1>4, <1>8, <1>9, XorFour DEF Party
        <4>2. P < ii + 1 <=> P < ii
          BY <3>2, <1>3
        <4>3. P < ii => P \in Cell
          BY <1>0, <1>3
        <4>4. P < ii => \A p \in Party : data'[p]["output"][P] = data[p]["output"][P]
          BY <4>3, <3>2, <1>5, <1>6
        <4> QED BY <4>1, <4>2, <4>4, <2>2 DEF Party
      <3> QED BY <3>1, <3>2
    <2>4. 0 .. ii' - 1 = 0 .. ii
      BY <1>1, <1>3
    <2> QED BY <2>1, <2>3, <2>4, <1>1, <1>12 DEF LeavesInv, Diff
  <1> QED BY <1>0, <1>1, <1>2, <1>3, <1>10, <1>11, <1>13, <1>14, <1>15 DEF IndInv, DTypeOK, Control

\* The leaves are done, and their bits are in local_bit_output.
LEMMA FinalizeEndStep == IndInv /\ FinalizeEnd /\ UNCHANGED <<set_beta, beta, temp_local>> => IndInv'
  <1> SUFFICES ASSUME IndInv, FinalizeEnd, UNCHANGED <<set_beta, beta, temp_local>> PROVE IndInv'
    OBVIOUS
  <1>0. TypeOK /\ Shape /\ DTypeOK /\ ProcessedInv /\ LeavesInv
        /\ pc = "node" /\ level = endlevel /\ ii = thislevelblocks
    BY DEF IndInv, DTypeOK, FinalizeEnd
  <1>1. /\ pc' = "delta"
        /\ UNCHANGED <<shape, level, thislevelblocks, nextlevelblocks, ii, front, data, acc, Z, advice>>
        /\ UNCHANGED <<set_beta, beta, temp_local>>
    BY DEF FinalizeEnd
  <1>2. endlevel' = endlevel /\ size' = size /\ index' = index
        /\ (\A l \in Int : Path(l)' = Path(l)) /\ (\A l \in Int : BlocksAt(l)' = BlocksAt(l))
    BY <1>1, SameTree
  <1>3. /\ endlevel \in Int /\ size \in Nat /\ Path(endlevel) \in Nat
        /\ \A c \in 0 .. size - 1 : c \in Cell
    BY <1>0, NodeNumbers
  <1>4. thislevelblocks = size
    BY <1>0, BlocksFacts DEF Shape
  <1>5. "output" \in Buffer /\ front \in Buffer
    BY <1>0 DEF TypeOK, Buffer
  <1>6. bits' = [p \in Party |-> [bits[p] EXCEPT
                !["output"] = [c \in Cell |-> IF c < thislevelblocks THEN bits[p][front][c] ELSE @[c]]]]
    BY <1>0, LeavesGoToOutput DEF FinalizeEnd
  <1>7. TypeOK'
    <2>1. ASSUME NEW p \in Party PROVE bits'[p] \in [Buffer -> [Cell -> BOOLEAN]]
      <3> DEFINE new == [c \in Cell |-> IF c < thislevelblocks THEN bits[p][front][c] ELSE bits[p]["output"][c]]
      <3>1. new \in [Cell -> BOOLEAN]
        <4>1. \A c \in Cell : bits[p][front][c] \in BOOLEAN /\ bits[p]["output"][c] \in BOOLEAN
          BY <1>0, <1>5, CellTypes
        <4> QED BY <4>1, Zenon
      <3>2. bits[p] \in [Buffer -> [Cell -> BOOLEAN]]
        BY <1>0 DEF TypeOK
      <3>3. bits'[p] = [bits[p] EXCEPT !["output"] = new]
        BY <1>6
      <3> HIDE DEF new
      <3> QED BY <3>1, <3>2, <3>3
    <2>2. bits' = [p \in Party |-> bits'[p]]
      BY <1>6
    <2>3. bits' \in [Party -> [Buffer -> [Cell -> BOOLEAN]]]
      BY <2>1, <2>2
    <2> QED BY <2>3, <1>0, <1>1, <1>2 DEF TypeOK
  <1>8. Shape'
    BY <1>0, <1>1, <1>2, <1>3 DEF Shape, Control
  <1>9. ResultInv'
    <2>1. ASSUME NEW c \in 0 .. size - 1, NEW p \in Party PROVE bits'[p]["output"][c] = bits[p][front][c]
      <3>1. c \in Cell /\ c < thislevelblocks
        BY <1>3, <1>4
      <3>2. bits[p] \in [Buffer -> [Cell -> BOOLEAN]]
        BY <1>0 DEF TypeOK
      <3>3. bits'[p]["output"] = [d \in Cell |-> IF d < thislevelblocks THEN bits[p][front][d] ELSE bits[p]["output"][d]]
        BY <3>2, <1>5, <1>6
      <3> QED BY <3>1, <3>3, Zenon
    <2>2. \A c \in 0 .. size - 1 : bits'[1]["output"][c] # bits'[2]["output"][c] <=> c = Path(endlevel)
      <3>1. \A c \in 0 .. size - 1 : bits[1][front][c] # bits[2][front][c] <=> c = Path(endlevel)
        BY <1>0, <1>4 DEF ProcessedInv, BitsDiffer
      <3> QED BY <3>1, <2>1 DEF Party
    <2>3. Path(endlevel)' = Path(endlevel)
      BY <1>2, <1>3
    <2>4. /\ \A c \in 0 .. size - 1 : c # Path(endlevel) => data[1]["output"][c] = data[2]["output"][c]
          /\ Xor(acc[1][0], acc[2][0]) = IF Path(endlevel) < size
               THEN Xor(data[1]["output"][Path(endlevel)], data[2]["output"][Path(endlevel)]) ELSE Zero
      BY <1>0, <1>4 DEF LeavesInv, Diff
    <2> QED BY <2>2, <2>3, <2>4, <1>1, <1>2 DEF ResultInv, BitsDiffer, Diff
  <1> QED BY <1>0, <1>1, <1>7, <1>8, <1>9 DEF IndInv, DTypeOK, Control

-----------------------------------------------------------------------------
\* dpf_with_beta.

\* The tree and the result are as before, whatever is revealed.
LEMMA RevealedStep ==
  ASSUME IndInv, pc = "delta", pc' = "correct", temp_local' \in Block, CorrectionInv',
         UNCHANGED <<shape, level, thislevelblocks, nextlevelblocks, ii, front, data, bits, acc, Z, advice, set_beta, beta>>
  PROVE  IndInv'
  <1>0. TypeOK /\ Shape /\ DTypeOK /\ ResultInv /\ level \in Int
    BY SizeFacts DEF IndInv, DTypeOK, TypeOK
  <1>2. endlevel' = endlevel /\ size' = size /\ index' = index
        /\ (\A l \in Int : Path(l)' = Path(l)) /\ (\A l \in Int : BlocksAt(l)' = BlocksAt(l))
    BY SameTree
  <1>3. endlevel \in Int
    BY <1>0, SizeFacts
  <1>4. TypeOK' /\ Shape'
    BY <1>0, <1>2, <1>3 DEF TypeOK, Shape, Control
  <1>5. DTypeOK'
    BY <1>0, <1>4 DEF DTypeOK
  <1>6. ResultInv'
    <2>1. Path(endlevel)' = Path(endlevel)
      BY <1>2, <1>3
    <2> QED BY <2>1, <1>0, <1>2 DEF ResultInv, BitsDiffer, Diff
  <1> QED BY <1>4, <1>5, <1>6 DEF IndInv

\* Revealing delta (mpfss_naive.oc) preserves the invariant.
LEMMA RevealDeltaStep == IndInv /\ RevealDelta => IndInv'
  <1> SUFFICES ASSUME IndInv, RevealDelta PROVE IndInv'
    OBVIOUS
  <1>1. /\ pc = "delta" /\ pc' = "correct" /\ temp_local' = Xor(Delta, beta) /\ set_beta
        /\ UNCHANGED <<shape, level, thislevelblocks, nextlevelblocks, ii, front, data, bits, acc, Z, advice, set_beta, beta>>
    BY DEF RevealDelta
  <1>2. TypeOK /\ beta \in Block
    BY DEF IndInv, DTypeOK
  <1>3. temp_local' \in Block
    BY <1>1, <1>2, AccTypes, XorFacts DEF Party, Side, Delta
  <1>4. CorrectionInv'
    BY <1>1 DEF CorrectionInv, Delta
  <1> QED BY <1>1, <1>3, <1>4, RevealedStep

\* Multiplying by 1 or 0 instead preserves it too.
LEMMA RevealProductStep == IndInv /\ EntryInv /\ RevealProduct => IndInv'
  <1> SUFFICES ASSUME IndInv, EntryInv, RevealProduct PROVE IndInv'
    OBVIOUS
  <1>1. /\ pc = "delta" /\ pc' = "correct" /\ temp_local' = (IF beta = Zero THEN Zero ELSE Delta) /\ ~ set_beta
        /\ UNCHANGED <<shape, level, thislevelblocks, nextlevelblocks, ii, front, data, bits, acc, Z, advice, set_beta, beta>>
    BY DEF RevealProduct
  <1>2. TypeOK /\ beta \in Block
    BY DEF IndInv, DTypeOK
  <1>3. temp_local' \in Block
    BY <1>1, <1>2, AccTypes, XorFacts DEF Party, Side, Delta, Zero, Block
  <1>4. index' = index
    BY <1>1, SameTree
  <1>5. beta = Zero <=> index = -1
    BY <1>1 DEF EntryInv, BetaOfProper, Zero
  <1>6. CorrectionInv'
    BY <1>1, <1>4, <1>5 DEF CorrectionInv, Delta
  <1> QED BY <1>1, <1>3, <1>6, RevealedStep

\* At the index the difference is corrected; the other values stay equal.
LEMMA CorrectValuesStep == IndInv /\ CorrectValues => IndInv'
  <1> SUFFICES ASSUME IndInv, CorrectValues PROVE IndInv'
    OBVIOUS
  <1> DEFINE P == Path(endlevel)
  <1>0. TypeOK /\ Shape /\ DTypeOK /\ ResultInv /\ pc = "correct" /\ level \in Int
        /\ CorrectionInv
    BY SizeFacts DEF IndInv, DTypeOK, CorrectValues, TypeOK
  <1>1. /\ pc' = "index"
        /\ UNCHANGED <<shape, level, thislevelblocks, nextlevelblocks, ii, front, bits, acc, Z, advice, set_beta, beta, temp_local>>
    BY DEF CorrectValues
  <1>2. endlevel' = endlevel /\ size' = size /\ index' = index
        /\ (\A l \in Int : Path(l)' = Path(l)) /\ (\A l \in Int : BlocksAt(l)' = BlocksAt(l))
    BY <1>1, SameTree
  <1>3. endlevel \in Int /\ size \in Nat /\ (\A c \in 0 .. size - 1 : c \in Cell) /\ "output" \in Buffer
    BY <1>0, SizeFacts, SizeAssumption DEF TypeOK, Cell, Buffer
  <1>4. ASSUME NEW p \in Party, NEW c \in Cell
        PROVE  data'[p]["output"][c] = IF c < size /\ bits[p]["output"][c]
                 THEN Xor(data[p]["output"][c], temp_local) ELSE data[p]["output"][c]
    <2>1. data[p] \in [Buffer -> [Cell -> Block]]
      BY <1>0 DEF TypeOK
    <2>2. data'[p] = [data[p] EXCEPT !["output"] = [d \in Cell |->
                   IF d < size /\ bits[p]["output"][d] THEN Xor(@[d], temp_local) ELSE @[d]]]
      BY DEF CorrectValues
    <2> QED BY <2>1, <2>2, <1>3
  <1>5. TypeOK'
    <2>1. ASSUME NEW p \in Party PROVE data'[p] \in [Buffer -> [Cell -> Block]]
      <3>1. data[p] \in [Buffer -> [Cell -> Block]]
        BY <1>0 DEF TypeOK
      <3>2. data'[p] = [data[p] EXCEPT !["output"] = [d \in Cell |->
                   IF d < size /\ bits[p]["output"][d] THEN Xor(@[d], temp_local) ELSE @[d]]]
        BY DEF CorrectValues
      <3>3. \A d \in Cell : data[p]["output"][d] \in Block /\ Xor(data[p]["output"][d], temp_local) \in Block
        BY <1>0, <1>3, CellTypes, XorFacts DEF DTypeOK
      <3> QED BY <3>1, <3>2, <3>3, <1>3
    <2>2. data' = [p \in Party |-> data'[p]]
      BY DEF CorrectValues
    <2>3. data' \in [Party -> [Buffer -> [Cell -> Block]]]
      BY <2>1, <2>2
    <2> QED BY <2>3, <1>0, <1>1, <1>2 DEF TypeOK
  <1>6. Shape'
    BY <1>0, <1>1, <1>2, <1>3 DEF Shape, Control
  <1>7. CorrectedInv'
    <2>1. Path(endlevel)' = P
      BY <1>2, <1>3
    <2>2. \A c \in 0 .. size - 1 : bits[1]["output"][c] # bits[2]["output"][c] <=> c = P
      BY <1>0 DEF ResultInv, BitsDiffer
    <2>3. ASSUME NEW c \in 0 .. size - 1
          PROVE  Xor(data'[1]["output"][c], data'[2]["output"][c]) = IF c = P THEN Xor(Delta, temp_local) ELSE Zero
      <3> DEFINE d1 == data[1]["output"][c]
                 d2 == data[2]["output"][c]
      <3>1. c \in Cell /\ c < size
        BY <1>3
      <3>2. d1 \in Block /\ d2 \in Block /\ temp_local \in Block
            /\ bits[1]["output"][c] \in BOOLEAN /\ bits[2]["output"][c] \in BOOLEAN
        BY <1>0, <1>3, <3>1, CellTypes DEF DTypeOK, Party
      <3>3. /\ data'[1]["output"][c] = IF bits[1]["output"][c] THEN Xor(d1, temp_local) ELSE d1
            /\ data'[2]["output"][c] = IF bits[2]["output"][c] THEN Xor(d2, temp_local) ELSE d2
        BY <1>4, <3>1 DEF Party
      <3>4. CASE c = P
        <4>1. Delta = Xor(d1, d2)
          BY <3>1, <3>4, <1>0 DEF ResultInv, Diff, Delta
        <4>3. bits[1]["output"][c] # bits[2]["output"][c]
          BY <2>2, <3>4
        <4> HIDE DEF d1, d2
        <4>4. /\ Xor(Xor(d1, temp_local), d2) = Xor(Xor(d1, d2), temp_local)
              /\ Xor(d1, Xor(d2, temp_local)) = Xor(Xor(d1, d2), temp_local)
          BY <3>2 DEF Xor, Block
        <4> QED BY <3>2, <3>3, <3>4, <4>1, <4>3, <4>4
      <3>5. CASE c # P
        <4>1. d1 = d2
          BY <3>5, <1>0 DEF ResultInv
        <4>2. bits[1]["output"][c] = bits[2]["output"][c]
          BY <2>2, <3>5
        <4> HIDE DEF d1, d2
        <4>3. data'[1]["output"][c] = data'[2]["output"][c]
          BY <4>1, <4>2, <3>3
        <4>4. Xor(data'[2]["output"][c], data'[2]["output"][c]) = Zero
          BY DEF Xor, Zero
        <4> QED BY <4>3, <4>4, <3>5
      <3> QED BY <3>4, <3>5
    <2> QED BY <2>1, <2>2, <2>3, <1>1, <1>2 DEF CorrectedInv, BitsDiffer, Diff, Delta
  <1>8. CorrectionInv'
    BY <1>0, <1>1, <1>2 DEF CorrectionInv, Delta
  <1>9. DTypeOK'
    BY <1>0, <1>1, <1>5 DEF DTypeOK
  <1> QED BY <1>1, <1>6, <1>7, <1>8, <1>9 DEF IndInv

\* At most one element differs, the one that the path leads to.
LEMMA DifferingIsPath ==
  ASSUME IndInv, pc = "index"
  PROVE  \A c \in 0 .. size - 1 : c \in Differing <=> c = Path(endlevel)
  BY DEF IndInv, CorrectedInv, BitsDiffer, Differing

\* Without an index the bit of party 1 is flipped where the bits differ.
LEMMA CorrectIndexStep == IndInv /\ CorrectIndex => IndInv'
  <1> SUFFICES ASSUME IndInv, CorrectIndex PROVE IndInv'
    OBVIOUS
  <1> DEFINE P == Path(endlevel)
  <1>0. TypeOK /\ Shape /\ DTypeOK /\ CorrectedInv /\ CorrectionInv /\ pc = "index" /\ level \in Int
    BY SizeFacts DEF IndInv, DTypeOK, CorrectIndex, TypeOK
  <1>1. /\ pc' = "done"
        /\ UNCHANGED <<shape, level, thislevelblocks, nextlevelblocks, ii, front, data, acc, Z, advice, set_beta, beta, temp_local>>
    BY DEF CorrectIndex
  <1>2. endlevel' = endlevel /\ size' = size /\ index' = index
        /\ (\A l \in Int : Path(l)' = Path(l)) /\ (\A l \in Int : BlocksAt(l)' = BlocksAt(l))
    BY <1>1, SameTree
  <1>3. endlevel \in Int /\ size \in Nat /\ (\A c \in 0 .. size - 1 : c \in Cell) /\ "output" \in Buffer
        /\ index \in Int /\ (index # -1 => P = index) /\ (index = -1 => P = Pow2[endlevel] - 1)
    BY <1>0, SizeFacts, PathEnds, SizeAssumption DEF TypeOK, Cell, Buffer
  <1>4. \A c \in 0 .. size - 1 : c \in Differing <=> c = P
    BY <1>0, DifferingIsPath
  <1>5. Shape'
    BY <1>0, <1>1, <1>2, <1>3 DEF Shape, Control
  <1>6. \A c \in 0 .. size - 1 : Value(c)' = IF c = P THEN Xor(Delta, temp_local) ELSE Zero
    BY <1>0, <1>1 DEF CorrectedInv, Diff, Value
  <1>7. set_beta /\ (index # -1 \/ beta = Zero) =>
          \A c \in 0 .. size - 1 : Value(c)' = IF c = index THEN beta ELSE Zero
    <2>1. set_beta => Xor(Delta, temp_local) = beta
      <3>1. Delta \in Block /\ beta \in Block
        BY <1>0, AccTypes, XorFacts DEF DTypeOK, Delta, Party, Side
      <3> QED BY <3>1, <1>0, XorFacts DEF CorrectionInv
    <2> QED BY <2>1, <1>3, <1>6
  <1>10. ProperCancels'
    <2>1. Delta \in Block /\ Zero \in Block
      BY <1>0, AccTypes, XorFacts DEF Delta, Party, Side, Zero, Block
    <2>2. ~ set_beta /\ index # -1 => Xor(Delta, temp_local) = Zero
      BY <2>1, <1>0, XorFacts DEF CorrectionInv
    <2> HIDE DEF P
    <2>3. ~ set_beta /\ index # -1 => \A c \in 0 .. size - 1 : Value(c)' = Zero
      BY <2>2, <1>6
    <2> QED BY <2>3, <1>1, <1>2 DEF ProperCancels
  <1> HIDE DEF P
  <1>8. CASE index = -1 /\ \E ic_no \in Differing : (\A c \in Differing : c <= ic_no) /\ CorrectBit(ic_no)
    <2>1. PICK ic_no \in Differing : CorrectBit(ic_no)
      BY <1>8
    <2>2. ic_no \in 0 .. size - 1 /\ ic_no \in Cell /\ ic_no = P
      BY <2>1, <1>3, <1>4 DEF Differing
    <2>3. bits' = [bits EXCEPT ![1]["output"][ic_no] = ~ @]
      BY <2>1 DEF CorrectBit
    <2>4. bits[1] \in [Buffer -> [Cell -> BOOLEAN]] /\ bits \in [Party -> [Buffer -> [Cell -> BOOLEAN]]]
      BY <1>0 DEF TypeOK, Party
    <2>5. TypeOK'
      <3>1. bits' \in [Party -> [Buffer -> [Cell -> BOOLEAN]]]
        <4>1. (~ bits[1]["output"][ic_no]) \in BOOLEAN
          OBVIOUS
        <4> QED BY <4>1, <2>2, <2>3, <2>4, <1>3 DEF Party
      <3> QED BY <3>1, <1>0, <1>1, <1>2 DEF TypeOK
    <2>6. \A c \in 0 .. size - 1 : ~ (bits'[1]["output"][c] # bits'[2]["output"][c])
      <3>1. ASSUME NEW c \in 0 .. size - 1 PROVE bits'[1]["output"][c] = bits'[2]["output"][c]
        <4>1. c \in Cell /\ bits[1]["output"][c] \in BOOLEAN /\ bits[2]["output"][c] \in BOOLEAN
          BY <1>0, <1>3, CellTypes DEF Party
        <4>2. bits[1]["output"][c] # bits[2]["output"][c] <=> c = P
          BY <1>4 DEF Differing
        <4>3. bits'[2] = bits[2] /\ bits'[1] = [bits[1] EXCEPT !["output"][ic_no] = ~ @]
          BY <2>3, <2>4 DEF Party
        <4>4. bits'[2]["output"][c] = bits[2]["output"][c]
          BY <4>3
        <4>5. CASE c = ic_no
          <5>1. bits'[1]["output"][c] = ~ bits[1]["output"][c]
            BY <4>1, <4>3, <4>5, <2>4, <1>3
          <5> QED BY <5>1, <4>1, <4>2, <4>4, <4>5, <2>2
        <4>6. CASE c # ic_no
          <5>1. bits'[1]["output"][c] = bits[1]["output"][c]
            BY <4>1, <4>3, <4>6, <2>4, <1>3
          <5> QED BY <5>1, <4>1, <4>2, <4>4, <4>6, <2>2
        <4> QED BY <4>5, <4>6
      <3> QED BY <3>1
    <2>7. \A c \in 0 .. size - 1 : c # index
      BY <1>3, <1>8
    <2>8. PointFunction'
      BY <2>6, <2>7, <1>1, <1>2, <1>7 DEF PointFunction
    <2> QED BY <2>5, <2>8, <1>0, <1>1, <1>5, <1>10 DEF IndInv, DTypeOK, Control
  <1>9. CASE (index # -1 \/ Differing = {}) /\ UNCHANGED bits
    <2>1. TypeOK'
      BY <1>0, <1>1, <1>2, <1>9 DEF TypeOK
    <2>2. \A c \in 0 .. size - 1 : bits[1]["output"][c] # bits[2]["output"][c] <=> c = index
      <3>1. \A c \in 0 .. size - 1 : c \in Differing <=> c = index
        BY <1>3, <1>4, <1>9
      <3> QED BY <3>1 DEF Differing
    <2>3. PointFunction'
      BY <2>2, <1>1, <1>2, <1>7, <1>9 DEF PointFunction
    <2> QED BY <2>1, <2>3, <1>0, <1>1, <1>5, <1>10 DEF IndInv, DTypeOK, Control
  <1> QED BY <1>8, <1>9 DEF CorrectIndex

\* Every step preserves the invariant.
LEMMA NextInv == IndInv /\ EntryInv /\ [DNext]_dvars => IndInv'
  <1> SUFFICES ASSUME IndInv, EntryInv, [DNext]_dvars PROVE IndInv'
    OBVIOUS
  <1>1. CASE FssStep
    BY <1>1, StartInv, RevealStep, ProcessNodeStep, RoundEndStep, FinalizeLeafStep, FinalizeEndStep
       DEF FssStep, Next
  <1>2. CASE RevealDelta
    BY <1>2, RevealDeltaStep
  <1>6. CASE RevealProduct
    BY <1>6, RevealProductStep
  <1>3. CASE CorrectValues
    BY <1>3, CorrectValuesStep
  <1>4. CASE CorrectIndex
    BY <1>4, CorrectIndexStep
  <1>5. CASE UNCHANGED dvars
    <2> USE <1>5 DEF dvars, vars, shape
    <2>1. endlevel' = endlevel
      BY DEF endlevel, LOG2LL
    <2>2. DTypeOK' /\ Shape'
      BY <2>1 DEF IndInv, DTypeOK, TypeOK, Shape, BlocksAt
    <2>3. (RevealInv => RevealInv') /\ (PendingInv => PendingInv') /\ (ProcessedInv => ProcessedInv')
          /\ (ChildrenInv => ChildrenInv') /\ (LeavesInv => LeavesInv')
      BY <2>1 DEF RevealInv, PendingInv, ProcessedInv, ChildrenInv, LeavesInv, BitsDiffer, Diff, Path, back
    <2>4. (ResultInv => ResultInv') /\ (CorrectedInv => CorrectedInv') /\ (PointFunction => PointFunction')
      BY <2>1 DEF ResultInv, CorrectedInv, PointFunction, BitsDiffer, Diff, Path, Delta, Value
    <2>5. (CorrectionInv => CorrectionInv') /\ (ProperCancels => ProperCancels')
      BY <2>1 DEF CorrectionInv, ProperCancels, Delta, Value
    <2> QED BY <2>1, <2>2, <2>3, <2>4, <2>5 DEF IndInv
  <1> QED BY <1>1, <1>2, <1>3, <1>4, <1>5, <1>6 DEF DNext, DDone

\* The entry point and its beta stay what they are.
LEMMA EntryInvariant == DSpec => []EntryInv
  <1>1. DInit => EntryInv
    BY DEF DInit, EntryInv
  <1>2. EntryInv /\ [DNext]_dvars => EntryInv'
    <2>1. ASSUME UNCHANGED <<index, set_beta, beta>>, EntryInv PROVE EntryInv'
      BY <2>1 DEF EntryInv, BetaOfProper
    <2>2. [DNext]_dvars => UNCHANGED <<index, set_beta, beta>>
      BY DEF DNext, DDone, dvars, vars, shape, FssStep, Next, Start, Reveal, ProcessNode, RoundEnd,
             FinalizeLeaf, FinalizeEnd, RevealDelta, RevealProduct, CorrectValues, CorrectIndex
    <2> QED BY <2>1, <2>2
  <1> QED BY <1>1, <1>2, PTL DEF DSpec

\* The inductive invariant holds.
THEOREM DpfInvariant == DSpec => []IndInv
  BY InitInv, NextInv, EntryInvariant, PTL DEF DSpec

-----------------------------------------------------------------------------
\* The variables keep their types (fss_cprg_altered.c, mpfss_naive.oc).
THEOREM DpfTypeCorrect == DSpec => []DTypeOK
  <1>1. IndInv => DTypeOK
    BY DEF IndInv
  <1> QED BY <1>1, DpfInvariant, PTL

\* No level of the tree outgrows the buffers that mpfss_naive.oc:99-100 and
\* fss_cprg_altered.c:383 allocate, for any size of the vector.
THEOREM LevelsAlwaysFit == DSpec => []LevelsFit
  <1>1. IndInv => LevelsFit
    <2> SUFFICES ASSUME IndInv, endlevel > 0 PROVE thislevelblocks <= size /\ nextlevelblocks <= size
      BY DEF LevelsFit
    <2>1. TypeOK /\ Shape
      BY DEF IndInv, DTypeOK
    <2>2. level \in 0 .. endlevel /\ endlevel \in Nat
      BY <2>1, SizeFacts DEF TypeOK
    <2> QED BY <2>1, <2>2, BlocksFacts DEF Shape
  <1> QED BY <1>1, DpfInvariant, PTL

\* Between two levels the parties agree off the path, for every generator
\* (fss_cprg_altered.oc:35-68).
THEOREM SharesAlwaysMeet == DSpec => []SharesMeet
  <1>1. IndInv => SharesMeet
    BY DEF IndInv, RevealInv, SharesMeet, BitsDiffer
  <1> QED BY <1>1, DpfInvariant, PTL

\* The outputs of the traversal differ at the index only (fss_cprg_altered.oc:70).
THEOREM AlwaysDifferOnlyAtIndex == DSpec => []DifferOnlyAtIndex
  <1>1. IndInv => DifferOnlyAtIndex
    BY DEF IndInv, ResultInv, DifferOnlyAtIndex, BitsDiffer, Diff
  <1> QED BY <1>1, DpfInvariant, PTL

\* dpf_with_beta returns shares of the point function (mpfss_naive.oc:56-268).
THEOREM SharesOfPointFunction == DSpec => []PointFunction
  <1>1. IndInv => PointFunction
    BY DEF IndInv, PointFunction
  <1> QED BY <1>1, DpfInvariant, PTL

\* Why ProperPointFunction fails, and fails for every size, index, generator and block
\* length unless the active blocks of the parties are equal: the correction of dpf_proper
\* cancels the value that its test expects at the index (mpfss_naive.oc:330-345).
THEOREM ProperAlwaysCancels == DSpec => []ProperCancels
  <1>1. IndInv => ProperCancels
    BY DEF IndInv, ProperCancels
  <1> QED BY <1>1, DpfInvariant, PTL

\* The repair of the bits for an unused bucket needs to look at one bit only
\* (mpfss_naive.oc:145-169).
THEOREM OneBitSuffices == DSpec => []OneBitToRepair
  <1>1. ASSUME IndInv, pc = "index" PROVE OneBitToRepair
    <2>1. TypeOK
      BY <1>1 DEF IndInv, DTypeOK
    <2>2. \A c \in Differing : c \in 0 .. size - 1 /\ c = Path(endlevel)
      BY <1>1, DifferingIsPath DEF Differing
    <2>3. ASSUME index = -1, Differing # {} PROVE size = Pow2[endlevel] /\ Differing = {size - 1}
      <3>1. Path(endlevel) = Pow2[endlevel] - 1 /\ size <= Pow2[endlevel] /\ Pow2[endlevel] \in Nat /\ size \in Nat
        BY <2>1, <2>3, PathEnds, SizeFacts
      <3>2. Path(endlevel) \in 0 .. size - 1
        BY <2>2, <2>3
      <3> QED BY <3>1, <3>2, <2>2, <2>3
    <2> QED BY <2>2, <2>3 DEF OneBitToRepair
  <1>2. IndInv => OneBitToRepair
    BY <1>1 DEF OneBitToRepair
  <1> QED BY <1>2, DpfInvariant, PTL

=============================================================================
