-------------------------- MODULE FssAlteredProofs --------------------------
(***************************************************************************)
(* Proofs about FssAltered: for every size, generator and block length, all*)
(* teams and all interleavings of the three activities of both parties, no *)
(* level is expanded without its correction, and the vectors of the parties*)
(* differ at the index only, by the difference of the active blocks.  The  *)
(* activities do not deadlock, and every step leaves less to do.           *)
(***************************************************************************)
EXTENDS FssAltered, ShareFacts

-----------------------------------------------------------------------------
\* Arithmetic of the tree.

\* The fields of fss that fss_new sets.
ShapeInv ==
  /\ size \in Sizes /\ index \in -1 .. size - 1 /\ team \in [Party -> Teams]
  /\ endlevel = Depth(size) /\ startlevel = IF endlevel > 1 THEN 1 ELSE 0

\* The facts about the size and the depth that the following proofs use.
LEMMA SizeFacts ==
  ASSUME ShapeInv
  PROVE  /\ size \in Nat /\ size >= 2 /\ size <= MaxSize /\ MaxSize \in Nat
         /\ index \in Int /\ index >= -1 /\ index < size
         /\ endlevel \in Nat /\ endlevel \in 1 .. MaxSize /\ startlevel \in {0, 1}
         /\ startlevel < endlevel /\ Levels \in Nat \ {0} /\ Levels = endlevel - startlevel
         /\ size <= Pow2[endlevel]
         /\ \A k \in 0 .. endlevel : Pow2[k] \in Nat \ {0}
         /\ \A k \in 1 .. endlevel : Pow2[k] = 2 * Pow2[k - 1]
  <1>1. PowersOfTwo(Pow2, MaxSize) /\ MaxSize \in Nat \ {0}
    BY Pow2Assumption, SizeAssumption DEF PowersOfTwo
  <1>2. size \in 2 .. MaxSize /\ size \in 1 .. MaxSize /\ index \in -1 .. size - 1
    BY <1>1, AlteredAssumption DEF ShapeInv
  <1>3. endlevel = DepthOf(Pow2, MaxSize, size)
    BY DEF ShapeInv, Depth, LOG2LL, DepthOf
  <1>4. endlevel \in 0 .. MaxSize /\ size <= Pow2[endlevel]
    BY <1>1, <1>2, <1>3, DepthFacts
  <1>5. Pow2[0] = 1 /\ \A k \in 0 .. MaxSize : Pow2[k + 1] = 2 * Pow2[k]
    BY <1>1 DEF PowersOfTwo
  <1>6. endlevel # 0
    BY <1>2, <1>4, <1>5
  <1>7. startlevel = IF endlevel > 1 THEN 1 ELSE 0
    BY DEF ShapeInv
  <1>8. startlevel \in {0, 1} /\ startlevel < endlevel /\ Levels \in Nat \ {0}
    BY <1>1, <1>4, <1>6, <1>7 DEF Levels
  <1>9. \A k \in 0 .. endlevel : Pow2[k] \in Nat \ {0}
    BY <1>1, <1>4, PowersGrow
  <1>10. ASSUME NEW k \in 1 .. endlevel PROVE Pow2[k] = 2 * Pow2[k - 1]
    <2>1. k - 1 \in 0 .. MaxSize /\ (k - 1) + 1 = k
      BY <1>1, <1>4
    <2> QED BY <2>1, <1>5
  <1> QED BY <1>1, <1>2, <1>4, <1>6, <1>8, <1>9, <1>10 DEF Levels

\* The node of level k of the path, counted from startlevel; none without an index.
Path(k) == index \div Pow2[Levels - k]

\* The next node of the path is a child of the last one, by the level's index bit.
LEMMA PathStep ==
  ASSUME ShapeInv, NEW k \in 1 .. Levels
  PROVE  /\ levelindex(k) \in Side
         /\ Path(k - 1) \in Int
         /\ Path(k) = 2 * Path(k - 1) + levelindex(k)
  <1> DEFINE P == Pow2[Levels - k]
  <1>1. /\ Levels - k \in 0 .. endlevel /\ Levels - (k - 1) \in 1 .. endlevel
        /\ (Levels - (k - 1)) - 1 = Levels - k
    BY SizeFacts
  <1>2. P \in Nat \ {0} /\ Pow2[Levels - (k - 1)] = 2 * P
    BY <1>1, SizeFacts
  <1>3. index \in Int
    BY SizeFacts
  <1>4. levelindex(k) = (index \div P) % 2 /\ Path(k) = index \div P
        /\ Path(k - 1) = index \div (2 * P)
    BY <1>2 DEF levelindex, Path
  <1> HIDE DEF P
  <1>5. (index \div P) % 2 \in Side /\ index \div (2 * P) \in Int
    BY <1>2, <1>3 DEF Side
  <1>6. index \div P = 2 * (index \div (2 * P)) + ((index \div P) % 2)
    BY <1>2, <1>3, Halves
  <1> QED BY <1>4, <1>5, <1>6

\* The path begins in startlevel and ends at the index; without one it has no node.
LEMMA PathFacts ==
  ASSUME ShapeInv
  PROVE  /\ \A k \in 0 .. Levels : Path(k) \in Int
         /\ Path(Levels) = index
         /\ index = -1 => \A k \in 0 .. Levels : Path(k) = -1
         /\ index # -1 => \A k \in 0 .. Levels : Path(k) \in 0 .. size - 1
         /\ index # -1 => Path(0) \in 0 .. Pow2[startlevel] - 1
  <1>1. /\ index \in Int /\ index >= -1 /\ index < size /\ size \in Nat /\ Levels \in Nat
        /\ \A k \in 0 .. Levels : Levels - k \in 0 .. endlevel
    BY SizeFacts
  <1>2. \A k \in 0 .. Levels : Pow2[Levels - k] \in Nat \ {0}
    BY <1>1, SizeFacts
  <1>3. ASSUME NEW k \in 0 .. Levels
        PROVE  /\ Path(k) \in Int
               /\ index = -1 => Path(k) = -1
               /\ index # -1 => Path(k) \in 0 .. size - 1
    <2> DEFINE P == Pow2[Levels - k]
    <2>1. P \in Nat \ {0} /\ Path(k) = index \div P
      BY <1>2 DEF Path
    <2> HIDE DEF P
    <2>2. index \div P \in Int
      BY <2>1, <1>1
    <2>3. index = -1 => index \div P = -1
      BY <2>1, <1>1
    <2>4. index # -1 => index \div P >= 0 /\ index \div P <= index
      BY <2>1, <1>1
    <2> QED BY <2>1, <2>2, <2>3, <2>4, <1>1
  <1>4. Path(Levels) = index
    <2>1. Levels - Levels = 0 /\ index \div 1 = index
      BY <1>1
    <2> QED BY <2>1, Pow2Assumption DEF Path
  <1>5. ASSUME index # -1 PROVE Path(0) \in 0 .. Pow2[startlevel] - 1
    <2> DEFINE P == Pow2[Levels]
    <2>1. Levels \in 0 .. endlevel /\ endlevel \in 1 .. endlevel /\ Levels - 0 = Levels
      BY SizeFacts
    <2>2. P \in Nat \ {0} /\ Path(0) = index \div P
      BY <2>1, SizeFacts DEF Path
    <2>3. Pow2[startlevel] \in Nat /\ size <= P * Pow2[startlevel]
      <3>1. CASE startlevel = 0
        BY <3>1, <2>1, <2>2, SizeFacts, Pow2Assumption
      <3>2. CASE startlevel = 1
        <4>1. Levels = endlevel - 1 /\ Pow2[endlevel] = 2 * Pow2[endlevel - 1]
          BY <3>2, <2>1, SizeFacts
        <4>2. Pow2[1] = 2
          BY <2>1, SizeFacts, Pow2Assumption
        <4> QED BY <4>1, <4>2, <3>2, <2>2, SizeFacts
      <3> QED BY <3>1, <3>2, SizeFacts
    <2>4. index \in Nat /\ index < P * Pow2[startlevel]
      BY <1>1, <1>5, <2>2, <2>3
    <2> HIDE DEF P
    <2> DEFINE S == Pow2[startlevel]
    <2>5. index \div P >= 0 /\ index \div P < S /\ index \div P \in Int
      <3>1. S \in Nat /\ index < P * S
        BY <2>3, <2>4
      <3> HIDE DEF S
      <3>2. S = S
        OBVIOUS
      <3> QED BY <2>2, <2>4, <3>1
    <2> QED BY <2>2, <2>3, <2>5
  <1> QED BY <1>3, <1>4, <1>5

\* The numbers of blocks: size leaves, at most two children each.
LEMMA BlocksFacts ==
  ASSUME ShapeInv
  PROVE  /\ BlocksAt(endlevel) = size
         /\ \A lv \in 0 .. endlevel : BlocksAt(lv) \in 1 .. size
         /\ \A lv \in 1 .. endlevel : BlocksAt(lv) <= 2 * BlocksAt(lv - 1)
  <1>1. endlevel \in Nat /\ size \in Nat \ {0} /\ endlevel - endlevel = 0
    BY SizeFacts
  <1>2. ASSUME NEW lv \in 0 .. endlevel PROVE BlocksAt(lv) \in 1 .. size
    <2>1. endlevel - lv \in 0 .. endlevel
      BY <1>1
    <2>2. Pow2[endlevel - lv] \in Nat \ {0}
      BY <2>1, SizeFacts
    <2> QED BY <2>2, <1>1, CeilHalves DEF BlocksAt
  <1>3. ASSUME NEW lv \in 1 .. endlevel PROVE BlocksAt(lv) <= 2 * BlocksAt(lv - 1)
    <2>1. endlevel - lv \in 0 .. endlevel /\ endlevel - (lv - 1) \in 1 .. endlevel
          /\ (endlevel - (lv - 1)) - 1 = endlevel - lv
      BY <1>1
    <2>2. Pow2[endlevel - lv] \in Nat \ {0}
          /\ Pow2[endlevel - (lv - 1)] = 2 * Pow2[endlevel - lv]
      BY <2>1, SizeFacts
    <2> QED BY <2>2, <1>1, CeilHalves DEF BlocksAt
  <1>4. BlocksAt(endlevel) = size
    BY <1>1, Pow2Assumption DEF BlocksAt
  <1> QED BY <1>2, <1>3, <1>4

\* The nodes of a level that has fewer than twice as many as the one above.
LEMMA ParentOf ==
  ASSUME NEW c \in Cell
  PROVE  /\ c \div 2 \in Cell /\ c % 2 \in Side
         /\ \A m, n \in Nat : c < m /\ m <= 2 * n => c \div 2 < n
  <1>1. c \in Nat /\ c <= MaxSize /\ MaxSize \in Nat
    BY SizeAssumption DEF Cell
  <1>2. c \div 2 \in Nat /\ c \div 2 <= c /\ c % 2 \in {0, 1} /\ c = 2 * (c \div 2) + (c % 2)
    BY <1>1
  <1>3. c \div 2 \in Cell /\ c % 2 \in Side
    BY <1>1, <1>2 DEF Cell, Side
  <1>4. \A m, n \in Nat : c < m /\ m <= 2 * n => c \div 2 < n
    BY <1>1, <1>2
  <1> QED BY <1>3, <1>4

\* The child of q on the side r, and the other nodes.
LEMMA OnSide ==
  ASSUME NEW c \in Cell, NEW q \in Int, NEW r \in Side
  PROVE  /\ c = 2 * q + r <=> c \div 2 = q /\ c % 2 = r
         /\ c % 2 # r => c % 2 = 1 - r
  <1>1. c \in Nat
    BY DEF Cell
  <1>2. c \div 2 \in Int /\ c % 2 \in {0, 1} /\ c = 2 * (c \div 2) + (c % 2)
    BY <1>1
  <1>3. r \in {0, 1}
    BY DEF Side
  <1>4. ASSUME NEW a \in Int, NEW s \in {0, 1}
        PROVE  2 * a + s = 2 * q + r <=> a = q /\ s = r
    BY <1>3
  <1>5. c = 2 * q + r <=> c \div 2 = q /\ c % 2 = r
    BY <1>2, <1>4
  <1> QED BY <1>2, <1>3, <1>5

-----------------------------------------------------------------------------
(***************************************************************************)
(* The counters, and what has been pushed.  A reveal is under way in party *)
(* p while at[p] is not "wait": the level it is about is counted in sent   *)
(* and answered, but not yet in pushed.                                    *)
(***************************************************************************)
OnlineInv ==
  /\ active \in [Party -> Block] /\ control \in [Party -> BOOLEAN]
  /\ Z \in Seq(Block) /\ advice \in Seq([Side -> BOOLEAN]) /\ Len(Z) = Len(advice)
  /\ readycount \in [Party -> 0 .. Levels] /\ flushed \in Nat
  /\ readycount[2] <= flushed /\ flushed <= Len(Z) /\ Len(Z) = readycount[1]

PusherInv ==
  /\ at \in [Party -> {"wait", "answer", "write", "count"}] /\ at[2] # "answer"
  /\ sent \in Nat /\ answered \in Nat /\ pushed \in [Party -> 0 .. Levels]
  /\ sent = pushed[1] + IF at[1] = "wait" THEN 0 ELSE 1
  /\ answered = pushed[2] + IF at[2] = "wait" THEN 0 ELSE 1
  /\ at[1] \in {"write", "count"} => pushed[1] < answered
  /\ sent <= readycount[1] /\ answered <= sent /\ answered <= readycount[2]
  /\ pushed[1] <= answered /\ pushed[2] <= answered

\* Level k of party p has been written.
Written(p, k) == k <= pushed[p] \/ (k = pushed[p] + 1 /\ at[p] = "count")

PushedInv ==
  /\ Zpushed \in [Party -> [1 .. Levels -> [Z : Block, advice : [Side -> BOOLEAN]]]]
  /\ \A p \in Party : \A k \in 1 .. Levels :
       Written(p, k) => Zpushed[p][k] = [Z |-> Z[k], advice |-> advice[k]]

\* The levels that have been expanded have been pushed.
LevelOf(p) == level[p] - startlevel

TaskInv ==
  /\ task \in [Party -> [Task -> {"created", "master", "other", "done"}]]
  /\ proto \in [Party -> {"main", "second"}] /\ revealed \in BOOLEAN
  /\ level \in [Party -> startlevel .. endlevel]
  /\ \A p \in Party :
       /\ LevelOf(p) <= pushed[p] + 1
       /\ task[p]["expand"] = "done" => level[p] = endlevel /\ pushed[p] = Levels

TreeType ==
  /\ front \in [Party -> Buffer]
  /\ data \in [Party -> [Buffer -> [Cell -> Block]]]
  /\ bits \in [Party -> [Buffer -> [Cell -> BOOLEAN]]]

CountInv == ShapeInv /\ OnlineInv /\ PusherInv /\ PushedInv /\ TaskInv /\ TreeType

\* The size does not change.
LEMMA SameShape ==
  ASSUME UNCHANGED shape
  PROVE  /\ ShapeInv => ShapeInv'
         /\ size' = size /\ index' = index /\ endlevel' = endlevel /\ startlevel' = startlevel
         /\ Levels' = Levels
         /\ \A k \in Int : Path(k)' = Path(k)
         /\ \A k \in Int : BlocksAt(k)' = BlocksAt(k)
  <1>1. /\ size' = size /\ index' = index /\ endlevel' = endlevel /\ startlevel' = startlevel
        /\ team' = team
    BY DEF shape
  <1> QED BY <1>1 DEF ShapeInv, Levels, Path, BlocksAt, Depth, LOG2LL

\* The parts of the invariant that an action does not touch.
LEMMA Untouched ==
  ASSUME CountInv, UNCHANGED shape
  PROVE  /\ ShapeInv'
         /\ UNCHANGED online => OnlineInv'
         /\ UNCHANGED <<readycount, pusher>> => PusherInv'
         /\ UNCHANGED <<Z, advice, pusher>> => PushedInv'
         /\ UNCHANGED <<task, proto, revealed, level, pushed>> => TaskInv'
         /\ UNCHANGED tree => TreeType'
  <1>1. Levels' = Levels /\ endlevel' = endlevel /\ startlevel' = startlevel /\ ShapeInv'
    BY SameShape DEF CountInv
  <1>2. UNCHANGED online => OnlineInv'
    BY <1>1 DEF CountInv, OnlineInv, online
  <1>3. UNCHANGED <<readycount, pusher>> => PusherInv'
    BY <1>1 DEF CountInv, PusherInv, pusher
  <1>4. UNCHANGED <<Z, advice, pusher>> => PushedInv'
    BY <1>1 DEF CountInv, PushedInv, Written, pusher
  <1>5. UNCHANGED <<task, proto, revealed, level, pushed>> => TaskInv'
    BY <1>1 DEF CountInv, TaskInv, LevelOf
  <1>6. UNCHANGED tree => TreeType'
    BY DEF CountInv, TreeType, tree
  <1> QED BY <1>1, <1>2, <1>3, <1>4, <1>5, <1>6

\* The invariant contains the type invariant.
LEMMA CountType == CountInv => FTypeOK
  <1> SUFFICES ASSUME CountInv PROVE FTypeOK
    OBVIOUS
  <1>1. endlevel \in 1 .. MaxSize /\ startlevel \in 0 .. endlevel - 1
    BY SizeFacts DEF CountInv
  <1>2. \A p \in Party : pushed[p] <= answered
    BY DEF CountInv, PusherInv, Party
  <1> QED
    BY <1>1, <1>2
    DEF CountInv, ShapeInv, OnlineInv, PusherInv, PushedInv, TaskInv, TreeType, FTypeOK

-----------------------------------------------------------------------------
\* The first states.
LEMMA CountInit == Init => CountInv
  <1> SUFFICES ASSUME Init PROVE CountInv
    OBVIOUS
  <1>1. ShapeInv
    BY DEF Init, ShapeInv
  <1>2. Levels \in Nat \ {0} /\ startlevel \in 0 .. endlevel /\ endlevel \in Nat
        /\ startlevel \in Nat
    BY <1>1, SizeFacts
  <1>3. Zero \in Block /\ Roots \subseteq Block
    BY AlteredAssumption DEF Zero, Block
  <1>4. active \in [Party -> Block] /\ control \in [Party -> BOOLEAN]
        /\ data \in [Party -> [Buffer -> [Cell -> Block]]]
    <2>1. PICK top \in [0 .. Pow2[startlevel] - 1 -> Roots], other \in Roots :
            LET onpath == index \div Pow2[Levels] IN
            /\ active = <<IF index = -1 THEN Zero ELSE top[onpath], other>>
            /\ control = [p \in Party |-> Bit(active[p])]
            /\ data = [p \in Party |-> [m \in Buffer |-> [c \in Cell |->
                         IF m = "output" \/ c \notin DOMAIN top THEN Zero
                         ELSE IF c = onpath THEN active[p] ELSE top[c]]]]
      BY DEF Init
    <2>2. index # -1 => index \div Pow2[Levels] \in 0 .. Pow2[startlevel] - 1
      <3>1. Levels - 0 = Levels
        BY <1>2
      <3> QED BY <3>1, <1>1, PathFacts DEF Path
    <2>3. active \in [Party -> Block]
      <3>1. active[1] \in Block /\ active[2] \in Block /\ active = <<active[1], active[2]>>
        BY <2>1, <2>2, <1>3
      <3> QED BY <3>1 DEF Party
    <2>4. \A c \in Cell : c \in DOMAIN top => top[c] \in Block
      BY <1>3
    <2>5. control \in [Party -> BOOLEAN]
      <3>1. \A p \in Party : Bit(active[p]) \in BOOLEAN
        BY DEF Bit
      <3>2. control = [p \in Party |-> Bit(active[p])]
        BY <2>1
      <3> QED BY <3>1, <3>2
    <2> DEFINE cell(p, m, c) ==
          IF m = "output" \/ c \notin DOMAIN top THEN Zero
          ELSE IF c = index \div Pow2[Levels] THEN active[p] ELSE top[c]
    <2>6. \A p \in Party : \A m \in Buffer : \A c \in Cell : cell(p, m, c) \in Block
      BY <2>3, <2>4, <1>3
    <2>7. data = [p \in Party |-> [m \in Buffer |-> [c \in Cell |-> cell(p, m, c)]]]
      BY <2>1
    <2> HIDE DEF cell
    <2>8. data \in [Party -> [Buffer -> [Cell -> Block]]]
      BY <2>6, <2>7
    <2> QED BY <2>3, <2>5, <2>8
  <1>5. OnlineInv
    <2>1. Z = <<>> /\ advice = <<>> /\ flushed = 0 /\ readycount = [p \in Party |-> 0]
      BY DEF Init
    <2> QED BY <2>1, <1>2, <1>4 DEF OnlineInv, Party
  <1>6. PusherInv
    <2>1. /\ at = [p \in Party |-> "wait"] /\ sent = 0 /\ answered = 0
          /\ pushed = [p \in Party |-> 0] /\ readycount = [p \in Party |-> 0]
      BY DEF Init
    <2> QED BY <2>1, <1>2 DEF PusherInv, Party
  <1>7. PushedInv
    <2>1. /\ at = [p \in Party |-> "wait"] /\ pushed = [p \in Party |-> 0]
          /\ Zpushed = [p \in Party |-> [k \in 1 .. Levels |->
                          [Z |-> Zero, advice |-> [s \in Side |-> FALSE]]]]
      BY DEF Init
    <2>2. \A p \in Party : \A k \in 1 .. Levels : ~ Written(p, k)
      BY <2>1, <1>2 DEF Written
    <2> QED BY <2>1, <2>2, <1>3 DEF PushedInv
  <1>8. TaskInv
    <2>1. /\ task = [p \in Party |-> [a \in Task |-> "created"]]
          /\ proto = [p \in Party |-> "main"] /\ revealed = FALSE
          /\ level = [p \in Party |-> startlevel] /\ pushed = [p \in Party |-> 0]
      BY DEF Init
    <2>2. \A p \in Party : LevelOf(p) = 0 /\ task[p]["expand"] # "done" /\ pushed[p] = 0
      BY <2>1, <1>2 DEF LevelOf, Task
    <2>3. /\ task \in [Party -> [Task -> {"created", "master", "other", "done"}]]
          /\ proto \in [Party -> {"main", "second"}] /\ revealed \in BOOLEAN
          /\ level \in [Party -> startlevel .. endlevel]
      <3>1. task \in [Party -> [Task -> {"created", "master", "other", "done"}]]
        BY <2>1
      <3>2. proto \in [Party -> {"main", "second"}] /\ revealed \in BOOLEAN
        BY <2>1
      <3>3. startlevel \in startlevel .. endlevel
        BY <1>2
      <3>4. level \in [Party -> startlevel .. endlevel]
        BY <2>1, <3>3
      <3> QED BY <3>1, <3>2, <3>4
    <2>4. \A p \in Party : LevelOf(p) <= pushed[p] + 1
      BY <2>2
    <2> QED BY <2>2, <2>3, <2>4 DEF TaskInv
  <1>9. TreeType
    <2>1. front = [p \in Party |-> "level"]
          /\ bits = [p \in Party |-> [m \in Buffer |-> [c \in Cell |-> FALSE]]]
      BY DEF Init
    <2> QED BY <2>1, <1>4 DEF TreeType, Buffer
  <1> QED BY <1>1, <1>5, <1>6, <1>7, <1>8, <1>9 DEF CountInv

-----------------------------------------------------------------------------
\* Appending to a sequence.
LEMMA Appended ==
  ASSUME NEW S, NEW s \in Seq(S), NEW e \in S
  PROVE  /\ Append(s, e) \in Seq(S) /\ Len(Append(s, e)) = Len(s) + 1 /\ Len(s) \in Nat
         /\ Append(s, e)[Len(s) + 1] = e
         /\ \A k \in 1 .. Len(s) : Append(s, e)[k] = s[k]
  OBVIOUS

\* An element of a sequence.
LEMMA ElementOf == ASSUME NEW S, NEW s \in Seq(S), NEW k \in 1 .. Len(s) PROVE s[k] \in S
  OBVIOUS

\* Exclusive or of blocks.
LEMMA XorFacts ==
  ASSUME NEW x \in Block, NEW y \in Block
  PROVE  /\ Xor(x, y) \in Block
         /\ x = y => Xor(x, y) = Zero
         /\ (Bit(Xor(x, y)) <=> (Bit(x) # Bit(y)))
  BY DEF Xor, Block, Zero, Bit

\* The children of the active blocks, and what corrects them, at level k.
children(p, s) == PRG[s][active[p]]
difference(s) == Xor(children(1, s), children(2, s))
adviceof(k) == fss_getadvice([s \in Side |-> difference(s)], levelindex(k))

\* The advice corrects the control bit of the child off the path only.
LEMMA AdviceFacts ==
  ASSUME NEW k, levelindex(k) \in Side
  PROVE  /\ adviceof(k) \in [Side -> BOOLEAN]
         /\ adviceof(k)[levelindex(k)] <=> ~ Bit(difference(levelindex(k)))
         /\ adviceof(k)[1 - levelindex(k)] <=> Bit(difference(1 - levelindex(k)))
  <1>1. levelindex(k) = 0 \/ levelindex(k) = 1
    BY DEF Side
  <1>2. 0 \in Side /\ 1 \in Side /\ 1 - 1 = 0 /\ 1 - 0 = 1
    BY DEF Side
  <1>3. ASSUME NEW s \in Side
        PROVE  /\ Bit(difference(s)) \in BOOLEAN
               /\ adviceof(k)[s] = IF s = 0 THEN Bit(difference(0)) # (levelindex(k) = 0)
                                   ELSE Bit(difference(1)) # (levelindex(k) = 1)
    BY <1>2 DEF adviceof, fss_getadvice, Bit
  <1>4. adviceof(k) = [s \in Side |-> adviceof(k)[s]]
    BY DEF adviceof, fss_getadvice
  <1>5. \A s \in Side : adviceof(k)[s] \in BOOLEAN
    BY <1>3
  <1>6. adviceof(k) \in [Side -> BOOLEAN]
    <2> DEFINE a == adviceof(k)
    <2>1. a = [s \in Side |-> a[s]] /\ \A s \in Side : a[s] \in BOOLEAN
      BY <1>4, <1>5
    <2> HIDE DEF a
    <2>2. a \in [Side -> BOOLEAN]
      BY <2>1
    <2> QED BY <2>2 DEF a
  <1>7. CASE levelindex(k) = 0
    BY <1>2, <1>3, <1>6, <1>7
  <1>8. CASE levelindex(k) = 1
    BY <1>2, <1>3, <1>6, <1>8
  <1> QED BY <1>1, <1>7, <1>8

\* What Follow does, with the names above.
LEMMA FollowIs ==
  ASSUME CountInv, NEW k \in 1 .. Levels, Follow(k)
  PROVE  /\ Z' = Append(Z, difference(1 - levelindex(k))) /\ advice' = Append(advice, adviceof(k))
         /\ control' = [p \in Party |-> Bit(children(p, levelindex(k)))
                                         # (control[p] /\ adviceof(k)[levelindex(k)])]
         /\ active' = [p \in Party |->
                         IF control[p]
                         THEN Xor(children(p, levelindex(k)), difference(1 - levelindex(k)))
                         ELSE children(p, levelindex(k))]
  <1>1. levelindex(k) \in Side /\ 1 - levelindex(k) \in Side
    BY PathStep DEF CountInv, Side
  <1>2. 1 \in Party /\ 2 \in Party
    BY DEF Party
  <1> DEFINE r == levelindex(k)
             diff == [s \in Side |-> difference(s)]
  <1>3. /\ Z' = Append(Z, diff[1 - r]) /\ advice' = Append(advice, fss_getadvice(diff, r))
        /\ control' = [p \in Party |-> Bit(children(p, r))
                                         # (control[p] /\ fss_getadvice(diff, r)[r])]
        /\ active' = [p \in Party |-> IF control[p] THEN Xor(children(p, r), diff[1 - r])
                                                   ELSE children(p, r)]
    <2> DEFINE child == [p \in Party |-> [s \in Side |-> PRG[s][active[p]]]]
    <2>1. \A p \in Party : \A s \in Side : child[p][s] = children(p, s)
      BY DEF children
    <2>2. [s \in Side |-> Xor(child[1][s], child[2][s])] = diff
      BY <2>1, <1>2 DEF difference
    <2>3. \A p \in Party : child[p][r] = children(p, r)
      BY <2>1, <1>1
    <2> DEFINE Follows(d) ==
          /\ Z' = Append(Z, d[1 - r]) /\ advice' = Append(advice, fss_getadvice(d, r))
          /\ control' = [p \in Party |-> Bit(child[p][r]) # (control[p] /\ fss_getadvice(d, r)[r])]
          /\ active' = [p \in Party |-> IF control[p] THEN Xor(child[p][r], d[1 - r])
                                                     ELSE child[p][r]]
    <2>4. Follows([s \in Side |-> Xor(child[1][s], child[2][s])])
      BY DEF Follow
    <2>5. Follows(diff)
      <3> HIDE DEF Follows, child, diff
      <3> QED BY <2>2, <2>4
    <2> HIDE DEF child, diff, r
    <2> QED BY <2>3, <2>5
  <1>4. diff[1 - r] = difference(1 - r)
    BY <1>1
  <1> QED BY <1>3, <1>4 DEF adviceof

\* fss_traverselevels keeps the invariant.
LEMMA TraverseCounts == ASSUME CountInv, NEW p \in Party, TraverseLevel(p) PROVE CountInv'
  <1>1. /\ UNCHANGED <<shape, task, proto, pusher, tree, revealed>>
        /\ readycount[p] < Levels /\ readycount' = [readycount EXCEPT ![p] = @ + 1]
    BY DEF TraverseLevel, CanTraverse
  <1>2. Levels' = Levels /\ Levels \in Nat /\ readycount \in [Party -> 0 .. Levels]
    BY <1>1, SameShape, SizeFacts DEF CountInv, OnlineInv
  <1>3. readycount' \in [Party -> 0 .. Levels] /\ p \in {1, 2}
        /\ \A q \in Party : readycount[q] <= readycount'[q]
    BY <1>1, <1>2 DEF Party
  <1>4. OnlineInv' /\ \A k \in 1 .. Len(Z) : Z'[k] = Z[k] /\ advice'[k] = advice[k]
    <2>1. CASE p = 1
      <3> DEFINE k == readycount[1] + 1
      <3>1. Follow(k) /\ flushed' = k /\ k \in 1 .. Levels /\ readycount'[1] = k
            /\ readycount'[2] = readycount[2]
        BY <2>1, <1>1, <1>2 DEF TraverseLevel, CanTraverse, Party
      <3>2. /\ Z \in Seq(Block) /\ advice \in Seq([Side -> BOOLEAN]) /\ Len(Z) = Len(advice)
            /\ active \in [Party -> Block] /\ control \in [Party -> BOOLEAN]
            /\ Len(Z) = readycount[1] /\ readycount[2] <= flushed /\ flushed <= Len(Z)
            /\ flushed \in Nat
        BY DEF CountInv, OnlineInv
      <3>3. levelindex(k) \in Side /\ 1 - levelindex(k) \in Side
        BY <3>1, PathStep DEF CountInv, Side
      <3>4. \A q \in Party : \A s \in Side : children(q, s) \in Block
        BY <3>2, PRGAssumption DEF children
      <3>5. \A s \in Side : difference(s) \in Block
        BY <3>4, XorFacts DEF difference, Party
      <3> HIDE DEF k
      <3>6. adviceof(k) \in [Side -> BOOLEAN]
        BY <3>3, AdviceFacts
      <3>7. /\ Z' = Append(Z, difference(1 - levelindex(k))) /\ advice' = Append(advice, adviceof(k))
            /\ control' = [q \in Party |-> Bit(children(q, levelindex(k)))
                                         # (control[q] /\ adviceof(k)[levelindex(k)])]
            /\ active' = [q \in Party |->
                            IF control[q]
                            THEN Xor(children(q, levelindex(k)), difference(1 - levelindex(k)))
                            ELSE children(q, levelindex(k))]
        BY <3>1, FollowIs
      <3>8. /\ Z' \in Seq(Block) /\ Len(Z') = Len(Z) + 1 /\ \A n \in 1 .. Len(Z) : Z'[n] = Z[n]
        BY <3>2, <3>3, <3>5, <3>7, Appended
      <3>9. /\ advice' \in Seq([Side -> BOOLEAN]) /\ Len(advice') = Len(advice) + 1
            /\ \A n \in 1 .. Len(advice) : advice'[n] = advice[n]
        <4> DEFINE S == [Side -> BOOLEAN]
                   a == adviceof(k)
        <4>1. advice \in Seq(S) /\ a \in S /\ advice' = Append(advice, a)
          BY <3>2, <3>6, <3>7
        <4> HIDE DEF S, a
        <4>2. /\ advice' \in Seq(S) /\ Len(advice') = Len(advice) + 1
              /\ \A n \in 1 .. Len(advice) : advice'[n] = advice[n]
          BY <4>1, Appended
        <4> QED BY <4>2 DEF S
      <3>10. control' \in [Party -> BOOLEAN]
        BY <3>7
      <3>11. active' \in [Party -> Block]
        BY <3>3, <3>4, <3>5, <3>7, XorFacts
      <3>12. k = readycount[1] + 1
        BY DEF k
      <3>13. /\ readycount'[2] <= flushed' /\ flushed' <= Len(Z') /\ Len(Z') = readycount'[1]
             /\ flushed' \in Nat /\ Len(Z') = Len(advice')
        <4>1. readycount[1] \in Nat /\ readycount[2] \in Nat
          BY <1>2 DEF Party
        <4>2. /\ readycount'[2] = readycount[2] /\ flushed' = readycount[1] + 1
              /\ Len(Z') = readycount[1] + 1 /\ Len(advice') = readycount[1] + 1
              /\ readycount'[1] = readycount[1] + 1 /\ readycount[2] <= readycount[1]
          <5>1. Len(Z') = Len(Z) + 1 /\ Len(advice') = Len(advice) + 1
            BY <3>8, <3>9
          <5>2. /\ Len(Z) = readycount[1] /\ Len(advice) = Len(Z) /\ readycount[2] <= flushed
                /\ flushed <= Len(Z) /\ flushed \in Nat
            BY <3>2
          <5>3. readycount'[2] = readycount[2] /\ flushed' = k /\ readycount'[1] = k
            BY <3>1
          <5> QED BY <5>1, <5>2, <5>3, <3>12, <4>1
        <4> QED BY <4>1, <4>2
      <3> QED BY <1>2, <1>3, <3>2, <3>8, <3>9, <3>10, <3>11, <3>13 DEF OnlineInv
    <2>2. CASE p = 2
      <3>1. readycount[2] < flushed /\ UNCHANGED <<active, control, Z, advice, flushed>>
            /\ readycount'[2] = readycount[2] + 1 /\ readycount'[1] = readycount[1]
        BY <2>2, <1>1, <1>2 DEF TraverseLevel, CanTraverse, Party
      <3>2. readycount[2] \in Int /\ flushed \in Nat
        BY <1>2 DEF CountInv, OnlineInv, Party
      <3>3. readycount'[2] <= flushed
        BY <3>1, <3>2
      <3>4. /\ active \in [Party -> Block] /\ control \in [Party -> BOOLEAN]
            /\ Z \in Seq(Block) /\ advice \in Seq([Side -> BOOLEAN]) /\ Len(Z) = Len(advice)
            /\ flushed \in Nat /\ flushed <= Len(Z) /\ Len(Z) = readycount[1]
        BY DEF CountInv, OnlineInv
      <3>5. OnlineInv'
        <4> USE DEF OnlineInv
        <4>1. (active \in [Party -> Block] /\ control \in [Party -> BOOLEAN])'
          BY <3>1, <3>4
        <4>2. (Z \in Seq(Block) /\ advice \in Seq([Side -> BOOLEAN]) /\ Len(Z) = Len(advice))'
          BY <3>1, <3>4
        <4>3. (readycount \in [Party -> 0 .. Levels] /\ flushed \in Nat)'
          BY <1>2, <1>3, <3>1, <3>4
        <4>4. (readycount[2] <= flushed /\ flushed <= Len(Z) /\ Len(Z) = readycount[1])'
          BY <3>1, <3>3, <3>4
        <4> QED BY <4>1, <4>2, <4>3, <4>4
      <3>6. \A k \in 1 .. Len(Z) : Z'[k] = Z[k] /\ advice'[k] = advice[k]
        BY <3>1
      <3> QED BY <3>5, <3>6
    <2> QED BY <1>3, <2>1, <2>2
  <1>5. PusherInv'
    <2>1. /\ UNCHANGED <<at, sent, answered, pushed>>
          /\ readycount[1] <= readycount'[1] /\ readycount[2] <= readycount'[2]
          /\ readycount[1] \in Int /\ readycount[2] \in Int
          /\ readycount'[1] \in Int /\ readycount'[2] \in Int
      BY <1>1, <1>2, <1>3 DEF pusher, Party
    <2> QED BY <1>2, <2>1 DEF CountInv, PusherInv
  <1>6. PushedInv'
    <2>1. UNCHANGED <<at, pushed, Zpushed>>
      BY <1>1 DEF pusher
    <2>2. ASSUME NEW q \in Party, NEW k \in 1 .. Levels, Written(q, k)
          PROVE  Zpushed[q][k] = [Z |-> Z'[k], advice |-> advice'[k]]
      <3>1. k \in 1 .. Len(Z)
        <4>1. /\ pushed[1] <= answered /\ pushed[2] <= answered /\ answered \in Nat
              /\ at[2] # "wait" => pushed[2] + 1 = answered
              /\ at[1] = "count" => pushed[1] < answered
              /\ answered <= readycount[1] /\ Len(Z) = readycount[1] /\ Len(Z) \in Nat
              /\ pushed \in [Party -> 0 .. Levels]
          <5>1. answered <= sent /\ sent <= readycount[1] /\ sent \in Nat /\ answered \in Nat
                /\ readycount[1] \in Int
            BY <1>2 DEF CountInv, PusherInv, Party
          <5>2. at[2] # "wait" => pushed[2] + 1 = answered
            BY DEF CountInv, PusherInv
          <5> QED BY <5>1, <5>2 DEF CountInv, PusherInv, OnlineInv
        <4>2. q = 1 \/ q = 2
          BY DEF Party
        <4>3. pushed[q] \in Int /\ k <= answered
          BY <2>2, <4>1, <4>2 DEF Written, Party
        <4> QED BY <4>1, <4>3
      <3> QED BY <2>2, <3>1, <1>4 DEF CountInv, PushedInv
    <2> QED BY <1>2, <2>1, <2>2 DEF CountInv, PushedInv, Written
  <1>7. UNCHANGED shape /\ UNCHANGED <<task, proto, revealed, level, pushed>> /\ UNCHANGED tree
    BY <1>1 DEF tree, pusher
  <1> QED BY <1>4, <1>5, <1>6, <1>7, Untouched DEF CountInv

-----------------------------------------------------------------------------
\* The numbers that the pusher's steps compare.
LEMMA Counters ==
  ASSUME CountInv
  PROVE  /\ Levels \in Nat /\ sent \in Nat /\ answered \in Nat
         /\ pushed[1] \in Nat /\ pushed[2] \in Nat /\ pushed \in [Party -> 0 .. Levels]
         /\ readycount[1] \in Nat /\ readycount[2] \in Nat
         /\ readycount[1] <= Levels /\ readycount[2] <= Levels
         /\ Len(Z) = readycount[1] /\ Len(advice) = Len(Z) /\ readycount[2] <= readycount[1]
         /\ at \in [Party -> {"wait", "answer", "write", "count"}]
  <1>1. Levels \in Nat
    BY SizeFacts DEF CountInv
  <1>2. readycount[1] \in 0 .. Levels /\ readycount[2] \in 0 .. Levels
    BY DEF CountInv, OnlineInv, Party
  <1>3. pushed \in [Party -> 0 .. Levels] /\ pushed[1] \in 0 .. Levels /\ pushed[2] \in 0 .. Levels
    BY DEF CountInv, PusherInv, Party
  <1>4. /\ flushed \in Nat /\ readycount[2] <= flushed /\ flushed <= Len(Z)
        /\ Len(Z) = readycount[1] /\ Len(advice) = Len(Z)
    BY DEF CountInv, OnlineInv
  <1> QED BY <1>1, <1>2, <1>3, <1>4 DEF CountInv, PusherInv

\* The task of a thread.
LEMMA StartCounts ==
  ASSUME CountInv, NEW p \in Party, NEW a \in Task, StartTask(p, a) PROVE CountInv'
  <1>1. /\ UNCHANGED <<shape, online, pusher, tree, revealed>>
        /\ \E w \in {"master", "other"} : task' = [task EXCEPT ![p][a] = w]
        /\ \/ proto' = proto
           \/ \E e \in {"second", proto[p]} : proto' = [proto EXCEPT ![p] = e]
    BY DEF StartTask
  <1>2. PICK w \in {"master", "other"} : task' = [task EXCEPT ![p][a] = w]
    BY <1>1
  <1>3. /\ task \in [Party -> [Task -> {"created", "master", "other", "done"}]]
        /\ proto \in [Party -> {"main", "second"}]
    BY DEF CountInv, TaskInv
  <1>4. task' \in [Party -> [Task -> {"created", "master", "other", "done"}]]
    BY <1>2, <1>3
  <1>5. proto' \in [Party -> {"main", "second"}]
    BY <1>1, <1>3
  <1>6. \A q \in Party : task'[q]["expand"] = "done" => task[q]["expand"] = "done"
    BY <1>2, <1>3 DEF Task
  <1>7. UNCHANGED shape /\ UNCHANGED online /\ UNCHANGED <<readycount, pusher>>
        /\ UNCHANGED <<Z, advice, pusher>> /\ UNCHANGED tree
        /\ UNCHANGED <<revealed, level, pushed>>
    BY <1>1 DEF online, tree, pusher
  <1>8. TaskInv'
    <2>1. startlevel' = startlevel /\ endlevel' = endlevel /\ Levels' = Levels
      BY <1>7, SameShape
    <2> QED BY <1>4, <1>5, <1>6, <1>7, <2>1 DEF CountInv, TaskInv, LevelOf
  <1> QED BY <1>7, <1>8, Untouched DEF CountInv

\* dpf_with_beta goes on.
LEMMA RevealCounts == ASSUME CountInv, RevealDelta PROVE CountInv'
  <1>1. UNCHANGED <<shape, task, proto, online, pusher, tree>> /\ revealed' = TRUE
    BY DEF RevealDelta
  <1>2. UNCHANGED shape /\ UNCHANGED online /\ UNCHANGED <<readycount, pusher>>
        /\ UNCHANGED <<Z, advice, pusher>> /\ UNCHANGED tree
        /\ UNCHANGED <<task, proto, level, pushed>>
    BY <1>1 DEF online, tree, pusher
  <1>3. TaskInv'
    <2>1. startlevel' = startlevel /\ endlevel' = endlevel /\ Levels' = Levels
      BY <1>2, SameShape
    <2> QED BY <1>1, <1>2, <2>1 DEF CountInv, TaskInv, LevelOf
  <1> QED BY <1>2, <1>3, Untouched DEF CountInv

\* What is left alone by the steps of fss_Z_pusher that count nothing.
LEMMA OnlyPusher ==
  ASSUME CountInv, UNCHANGED <<shape, task, proto, online, tree, revealed, pushed>>
  PROVE  /\ ShapeInv' /\ OnlineInv' /\ TaskInv' /\ TreeType'
         /\ Levels' = Levels /\ readycount' = readycount /\ Z' = Z /\ advice' = advice
  <1>1. UNCHANGED shape /\ UNCHANGED online /\ UNCHANGED tree
        /\ UNCHANGED <<task, proto, revealed, level, pushed>>
        /\ readycount' = readycount /\ Z' = Z /\ advice' = advice
    BY DEF online, tree
  <1> QED BY <1>1, Untouched, SameShape

\* fss_Z_pusher, the reveals.
LEMMA RevealSteps ==
  ASSUME CountInv, RevealTo2 \/ RevealTo1 \/ ReceiveAnswer PROVE CountInv'
  <1>0. /\ 1 \in Party /\ 2 \in Party
    BY DEF Party
  <1>1. UNCHANGED <<shape, task, proto, online, tree, revealed, pushed>> /\ UNCHANGED Zpushed
    BY DEF RevealTo2, RevealTo1, ReceiveAnswer
  <1>2. /\ sent = pushed[1] + IF at[1] = "wait" THEN 0 ELSE 1
        /\ answered = pushed[2] + IF at[2] = "wait" THEN 0 ELSE 1
        /\ at[1] \in {"write", "count"} => pushed[1] < answered
        /\ sent <= readycount[1] /\ answered <= sent /\ answered <= readycount[2]
        /\ pushed[1] <= answered /\ pushed[2] <= answered /\ at[2] # "answer"
    BY DEF CountInv, PusherInv
  <1>3. /\ ShapeInv' /\ OnlineInv' /\ TaskInv' /\ TreeType'
        /\ Levels' = Levels /\ readycount' = readycount /\ Z' = Z /\ advice' = advice
    BY <1>1, OnlyPusher
  <1>4. /\ at' \in [Party -> {"wait", "answer", "write", "count"}]
        /\ sent' \in Nat /\ answered' \in Nat /\ pushed' \in [Party -> 0 .. Levels]
    BY <1>1, Counters DEF RevealTo2, RevealTo1, ReceiveAnswer
  <1>5. \A p \in Party : at'[p] = "count" => at[p] = "count"
    BY Counters DEF RevealTo2, RevealTo1, ReceiveAnswer
  <1>6. PushedInv'
    BY <1>1, <1>3, <1>5 DEF CountInv, PushedInv, Written
  <1>7. CASE RevealTo2
    <2>1. /\ at[1] = "wait" /\ pushed[1] < readycount[1] /\ sent' = pushed[1] + 1
          /\ at'[1] = "answer" /\ at'[2] = at[2] /\ answered' = answered /\ pushed' = pushed
      BY <1>7, <1>0, Counters DEF RevealTo2, Pushing
    <2>2. PusherInv'
      BY <1>2, <1>3, <1>4, <2>1, Counters DEF PusherInv
    <2> QED BY <2>2, <1>3, <1>6 DEF CountInv
  <1>8. CASE RevealTo1
    <2>1. /\ at[2] = "wait" /\ pushed[2] < readycount[2] /\ pushed[2] < sent
          /\ answered' = pushed[2] + 1
          /\ at'[2] = "write" /\ at'[1] = at[1] /\ sent' = sent /\ pushed' = pushed
      BY <1>8, <1>0, Counters DEF RevealTo1, CanAnswer, Pushing
    <2>2. answered = pushed[2] /\ answered' = answered + 1
      BY <1>2, <2>1, Counters
    <2>3. answered' <= sent' /\ answered' <= readycount[2]
      BY <2>1, <2>2, Counters
    <2>4. pushed[1] <= answered' /\ pushed[2] <= answered'
      BY <1>2, <2>2, Counters
    <2>5. at[1] \in {"write", "count"} => pushed[1] < answered'
      BY <1>2, <2>2, Counters
    <2>6. PusherInv'
      BY <1>2, <1>3, <1>4, <2>1, <2>3, <2>4, <2>5 DEF PusherInv
    <2> QED BY <2>6, <1>3, <1>6 DEF CountInv
  <1>9. CASE ReceiveAnswer
    <2>1. /\ at[1] = "answer" /\ pushed[1] < answered /\ at'[1] = "write" /\ at'[2] = at[2]
          /\ answered' = answered /\ sent' = sent /\ pushed' = pushed
      BY <1>9, <1>0, Counters DEF ReceiveAnswer, CanReceive
    <2>2. PusherInv'
      BY <1>2, <1>3, <1>4, <2>1, Counters DEF PusherInv
    <2> QED BY <2>2, <1>3, <1>6 DEF CountInv
  <1> QED BY <1>7, <1>8, <1>9

\* fss_offline_push_Z, the values.
LEMMA WriteCounts == ASSUME CountInv, NEW p \in Party, WriteZ(p) PROVE CountInv'
  <1> DEFINE k == pushed[p] + 1
             e == [Z |-> Z[k], advice |-> advice[k]]
  <1>0. 1 \in Party /\ 2 \in Party /\ (p = 1 \/ p = 2)
    BY DEF Party
  <1>1. /\ UNCHANGED <<shape, task, proto, online, tree, revealed, pushed>>
        /\ UNCHANGED <<sent, answered>> /\ at[p] = "write" /\ at' = [at EXCEPT ![p] = "count"]
        /\ Zpushed' = [Zpushed EXCEPT ![p][k] = e]
    BY DEF WriteZ
  <1>2. /\ ShapeInv' /\ OnlineInv' /\ TaskInv' /\ TreeType'
        /\ Levels' = Levels /\ readycount' = readycount /\ Z' = Z /\ advice' = advice
    BY <1>1, OnlyPusher
  <1>3. PusherInv'
    <2>1. /\ at' \in [Party -> {"wait", "answer", "write", "count"}]
          /\ \A q \in Party : at'[q] = "wait" <=> at[q] = "wait"
          /\ at'[2] # "answer"
          /\ at'[1] \in {"write", "count"} => at[1] \in {"write", "count"}
      BY <1>0, <1>1, Counters DEF CountInv, PusherInv
    <2> QED BY <1>0, <1>1, <1>2, <2>1 DEF CountInv, PusherInv
  <1>4. k \in 1 .. Levels /\ k \in 1 .. Len(Z) /\ k \in 1 .. Len(advice)
    <2>1. k <= answered
      <3>1. /\ answered = pushed[2] + IF at[2] = "wait" THEN 0 ELSE 1
            /\ at[1] \in {"write", "count"} => pushed[1] < answered
        BY DEF CountInv, PusherInv
      <3> QED BY <1>0, <1>1, <3>1, Counters
    <2>2. answered <= sent /\ sent <= readycount[1]
      BY DEF CountInv, PusherInv
    <2> QED BY <1>0, <2>1, <2>2, Counters
  <1>5. e \in [Z : Block, advice : [Side -> BOOLEAN]]
    <2> DEFINE S == [Side -> BOOLEAN]
    <2>1. Z \in Seq(Block) /\ advice \in Seq(S)
      BY DEF CountInv, OnlineInv
    <2> HIDE DEF S, k
    <2>2. Z[k] \in Block /\ advice[k] \in S
      BY <1>4, <2>1, ElementOf
    <2> QED BY <2>2 DEF S
  <1>6. Zpushed \in [Party -> [1 .. Levels -> [Z : Block, advice : [Side -> BOOLEAN]]]]
    BY DEF CountInv, PushedInv
  <1> DEFINE T == [Z : Block, advice : [Side -> BOOLEAN]]
             Level == 1 .. Levels
  <1>7. /\ Zpushed' \in [Party -> [1 .. Levels -> T]] /\ Zpushed'[p][k] = e
        /\ \A q \in Party : \A n \in 1 .. Levels :
             q # p \/ n # k => Zpushed'[q][n] = Zpushed[q][n]
    <2>1. e \in T /\ Zpushed \in [Party -> [Level -> T]] /\ k \in Level
          /\ Zpushed' = [Zpushed EXCEPT ![p][k] = e]
      BY <1>1, <1>4, <1>5, <1>6
    <2> HIDE DEF e, k, T, Level
    <2>2. /\ Zpushed' \in [Party -> [Level -> T]] /\ Zpushed'[p][k] = e
          /\ \A q \in Party : \A n \in Level : q # p \/ n # k => Zpushed'[q][n] = Zpushed[q][n]
      BY <2>1
    <2> QED BY <2>2 DEF Level
  <1>8. PushedInv'
    <2>1. ASSUME NEW q \in Party, NEW n \in 1 .. Levels, Written(q, n)'
          PROVE  Zpushed'[q][n] = [Z |-> Z[n], advice |-> advice[n]]
      <3>1. CASE q = p /\ n = k
        BY <3>1, <1>7
      <3>2. CASE q # p \/ n # k
        <4>1. Written(q, n)
          <5>1. q = p => at'[q] = "count" /\ at[q] = "write"
            BY <1>1, Counters
          <5>2. q # p => at'[q] = at[q]
            BY <1>1, Counters
          <5>3. pushed' = pushed
            BY <1>1
          <5> QED BY <2>1, <3>2, <5>1, <5>2, <5>3 DEF Written
        <4>2. Zpushed[q][n] = [Z |-> Z[n], advice |-> advice[n]]
          BY <4>1 DEF CountInv, PushedInv
        <4> QED BY <3>2, <4>2, <1>7
      <3> QED BY <3>1, <3>2
    <2> QED BY <2>1, <1>2, <1>7 DEF PushedInv
  <1> QED BY <1>2, <1>3, <1>8 DEF CountInv

\* fss_offline_push_Z, the counter.
LEMMA CountCounts == ASSUME CountInv, NEW p \in Party, CountZ(p) PROVE CountInv'
  <1>0. 1 \in Party /\ 2 \in Party /\ (p = 1 \/ p = 2)
    BY DEF Party
  <1>1. /\ UNCHANGED <<shape, proto, online, tree, revealed>>
        /\ UNCHANGED <<sent, answered, Zpushed>> /\ at[p] = "count" /\ at' = [at EXCEPT ![p] = "wait"]
        /\ pushed' = [pushed EXCEPT ![p] = @ + 1]
        /\ \E w \in {"done", task[p]["push"]} : task' = [task EXCEPT ![p]["push"] = w]
    BY DEF CountZ
  <1>2. /\ ShapeInv' /\ OnlineInv' /\ TreeType'
        /\ Levels' = Levels /\ readycount' = readycount /\ Z' = Z /\ advice' = advice
        /\ level' = level /\ startlevel' = startlevel /\ endlevel' = endlevel
    <2>1. UNCHANGED shape /\ UNCHANGED online /\ UNCHANGED tree
      BY <1>1
    <2>2. readycount' = readycount /\ Z' = Z /\ advice' = advice /\ level' = level
      BY <2>1 DEF online, tree
    <2> QED BY <2>1, <2>2, Untouched, SameShape
  <1>3. /\ sent = pushed[1] + IF at[1] = "wait" THEN 0 ELSE 1
        /\ answered = pushed[2] + IF at[2] = "wait" THEN 0 ELSE 1
        /\ at[1] \in {"write", "count"} => pushed[1] < answered
        /\ sent <= readycount[1] /\ answered <= sent /\ answered <= readycount[2]
        /\ pushed[1] <= answered /\ pushed[2] <= answered /\ at[2] # "answer"
    BY DEF CountInv, PusherInv
  <1>4. /\ at' \in [Party -> {"wait", "answer", "write", "count"}]
        /\ at'[p] = "wait" /\ \A q \in Party : q # p => at'[q] = at[q] /\ pushed'[q] = pushed[q]
        /\ pushed'[p] = pushed[p] + 1
    BY <1>1, Counters
  <1>5. pushed[p] + 1 \in 0 .. Levels
    BY <1>0, <1>1, <1>3, Counters
  <1>6. pushed' \in [Party -> 0 .. Levels]
    BY <1>1, <1>5, Counters
  <1>7. PusherInv'
    <2>1. CASE p = 1
      <3>1. /\ at'[1] = "wait" /\ at'[2] = at[2] /\ pushed'[2] = pushed[2]
            /\ pushed'[1] = pushed[1] + 1 /\ at[1] = "count"
        BY <2>1, <1>0, <1>1, <1>4
      <3> QED BY <3>1, <1>1, <1>2, <1>3, <1>4, <1>6, Counters DEF PusherInv
    <2>2. CASE p = 2
      <3>1. /\ at'[2] = "wait" /\ at'[1] = at[1] /\ pushed'[1] = pushed[1]
            /\ pushed'[2] = pushed[2] + 1 /\ at[2] = "count"
        BY <2>2, <1>0, <1>1, <1>4
      <3> QED BY <3>1, <1>1, <1>2, <1>3, <1>4, <1>6, Counters DEF PusherInv
    <2> QED BY <2>1, <2>2, <1>0
  <1>8. PushedInv'
    <2>1. ASSUME NEW q \in Party, NEW n \in 1 .. Levels, Written(q, n)' PROVE Written(q, n)
      <3>1. CASE q = p
        <4>1. pushed'[q] = pushed[q] + 1 /\ at'[q] = "wait" /\ at[q] = "count"
          BY <3>1, <1>1, <1>4
        <4>2. pushed[q] \in Int /\ n \in Int
          BY Counters
        <4>3. n <= pushed'[q]
          BY <2>1, <4>1 DEF Written
        <4> QED BY <4>1, <4>2, <4>3 DEF Written
      <3>2. CASE q # p
        BY <3>2, <2>1, <1>4 DEF Written
      <3> QED BY <3>1, <3>2
    <2> QED BY <2>1, <1>1, <1>2 DEF CountInv, PushedInv
  <1>9. TaskInv'
    <2>1. task \in [Party -> [Task -> {"created", "master", "other", "done"}]]
      BY DEF CountInv, TaskInv
    <2>2. PICK w \in {"done", task[p]["push"]} : task' = [task EXCEPT ![p]["push"] = w]
      BY <1>1
    <2>3. w \in {"created", "master", "other", "done"}
      BY <2>1, <2>2 DEF Task
    <2>4. task' \in [Party -> [Task -> {"created", "master", "other", "done"}]]
      BY <2>1, <2>2, <2>3
    <2>5. \A q \in Party : task'[q]["expand"] = task[q]["expand"]
      BY <2>1, <2>2 DEF Task
    <2>6. \A q \in Party : pushed[q] \in Int /\ pushed'[q] \in Int /\ pushed[q] <= pushed'[q]
      BY <1>4, <1>6, Counters
    <2>7. \A q \in Party : LevelOf(q) \in Int
      <3>1. startlevel \in Int /\ endlevel \in Int
        BY SizeFacts DEF CountInv
      <3> QED BY <3>1 DEF CountInv, TaskInv, LevelOf
    <2>8. \A q \in Party : LevelOf(q)' <= pushed'[q] + 1
      <3>1. \A q \in Party : LevelOf(q) <= pushed[q] + 1 /\ LevelOf(q)' = LevelOf(q)
        BY <1>2 DEF CountInv, TaskInv, LevelOf
      <3> QED BY <2>6, <2>7, <3>1
    <2>9. ASSUME NEW q \in Party, task'[q]["expand"] = "done"
          PROVE  level'[q] = endlevel /\ pushed'[q] = Levels
      <3>1. level[q] = endlevel /\ pushed[q] = Levels
        BY <2>5, <2>9 DEF CountInv, TaskInv
      <3>2. pushed'[q] \in 0 .. Levels /\ pushed[q] <= pushed'[q]
        BY <1>6, <2>6
      <3> QED BY <3>1, <3>2, <1>2, Counters
    <2>10. proto' \in [Party -> {"main", "second"}] /\ revealed' \in BOOLEAN
           /\ level' \in [Party -> startlevel .. endlevel]
      BY <1>1, <1>2 DEF CountInv, TaskInv
    <2> QED BY <2>4, <2>8, <2>9, <2>10, <1>2 DEF TaskInv
  <1> QED BY <1>2, <1>7, <1>8, <1>9 DEF CountInv

-----------------------------------------------------------------------------
\* The numbers that the expansion compares.
LEMMA LevelFacts ==
  ASSUME CountInv, NEW p \in Party
  PROVE  /\ LevelOf(p) \in 0 .. Levels /\ level[p] \in 0 .. endlevel /\ endlevel \in Nat
         /\ level[p] = startlevel + LevelOf(p) /\ startlevel \in Nat /\ pushed[p] \in 0 .. Levels
         /\ (level[p] > startlevel <=> LevelOf(p) > 0)
         /\ (level[p] = endlevel <=> LevelOf(p) = Levels)
         /\ Levels \in Nat /\ Levels = endlevel - startlevel
         /\ pushed[p] <= Len(Z) /\ Len(Z) \in 0 .. Levels
         /\ (HasCorrection(p) <=> LevelOf(p) <= pushed[p])
  <1>1. startlevel \in Nat /\ endlevel \in Nat /\ startlevel < endlevel
        /\ Levels = endlevel - startlevel
    BY SizeFacts DEF CountInv
  <1>2. level[p] \in startlevel .. endlevel
    BY DEF CountInv, TaskInv
  <1>3. LevelOf(p) = level[p] - startlevel
    BY DEF LevelOf
  <1>4. /\ pushed[p] \in 0 .. Levels /\ pushed[p] <= readycount[1] /\ Len(Z) = readycount[1]
        /\ readycount[1] \in Nat /\ readycount[1] <= Levels
    <2>1. p = 1 \/ p = 2
      BY DEF Party
    <2>2. pushed[1] <= answered /\ pushed[2] <= answered /\ answered <= sent
          /\ sent <= readycount[1]
      BY DEF CountInv, PusherInv
    <2> QED BY <2>1, <2>2, Counters
  <1>5. HasCorrection(p) <=> pushed[p] >= LevelOf(p)
    BY DEF HasCorrection, LevelOf
  <1>6. LevelOf(p) \in Int /\ pushed[p] \in Int /\ level[p] \in Int
    BY <1>1, <1>2, <1>3, <1>4
  <1>7. HasCorrection(p) <=> LevelOf(p) <= pushed[p]
    BY <1>5, <1>6
  <1>8. pushed[p] <= Len(Z) /\ Len(Z) \in 0 .. Levels
    BY <1>4, <1>1
  <1>9. LevelOf(p) \in 0 .. Levels /\ level[p] \in 0 .. endlevel
        /\ level[p] = startlevel + LevelOf(p)
    BY <1>1, <1>2, <1>3
  <1>10. (level[p] > startlevel <=> LevelOf(p) > 0) /\ (level[p] = endlevel <=> LevelOf(p) = Levels)
    BY <1>1, <1>6, <1>9
  <1> QED BY <1>1, <1>4, <1>7, <1>8, <1>9, <1>10

\* The correction of a level that has been pushed.
LEMMA CorrectionIs ==
  ASSUME CountInv, NEW p \in Party, LevelOf(p) > 0
  PROVE  /\ correction(p) \in [Z : Block, advice : [Side -> BOOLEAN]]
         /\ HasCorrection(p) =>
              correction(p).Z = Z[LevelOf(p)] /\ correction(p).advice = advice[LevelOf(p)]
  <1>1. LevelOf(p) \in 1 .. Levels
    BY LevelFacts
  <1>2. correction(p) = Zpushed[p][LevelOf(p)]
    BY DEF correction, LevelOf
  <1>3. HasCorrection(p) => Written(p, LevelOf(p))
    BY LevelFacts DEF Written
  <1>4. Zpushed \in [Party -> [1 .. Levels -> [Z : Block, advice : [Side -> BOOLEAN]]]]
    BY DEF CountInv, PushedInv
  <1>5. Zpushed[p][LevelOf(p)] \in [Z : Block, advice : [Side -> BOOLEAN]]
    <2> DEFINE T == [Z : Block, advice : [Side -> BOOLEAN]]
    <2>1. Zpushed \in [Party -> [1 .. Levels -> T]]
      BY <1>4
    <2> HIDE DEF T
    <2>2. Zpushed[p][LevelOf(p)] \in T
      BY <1>1, <2>1
    <2> QED BY <2>2 DEF T
  <1>6. HasCorrection(p) =>
          Zpushed[p][LevelOf(p)] = [Z |-> Z[LevelOf(p)], advice |-> advice[LevelOf(p)]]
    BY <1>1, <1>3 DEF CountInv, PushedInv
  <1> QED BY <1>2, <1>5, <1>6

\* The nodes are blocks.
LEMMA NodeType ==
  ASSUME CountInv, NEW p \in Party, NEW c \in Cell
  PROVE  node(p, c) \in Block /\ nodebit(p, c) \in BOOLEAN
  <1>1. front[p] \in Buffer /\ data \in [Party -> [Buffer -> [Cell -> Block]]]
    BY DEF CountInv, TreeType
  <1>2. data[p][front[p]][c] \in Block
    BY <1>1
  <1>3. nodebit(p, c) \in BOOLEAN
    BY DEF nodebit
  <1>4. CASE parentbit(p, c)
    <2>1. LevelOf(p) > 0
      BY <1>4, LevelFacts DEF parentbit
    <2>2. correction(p).Z \in Block
      BY <2>1, CorrectionIs
    <2> QED BY <1>2, <1>3, <1>4, <2>2, XorFacts DEF node
  <1>5. CASE ~ parentbit(p, c)
    BY <1>2, <1>3, <1>5 DEF node
  <1> QED BY <1>4, <1>5

\* The buffers.
LEMMA Buffers ==
  ASSUME CountInv, NEW p \in Party
  PROVE  front[p] \in Buffer /\ back(p) \in Buffer /\ front[p] # back(p)
  BY DEF CountInv, TreeType, back, Buffer

\* Two buffers of a party are written.
LEMMA TwoWritten ==
  ASSUME NEW S, NEW D \in [Party -> [Buffer -> S]], NEW p \in Party,
         NEW m \in Buffer, NEW n \in Buffer, NEW u \in S, NEW v \in S
  PROVE  LET W == [D EXCEPT ![p][m] = u, ![p][n] = v] IN
         /\ W \in [Party -> [Buffer -> S]] /\ W[p][n] = v /\ (m # n => W[p][m] = u)
         /\ \A q \in Party : q # p => W[q] = D[q]
  OBVIOUS

\* One is.
LEMMA OneWritten ==
  ASSUME NEW S, NEW D \in [Party -> [Buffer -> S]], NEW p \in Party,
         NEW m \in Buffer, NEW u \in S
  PROVE  LET W == [D EXCEPT ![p][m] = u] IN
         /\ W \in [Party -> [Buffer -> S]] /\ W[p][m] = u
         /\ \A q \in Party : q # p => W[q] = D[q]
  OBVIOUS

\* What ExpandLevel writes.
LEMMA ExpandLevelIs ==
  ASSUME CountInv, NEW p \in Party, ExpandLevel(p)
  PROVE  /\ data' \in [Party -> [Buffer -> [Cell -> Block]]]
         /\ bits' \in [Party -> [Buffer -> [Cell -> BOOLEAN]]]
         /\ \A c \in Cell : c < BlocksAt(level[p] + 1) =>
              data'[p][back(p)][c] = PRG[c % 2][node(p, c \div 2)]
         /\ \A c \in Cell : c < BlocksAt(level[p]) => bits'[p][front[p]][c] = nodebit(p, c)
         /\ \A q \in Party : q # p => data'[q] = data[q] /\ bits'[q] = bits[q]
  <1> DEFINE Blocks == [Cell -> Block]
             Bits == [Cell -> BOOLEAN]
             u == [c \in Cell |-> IF c < BlocksAt(level[p]) THEN node(p, c)
                                  ELSE data[p][front[p]][c]]
             v == [c \in Cell |-> IF c < BlocksAt(level[p] + 1) THEN PRG[c % 2][node(p, c \div 2)]
                                  ELSE data[p][back(p)][c]]
             w == [c \in Cell |-> IF c < BlocksAt(level[p]) THEN nodebit(p, c)
                                  ELSE bits[p][front[p]][c]]
  <1>1. data \in [Party -> [Buffer -> Blocks]] /\ bits \in [Party -> [Buffer -> Bits]]
    BY DEF CountInv, TreeType
  <1>2. front[p] \in Buffer /\ back(p) \in Buffer /\ front[p] # back(p)
    BY Buffers
  <1>3. data' = [data EXCEPT ![p][front[p]] = u, ![p][back(p)] = v]
    BY DEF ExpandLevel
  <1>4. bits' = [bits EXCEPT ![p][front[p]] = w]
    BY DEF ExpandLevel
  <1>5. u \in Blocks
    <2>1. ASSUME NEW c \in Cell PROVE u[c] \in Block
      BY <1>1, <1>2, NodeType
    <2> QED BY <2>1
  <1>6. v \in Blocks
    <2>1. data[p][back(p)] \in Blocks
      BY <1>1, <1>2
    <2>2. ASSUME NEW c \in Cell PROVE v[c] \in Block
      <3>1. node(p, c \div 2) \in Block /\ c % 2 \in Side
        BY ParentOf, NodeType
      <3>2. PRG[c % 2][node(p, c \div 2)] \in Block
        BY <3>1, PRGAssumption
      <3> QED BY <2>1, <3>2
    <2> QED BY <2>2
  <1>7. w \in Bits
    <2>1. ASSUME NEW c \in Cell PROVE w[c] \in BOOLEAN
      BY <1>1, <1>2, NodeType
    <2> QED BY <2>1
  <1>8. /\ data' \in [Party -> [Buffer -> Blocks]] /\ data'[p][back(p)] = v
        /\ \A q \in Party : q # p => data'[q] = data[q]
    <2> HIDE DEF u, v, Blocks
    <2> QED BY <1>1, <1>2, <1>3, <1>5, <1>6, TwoWritten
  <1>9. /\ bits' \in [Party -> [Buffer -> Bits]] /\ bits'[p][front[p]] = w
        /\ \A q \in Party : q # p => bits'[q] = bits[q]
    <2> HIDE DEF w, Bits
    <2> QED BY <1>1, <1>2, <1>4, <1>7, OneWritten
  <1>10. \A c \in Cell : c < BlocksAt(level[p] + 1) => v[c] = PRG[c % 2][node(p, c \div 2)]
    OBVIOUS
  <1>11. \A c \in Cell : c < BlocksAt(level[p]) => w[c] = nodebit(p, c)
    OBVIOUS
  <1> HIDE DEF u, v, w
  <1> QED BY <1>8, <1>9, <1>10, <1>11

\* What ExpandLeaves writes.
LEMMA ExpandLeavesIs ==
  ASSUME CountInv, NEW p \in Party, ExpandLeaves(p)
  PROVE  /\ data' \in [Party -> [Buffer -> [Cell -> Block]]]
         /\ bits' \in [Party -> [Buffer -> [Cell -> BOOLEAN]]]
         /\ \A c \in Cell : c < size =>
              data'[p]["output"][c] = node(p, c) /\ bits'[p]["output"][c] = nodebit(p, c)
         /\ \A q \in Party : q # p => data'[q] = data[q] /\ bits'[q] = bits[q]
  <1> DEFINE Blocks == [Cell -> Block]
             Bits == [Cell -> BOOLEAN]
             u == [c \in Cell |-> IF c < size THEN node(p, c) ELSE data[p]["output"][c]]
             w == [c \in Cell |-> IF c < size THEN nodebit(p, c) ELSE bits[p][front[p]][c]]
             v == [c \in Cell |-> IF c < size THEN w[c]
                                  ELSE [bits EXCEPT ![p][front[p]] = w][p]["output"][c]]
  <1>1. data \in [Party -> [Buffer -> Blocks]] /\ bits \in [Party -> [Buffer -> Bits]]
    BY DEF CountInv, TreeType
  <1>2. front[p] \in Buffer /\ "output" \in Buffer
    BY Buffers DEF Buffer
  <1>3. data' = [data EXCEPT ![p]["output"] = u]
    BY DEF ExpandLeaves
  <1>4. bits' = [bits EXCEPT ![p][front[p]] = w, ![p]["output"] = v]
    BY DEF ExpandLeaves
  <1>5. u \in Blocks
    <2>1. ASSUME NEW c \in Cell PROVE u[c] \in Block
      BY <1>1, <1>2, NodeType
    <2> QED BY <2>1
  <1>6. w \in Bits
    <2>1. ASSUME NEW c \in Cell PROVE w[c] \in BOOLEAN
      BY <1>1, <1>2, NodeType
    <2> QED BY <2>1
  <1>7. v \in Bits
    <2>1. [bits EXCEPT ![p][front[p]] = w][p]["output"] \in Bits
      <3> HIDE DEF w, Bits
      <3> QED BY <1>1, <1>2, <1>6
    <2>2. ASSUME NEW c \in Cell PROVE v[c] \in BOOLEAN
      <3> HIDE DEF w
      <3> QED BY <2>1, <1>6
    <2> HIDE DEF w
    <2> QED BY <2>2
  <1>8. /\ data' \in [Party -> [Buffer -> Blocks]] /\ data'[p]["output"] = u
        /\ \A q \in Party : q # p => data'[q] = data[q]
    <2> HIDE DEF u, Blocks
    <2> QED BY <1>1, <1>2, <1>3, <1>5, OneWritten
  <1>9. /\ bits' \in [Party -> [Buffer -> Bits]] /\ bits'[p]["output"] = v
        /\ \A q \in Party : q # p => bits'[q] = bits[q]
    <2> HIDE DEF w, v, Bits
    <2> QED BY <1>1, <1>2, <1>4, <1>6, <1>7, TwoWritten
  <1>10. \A c \in Cell : c < size => u[c] = node(p, c) /\ v[c] = nodebit(p, c)
    <2>1. \A c \in Cell : c < size => w[c] = nodebit(p, c) /\ u[c] = node(p, c)
      OBVIOUS
    <2> HIDE DEF w, u
    <2> QED BY <2>1
  <1> HIDE DEF u, v, w
  <1> QED BY <1>8, <1>9, <1>10

\* fss_offline_readblockvector keeps the invariant.
LEMMA ExpandCounts ==
  ASSUME CountInv, NEW p \in Party, ExpandLevel(p) \/ ExpandLeaves(p) PROVE CountInv'
  <1>1. /\ UNCHANGED shape /\ UNCHANGED online /\ UNCHANGED <<readycount, pusher>>
        /\ UNCHANGED <<Z, advice, pusher>> /\ proto' = proto /\ revealed' = revealed
        /\ pushed' = pushed
    BY DEF ExpandLevel, ExpandLeaves, online, pusher
  <1>2. Levels' = Levels /\ startlevel' = startlevel /\ endlevel' = endlevel
    BY <1>1, SameShape
  <1>3. /\ task \in [Party -> [Task -> {"created", "master", "other", "done"}]]
        /\ proto \in [Party -> {"main", "second"}] /\ revealed \in BOOLEAN
        /\ level \in [Party -> startlevel .. endlevel] /\ front \in [Party -> Buffer]
    BY DEF CountInv, TaskInv, TreeType
  <1>4. \A q \in Party :
          /\ LevelOf(q) <= pushed[q] + 1
          /\ task[q]["expand"] = "done" => level[q] = endlevel /\ pushed[q] = Levels
    BY DEF CountInv, TaskInv
  <1>5. TreeType'
    <2>1. front' \in [Party -> Buffer]
      BY <1>3, Buffers DEF ExpandLevel, ExpandLeaves
    <2> QED BY <2>1, ExpandLevelIs, ExpandLeavesIs DEF TreeType
  <1>6. TaskInv'
    <2>1. CASE ExpandLevel(p)
      <3>1. /\ level' = [level EXCEPT ![p] = @ + 1] /\ task' = task /\ HasCorrection(p)
            /\ level[p] < endlevel
        BY <2>1 DEF ExpandLevel
      <3>2. level[p] + 1 \in startlevel .. endlevel
        BY <3>1, <1>3, LevelFacts
      <3>3. level' \in [Party -> startlevel .. endlevel]
        BY <3>1, <3>2, <1>3
      <3>4. \A q \in Party : q # p => level'[q] = level[q] /\ LevelOf(q)' = LevelOf(q)
        BY <3>1, <1>2, <1>3 DEF LevelOf
      <3>5. LevelOf(p)' = LevelOf(p) + 1 /\ LevelOf(p) <= pushed[p]
        <4>1. level'[p] = level[p] + 1
          BY <3>1, <1>3
        <4>2. LevelOf(p)' = (level[p] + 1) - startlevel
          <5>1. LevelOf(p)' = level'[p] - startlevel'
            BY DEF LevelOf
          <5> QED BY <5>1, <4>1, <1>2
        <4> QED BY <4>2, <3>1, LevelFacts
      <3>6. task[p]["expand"] # "done"
        BY <3>1, <1>4, LevelFacts
      <3>7. ASSUME NEW q \in Party
            PROVE  /\ LevelOf(q)' <= pushed'[q] + 1
                   /\ task'[q]["expand"] = "done" => level'[q] = endlevel /\ pushed'[q] = Levels
        <4>1. CASE q = p
          BY <4>1, <3>1, <3>5, <3>6, <1>1, LevelFacts
        <4>2. CASE q # p
          BY <4>2, <3>1, <3>4, <1>1, <1>4
        <4> QED BY <4>1, <4>2
      <3> QED BY <3>1, <3>3, <3>7, <1>1, <1>2, <1>3 DEF TaskInv
    <2>2. CASE ExpandLeaves(p)
      <3>1. /\ task' = [task EXCEPT ![p]["expand"] = "done"] /\ level' = level
            /\ HasCorrection(p) /\ level[p] = endlevel
        BY <2>2 DEF ExpandLeaves
      <3>2. pushed[p] = Levels
        BY <3>1, LevelFacts
      <3>3. task' \in [Party -> [Task -> {"created", "master", "other", "done"}]]
        BY <3>1, <1>3
      <3>4. \A q \in Party : q # p => task'[q]["expand"] = task[q]["expand"]
        BY <3>1, <1>3
      <3>5. \A q \in Party : LevelOf(q)' = LevelOf(q)
        BY <3>1, <1>2 DEF LevelOf
      <3>6. ASSUME NEW q \in Party
            PROVE  /\ LevelOf(q)' <= pushed'[q] + 1
                   /\ task'[q]["expand"] = "done" => level'[q] = endlevel /\ pushed'[q] = Levels
        BY <3>1, <3>2, <3>4, <3>5, <1>1, <1>4
      <3> QED BY <3>1, <3>3, <3>6, <1>1, <1>2, <1>3 DEF TaskInv
    <2> QED BY <2>1, <2>2
  <1> QED BY <1>1, <1>5, <1>6, Untouched DEF CountInv

\* Every step keeps the invariant.
LEMMA CountStep == CountInv /\ [Next]_vars => CountInv'
  <1> SUFFICES ASSUME CountInv, [Next]_vars PROVE CountInv'
    OBVIOUS
  <1>1. CASE UNCHANGED vars
    <2>1. UNCHANGED shape /\ UNCHANGED online /\ UNCHANGED <<readycount, pusher>>
          /\ UNCHANGED <<Z, advice, pusher>> /\ UNCHANGED tree
          /\ UNCHANGED <<task, proto, revealed, level, pushed>>
      BY <1>1 DEF vars, online, pusher, tree
    <2> QED BY <2>1, Untouched DEF CountInv
  <1>2. ASSUME NEW p \in Party, NEW a \in Task, StartTask(p, a) PROVE CountInv'
    BY <1>2, StartCounts
  <1>3. ASSUME NEW p \in Party,
               TraverseLevel(p) \/ WriteZ(p) \/ CountZ(p) \/ ExpandLevel(p) \/ ExpandLeaves(p)
        PROVE  CountInv'
    BY <1>3, TraverseCounts, WriteCounts, CountCounts, ExpandCounts
  <1>4. CASE RevealTo2 \/ RevealTo1 \/ ReceiveAnswer
    BY <1>4, RevealSteps
  <1>5. CASE RevealDelta
    BY <1>5, RevealCounts
  <1> QED BY <1>1, <1>2, <1>3, <1>4, <1>5 DEF Next

\* In every interleaving the counters follow one another.
THEOREM CountInvariant == Spec => []CountInv
  <1> QED BY CountInit, CountStep, PTL DEF Spec

(***************************************************************************)
(* No level is revealed before it is computed, none is pushed before both  *)
(* parties have revealed it, and none is expanded before it is pushed.     *)
(***************************************************************************)
THEOREM FTypeCorrect == Spec => []FTypeOK
  <1> QED BY CountInvariant, CountType, PTL

-----------------------------------------------------------------------------
(***************************************************************************)
(* The tree that both parties should expand, in full and level by level:   *)
(* N[p][l] has the nodes of level l in party p and B[p][l] their control   *)
(* bits, corrected by the oblivious Z and advice.  The master grows it; the*)
(* task "expand" follows it behind, with the corrections that were pushed. *)
(***************************************************************************)
Trees == [Party -> [Nat -> [Cell -> Block]]]
BitTrees == [Party -> [Nat -> [Cell -> BOOLEAN]]]

\* Node c of level l before it is corrected, and whether it is corrected at all.
Raw(n, l, c) == IF l = 0 THEN n[0][c] ELSE PRG[c % 2][n[l - 1][c \div 2]]
Corrects(b, l, c) == l > 0 /\ b[l - 1][c \div 2]

\* Level l of a party's tree comes from the one above.
Grown(n, b, l) ==
  \A c \in Cell :
    /\ n[l][c] = IF Corrects(b, l, c) THEN Xor(Raw(n, l, c), Z[l]) ELSE Raw(n, l, c)
    /\ b[l][c] <=> (Bit(Raw(n, l, c)) # (Corrects(b, l, c) /\ advice[l][c % 2]))

\* The parties' trees differ on the path only, and there their control bits differ.
Agree(N, B, l) ==
  \A c \in Cell :
    /\ (B[1][l][c] # B[2][l][c]) <=> c = Path(l)
    /\ c # Path(l) => N[1][l][c] = N[2][l][c]

\* The last node of the path is the active block.
Follows(N, B) ==
  index # -1 => \A p \in Party : /\ N[p][Len(Z)][Path(Len(Z))] = active[p]
                                 /\ B[p][Len(Z)][Path(Len(Z))] <=> control[p]

\* The level that party p expands next, and the control bits of the level above.
Expanding(n, b, p) ==
  \A c \in Cell : c < BlocksAt(level[p]) =>
    /\ data[p][front[p]][c] = Raw(n, LevelOf(p), c)
    /\ LevelOf(p) > 0 => (bits[p][back(p)][c \div 2] <=> b[LevelOf(p) - 1][c \div 2])

Expanded(n, b, p) ==
  \A c \in Cell : c < size =>
    data[p]["output"][c] = n[Levels][c] /\ (bits[p]["output"][c] <=> b[Levels][c])

Reference(N, B) ==
  /\ \A p \in Party : \A l \in 0 .. Len(Z) : Grown(N[p], B[p], l)
  /\ \A l \in 0 .. Len(Z) : Agree(N, B, l)
  /\ Follows(N, B)
  /\ \A p \in Party : IF task[p]["expand"] = "done" THEN Expanded(N[p], B[p], p)
                      ELSE Expanding(N[p], B[p], p)

TreeInv == \E N \in Trees, B \in BitTrees : Reference(N, B)

\* An element of a tree.
LEMMA TreeNode ==
  ASSUME NEW N \in Trees, NEW B \in BitTrees, NEW p \in Party, NEW l \in Nat, NEW c \in Cell
  PROVE  N[p][l][c] \in Block /\ B[p][l][c] \in BOOLEAN
  BY DEF Trees, BitTrees

\* A node that is not corrected yet is a block.
LEMMA RawNode ==
  ASSUME NEW N \in Trees, NEW p \in Party, NEW l \in Nat, NEW c \in Cell
  PROVE  Raw(N[p], l, c) \in Block
  <1>1. CASE l = 0
    BY <1>1 DEF Raw, Trees
  <1>2. CASE l # 0
    <2>1. l - 1 \in Nat /\ c \div 2 \in Cell /\ c % 2 \in Side
      BY <1>2, ParentOf
    <2>2. N[p][l - 1][c \div 2] \in Block
      BY <2>1 DEF Trees
    <2> QED BY <1>2, <2>1, <2>2, PRGAssumption DEF Raw
  <1> QED BY <1>1, <1>2

-----------------------------------------------------------------------------
\* The first states: the tree has the level that both parties start from.
LEMMA TreeInit == Init => TreeInv
  <1> SUFFICES ASSUME Init PROVE TreeInv
    OBVIOUS
  <1>1. CountInv
    BY CountInit
  <1> DEFINE N == [p \in Party |-> [l \in Nat |-> data[p]["level"]]]
             B == [p \in Party |-> [l \in Nat |-> [c \in Cell |-> Bit(data[p]["level"][c])]]]
  <1>2. N \in Trees /\ B \in BitTrees
    <2>1. \A p \in Party : data[p]["level"] \in [Cell -> Block]
      BY <1>1 DEF CountInv, TreeType, Buffer
    <2>2. \A x \in Block : Bit(x) \in BOOLEAN
      BY DEF Bit
    <2>3. N \in Trees
      BY <2>1 DEF Trees
    <2>4. B \in BitTrees
      <3>1. \A p \in Party : \A c \in Cell : Bit(data[p]["level"][c]) \in BOOLEAN
        BY DEF Bit
      <3> QED BY <3>1 DEF BitTrees
    <2> QED BY <2>3, <2>4
  <1>3. \A p \in Party : \A c \in Cell :
          /\ N[p][0][c] = data[p]["level"][c] /\ B[p][0][c] = Bit(data[p]["level"][c])
    OBVIOUS
  <1>4. /\ Len(Z) = 0 /\ 0 .. Len(Z) = {0}
        /\ \A p \in Party : /\ LevelOf(p) = 0 /\ front[p] = "level"
                            /\ task[p]["expand"] # "done"
    <2>1. Z = <<>> /\ startlevel \in Nat
      BY <1>1, SizeFacts DEF Init, CountInv
    <2> QED BY <2>1 DEF Init, LevelOf, Task
  <1>5. PICK top \in [0 .. Pow2[startlevel] - 1 -> Roots], other \in Roots :
          LET onpath == index \div Pow2[Levels] IN
          /\ index # -1 => Bit(other) # Bit(top[onpath])
          /\ active = <<IF index = -1 THEN Zero ELSE top[onpath], other>>
          /\ control = [p \in Party |-> Bit(active[p])]
          /\ data = [p \in Party |-> [m \in Buffer |-> [c \in Cell |->
                       IF m = "output" \/ c \notin DOMAIN top THEN Zero
                       ELSE IF c = onpath THEN active[p] ELSE top[c]]]]
    BY DEF Init
  <1>6. /\ index \div Pow2[Levels] = Path(0)
        /\ index # -1 => Path(0) \in DOMAIN top /\ Path(0) \in Cell
        /\ index = -1 => Path(0) \notin Cell
    <2>1. Levels - 0 = Levels /\ Levels \in Nat /\ size <= MaxSize /\ MaxSize \in Nat
          /\ size \in Nat
      BY <1>1, SizeFacts DEF CountInv
    <2>2. 0 \in 0 .. Levels
      BY <2>1
    <2>3. /\ index = -1 => Path(0) = -1
          /\ index # -1 => Path(0) \in 0 .. size - 1 /\ Path(0) \in 0 .. Pow2[startlevel] - 1
      BY <1>1, <2>2, PathFacts DEF CountInv
    <2>4. index \div Pow2[Levels] = Path(0)
      BY <2>1 DEF Path
    <2> QED BY <2>1, <2>3, <2>4 DEF Cell
  <1>7. \A p \in Party : \A c \in Cell :
          data[p]["level"][c] = IF c \notin DOMAIN top THEN Zero
                                ELSE IF c = Path(0) THEN active[p] ELSE top[c]
    BY <1>5, <1>6 DEF Buffer
  <1>8. /\ index # -1 => Bit(active[1]) # Bit(active[2])
        /\ \A p \in Party : control[p] = Bit(active[p])
    BY <1>5, <1>6
  <1> HIDE DEF N, B
  <1>9. \A p \in Party : Grown(N[p], B[p], 0)
    <2>1. \A p \in Party : \A c \in Cell :
            Corrects(B[p], 0, c) = FALSE /\ Raw(N[p], 0, c) = N[p][0][c]
      BY DEF Corrects, Raw
    <2>2. \A x : Bit(x) \in BOOLEAN
      BY DEF Bit
    <2> QED BY <1>3, <2>1, <2>2 DEF Grown
  <1>10. Agree(N, B, 0)
    <2> SUFFICES ASSUME NEW c \in Cell
                 PROVE  /\ (B[1][0][c] # B[2][0][c]) <=> c = Path(0)
                        /\ c # Path(0) => N[1][0][c] = N[2][0][c]
      BY DEF Agree
    <2>1. 1 \in Party /\ 2 \in Party
      BY DEF Party
    <2>2. CASE c = Path(0)
      BY <2>1, <2>2, <1>3, <1>6, <1>7, <1>8
    <2>3. CASE c # Path(0)
      BY <2>1, <2>3, <1>3, <1>7
    <2> QED BY <2>2, <2>3
  <1>11. Follows(N, B)
    BY <1>3, <1>4, <1>6, <1>7, <1>8 DEF Follows
  <1>12. \A p \in Party : Expanding(N[p], B[p], p)
    BY <1>3, <1>4 DEF Expanding, Raw
  <1>13. Reference(N, B)
    BY <1>4, <1>9, <1>10, <1>11, <1>12 DEF Reference
  <1> QED BY <1>2, <1>13 DEF TreeInv

\* Steps that neither follow the path nor expand.
LEMMA TreeKept ==
  ASSUME UNCHANGED <<shape, active, control, Z, advice, tree>>,
         \A p \in Party : task'[p]["expand"] = "done" <=> task[p]["expand"] = "done"
  PROVE  TreeInv => TreeInv'
  <1> SUFFICES ASSUME NEW N \in Trees, NEW B \in BitTrees, Reference(N, B) PROVE Reference(N, B)'
    BY DEF TreeInv
  <1>1. /\ active' = active /\ control' = control /\ Z' = Z /\ advice' = advice
        /\ level' = level /\ front' = front /\ data' = data /\ bits' = bits
        /\ size' = size /\ index' = index /\ endlevel' = endlevel /\ startlevel' = startlevel
    BY DEF tree, shape
  <1>2. Levels' = Levels
    BY <1>1 DEF Levels
  <1>3. \A p \in Party : \A l \in 0 .. Len(Z') : Grown(N[p], B[p], l)'
    BY <1>1 DEF Reference, Grown
  <1>4. \A l \in 0 .. Len(Z') : Agree(N, B, l)'
    BY <1>1, <1>2 DEF Reference, Agree, Path
  <1>5. Follows(N, B)'
    BY <1>1, <1>2 DEF Reference, Follows, Path
  <1>6. \A p \in Party : /\ Expanded(N[p], B[p], p)' <=> Expanded(N[p], B[p], p)
                         /\ Expanding(N[p], B[p], p)' <=> Expanding(N[p], B[p], p)
    BY <1>1, <1>2 DEF Expanded, Expanding, LevelOf, BlocksAt, back
  <1> QED BY <1>3, <1>4, <1>5, <1>6 DEF Reference

-----------------------------------------------------------------------------
\* What has been expanded is the tree: the nodes that a level corrects.
LEMMA NodeIs ==
  ASSUME CountInv, NEW N \in Trees, NEW B \in BitTrees, Reference(N, B), NEW p \in Party,
         HasCorrection(p), task[p]["expand"] # "done", NEW c \in Cell, c < BlocksAt(level[p])
  PROVE  node(p, c) = N[p][LevelOf(p)][c] /\ (nodebit(p, c) <=> B[p][LevelOf(p)][c])
  <1> DEFINE l == LevelOf(p)
  <1>1. /\ l \in Nat /\ l \in 0 .. Len(Z) /\ (level[p] > startlevel <=> l > 0)
    BY LevelFacts
  <1>2. Expanding(N[p], B[p], p) /\ Grown(N[p], B[p], l)
    BY <1>1 DEF Reference
  <1>3. data[p][front[p]][c] = Raw(N[p], l, c)
    BY <1>2 DEF Expanding
  <1>4. parentbit(p, c) <=> Corrects(B[p], l, c)
    BY <1>1, <1>2 DEF parentbit, Corrects, Expanding
  <1>5. Corrects(B[p], l, c) => correction(p).Z = Z[l] /\ correction(p).advice = advice[l]
    BY CorrectionIs DEF Corrects
  <1>6. /\ N[p][l][c] = IF Corrects(B[p], l, c) THEN Xor(Raw(N[p], l, c), Z[l])
                        ELSE Raw(N[p], l, c)
        /\ B[p][l][c] <=> (Bit(Raw(N[p], l, c)) # (Corrects(B[p], l, c) /\ advice[l][c % 2]))
    BY <1>2 DEF Grown
  <1> HIDE DEF l
  <1>7. node(p, c) = N[p][l][c]
    BY <1>3, <1>4, <1>5, <1>6 DEF node
  <1>8. nodebit(p, c) <=> B[p][l][c]
    BY <1>3, <1>4, <1>5, <1>6 DEF nodebit
  <1> QED BY <1>7, <1>8 DEF l

\* fss_offline_readblockvector expands the tree.
LEMMA ExpandTree ==
  ASSUME CountInv, TreeInv, NEW p \in Party, ExpandLevel(p) \/ ExpandLeaves(p) PROVE TreeInv'
  <1>1. PICK N \in Trees, B \in BitTrees : Reference(N, B)
    BY DEF TreeInv
  <1>2. /\ UNCHANGED shape /\ active' = active /\ control' = control /\ Z' = Z /\ advice' = advice
        /\ HasCorrection(p) /\ task[p]["expand"] # "done"
    BY DEF ExpandLevel, ExpandLeaves, online, Running
  <1>3. /\ size' = size /\ index' = index /\ endlevel' = endlevel /\ startlevel' = startlevel
        /\ Levels' = Levels
    BY <1>2, SameShape
  <1>4. \A q \in Party : \A l \in 0 .. Len(Z') : Grown(N[q], B[q], l)'
    BY <1>1, <1>2 DEF Reference, Grown
  <1>5. \A l \in 0 .. Len(Z') : Agree(N, B, l)'
    BY <1>1, <1>2, <1>3 DEF Reference, Agree, Path
  <1>6. Follows(N, B)'
    BY <1>1, <1>2, <1>3 DEF Reference, Follows, Path
  <1>7. /\ front \in [Party -> Buffer] /\ level \in [Party -> startlevel .. endlevel]
        /\ task \in [Party -> [Task -> {"created", "master", "other", "done"}]]
    BY DEF CountInv, TaskInv, TreeType
  <1>8. \A q \in Party : IF task[q]["expand"] = "done" THEN Expanded(N[q], B[q], q)
                         ELSE Expanding(N[q], B[q], q)
    BY <1>1 DEF Reference
  <1>9. ASSUME NEW q \in Party, q # p
        PROVE  IF task'[q]["expand"] = "done" THEN Expanded(N[q], B[q], q)'
               ELSE Expanding(N[q], B[q], q)'
    <2>1. /\ data'[q] = data[q] /\ bits'[q] = bits[q]
      BY <1>9, ExpandLevelIs, ExpandLeavesIs
    <2>2. /\ level'[q] = level[q] /\ front'[q] = front[q]
          /\ task'[q] = task[q]
      BY <1>7, <1>9 DEF ExpandLevel, ExpandLeaves
    <2>3. /\ Expanded(N[q], B[q], q)' <=> Expanded(N[q], B[q], q)
          /\ Expanding(N[q], B[q], q)' <=> Expanding(N[q], B[q], q)
      BY <1>3, <2>1, <2>2 DEF Expanded, Expanding, LevelOf, BlocksAt, back
    <2> QED BY <1>8, <2>2, <2>3
  <1>10. ASSUME ExpandLevel(p)
         PROVE  Expanding(N[p], B[p], p)' /\ task' = task
    <2> DEFINE l == LevelOf(p)
    <2>1. /\ level'[p] = level[p] + 1 /\ front'[p] = back(p) /\ task' = task
          /\ level[p] < endlevel
      BY <1>7, <1>10 DEF ExpandLevel
    <2>2. /\ l \in Nat /\ level[p] \in 0 .. endlevel /\ level[p] + 1 \in 1 .. endlevel
          /\ (level[p] + 1) - 1 = level[p] /\ endlevel \in Nat
      BY <2>1, LevelFacts
    <2>3. LevelOf(p)' = l + 1 /\ l + 1 > 0 /\ l + 1 # 0 /\ (l + 1) - 1 = l
      <3>1. LevelOf(p)' = (level[p] + 1) - startlevel
        <4>1. LevelOf(p)' = level'[p] - startlevel'
          BY DEF LevelOf
        <4> QED BY <4>1, <2>1, <1>3
      <3> QED BY <3>1, LevelFacts
    <2>4. back(p)' = front[p]
      <3>1. back(p)' = IF front'[p] = "level" THEN "output" ELSE "level"
        BY DEF back
      <3> QED BY <3>1, <2>1, <1>7 DEF back, Buffer
    <2>5. BlocksAt(level[p])' = BlocksAt(level[p] + 1)
      <3>1. BlocksAt(level[p])' = (size' + Pow2[endlevel' - level'[p]] - 1)
                                     \div Pow2[endlevel' - level'[p]]
        BY DEF BlocksAt
      <3> QED BY <3>1, <2>1, <1>3 DEF BlocksAt
    <2>6. ASSUME NEW c \in Cell, c < BlocksAt(level[p] + 1)
          PROVE  /\ data'[p][back(p)][c] = Raw(N[p], l + 1, c)
                 /\ bits'[p][front[p]][c \div 2] <=> B[p][l][c \div 2]
      <3>1. c \div 2 \in Cell /\ c \div 2 < BlocksAt(level[p])
        <4>1. BlocksAt(level[p] + 1) \in Nat /\ BlocksAt(level[p]) \in Nat
          BY <2>2, BlocksFacts DEF CountInv
        <4>2. BlocksAt(level[p] + 1) <= 2 * BlocksAt(level[p])
          BY <2>2, BlocksFacts DEF CountInv
        <4> QED BY <2>6, <4>1, <4>2, ParentOf
      <3>2. /\ node(p, c \div 2) = N[p][l][c \div 2]
            /\ nodebit(p, c \div 2) <=> B[p][l][c \div 2]
        BY <1>1, <1>2, <3>1, NodeIs
      <3>3. data'[p][back(p)][c] = PRG[c % 2][node(p, c \div 2)]
        BY <1>10, <2>6, ExpandLevelIs
      <3>4. bits'[p][front[p]][c \div 2] = nodebit(p, c \div 2)
        BY <1>10, <3>1, ExpandLevelIs
      <3> HIDE DEF l
      <3>5. Raw(N[p], l + 1, c) = PRG[c % 2][N[p][l][c \div 2]]
        BY <2>3 DEF Raw
      <3> QED BY <3>2, <3>3, <3>4, <3>5
    <2>7. Expanding(N[p], B[p], p)'
      <3> SUFFICES ASSUME NEW c \in Cell, c < BlocksAt(level[p] + 1)
                   PROVE  /\ data'[p][front'[p]][c] = Raw(N[p], l + 1, c)
                          /\ bits'[p][front[p]][c \div 2] <=> B[p][(l + 1) - 1][c \div 2]
        <4> HIDE DEF l
        <4> QED BY <2>3, <2>4, <2>5 DEF Expanding
      <3> QED BY <2>1, <2>3, <2>6
    <2> QED BY <1>2, <2>1, <2>7
  <1>11. ASSUME ExpandLeaves(p)
         PROVE  Expanded(N[p], B[p], p)' /\ task'[p]["expand"] = "done"
    <2>1. level[p] = endlevel /\ task'[p]["expand"] = "done" /\ LevelOf(p) = Levels
          /\ BlocksAt(level[p]) = size
      BY <1>7, <1>11, LevelFacts, BlocksFacts DEF ExpandLeaves, CountInv, Task
    <2>2. ASSUME NEW c \in Cell, c < size
          PROVE  /\ data'[p]["output"][c] = N[p][Levels][c]
                 /\ bits'[p]["output"][c] <=> B[p][Levels][c]
      <3>1. node(p, c) = N[p][Levels][c] /\ (nodebit(p, c) <=> B[p][Levels][c])
        BY <1>1, <1>2, <2>1, <2>2, NodeIs
      <3> QED BY <3>1, <2>2, <1>11, ExpandLeavesIs
    <2>3. Expanded(N[p], B[p], p)'
      BY <1>3, <2>2 DEF Expanded
    <2> QED BY <2>1, <2>3
  <1>12. IF task'[p]["expand"] = "done" THEN Expanded(N[p], B[p], p)'
         ELSE Expanding(N[p], B[p], p)'
    BY <1>2, <1>10, <1>11
  <1>13. Reference(N, B)'
    BY <1>4, <1>5, <1>6, <1>9, <1>12 DEF Reference
  <1> QED BY <1>13 DEF TreeInv

-----------------------------------------------------------------------------
\* Of two blocks, the one that is corrected by their difference becomes the other.
LEMMA CorrectOne ==
  ASSUME NEW x \in Block, NEW y \in Block, NEW a \in BOOLEAN, NEW b \in BOOLEAN, a # b
  PROVE  (IF a THEN Xor(x, Xor(x, y)) ELSE x) = (IF b THEN Xor(y, Xor(x, y)) ELSE y)
  <1>1. Xor(x, Xor(x, y)) = y /\ Xor(y, Xor(x, y)) = x
    BY DEF Xor, Block
  <1> QED BY <1>1

\* The level that fss_traverselevels computes next, and the child on the path.
next == Len(Z) + 1
turn == levelindex(next)

\* The nodes of that level in party q, and their control bits.
rawnode(N, q, c) == PRG[c % 2][N[q][Len(Z)][c \div 2]]
newnode(N, B, q, c) ==
  IF B[q][Len(Z)][c \div 2] THEN Xor(rawnode(N, q, c), difference(1 - turn)) ELSE rawnode(N, q, c)
newbit(N, B, q, c) ==
  Bit(rawnode(N, q, c)) # (B[q][Len(Z)][c \div 2] /\ adviceof(next)[c % 2])

\* What Follow makes of the active blocks and their control bits.
newactive(q) ==
  IF control[q] THEN Xor(children(q, turn), difference(1 - turn)) ELSE children(q, turn)
newcontrol(q) == Bit(children(q, turn)) # (control[q] /\ adviceof(next)[turn])

\* The next level exists, and Follow takes the path to it.
LEMMA NextFacts ==
  ASSUME CountInv, Len(Z) < Levels
  PROVE  /\ Len(Z) \in Nat /\ Len(Z) \in 0 .. Levels /\ next \in 1 .. Levels /\ next - 1 = Len(Z)
         /\ turn \in Side /\ 1 - turn \in Side
         /\ Path(Len(Z)) \in Int /\ Path(next) = 2 * Path(Len(Z)) + turn
         /\ \A q \in Party : \A s \in Side : children(q, s) \in Block
         /\ \A s \in Side : difference(s) \in Block
  <1>1. Len(Z) \in Nat /\ Levels \in Nat
    BY Counters
  <1>2. next \in 1 .. Levels /\ next - 1 = Len(Z) /\ Len(Z) \in 0 .. Levels
    BY <1>1 DEF next
  <1>3. /\ turn \in Side /\ Path(Len(Z)) \in Int /\ Path(next) = 2 * Path(Len(Z)) + turn
    <2>1. /\ levelindex(next) \in Side /\ Path(next - 1) \in Int
          /\ Path(next) = 2 * Path(next - 1) + levelindex(next)
      BY <1>2, PathStep DEF CountInv
    <2> QED BY <1>2, <2>1 DEF turn
  <1>4. 1 - turn \in Side
    BY <1>3 DEF Side
  <1>5. \A q \in Party : \A s \in Side : children(q, s) \in Block
    BY PRGAssumption DEF children, CountInv, OnlineInv
  <1>6. \A s \in Side : difference(s) \in Block
    BY <1>5, XorFacts DEF difference, Party
  <1> QED BY <1>1, <1>2, <1>3, <1>4, <1>5, <1>6

(***************************************************************************)
(* The next level keeps what makes the trees a shared point function: the  *)
(* children of equal nodes are equal, and of the two children of the node  *)
(* on the path the correction makes one equal, with equal bits, and leaves *)
(* the other, which is on the path, with bits that differ.                 *)
(***************************************************************************)
LEMMA NextLevel ==
  ASSUME CountInv, Len(Z) < Levels, NEW N \in Trees, NEW B \in BitTrees, Reference(N, B),
         NEW c \in Cell
  PROVE  /\ (newbit(N, B, 1, c) # newbit(N, B, 2, c)) <=> c = Path(next)
         /\ c # Path(next) => newnode(N, B, 1, c) = newnode(N, B, 2, c)
         /\ c = Path(next) => \A q \in Party : /\ newnode(N, B, q, c) = newactive(q)
                                               /\ newbit(N, B, q, c) = newcontrol(q)
  <1> DEFINE d == c \div 2
             s == c % 2
             l == Len(Z)
  <1>1. d \in Cell /\ s \in Side
    BY ParentOf
  <1>2. c = Path(next) <=> d = Path(l) /\ s = turn
    <2>1. Path(l) \in Int /\ turn \in Side /\ Path(next) = 2 * Path(l) + turn
      BY NextFacts
    <2>2. c = 2 * Path(l) + turn <=> d = Path(l) /\ s = turn
      BY <2>1, OnSide
    <2> QED BY <2>1, <2>2
  <1>3. /\ (B[1][l][d] # B[2][l][d]) <=> d = Path(l)
        /\ d # Path(l) => N[1][l][d] = N[2][l][d]
    <2>1. l \in 0 .. Len(Z)
      BY NextFacts
    <2> QED BY <1>1, <2>1 DEF Reference, Agree
  <1>4. \A q \in Party : N[q][l][d] \in Block /\ B[q][l][d] \in BOOLEAN
    BY <1>1, NextFacts, TreeNode
  <1>5. 1 \in Party /\ 2 \in Party
    BY DEF Party
  <1>6. ASSUME d # Path(l)
        PROVE  /\ newbit(N, B, 1, c) = newbit(N, B, 2, c)
               /\ newnode(N, B, 1, c) = newnode(N, B, 2, c)
    <2>1. rawnode(N, 1, c) = rawnode(N, 2, c)
      BY <1>3, <1>6 DEF rawnode
    <2>2. B[1][l][d] = B[2][l][d]
      BY <1>3, <1>4, <1>5, <1>6
    <2> QED BY <2>1, <2>2 DEF newbit, newnode
  <1>7. ASSUME d = Path(l)
        PROVE  \A q \in Party : /\ rawnode(N, q, c) = children(q, s)
                                /\ B[q][l][d] = control[q] /\ control[q] \in BOOLEAN
    <2>1. index # -1
      <3>1. index = -1 => Path(l) = -1
        BY NextFacts, PathFacts DEF CountInv
      <3>2. -1 \notin Cell
        BY SizeAssumption DEF Cell
      <3> QED BY <1>1, <1>7, <3>1, <3>2
    <2>2. \A q \in Party : N[q][l][d] = active[q] /\ (B[q][l][d] <=> control[q])
      BY <1>7, <2>1 DEF Reference, Follows
    <2>3. \A q \in Party : control[q] \in BOOLEAN
      BY DEF CountInv, OnlineInv
    <2> QED BY <1>4, <2>2, <2>3 DEF rawnode, children
  <1>8. ASSUME d = Path(l), s = turn
        PROVE  /\ newbit(N, B, 1, c) # newbit(N, B, 2, c)
               /\ \A q \in Party : /\ newnode(N, B, q, c) = newactive(q)
                                   /\ newbit(N, B, q, c) = newcontrol(q)
    <2>1. \A q \in Party : /\ newnode(N, B, q, c) = newactive(q)
                           /\ newbit(N, B, q, c) = newcontrol(q)
      BY <1>7, <1>8 DEF newnode, newbit, newactive, newcontrol
    <2>2. adviceof(next)[turn] <=> (Bit(children(1, turn)) = Bit(children(2, turn)))
      <3>1. adviceof(next)[turn] <=> ~ Bit(difference(turn))
        BY NextFacts, AdviceFacts DEF turn
      <3>2. Bit(difference(turn)) <=> (Bit(children(1, turn)) # Bit(children(2, turn)))
        BY NextFacts, XorFacts, <1>5 DEF difference
      <3> QED BY <3>1, <3>2
    <2>3. control[1] # control[2] /\ control[1] \in BOOLEAN /\ control[2] \in BOOLEAN
      BY <1>3, <1>5, <1>7, <1>8
    <2>4. Bit(children(1, turn)) \in BOOLEAN /\ Bit(children(2, turn)) \in BOOLEAN
      BY DEF Bit
    <2>5. newcontrol(1) # newcontrol(2)
      BY <2>2, <2>3, <2>4 DEF newcontrol
    <2> QED BY <1>5, <2>1, <2>5
  <1>9. ASSUME d = Path(l), s # turn
        PROVE  /\ newbit(N, B, 1, c) = newbit(N, B, 2, c)
               /\ newnode(N, B, 1, c) = newnode(N, B, 2, c)
    <2>1. s = 1 - turn
      BY <1>9, NextFacts, OnSide
    <2>2. control[1] # control[2] /\ control[1] \in BOOLEAN /\ control[2] \in BOOLEAN
      BY <1>3, <1>5, <1>7, <1>9
    <2>3. /\ children(1, s) \in Block /\ children(2, s) \in Block
          /\ difference(s) = Xor(children(1, s), children(2, s))
      BY <1>1, <1>5, NextFacts DEF difference
    <2>4. \A q \in Party : /\ newnode(N, B, q, c) = IF control[q]
                                                    THEN Xor(children(q, s), difference(s))
                                                    ELSE children(q, s)
                           /\ newbit(N, B, q, c) = (Bit(children(q, s)) #
                                                      (control[q] /\ adviceof(next)[s]))
      BY <1>7, <1>9, <2>1 DEF newnode, newbit
    <2>5. newnode(N, B, 1, c) = newnode(N, B, 2, c)
      <3> HIDE DEF s
      <3> QED BY <1>5, <2>2, <2>3, <2>4, CorrectOne
    <2>6. newbit(N, B, 1, c) = newbit(N, B, 2, c)
      <3>1. adviceof(next)[s] <=> Bit(difference(s))
        BY <2>1, NextFacts, AdviceFacts DEF turn
      <3>2. Bit(difference(s)) <=> (Bit(children(1, s)) # Bit(children(2, s)))
        BY <2>3, XorFacts
      <3>3. Bit(children(1, s)) \in BOOLEAN /\ Bit(children(2, s)) \in BOOLEAN
        BY DEF Bit
      <3> HIDE DEF s
      <3> QED BY <1>5, <2>2, <2>4, <3>1, <3>2, <3>3
    <2> QED BY <2>5, <2>6
  <1> HIDE DEF d, s, l
  <1> QED BY <1>2, <1>6, <1>8, <1>9

\* fss_traverselevels grows the tree.
LEMMA TraverseTree == ASSUME CountInv, TreeInv, NEW p \in Party, TraverseLevel(p) PROVE TreeInv'
  <1>1. CASE p = 2
    <2>1. /\ UNCHANGED <<active, control, Z, advice>> /\ UNCHANGED shape /\ UNCHANGED tree
          /\ task' = task
      BY <1>1 DEF TraverseLevel
    <2> QED BY <2>1, TreeKept
  <1>2. CASE p = 1
    <2>1. PICK N \in Trees, B \in BitTrees : Reference(N, B)
      BY DEF TreeInv
    <2>2. /\ Len(Z) < Levels /\ next = readycount[1] + 1 /\ Follow(next)
          /\ UNCHANGED shape /\ UNCHANGED <<level, front, data, bits>> /\ task' = task
      BY <1>2, Counters DEF TraverseLevel, CanTraverse, next, tree
    <2>3. /\ Z' = Append(Z, difference(1 - turn)) /\ advice' = Append(advice, adviceof(next))
          /\ \A q \in Party : active'[q] = newactive(q) /\ control'[q] = newcontrol(q)
      BY <2>2, NextFacts, FollowIs DEF turn, newactive, newcontrol
    <2>4. /\ Len(Z') = next /\ Z'[next] = difference(1 - turn)
          /\ \A k \in 1 .. Len(Z) : Z'[k] = Z[k]
      <3>1. Z \in Seq(Block) /\ difference(1 - turn) \in Block
        BY <2>2, NextFacts DEF CountInv, OnlineInv
      <3> QED BY <2>3, <3>1, Appended DEF next
    <2>5. /\ advice'[next] = adviceof(next)
          /\ \A k \in 1 .. Len(Z) : advice'[k] = advice[k]
      <3> DEFINE S == [Side -> BOOLEAN]
                 a == adviceof(next)
      <3>1. advice \in Seq(S) /\ Len(advice) = Len(Z)
        BY DEF CountInv, OnlineInv
      <3>2. a \in S
        BY <2>2, NextFacts, AdviceFacts DEF turn
      <3> HIDE DEF S, a
      <3>3. advice' = Append(advice, a)
        BY <2>3 DEF a
      <3> QED BY <3>1, <3>2, <3>3, Appended DEF next, a
    <2>6. /\ next \in Nat /\ next # 0 /\ next > 0 /\ next - 1 = Len(Z) /\ Len(Z) \in Nat
          /\ \A k \in 0 .. Len(Z) : k # next /\ k \in Nat
          /\ \A k \in 0 .. next : k = next \/ k \in 0 .. Len(Z)
          /\ next \in 0 .. next
      BY <2>2, NextFacts DEF next
    <2>7. \E M \in Trees, C \in BitTrees : \A q \in Party :
            /\ \A k \in 0 .. Len(Z) : M[q][k] = N[q][k] /\ C[q][k] = B[q][k]
            /\ \A c \in Cell : /\ M[q][next][c] = newnode(N, B, q, c)
                              /\ C[q][next][c] = newbit(N, B, q, c)
      <3> DEFINE n == [q \in Party |-> [c \in Cell |-> newnode(N, B, q, c)]]
                 b == [q \in Party |-> [c \in Cell |-> newbit(N, B, q, c)]]
                 M == [q \in Party |-> [N[q] EXCEPT ![next] = n[q]]]
                 C == [q \in Party |-> [B[q] EXCEPT ![next] = b[q]]]
      <3>1. ASSUME NEW q \in Party, NEW c \in Cell
            PROVE  newnode(N, B, q, c) \in Block /\ newbit(N, B, q, c) \in BOOLEAN
        <4>1. c \div 2 \in Cell /\ c % 2 \in Side
          BY ParentOf
        <4>2. rawnode(N, q, c) \in Block
          BY <2>6, <4>1, TreeNode, PRGAssumption DEF rawnode
        <4>3. newnode(N, B, q, c) \in Block
          BY <2>2, <4>2, NextFacts, XorFacts DEF newnode
        <4> QED BY <4>3 DEF newbit
      <3>2. \A q \in Party : n[q] \in [Cell -> Block] /\ b[q] \in [Cell -> BOOLEAN]
        BY <3>1
      <3>3. \A q \in Party : /\ N[q] \in [Nat -> [Cell -> Block]]
                             /\ B[q] \in [Nat -> [Cell -> BOOLEAN]]
        BY DEF Trees, BitTrees
      <3>4. \A q \in Party : \A c \in Cell : /\ n[q][c] = newnode(N, B, q, c)
                                             /\ b[q][c] = newbit(N, B, q, c)
        OBVIOUS
      <3> HIDE DEF n, b
      <3>5. \A q \in Party : /\ [N[q] EXCEPT ![next] = n[q]] \in [Nat -> [Cell -> Block]]
                             /\ [B[q] EXCEPT ![next] = b[q]] \in [Nat -> [Cell -> BOOLEAN]]
        BY <2>6, <3>2, <3>3
      <3>6. M \in Trees /\ C \in BitTrees
        BY <3>5 DEF Trees, BitTrees
      <3>7. \A q \in Party : /\ \A k \in 0 .. Len(Z) : M[q][k] = N[q][k] /\ C[q][k] = B[q][k]
                             /\ M[q][next] = n[q] /\ C[q][next] = b[q]
        BY <2>6, <3>3
      <3> HIDE DEF M, C
      <3>8. \A q \in Party : \A c \in Cell : /\ M[q][next][c] = newnode(N, B, q, c)
                                             /\ C[q][next][c] = newbit(N, B, q, c)
        BY <3>4, <3>7
      <3> QED BY <3>6, <3>7, <3>8
    <2>8. PICK M \in Trees, C \in BitTrees : \A q \in Party :
            /\ \A k \in 0 .. Len(Z) : M[q][k] = N[q][k] /\ C[q][k] = B[q][k]
            /\ \A c \in Cell : /\ M[q][next][c] = newnode(N, B, q, c)
                              /\ C[q][next][c] = newbit(N, B, q, c)
      BY <2>7
    <2>9. PICK h \in Nat : h = next
      BY <2>6
    <2>10. /\ size' = size /\ index' = index /\ startlevel' = startlevel /\ endlevel' = endlevel
           /\ Levels' = Levels
           /\ \A k \in Int : Path(k)' = Path(k)
           /\ \A k \in Int : BlocksAt(k)' = BlocksAt(k)
      BY <2>2, SameShape
    <2>11. ASSUME NEW q \in Party, NEW k \in 0 .. Len(Z)
           PROVE  /\ \A c \in Cell : Raw(M[q], k, c) = Raw(N[q], k, c)
                  /\ \A c \in Cell : Corrects(C[q], k, c) = Corrects(B[q], k, c)
      <3>1. k # 0 => k - 1 \in 0 .. Len(Z)
        BY <2>6
      <3>2. 0 \in 0 .. Len(Z) /\ k \in Nat
        BY <2>6
      <3> QED BY <3>1, <3>2, <2>8 DEF Raw, Corrects
    <2>12. ASSUME NEW q \in Party, NEW c \in Cell
           PROVE  /\ Raw(M[q], next, c) = rawnode(N, q, c)
                  /\ Corrects(C[q], next, c) <=> B[q][Len(Z)][c \div 2]
      <3>1. Len(Z) \in 0 .. Len(Z)
        BY <2>6
      <3> QED BY <2>6, <2>8, <3>1 DEF Raw, Corrects, rawnode
    <2>13. \A q \in Party : \A k \in 0 .. Len(Z') : Grown(M[q], C[q], k)'
      <3>1. ASSUME NEW q \in Party, NEW k \in 0 .. Len(Z) PROVE Grown(M[q], C[q], k)'
        <4>1. Grown(N[q], B[q], k)
          BY <2>1 DEF Reference
        <4>2. k > 0 => Z'[k] = Z[k] /\ advice'[k] = advice[k]
          BY <2>4, <2>5, <2>6
        <4>3. \A c \in Cell : Corrects(B[q], k, c) => k > 0
          BY DEF Corrects
        <4> SUFFICES ASSUME NEW c \in Cell
                     PROVE  /\ M[q][k][c] = IF Corrects(C[q], k, c)
                                            THEN Xor(Raw(M[q], k, c), Z'[k]) ELSE Raw(M[q], k, c)
                            /\ C[q][k][c] <=>
                                 (Bit(Raw(M[q], k, c)) # (Corrects(C[q], k, c) /\ advice'[k][c % 2]))
          BY DEF Grown
        <4>4. Raw(M[q], k, c) = Raw(N[q], k, c) /\ Corrects(C[q], k, c) = Corrects(B[q], k, c)
          BY <2>11
        <4>5. M[q][k] = N[q][k] /\ C[q][k] = B[q][k]
          BY <2>8
        <4>6. /\ N[q][k][c] = IF Corrects(B[q], k, c) THEN Xor(Raw(N[q], k, c), Z[k])
                              ELSE Raw(N[q], k, c)
              /\ B[q][k][c] <=>
                   (Bit(Raw(N[q], k, c)) # (Corrects(B[q], k, c) /\ advice[k][c % 2]))
          BY <4>1 DEF Grown
        <4> QED BY <4>2, <4>3, <4>4, <4>5, <4>6
      <3>2. ASSUME NEW q \in Party PROVE Grown(M[q], C[q], h)'
        <4> SUFFICES ASSUME NEW c \in Cell
                     PROVE  /\ M[q][h][c] = IF Corrects(C[q], h, c)
                                            THEN Xor(Raw(M[q], h, c), Z'[h])
                                            ELSE Raw(M[q], h, c)
                            /\ C[q][h][c] <=>
                                 (Bit(Raw(M[q], h, c)) # (Corrects(C[q], h, c) /\ advice'[h][c % 2]))
          BY DEF Grown
        <4>1. Raw(M[q], h, c) = rawnode(N, q, c)
              /\ (Corrects(C[q], h, c) <=> B[q][Len(Z)][c \div 2])
          BY <2>9, <2>12
        <4>2. /\ M[q][h][c] = newnode(N, B, q, c) /\ C[q][h][c] = newbit(N, B, q, c)
              /\ Z'[h] = difference(1 - turn) /\ advice'[h] = adviceof(next)
          BY <2>4, <2>5, <2>8, <2>9
        <4> QED BY <4>1, <4>2 DEF newnode, newbit
      <3>3. \A k \in 0 .. Len(Z') : k = h \/ k \in 0 .. Len(Z)
        BY <2>4, <2>6, <2>9
      <3> QED BY <3>1, <3>2, <3>3
    <2>14. \A k \in 0 .. Len(Z') : Agree(M, C, k)'
      <3>1. 1 \in Party /\ 2 \in Party
        BY DEF Party
      <3>2. ASSUME NEW k \in 0 .. Len(Z) PROVE Agree(M, C, k)'
        <4>1. Agree(N, B, k) /\ Path(k)' = Path(k)
          BY <2>1, <2>6, <2>10 DEF Reference
        <4> QED BY <3>1, <4>1, <2>8 DEF Agree
      <3>3. Agree(M, C, h)'
        <4>1. Path(h)' = Path(h) /\ Path(h) = Path(next)
          BY <2>9, <2>10
        <4> SUFFICES ASSUME NEW c \in Cell
                     PROVE  /\ (C[1][h][c] # C[2][h][c]) <=> c = Path(next)
                            /\ c # Path(next) => M[1][h][c] = M[2][h][c]
          BY <4>1 DEF Agree
        <4>2. \A q \in Party : M[q][h][c] = newnode(N, B, q, c) /\ C[q][h][c] = newbit(N, B, q, c)
          BY <2>8, <2>9
        <4>3. /\ (newbit(N, B, 1, c) # newbit(N, B, 2, c)) <=> c = Path(next)
              /\ c # Path(next) => newnode(N, B, 1, c) = newnode(N, B, 2, c)
          BY <2>1, <2>2, NextLevel
        <4> QED BY <3>1, <4>2, <4>3
      <3>4. \A k \in 0 .. Len(Z') : k = h \/ k \in 0 .. Len(Z)
        BY <2>4, <2>6, <2>9
      <3> QED BY <3>2, <3>3, <3>4
    <2>15. Follows(M, C)'
      <3>0. Path(Len(Z))' = Path(next)
        <4>1. Path(h)' = Path(h)
          BY <2>10
        <4> QED BY <4>1, <2>4, <2>9 DEF Path
      <3> SUFFICES ASSUME index # -1, NEW q \in Party
                   PROVE  /\ M[q][next][Path(next)] = active'[q]
                          /\ C[q][next][Path(next)] <=> control'[q]
        BY <2>4, <2>10, <3>0 DEF Follows
      <3>1. Path(next) \in Cell
        <4>1. Path(next) \in 0 .. size - 1
          BY <2>2, NextFacts, PathFacts DEF CountInv
        <4> QED BY <4>1, SizeFacts DEF Cell, CountInv
      <3>2. newnode(N, B, q, Path(next)) = newactive(q) /\ newbit(N, B, q, Path(next)) = newcontrol(q)
        BY <2>1, <2>2, <3>1, NextLevel
      <3> QED BY <2>3, <2>8, <3>1, <3>2
    <2>16. ASSUME NEW q \in Party
           PROVE  IF task'[q]["expand"] = "done" THEN Expanded(M[q], C[q], q)'
                  ELSE Expanding(M[q], C[q], q)'
      <3>1. CASE task[q]["expand"] = "done"
        <4>1. pushed[q] = Levels
          BY <3>1 DEF CountInv, TaskInv
        <4> QED BY <4>1, <2>2, LevelFacts
      <3>2. CASE task[q]["expand"] # "done"
        <4> DEFINE k == LevelOf(q)
        <4>1. Expanding(N[q], B[q], q)
          BY <2>1, <3>2 DEF Reference
        <4>2. k \in Nat /\ k <= Len(Z) + 1
          <5>1. k <= pushed[q] + 1
            BY DEF CountInv, TaskInv
          <5> QED BY <5>1, LevelFacts
        <4>3. /\ k > 0 => k - 1 \in 0 .. Len(Z)
              /\ 0 \in 0 .. Len(Z)
          BY <4>2, <2>6
        <4>4. LevelOf(q)' = k /\ back(q)' = back(q) /\ BlocksAt(level[q])' = BlocksAt(level[q])
          <5>1. level' = level /\ front' = front
            BY <2>2
          <5>2. LevelOf(q)' = level'[q] - startlevel'
            BY DEF LevelOf
          <5>3. LevelOf(q)' = k
            BY <5>1, <5>2, <2>10 DEF LevelOf
          <5>4. back(q)' = back(q)
            BY <5>1 DEF back
          <5>5. BlocksAt(level[q])' = BlocksAt(level[q])
            BY <5>1, <2>10 DEF BlocksAt
          <5> QED BY <5>3, <5>4, <5>5
        <4>5. \A c \in Cell : Raw(M[q], k, c) = Raw(N[q], k, c)
          <5> HIDE DEF k
          <5> QED BY <4>2, <4>3, <2>8 DEF Raw
        <4>6. k > 0 => C[q][k - 1] = B[q][k - 1]
          BY <4>3, <2>8
        <4> HIDE DEF k
        <4>7. \A c \in Cell : c < BlocksAt(level[q]) =>
                /\ data[q][front[q]][c] = Raw(M[q], k, c)
                /\ k > 0 => (bits[q][back(q)][c \div 2] <=> C[q][k - 1][c \div 2])
          BY <4>1, <4>5, <4>6 DEF Expanding, k
        <4>8. Expanding(M[q], C[q], q)'
          BY <2>2, <4>4, <4>7 DEF Expanding
        <4> QED BY <2>2, <3>2, <4>8
      <3> QED BY <3>1, <3>2
    <2>17. Reference(M, C)'
      BY <2>13, <2>14, <2>15, <2>16 DEF Reference
    <2> QED BY <2>7, <2>17 DEF TreeInv
  <1> QED BY <1>1, <1>2 DEF Party

\* Every step keeps the tree.
LEMMA TreeStep == CountInv /\ TreeInv /\ [Next]_vars => TreeInv'
  <1> SUFFICES ASSUME CountInv, TreeInv, [Next]_vars PROVE TreeInv'
    OBVIOUS
  <1> DEFINE Kept == /\ UNCHANGED <<shape, active, control, Z, advice, tree>>
                     /\ \A p \in Party :
                          task'[p]["expand"] = "done" <=> task[p]["expand"] = "done"
  <1>1. Kept => TreeInv'
    BY TreeKept
  <1>2. task \in [Party -> [Task -> {"created", "master", "other", "done"}]]
    BY DEF CountInv, TaskInv
  <1>3. CASE UNCHANGED vars
    BY <1>1, <1>3 DEF vars, online
  <1>4. ASSUME NEW p \in Party, NEW a \in Task, StartTask(p, a) PROVE TreeInv'
    <2>1. UNCHANGED <<shape, active, control, Z, advice, tree>>
      BY <1>4 DEF StartTask, online
    <2>2. PICK w \in {"master", "other"} : task' = [task EXCEPT ![p][a] = w]
      BY <1>4 DEF StartTask
    <2>3. task[p][a] # "done"
      BY <1>4 DEF StartTask, CanTake
    <2>4. \A q \in Party : task'[q]["expand"] = "done" <=> task[q]["expand"] = "done"
      BY <1>2, <2>2, <2>3 DEF Task
    <2> QED BY <1>1, <2>1, <2>4
  <1>5. ASSUME NEW p \in Party, TraverseLevel(p) PROVE TreeInv'
    BY <1>5, TraverseTree
  <1>6. ASSUME NEW p \in Party, WriteZ(p) PROVE TreeInv'
    BY <1>1, <1>6 DEF WriteZ, online
  <1>7. ASSUME NEW p \in Party, CountZ(p) PROVE TreeInv'
    <2>1. UNCHANGED <<shape, active, control, Z, advice, tree>>
      BY <1>7 DEF CountZ, online
    <2>2. PICK w \in {"done", task[p]["push"]} : task' = [task EXCEPT ![p]["push"] = w]
      BY <1>7 DEF CountZ
    <2>3. \A q \in Party : task'[q]["expand"] = task[q]["expand"]
      BY <1>2, <2>2 DEF Task
    <2> QED BY <1>1, <2>1, <2>3
  <1>8. ASSUME NEW p \in Party, ExpandLevel(p) \/ ExpandLeaves(p) PROVE TreeInv'
    BY <1>8, ExpandTree
  <1>9. CASE RevealTo2 \/ RevealTo1 \/ ReceiveAnswer
    BY <1>1, <1>9 DEF RevealTo2, RevealTo1, ReceiveAnswer, online
  <1>10. CASE RevealDelta
    BY <1>1, <1>10 DEF RevealDelta, online
  <1> QED BY <1>3, <1>4, <1>5, <1>6, <1>7, <1>8, <1>9, <1>10 DEF Next

\* When both parties have joined their teams, the output is the last level of the tree.
LEMMA TreeJoined == CountInv /\ TreeInv => ExpandsPointFunction
  <1> SUFFICES ASSUME CountInv, TreeInv, \A p \in Party : Joined(p), NEW c \in 0 .. size - 1
               PROVE  /\ (bits[1]["output"][c] # bits[2]["output"][c]) <=> c = index
                      /\ Xor(data[1]["output"][c], data[2]["output"][c]) =
                           IF c = index THEN Xor(active[1], active[2]) ELSE Zero
    BY DEF ExpandsPointFunction
  <1>1. PICK N \in Trees, B \in BitTrees : Reference(N, B)
    BY DEF TreeInv
  <1>2. 1 \in Party /\ 2 \in Party
    BY DEF Party
  <1>3. Len(Z) = Levels /\ Levels \in Nat /\ Levels \in 0 .. Len(Z)
    BY <1>2, Counters DEF Joined, TraverseEnded
  <1>4. c \in Cell /\ c < size /\ c \in Nat
    BY SizeFacts DEF Cell, CountInv
  <1>5. \A p \in Party : /\ data[p]["output"][c] = N[p][Levels][c]
                         /\ bits[p]["output"][c] <=> B[p][Levels][c]
    <2>1. \A p \in Party : task[p]["expand"] = "done"
      BY DEF Joined, Task
    <2> QED BY <1>1, <1>4, <2>1 DEF Reference, Expanded
  <1>6. \A p \in Party : N[p][Levels][c] \in Block /\ bits[p]["output"][c] \in BOOLEAN
                         /\ B[p][Levels][c] \in BOOLEAN
    BY <1>3, <1>4, TreeNode DEF CountInv, TreeType, Buffer
  <1>7. /\ (B[1][Levels][c] # B[2][Levels][c]) <=> c = Path(Levels)
        /\ c # Path(Levels) => N[1][Levels][c] = N[2][Levels][c]
    BY <1>1, <1>3, <1>4 DEF Reference, Agree
  <1>8. Path(Levels) = index
    BY PathFacts DEF CountInv
  <1>9. c = index => \A p \in Party : N[p][Levels][c] = active[p]
    <2>1. c = index => index # -1
      BY <1>4
    <2> QED BY <1>1, <1>3, <1>8, <2>1 DEF Reference, Follows
  <1>10. (bits[1]["output"][c] # bits[2]["output"][c]) <=> c = index
    BY <1>2, <1>5, <1>6, <1>7, <1>8
  <1>11. CASE c = index
    BY <1>2, <1>5, <1>9, <1>10, <1>11
  <1>12. CASE c # index
    BY <1>2, <1>5, <1>6, <1>7, <1>8, <1>10, <1>12, XorFacts
  <1> QED BY <1>11, <1>12

(***************************************************************************)
(* In every interleaving of the threads of both parties, for all sizes of  *)
(* the teams and all choices of threads for the tasks, the vectors that the*)
(* parties end with share a point function: they differ at the index only, *)
(* and there by the difference of the active blocks, which the oblivious   *)
(* part has followed on its own.                                           *)
(***************************************************************************)
THEOREM AlwaysExpandsPointFunction == Spec => []ExpandsPointFunction
  <1>1. Spec => []TreeInv
    BY CountInvariant, TreeInit, TreeStep, PTL DEF Spec
  <1> QED BY <1>1, CountInvariant, TreeJoined, PTL

-----------------------------------------------------------------------------
(***************************************************************************)
(* The ends of the activities: what party 1 computes it flushes, the pusher*)
(* ends with the last level and not before, and on a team of one thread    *)
(* nothing is expanded before the pusher has ended.                        *)
(***************************************************************************)
EndsInv ==
  /\ flushed = readycount[1]
  /\ \A p \in Party :
       /\ task[p]["push"] = "done" <=> pushed[p] = Levels
       /\ team[p] = 1 /\ task[p]["expand"] # "created" => task[p]["push"] = "done"

\* Nothing has begun, and there is a level to push.
LEMMA EndsInit == Init => EndsInv
  <1> SUFFICES ASSUME Init PROVE EndsInv
    OBVIOUS
  <1>1. Levels \in Nat \ {0}
    BY CountInit, SizeFacts DEF CountInv
  <1>2. /\ flushed = 0 /\ readycount = [p \in Party |-> 0] /\ pushed = [p \in Party |-> 0]
        /\ task = [p \in Party |-> [a \in Task |-> "created"]]
    BY DEF Init
  <1> QED BY <1>1, <1>2 DEF EndsInv, Party, Task

\* What the steps that end no task keep.
LEMMA EndsKept ==
  ASSUME CountInv, EndsInv, UNCHANGED <<shape, task, readycount, flushed, pushed>> PROVE EndsInv'
  <1>1. Levels' = Levels /\ team' = team
    BY SameShape DEF shape
  <1> QED BY <1>1 DEF EndsInv

\* Every step keeps what is said of the ends.
LEMMA EndsStep == CountInv /\ EndsInv /\ [Next]_vars => EndsInv'
  <1> SUFFICES ASSUME CountInv, EndsInv, [Next]_vars PROVE EndsInv'
    OBVIOUS
  <1>1. /\ task \in [Party -> [Task -> {"created", "master", "other", "done"}]]
        /\ \A a \in {"push", "expand"} : a \in Task
        /\ Levels \in Nat /\ pushed \in [Party -> 0 .. Levels]
    BY Counters DEF CountInv, TaskInv, Task
  <1>2. ASSUME NEW p \in Party, NEW a \in Task, StartTask(p, a) PROVE EndsInv'
    <2>1. PICK w \in {"master", "other"} : CanTake(p, a, w) /\ task' = [task EXCEPT ![p][a] = w]
      BY <1>2 DEF StartTask
    <2>2. UNCHANGED <<shape, readycount, flushed, pushed>> /\ Levels' = Levels /\ team' = team
      BY <1>2, SameShape DEF StartTask, online, pusher, shape
    <2>3. \A q \in Party : task'[q]["push"] = "done" <=> task[q]["push"] = "done"
      BY <1>1, <2>1 DEF CanTake
    <2>4. ASSUME NEW q \in Party, team[q] = 1, task'[q]["expand"] # "created"
          PROVE  task'[q]["push"] = "done"
      <3>1. CASE q = p /\ a = "expand"
        BY <1>1, <2>1, <2>4, <3>1 DEF CanTake, InOrder
      <3>2. CASE q # p \/ a # "expand"
        BY <1>1, <2>1, <2>3, <2>4, <3>2 DEF EndsInv
      <3> QED BY <3>1, <3>2
    <2> QED BY <2>2, <2>3, <2>4 DEF EndsInv
  <1>3. ASSUME NEW p \in Party, TraverseLevel(p) PROVE EndsInv'
    <2>1. UNCHANGED <<shape, task, pushed>> /\ Levels' = Levels /\ team' = team
      BY <1>3, SameShape DEF TraverseLevel, pusher, shape
    <2>2. readycount \in [Party -> 0 .. Levels]
      BY DEF CountInv, OnlineInv
    <2>3. flushed' = readycount'[1]
      BY <1>3, <2>2 DEF TraverseLevel, EndsInv, Party
    <2> QED BY <2>1, <2>3 DEF EndsInv
  <1>4. ASSUME NEW p \in Party, CountZ(p) PROVE EndsInv'
    <2>1. UNCHANGED <<shape, readycount, flushed>> /\ Levels' = Levels /\ team' = team
      BY <1>4, SameShape DEF CountZ, online, shape
    <2>2. /\ \A q \in Party : pushed'[q] = IF q = p THEN pushed[q] + 1 ELSE pushed[q]
          /\ \A q \in Party : task'[q]["push"] =
               IF q = p /\ pushed'[p] = Levels THEN "done" ELSE task[q]["push"]
          /\ \A q \in Party : task'[q]["expand"] = task[q]["expand"]
      BY <1>1, <1>4 DEF CountZ
    <2>3. \A q \in Party : pushed'[q] \in 0 .. Levels
      <3>1. CountInv'
        BY <1>4, CountCounts
      <3> QED BY <3>1, <2>1, Counters DEF CountInv, PusherInv
    <2>4. task[p]["push"] # "done"
      BY <1>1, <2>2, <2>3 DEF EndsInv
    <2>5. \A q \in Party : task'[q]["push"] = "done" <=> pushed'[q] = Levels
      BY <2>2, <2>4 DEF EndsInv
    <2>6. \A q \in Party :
            team[q] = 1 /\ task'[q]["expand"] # "created" => task'[q]["push"] = "done"
      BY <2>2 DEF EndsInv
    <2> QED BY <2>1, <2>5, <2>6 DEF EndsInv
  <1>5. ASSUME NEW p \in Party, ExpandLeaves(p) PROVE EndsInv'
    <2>1. /\ UNCHANGED <<shape, readycount, flushed, pushed>> /\ Levels' = Levels /\ team' = team
          /\ task' = [task EXCEPT ![p]["expand"] = "done"] /\ Running(p, "expand")
      BY <1>5, SameShape DEF ExpandLeaves, online, pusher, shape
    <2>2. /\ \A q \in Party : task'[q]["push"] = task[q]["push"]
          /\ \A q \in Party : task'[q]["expand"] # "created" => task[q]["expand"] # "created"
      BY <1>1, <2>1 DEF Running
    <2> QED BY <2>1, <2>2 DEF EndsInv
  <1>6. ASSUME NEW p \in Party, WriteZ(p) \/ ExpandLevel(p) PROVE EndsInv'
    BY <1>6, EndsKept DEF WriteZ, ExpandLevel, online, pusher
  <1>7. CASE RevealTo2 \/ RevealTo1 \/ ReceiveAnswer \/ RevealDelta
    BY <1>7, EndsKept DEF RevealTo2, RevealTo1, ReceiveAnswer, RevealDelta, online, pusher
  <1>8. CASE UNCHANGED vars
    BY <1>8, EndsKept DEF vars, online, pusher
  <1> QED BY <1>2, <1>3, <1>4, <1>5, <1>6, <1>7, <1>8 DEF Next

\* When fss_traverselevels has ended there is a thread for the task whose turn it is.
LEMMA TaskTaken ==
  ASSUME CountInv, EndsInv, NEW p \in Party, TraverseEnded(p),
         \A a \in Task, thread \in {"master", "other"} : ~ CanTake(p, a, thread)
  PROVE  /\ task[p]["push"] # "created"
         /\ task[p]["push"] = "done" => task[p]["expand"] # "created"
  <1>1. /\ task[p] \in [Task -> {"created", "master", "other", "done"}]
        /\ "push" \in Task /\ "expand" \in Task
    BY DEF CountInv, TaskInv, Task
  <1>2. team[p] \in Nat \ {0}
    BY AlteredAssumption DEF CountInv, ShapeInv
  <1>3. ASSUME task[p]["push"] = "created" PROVE FALSE
    <2>1. InOrder(p, "push")
      BY DEF InOrder
    <2>2. CASE task[p]["expand"] = "master"
      <3>1. RunBy(p, "other") = {}
        BY <1>3, <2>2 DEF RunBy, Task
      <3>2. team[p] # 1
        BY <1>3, <2>2 DEF EndsInv
      <3>3. Cardinality(RunBy(p, "other")) < team[p] - 1
        BY <3>1, <3>2, <1>2, FS_EmptySet
      <3> QED BY <1>1, <1>3, <2>1, <3>3 DEF CanTake, AtBarrier
    <2>3. CASE task[p]["expand"] # "master"
      <3>1. RunBy(p, "master") = {}
        BY <1>3, <2>3 DEF RunBy, Task
      <3> QED BY <1>1, <1>3, <2>1, <3>1 DEF CanTake, AtBarrier
    <2> QED BY <2>2, <2>3
  <1>4. ASSUME task[p]["push"] = "done", task[p]["expand"] = "created" PROVE FALSE
    <2>1. RunBy(p, "master") = {}
      BY <1>4 DEF RunBy, Task
    <2> QED BY <1>1, <1>4, <2>1 DEF CanTake, AtBarrier, InOrder
  <1> QED BY <1>3, <1>4

\* When nobody can proceed, all levels have been followed, pushed and expanded:
\* the master waits for nothing but the other one's messages, the pushers for the
\* master and each other, the expansion for the pusher.
LEMMA NobodyWaits == CountInv /\ EndsInv => FssNeverStuck
  <1> SUFFICES ASSUME CountInv, EndsInv, SameConnection, ~ CanProceed PROVE AllEnded
    BY DEF FssNeverStuck
  <1>0. 1 \in Party /\ 2 \in Party /\ \A p \in Party : p = 1 \/ p = 2
    BY DEF Party
  <1>1. \A p \in Party : TraverseEnded(p)
    <2>1. ~ CanTraverse(1) /\ ~ CanTraverse(2)
      BY <1>0 DEF CanProceed
    <2>2. readycount[1] = Levels
      BY <2>1, Counters DEF CanTraverse
    <2>3. readycount[2] = Levels
      BY <2>1, <2>2, Counters DEF CanTraverse, EndsInv
    <2> QED BY <1>0, <2>2, <2>3 DEF TraverseEnded
  <1>2. \A p \in Party : /\ task[p]["push"] # "created"
                         /\ task[p]["push"] = "done" => task[p]["expand"] # "created"
    BY <1>1, TaskTaken DEF CanProceed
  <1>3. \A p \in Party : \A a \in Task : task[p][a] \in {"created", "master", "other", "done"}
    BY DEF CountInv, TaskInv
  <1>4. /\ sent = pushed[1] + IF at[1] = "wait" THEN 0 ELSE 1
        /\ answered = pushed[2] + IF at[2] = "wait" THEN 0 ELSE 1
        /\ answered <= sent /\ pushed[1] <= answered /\ at[2] # "answer"
    BY DEF CountInv, PusherInv
  <1>5. at[2] = "wait" /\ at[1] \in {"wait", "answer"}
    <2>1. \A p \in Party : at[p] \notin {"write", "count"}
      BY DEF CanProceed
    <2> QED BY <1>0, <1>4, <2>1, Counters
  <1>6. \A p \in Party : pushed[p] # Levels => Running(p, "push") /\ pushed[p] < readycount[p]
    <2>1. \A p \in Party : pushed[p] \in Nat /\ pushed[p] <= Levels /\ Levels \in Nat
      BY Counters
    <2>2. \A p \in Party : pushed[p] # Levels => Running(p, "push")
      BY <1>2, <1>3 DEF EndsInv, Running, Task
    <2> QED BY <1>1, <2>1, <2>2 DEF TraverseEnded
  <1>7. at[1] = "wait" => pushed[1] = Levels
    BY <1>0, <1>6 DEF CanProceed, Pushing
  <1>8. pushed[2] = Levels
    <2>1. pushed[2] < sent \/ pushed[2] = Levels
      <3>1. CASE at[1] = "wait"
        BY <3>1, <1>4, <1>7, Counters
      <3>2. CASE at[1] = "answer"
        <4>1. ~ (pushed[1] < answered)
          BY <3>2 DEF CanProceed, CanReceive
        <4> QED BY <3>2, <4>1, <1>4, <1>5, Counters
      <3> QED BY <3>1, <3>2, <1>5
    <2> QED BY <1>0, <1>5, <1>6, <2>1 DEF CanProceed, CanAnswer, Pushing
  <1>9. pushed[1] = Levels
    <2>1. ASSUME at[1] = "answer" PROVE FALSE
      <3>1. ~ (pushed[1] < answered)
        BY <2>1 DEF CanProceed, CanReceive
      <3>2. sent = pushed[1] + 1 /\ answered = Levels /\ sent <= Levels
        <4>1. sent <= readycount[1]
          BY DEF CountInv, PusherInv
        <4> QED BY <4>1, <2>1, <1>4, <1>5, <1>8, Counters
      <3> QED BY <3>1, <3>2, Counters
    <2> QED BY <2>1, <1>5, <1>7
  <1>10. \A p \in Party : \A a \in Task : task[p][a] = "done"
    <2>1. \A p \in Party : task[p]["push"] = "done" /\ task[p]["expand"] # "created"
      BY <1>0, <1>2, <1>8, <1>9 DEF EndsInv
    <2>2. ASSUME NEW p \in Party PROVE HasCorrection(p)
      <3>1. /\ level[p] \in startlevel .. endlevel /\ startlevel \in Int /\ endlevel \in Int
            /\ Levels = endlevel - startlevel
        BY SizeFacts DEF CountInv, TaskInv
      <3>2. pushed[p] = Levels
        BY <1>0, <1>8, <1>9
      <3> QED BY <3>1, <3>2 DEF HasCorrection
    <2>3. \A p \in Party : ~ Running(p, "expand")
      BY <2>2 DEF CanProceed
    <2> QED BY <1>3, <2>1, <2>3 DEF Running, Task
  <1>11. \A p \in Party : Joined(p)
    BY <1>1, <1>10 DEF Joined
  <1> QED BY <1>11 DEF CanProceed, CanReveal, AllEnded

(***************************************************************************)
(* The polling of fss_offline_parallelizer's three activities never leads  *)
(* to a deadlock, for any size and any teams of which both or none have    *)
(* more than one thread: as long as not everything has ended, a thread can *)
(* go on.                                                                  *)
(***************************************************************************)
THEOREM FssNoDeadlock == Spec => []FssNeverStuck
  <1>1. Spec => []EndsInv
    BY CountInvariant, EndsInit, EndsStep, PTL DEF Spec
  <1> QED BY <1>1, CountInvariant, NobodyWaits, PTL

-----------------------------------------------------------------------------
\* The parts of the work that is left are natural numbers.
WorkNumbers ==
  \A p \in Party :
    /\ ToFollow(p) \in Nat /\ ToPush(p) \in Nat /\ ToExpand(p) \in Nat
    /\ TaskWork(p, "push") \in Nat /\ TaskWork(p, "expand") \in Nat

LEMMA WorkParts == CountInv => WorkNumbers
  <1> SUFFICES ASSUME CountInv, NEW p \in Party
               PROVE  /\ ToFollow(p) \in Nat /\ ToPush(p) \in Nat /\ ToExpand(p) \in Nat
                      /\ TaskWork(p, "push") \in Nat /\ TaskWork(p, "expand") \in Nat
    BY DEF WorkNumbers
  <1>1. ToFollow(p) \in Nat
    BY Counters DEF Party, ToFollow
  <1>2. ToExpand(p) \in Nat
    <2>1. level[p] \in startlevel .. endlevel /\ startlevel \in Int /\ endlevel \in Int
      BY SizeFacts DEF CountInv, TaskInv
    <2> QED BY <2>1 DEF ToExpand
  <1>3. pushed[p] \in 0 .. Levels /\ Levels \in Nat
    BY Counters
  <1>4. Stage(p) \in 0 .. 3 /\ (at[p] = "wait" => Stage(p) = 0)
    BY DEF Stage
  <1>5. at[p] # "wait" => pushed[p] < Levels
    <2>1. /\ sent = pushed[1] + IF at[1] = "wait" THEN 0 ELSE 1
          /\ answered = pushed[2] + IF at[2] = "wait" THEN 0 ELSE 1
          /\ sent <= readycount[1] /\ answered <= sent
      BY DEF CountInv, PusherInv
    <2> QED BY <2>1, Counters DEF Party
  <1>6. ToPush(p) \in Nat
    BY <1>3, <1>4, <1>5 DEF ToPush
  <1>7. TaskWork(p, "push") \in Nat /\ TaskWork(p, "expand") \in Nat
    BY DEF TaskWork
  <1> QED BY <1>1, <1>2, <1>6, <1>7

\* What party p may have left to do, after a step that does nothing for the other one.
Others(p) ==
  \A q \in Party \ {p} :
    /\ ToFollow(q)' = ToFollow(q) /\ ToPush(q)' = ToPush(q) /\ ToExpand(q)' = ToExpand(q)
    /\ \A a \in Task : TaskWork(q, a)' = TaskWork(q, a)

\* A step of party p leaves less to do if it leaves less of one kind, and no more of
\* the others.
LEMMA LessWork ==
  ASSUME WorkNumbers, WorkNumbers', NEW p \in Party, revealed' = revealed, Others(p),
         ToFollow(p)' <= ToFollow(p), ToPush(p)' <= ToPush(p), ToExpand(p)' <= ToExpand(p),
         \A a \in Task : TaskWork(p, a)' <= TaskWork(p, a),
         \/ ToFollow(p)' < ToFollow(p) \/ ToPush(p)' < ToPush(p) \/ ToExpand(p)' < ToExpand(p)
         \/ \E a \in Task : TaskWork(p, a)' < TaskWork(p, a)
  PROVE  0 <= Work' /\ Work' < Work
  <1> DEFINE U(q) == TaskWork(q, "push")
             V(q) == TaskWork(q, "expand")
  <1>1. \A q \in Party : /\ ToFollow(q) \in Nat /\ ToPush(q) \in Nat /\ ToExpand(q) \in Nat
                         /\ U(q) \in Nat /\ V(q) \in Nat
    BY DEF WorkNumbers
  <1>2. \A q \in Party : /\ ToFollow(q)' \in Nat /\ ToPush(q)' \in Nat /\ ToExpand(q)' \in Nat
                         /\ U(q)' \in Nat /\ V(q)' \in Nat
    BY DEF WorkNumbers
  <1>3. \A q \in Party : WorkOf(q) = ToFollow(q) + ToPush(q) + ToExpand(q) + (U(q) + V(q))
    BY DEF WorkOf
  <1>4. \A q \in Party :
          WorkOf(q)' = ToFollow(q)' + ToPush(q)' + ToExpand(q)' + (U(q)' + V(q)')
    BY DEF WorkOf
  <1>5. \A q \in Party \ {p} :
          /\ ToFollow(q)' = ToFollow(q) /\ ToPush(q)' = ToPush(q) /\ ToExpand(q)' = ToExpand(q)
          /\ U(q)' = U(q) /\ V(q)' = V(q)
    BY DEF Others, Task
  <1>6. /\ U(p)' <= U(p) /\ V(p)' <= V(p)
        /\ \/ ToFollow(p)' < ToFollow(p) \/ ToPush(p)' < ToPush(p) \/ ToExpand(p)' < ToExpand(p)
           \/ U(p)' < U(p) \/ V(p)' < V(p)
    BY DEF Task
  <1> HIDE DEF U, V
  <1>7. \A q \in Party : WorkOf(q) \in Nat /\ WorkOf(q)' \in Nat
    BY <1>1, <1>2, <1>3, <1>4
  <1>8. \A q \in Party \ {p} : WorkOf(q)' = WorkOf(q)
    BY <1>3, <1>4, <1>5
  <1>9. WorkOf(p)' < WorkOf(p)
    BY <1>1, <1>2, <1>3, <1>4, <1>6
  <1>10. Work = WorkOf(1) + WorkOf(2) + IF revealed THEN 0 ELSE 1
    BY DEF Work
  <1>11. Work' = WorkOf(1)' + WorkOf(2)' + IF revealed THEN 0 ELSE 1
    BY DEF Work
  <1> QED BY <1>7, <1>8, <1>9, <1>10, <1>11 DEF Party

\* Every step leaves less to do.
LEMMA WorkStep ==
  ASSUME CountInv, WorkNumbers, WorkNumbers', Next PROVE 0 <= Work' /\ Work' < Work
  <1> DEFINE Less == 0 <= Work' /\ Work' < Work
             SameWork(q) == \A a \in Task : TaskWork(q, a)' = TaskWork(q, a)
  <1>0. 1 \in Party /\ 2 \in Party /\ "push" \in Task /\ "expand" \in Task
    BY DEF Party, Task
  <1>1. /\ task \in [Party -> [Task -> {"created", "master", "other", "done"}]]
        /\ level \in [Party -> startlevel .. endlevel] /\ startlevel \in Int /\ endlevel \in Int
        /\ at \in [Party -> {"wait", "answer", "write", "count"}]
        /\ Levels \in Nat /\ pushed \in [Party -> 0 .. Levels]
        /\ readycount \in [Party -> 0 .. Levels]
    <2>1. Levels \in Nat /\ startlevel \in Int /\ endlevel \in Int
      BY SizeFacts DEF CountInv
    <2>2. /\ at \in [Party -> {"wait", "answer", "write", "count"}]
          /\ pushed \in [Party -> 0 .. Levels]
      BY DEF CountInv, PusherInv
    <2>3. readycount \in [Party -> 0 .. Levels]
      BY DEF CountInv, OnlineInv
    <2> QED BY <2>1, <2>2, <2>3 DEF CountInv, TaskInv
  <1>2. ASSUME UNCHANGED shape
        PROVE  /\ Levels' = Levels /\ endlevel' = endlevel
               /\ \A q \in Party : readycount'[q] = readycount[q] => ToFollow(q)' = ToFollow(q)
               /\ \A q \in Party : level'[q] = level[q] => ToExpand(q)' = ToExpand(q)
               /\ \A q \in Party :
                    at'[q] = at[q] /\ pushed'[q] = pushed[q] => ToPush(q)' = ToPush(q)
               /\ \A q \in Party : task'[q] = task[q] => SameWork(q)
    BY <1>2, SameShape DEF ToFollow, ToExpand, ToPush, Stage, TaskWork
  <1>3. \A q \in Party : /\ ToFollow(q) \in Nat /\ ToPush(q) \in Nat /\ ToExpand(q) \in Nat
                         /\ \A a \in Task : TaskWork(q, a) \in Nat
    BY DEF WorkNumbers, Task
  <1>4. ASSUME NEW p \in Party, NEW a \in Task, StartTask(p, a) PROVE Less
    <2>1. PICK w \in {"master", "other"} : CanTake(p, a, w) /\ task' = [task EXCEPT ![p][a] = w]
      BY <1>4 DEF StartTask
    <2>2. UNCHANGED <<shape, readycount, pushed, at, level, revealed>>
      BY <1>4 DEF StartTask, online, pusher, tree
    <2>3. /\ \A c \in Task : TaskWork(p, c)' = IF c = a THEN 1 ELSE TaskWork(p, c)
          /\ TaskWork(p, a) = 2
          /\ \A q \in Party \ {p} : task'[q] = task[q]
      BY <1>1, <2>1 DEF TaskWork, CanTake
    <2>4. Others(p) /\ ToFollow(p)' = ToFollow(p) /\ ToPush(p)' = ToPush(p)
          /\ ToExpand(p)' = ToExpand(p)
      BY <1>2, <2>2, <2>3 DEF Others
    <2>5. /\ TaskWork(p, a)' < TaskWork(p, a)
          /\ \A c \in Task : TaskWork(p, c)' <= TaskWork(p, c)
      BY <1>3, <2>3
    <2> QED BY <1>3, <2>2, <2>4, <2>5, LessWork
  <1>5. ASSUME NEW p \in Party, TraverseLevel(p) PROVE Less
    <2>1. /\ UNCHANGED <<shape, task, pushed, at, level, revealed>>
          /\ readycount' = [readycount EXCEPT ![p] = @ + 1]
      BY <1>5 DEF TraverseLevel, pusher, tree
    <2>2. ToFollow(p)' < ToFollow(p) /\ \A q \in Party \ {p} : readycount'[q] = readycount[q]
      BY <1>1, <1>2, <2>1 DEF ToFollow
    <2>3. Others(p) /\ ToPush(p)' = ToPush(p) /\ ToExpand(p)' = ToExpand(p) /\ SameWork(p)
      BY <1>2, <2>1, <2>2 DEF Others
    <2>4. ToFollow(p)' <= ToFollow(p)
      <3>1. ToFollow(p) \in Nat /\ ToFollow(p)' \in Nat
        BY DEF WorkNumbers
      <3> QED BY <2>2, <3>1
    <2>5. \A c \in Task : TaskWork(p, c)' <= TaskWork(p, c)
      BY <1>3, <2>3
    <2> QED BY <1>3, <2>1, <2>2, <2>3, <2>4, <2>5, LessWork
  <1>6. ASSUME NEW p \in Party,
               \/ p = 1 /\ (RevealTo2 \/ ReceiveAnswer)
               \/ p = 2 /\ RevealTo1
               \/ WriteZ(p) \/ CountZ(p)
        PROVE  Less
    <2>1. UNCHANGED <<shape, readycount, level, revealed>>
      BY <1>6 DEF RevealTo2, RevealTo1, ReceiveAnswer, WriteZ, CountZ, online, tree
    <2>2. \A q \in Party \ {p} : at'[q] = at[q] /\ pushed'[q] = pushed[q]
      BY <1>1, <1>6 DEF RevealTo2, RevealTo1, ReceiveAnswer, WriteZ, CountZ
    <2>3. \/ /\ pushed'[p] = pushed[p]
             /\ Stage(p)' \in {Stage(p) + 1, Stage(p) + 2}
          \/ pushed'[p] = pushed[p] + 1 /\ Stage(p) = 3 /\ Stage(p)' = 0
      <3>1. CASE CountZ(p)
        BY <1>1, <3>1 DEF CountZ, Stage
      <3>2. CASE WriteZ(p)
        BY <1>1, <3>2 DEF WriteZ, Stage
      <3>3. CASE p = 1 /\ RevealTo2
        BY <1>1, <3>3 DEF RevealTo2, Pushing, Stage
      <3>4. CASE p = 1 /\ ReceiveAnswer
        BY <1>1, <3>4 DEF ReceiveAnswer, CanReceive, Stage
      <3>5. CASE p = 2 /\ RevealTo1
        BY <1>1, <3>5 DEF RevealTo1, CanAnswer, Pushing, Stage
      <3> QED BY <1>6, <3>1, <3>2, <3>3, <3>4, <3>5
    <2>4. ToPush(p)' < ToPush(p) /\ ToPush(p)' <= ToPush(p)
      <3>1. Stage(p) \in 0 .. 3 /\ Levels' = Levels /\ pushed[p] \in 0 .. Levels
        BY <1>1, <1>2, <2>1 DEF Stage
      <3>2. ToPush(p) = 4 * (Levels - pushed[p]) - Stage(p)
        BY DEF ToPush
      <3>3. ToPush(p)' = 4 * (Levels - pushed'[p]) - Stage(p)'
        BY <3>1 DEF ToPush
      <3> QED BY <1>1, <2>3, <3>1, <3>2, <3>3
    <2>5. /\ \A c \in Task : TaskWork(p, c)' <= TaskWork(p, c)
          /\ \A q \in Party \ {p} : SameWork(q)
      <3>1. CASE task' = task
        BY <1>2, <1>3, <2>1, <3>1
      <3>2. CASE task' # task
        <4>1. task' = [task EXCEPT ![p]["push"] = "done"]
          <5>1. CountZ(p)
            BY <1>6, <3>2 DEF RevealTo2, RevealTo1, ReceiveAnswer, WriteZ
          <5> QED BY <1>1, <3>2, <5>1 DEF CountZ
        <4>2. /\ \A c \in Task : TaskWork(p, c)' = IF c = "push" THEN 0 ELSE TaskWork(p, c)
              /\ \A q \in Party \ {p} : task'[q] = task[q]
          BY <1>1, <4>1 DEF TaskWork
        <4> QED BY <1>2, <1>3, <2>1, <4>2
      <3> QED BY <3>1, <3>2
    <2>6. Others(p) /\ ToFollow(p)' = ToFollow(p) /\ ToExpand(p)' = ToExpand(p)
      BY <1>2, <2>1, <2>2, <2>5 DEF Others
    <2> QED BY <1>3, <2>1, <2>4, <2>5, <2>6, LessWork
  <1>7. ASSUME NEW p \in Party, ExpandLevel(p) PROVE Less
    <2>1. /\ UNCHANGED <<shape, task, pushed, at, readycount, revealed>>
          /\ level' = [level EXCEPT ![p] = @ + 1]
      BY <1>7 DEF ExpandLevel, online, pusher
    <2>2. ToExpand(p)' < ToExpand(p) /\ \A q \in Party \ {p} : level'[q] = level[q]
      BY <1>1, <1>2, <2>1 DEF ToExpand
    <2>3. Others(p) /\ ToPush(p)' = ToPush(p) /\ ToFollow(p)' = ToFollow(p) /\ SameWork(p)
      BY <1>2, <2>1, <2>2 DEF Others
    <2>4. ToExpand(p)' <= ToExpand(p)
      <3>1. ToExpand(p) \in Nat /\ ToExpand(p)' \in Nat
        BY DEF WorkNumbers
      <3> QED BY <2>2, <3>1
    <2>5. \A c \in Task : TaskWork(p, c)' <= TaskWork(p, c)
      BY <1>3, <2>3
    <2> QED BY <1>3, <2>1, <2>2, <2>3, <2>4, <2>5, LessWork
  <1>8. ASSUME NEW p \in Party, ExpandLeaves(p) PROVE Less
    <2>1. /\ UNCHANGED <<shape, pushed, at, readycount, level, revealed>>
          /\ Running(p, "expand") /\ task' = [task EXCEPT ![p]["expand"] = "done"]
      BY <1>8 DEF ExpandLeaves, online, pusher
    <2>2. /\ \A c \in Task : TaskWork(p, c)' = IF c = "expand" THEN 0 ELSE TaskWork(p, c)
          /\ TaskWork(p, "expand") = 1
          /\ \A q \in Party \ {p} : task'[q] = task[q]
      BY <1>1, <2>1 DEF TaskWork, Running
    <2>3. Others(p) /\ ToFollow(p)' = ToFollow(p) /\ ToPush(p)' = ToPush(p)
          /\ ToExpand(p)' = ToExpand(p)
      BY <1>2, <2>1, <2>2 DEF Others
    <2>4. /\ TaskWork(p, "expand")' < TaskWork(p, "expand")
          /\ \A c \in Task : TaskWork(p, c)' <= TaskWork(p, c)
      BY <1>0, <1>3, <2>2
    <2> QED BY <1>0, <1>3, <2>1, <2>3, <2>4, LessWork
  <1>9. CASE RevealDelta
    <2>1. UNCHANGED <<shape, task, pushed, at, readycount, level>> /\ ~ revealed /\ revealed'
      BY <1>9 DEF RevealDelta, CanReveal, online, pusher, tree
    <2>2. \A q \in Party : WorkOf(q)' = WorkOf(q)
      BY <1>0, <1>2, <2>1 DEF WorkOf
    <2>3. WorkOf(1) \in Nat /\ WorkOf(2) \in Nat
      BY <1>0, <1>3 DEF WorkOf
    <2>4. Work = WorkOf(1) + WorkOf(2) + 1
      BY <2>1 DEF Work
    <2>5. Work' = WorkOf(1)' + WorkOf(2)'
      <3>1. Work' = WorkOf(1)' + WorkOf(2)' + 0
        BY <2>1 DEF Work
      <3> QED BY <1>0, <2>2, <2>3, <3>1
    <2> QED BY <1>0, <2>2, <2>3, <2>4, <2>5
  <1> QED BY <1>0, <1>4, <1>5, <1>6, <1>7, <1>8, <1>9 DEF Next

(***************************************************************************)
(* No thread of fss_offline_parallelizer does anything for ever: every step*)
(* lowers a natural number, for any size and any teams.  With FssNoDeadlock*)
(* all activities end, if only the threads keep running.                   *)
(***************************************************************************)
THEOREM FssTerminates == Spec => FssProgress
  <1>1. CountInv /\ WorkNumbers /\ WorkNumbers' /\ [Next]_vars => [0 <= Work' /\ Work' < Work]_vars
    BY WorkStep
  <1>2. Spec => []WorkNumbers
    BY CountInvariant, WorkParts, PTL
  <1> QED BY <1>1, <1>2, CountInvariant, FssNoDeadlock, PTL DEF Spec, FssProgress

=============================================================================
