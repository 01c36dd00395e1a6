----------------------------- MODULE FssAltered -----------------------------
(***************************************************************************)
(* includes/fss-altered/fss_altered.{oc,c}: the distributed point function *)
(* in which the tree is expanded while the oblivious part is still running.*)
(*                                                                         *)
(* In each party fss_offline_parallelizer runs three activities on a team  *)
(* of OpenMP threads: the master runs fss_traverselevels, which follows the*)
(* path to the index under Obliv-C and computes a correction per level; the*)
(* task "push" (fss_Z_pusher) reveals the corrections to both parties; the *)
(* task "expand" (fss_offline_readblockvector) expands the levels.  Two    *)
(* counters that are polled, readycount of fss and of fss_offline, hand a  *)
(* level from one activity to the next.                                    *)
(*                                                                         *)
(* Level k of the path is level startlevel + k of the tree.  Oblivious     *)
(* values are shared by the parties: they are fixed when party 1 garbles   *)
(* them.  The threads of fss_offline_readblockvector share the nodes of a  *)
(* level between barriers, and write no cell twice: a level is one step.   *)
(***************************************************************************)
EXTENDS FssTree, FiniteSets, Sequences

CONSTANTS
  Sizes,    \* the lengths of vectors that are considered
  Roots,    \* the random blocks that are considered
  Teams     \* the sizes that the team of fss_offline_parallelizer may have

ASSUME AlteredAssumption ==
  Sizes \subseteq 2 .. MaxSize /\ Roots \subseteq Block /\ Teams \subseteq Nat \ {0}

Task == {"push", "expand"}

VARIABLES
  size, index,  \* the length of the vector and the oblivious index, -1 for none
  endlevel, startlevel,  \* the fields of fss: depth of the tree, where it starts
  team,         \* team[p]: the number of threads the team of party p has
  task,         \* task[p][a]: "created", the thread that runs it, or "done"
  proto,        \* proto[p]: the master's current protocol, "main" or "second" (pd2)
  active,       \* oblivious: activeblock_A and activeblock_B
  control,      \* oblivious: control_bit_A and control_bit_B
  Z, advice,    \* oblivious: fss->Z and fss->advicebits, by level
  readycount,   \* fss->readycount of each party
  flushed,      \* the levels of the circuit that party 1 has sent to party 2
  at,           \* where fss_Z_pusher is
  sent,         \* the levels that party 1 has revealed to party 2
  answered,     \* the levels that party 2 has revealed to party 1
  Zpushed,      \* fss_offline's Z and advicebits, by level
  pushed,       \* fss_offline's readycount
  level,        \* thislevel of fss_offline_readblockvector
  front,        \* the buffer that a2 points to
  data, bits,   \* as in FssCprg
  revealed      \* dpf_with_beta has gone on to the difference of the active blocks

shape  == <<size, index, endlevel, startlevel, team>>
online == <<active, control, Z, advice, readycount, flushed>>
pusher == <<at, sent, answered, Zpushed, pushed>>
tree   == <<level, front, data, bits>>
vars   == <<shape, task, proto, online, pusher, tree, revealed>>

\* fss_new: the depth of the tree.
Depth(n) == LOG2LL(n) + IF Pow2[LOG2LL(n)] < n THEN 1 ELSE 0

Levels == endlevel - startlevel

back(p) == IF front[p] = "level" THEN "output" ELSE "level"

(***************************************************************************)
(* fss_getblockvector_with_callback up to the parallel part: random blocks *)
(* for the nodes of startlevel, the same in both parties but for the one on*)
(* the path, whose control bits differ.  Without an index no node is on the*)
(* path; activeblock_A keeps the zeros of calloc, activeblock_B is random. *)
(***************************************************************************)
Init ==
  /\ size \in Sizes /\ index \in -1 .. size - 1
  /\ endlevel = Depth(size) /\ startlevel = IF endlevel > 1 THEN 1 ELSE 0
  /\ team \in [Party -> Teams]
  /\ \E top \in [0 .. Pow2[startlevel] - 1 -> Roots], other \in Roots :
       LET onpath == index \div Pow2[Levels] IN
       /\ index # -1 => Bit(other) # Bit(top[onpath])
       /\ active = <<IF index = -1 THEN Zero ELSE top[onpath], other>>
       /\ control = [p \in Party |-> Bit(active[p])]
       /\ data = [p \in Party |-> [m \in Buffer |-> [c \in Cell |->
                    IF m = "output" \/ c \notin DOMAIN top THEN Zero
                    ELSE IF c = onpath THEN active[p] ELSE top[c]]]]
  /\ bits = [p \in Party |-> [m \in Buffer |-> [c \in Cell |-> FALSE]]]
  /\ task = [p \in Party |-> [a \in Task |-> "created"]]
  /\ proto = [p \in Party |-> "main"]
  /\ Z = <<>> /\ advice = <<>> /\ flushed = 0
  /\ readycount = [p \in Party |-> 0]
  /\ at = [p \in Party |-> "wait"] /\ sent = 0 /\ answered = 0
  /\ Zpushed = [p \in Party |-> [k \in 1 .. Levels |->
                  [Z |-> Zero, advice |-> [s \in Side |-> FALSE]]]]
  /\ pushed = [p \in Party |-> 0]
  /\ level = [p \in Party |-> startlevel]
  /\ front = [p \in Party |-> "level"]
  /\ revealed = FALSE

-----------------------------------------------------------------------------
(***************************************************************************)
(* fss_offline_parallelizer.                                               *)
(***************************************************************************)
TraverseEnded(p) == readycount[p] = Levels
Joined(p) == TraverseEnded(p) /\ \A a \in Task : task[p][a] = "done"

RunBy(p, thread) == {a \in Task : task[p][a] = thread}

\* The team is one thread: tasks are run at once, in the order of their creation.
InOrder(p, a) == team[p] = 1 /\ a = "expand" => task[p]["push"] = "done"

(***************************************************************************)
(* A thread that waits at the barrier takes a task; the master does when it*)
(* has finished with fss_traverselevels.  fss_Z_pusher makes pd2 the       *)
(* current protocol of the thread that runs it, unless it runs alone.      *)
(***************************************************************************)
AtBarrier(p, thread) ==
  \/ thread = "master" /\ TraverseEnded(p) /\ RunBy(p, thread) = {}
  \/ thread = "other" /\ Cardinality(RunBy(p, thread)) < team[p] - 1

CanTake(p, a, thread) == task[p][a] = "created" /\ InOrder(p, a) /\ AtBarrier(p, thread)

StartTask(p, a) ==
  /\ \E thread \in {"master", "other"} :
       /\ CanTake(p, a, thread)
       /\ task' = [task EXCEPT ![p][a] = thread]
       /\ proto' = [proto EXCEPT ![p] =
                      IF thread = "master" /\ a = "push" /\ team[p] > 1 THEN "second" ELSE @]
  /\ UNCHANGED <<shape, online, pusher, tree, revealed>>

Running(p, a) == task[p][a] \in {"master", "other"}

-----------------------------------------------------------------------------
(***************************************************************************)
(* fss_traverselevels: one level.  Party 2 evaluates what party 1 has      *)
(* garbled and flushed.                                                    *)
(***************************************************************************)
\* The bit of the index that chooses the child on the path at level k.
levelindex(k) == (index \div Pow2[Levels - k]) % 2

fss_getadvice(diff, right) ==
  [s \in Side |-> IF s = 0 THEN Bit(diff[0]) # (right = 0) ELSE Bit(diff[1]) # (right = 1)]

\* The path is followed to the child, corrected where the expansion will be.
Follow(k) ==
  LET right == levelindex(k)
      child == [p \in Party |-> [s \in Side |-> PRG[s][active[p]]]]
      diff  == [s \in Side |-> Xor(child[1][s], child[2][s])]
      off   == diff[1 - right]
      adv   == fss_getadvice(diff, right)
  IN
  /\ Z' = Append(Z, off) /\ advice' = Append(advice, adv)
  /\ control' = [p \in Party |-> Bit(child[p][right]) # (control[p] /\ adv[right])]
  /\ active' = [p \in Party |->
                  IF control[p] THEN Xor(child[p][right], off) ELSE child[p][right]]

CanTraverse(p) == readycount[p] < Levels /\ (p = 2 => readycount[2] < flushed)

\* Bug: the level is not flushed (the oflush of fss_altered.oc:104 is missing).
TraverseLevel_m1(p) ==
  /\ CanTraverse(p)
  /\ p = 1 => Follow(readycount[1] + 1)
  /\ p = 2 => UNCHANGED <<active, control, Z, advice>>
  /\ readycount' = [readycount EXCEPT ![p] = @ + 1]
  /\ UNCHANGED <<flushed, shape, task, proto, pusher, tree, revealed>>

TraverseLevel(p) ==
  /\ CanTraverse(p)
  /\ \/ p = 1 /\ Follow(readycount[1] + 1) /\ flushed' = readycount[1] + 1
     \/ p = 2 /\ UNCHANGED <<active, control, Z, advice, flushed>>
  /\ readycount' = [readycount EXCEPT ![p] = @ + 1]
  /\ UNCHANGED <<shape, task, proto, pusher, tree, revealed>>

-----------------------------------------------------------------------------
(***************************************************************************)
(* fss_Z_pusher: one level.  Party 1 sends its half of the reveal to party *)
(* 2 and then waits for the half of party 2, which comes over the          *)
(* connection that party 2 uses.                                           *)
(***************************************************************************)

\* Bug: the pusher does not wait for the level to be computed.
Pushing_m1(p) == Running(p, "push") /\ at[p] = "wait"

\* The pusher has seen readycount reach the next level.
Pushing(p) == Running(p, "push") /\ at[p] = "wait" /\ pushed[p] < readycount[p]

SameConnection == team[1] > 1 <=> team[2] > 1

CanAnswer == Pushing(2) /\ SameConnection /\ pushed[2] < sent

CanReceive == at[1] = "answer" /\ pushed[1] < answered

RevealTo2 ==
  /\ Pushing(1)
  /\ sent' = pushed[1] + 1
  /\ at' = [at EXCEPT ![1] = "answer"]
  /\ UNCHANGED <<shape, task, proto, online, answered, Zpushed, pushed, tree, revealed>>

RevealTo1 ==
  /\ CanAnswer
  /\ answered' = pushed[2] + 1
  /\ at' = [at EXCEPT ![2] = "write"]
  /\ UNCHANGED <<shape, task, proto, online, sent, Zpushed, pushed, tree, revealed>>

ReceiveAnswer ==
  /\ CanReceive
  /\ at' = [at EXCEPT ![1] = "write"]
  /\ UNCHANGED <<shape, task, proto, online, sent, answered, Zpushed, pushed, tree, revealed>>

\* fss_offline_push_Z: the level's values are written, then the counter.
WriteZ(p) ==
  /\ at[p] = "write"
  /\ LET k == pushed[p] + 1 IN
     Zpushed' = [Zpushed EXCEPT ![p][k] = [Z |-> Z[k], advice |-> advice[k]]]
  /\ at' = [at EXCEPT ![p] = "count"]
  /\ UNCHANGED <<shape, task, proto, online, sent, answered, pushed, tree, revealed>>

\* Bug: the counter stays as it is.
CountZ_m1(p) ==
  /\ at[p] = "count"
  /\ at' = [at EXCEPT ![p] = "wait"]
  /\ UNCHANGED <<shape, task, proto, online, sent, answered, Zpushed, pushed, tree, revealed>>

CountZ(p) ==
  /\ at[p] = "count"
  /\ pushed' = [pushed EXCEPT ![p] = @ + 1]
  /\ at' = [at EXCEPT ![p] = "wait"]
  /\ task' = [task EXCEPT ![p]["push"] = IF pushed'[p] = Levels THEN "done" ELSE @]
  /\ UNCHANGED <<shape, proto, online, sent, answered, Zpushed, tree, revealed>>

-----------------------------------------------------------------------------
(***************************************************************************)
(* fss_offline_readblockvector: one level.                                 *)
(***************************************************************************)
\* The nodes that level lv of the pruned tree needs.
BlocksAt(lv) == (size + Pow2[endlevel - lv] - 1) \div Pow2[endlevel - lv]

\* The pushed correction of the level that is being expanded.
correction(p) == Zpushed[p][level[p] - startlevel]

\* The control bit of the parent of node c; the nodes of startlevel have none.
parentbit(p, c) == level[p] > startlevel /\ bits[p][back(p)][c \div 2]

\* Node c, corrected if its parent's control bit is set, and its control bit.
node(p, c) ==
  IF parentbit(p, c) THEN Xor(data[p][front[p]][c], correction(p).Z) ELSE data[p][front[p]][c]

nodebit(p, c) ==
  Bit(data[p][front[p]][c]) # (parentbit(p, c) /\ correction(p).advice[c % 2])

\* Bug: the loop waits for one level less.
HasCorrection_m1(p) == pushed[p] >= level[p] - startlevel - 1

\* The loop has seen readycount reach this level.
HasCorrection(p) == pushed[p] >= level[p] - startlevel

\* The nodes are corrected in place, their children go to the other buffer, and
\* the buffers swap.
ExpandLevel(p) ==
  /\ Running(p, "expand") /\ level[p] < endlevel /\ HasCorrection(p)
  /\ LET lv == level[p] IN
     /\ data' = [data EXCEPT
          ![p][front[p]] = [c \in Cell |-> IF c < BlocksAt(lv) THEN node(p, c) ELSE @[c]],
          ![p][back(p)] = [c \in Cell |->
             IF c < BlocksAt(lv + 1) THEN PRG[c % 2][node(p, c \div 2)]
             ELSE data[p][back(p)][c]]]
     /\ bits' = [bits EXCEPT
          ![p][front[p]] = [c \in Cell |-> IF c < BlocksAt(lv) THEN nodebit(p, c) ELSE @[c]]]
  /\ level' = [level EXCEPT ![p] = @ + 1]
  /\ front' = [front EXCEPT ![p] = back(p)]
  /\ UNCHANGED <<shape, task, proto, online, pusher, revealed>>

\* The leaves go to the output, whichever buffer they are in.
ExpandLeaves(p) ==
  /\ Running(p, "expand") /\ level[p] = endlevel /\ HasCorrection(p)
  /\ data' = [data EXCEPT
       ![p]["output"] = [c \in Cell |-> IF c < size THEN node(p, c) ELSE @[c]]]
  /\ LET leafbits == [c \in Cell |-> IF c < size THEN nodebit(p, c) ELSE bits[p][front[p]][c]] IN
     bits' = [bits EXCEPT
       ![p][front[p]] = leafbits,
       ![p]["output"] = [c \in Cell |-> IF c < size THEN leafbits[c] ELSE @[c]]]
  /\ task' = [task EXCEPT ![p]["expand"] = "done"]
  /\ UNCHANGED <<shape, proto, online, pusher, level, front, revealed>>

\* dpf_with_beta reveals the difference of the active blocks over the protocol
\* that is current in the master of each party.  The model ends here: fss_free
\* (fss_altered.oc:285-288) then cleans up pd2 and frees it, also where it is the
\* current protocol still.
CanReveal == (\A p \in Party : Joined(p)) /\ proto[1] = proto[2] /\ ~ revealed

RevealDelta ==
  /\ CanReveal
  /\ revealed' = TRUE
  /\ UNCHANGED <<shape, task, proto, online, pusher, tree>>

Next ==
  \/ \E p \in Party :
       \/ \E a \in Task : StartTask(p, a)
       \/ TraverseLevel(p) \/ WriteZ(p) \/ CountZ(p)
       \/ ExpandLevel(p) \/ ExpandLeaves(p)
  \/ RevealTo2 \/ RevealTo1 \/ ReceiveAnswer
  \/ RevealDelta

Spec == Init /\ [][Next]_vars

\* The threads of the teams keep running and the connections deliver.
FairSpec == Spec /\ WF_vars(Next)

-----------------------------------------------------------------------------
\* What the type invariant says beyond types: no counter is ahead of the one
\* it is fed by, and the expansion is not ahead of the corrections.
FTypeOK ==
  /\ size \in Sizes /\ index \in -1 .. size - 1 /\ team \in [Party -> Teams]
  /\ endlevel \in 1 .. MaxSize /\ startlevel \in 0 .. endlevel - 1
  /\ task \in [Party -> [Task -> {"created", "master", "other", "done"}]]
  /\ proto \in [Party -> {"main", "second"}]
  /\ active \in [Party -> Block] /\ control \in [Party -> BOOLEAN]
  /\ Z \in Seq(Block) /\ advice \in Seq([Side -> BOOLEAN]) /\ Len(Z) = Len(advice)
  /\ readycount[2] <= flushed /\ flushed <= Len(Z) /\ Len(Z) = readycount[1]
  /\ readycount \in [Party -> 0 .. Levels]
  /\ at \in [Party -> {"wait", "answer", "write", "count"}]
  /\ sent <= readycount[1] /\ answered <= sent /\ answered <= readycount[2]
  /\ Zpushed \in [Party -> [1 .. Levels -> [Z : Block, advice : [Side -> BOOLEAN]]]]
  /\ pushed \in [Party -> 0 .. Levels] /\ \A p \in Party : pushed[p] <= answered
  /\ level \in [Party -> startlevel .. endlevel]
  /\ front \in [Party -> Buffer]
  /\ data \in [Party -> [Buffer -> [Cell -> Block]]]
  /\ bits \in [Party -> [Buffer -> [Cell -> BOOLEAN]]]
  /\ revealed \in BOOLEAN

(***************************************************************************)
(* The vectors of the two parties are equal but for the index, where the   *)
(* bits differ and the values differ by the difference of the active blocks*)
(* that the oblivious part has followed on its own (fss_altered.oc:120-130,*)
(* 198-201): no interleaving lets a level be expanded without the          *)
(* correction that both parties apply.  Without an index they are equal.   *)
(***************************************************************************)
ExpandsPointFunction ==
  (\A p \in Party : Joined(p)) =>
    \A c \in 0 .. size - 1 :
      /\ (bits[1]["output"][c] # bits[2]["output"][c]) <=> c = index
      /\ Xor(data[1]["output"][c], data[2]["output"][c]) =
           IF c = index THEN Xor(active[1], active[2]) ELSE Zero

(***************************************************************************)
(* A step that a thread may take: what the actions of Next wait for.       *)
(***************************************************************************)
CanProceed ==
  \/ \E p \in Party :
       \/ \E a \in Task, thread \in {"master", "other"} : CanTake(p, a, thread)
       \/ CanTraverse(p)
       \/ at[p] \in {"write", "count"}
       \/ Running(p, "expand") /\ HasCorrection(p)
  \/ Pushing(1) \/ CanAnswer \/ CanReceive \/ CanReveal

\* dpf_with_beta has gone on, or cannot: the parties' masters are left with
\* different protocols, as one of them has run fss_Z_pusher itself.
AllEnded == (\A p \in Party : Joined(p)) /\ (revealed \/ proto[1] # proto[2])

(***************************************************************************)
(* No deadlock among the three activities of the two parties, which poll   *)
(* each other's counters and wait for each other's messages: as long as    *)
(* they have not all ended, one of them can proceed, whatever the sizes of *)
(* the teams and whichever thread runs which task; unless the team of one  *)
(* party, and not that of the other, is a single thread (fss_altered.c:315)*)
(***************************************************************************)
FssNeverStuck == SameConnection => AllEnded \/ CanProceed

(***************************************************************************)
(* What is left to do in party p: the levels to follow, to push and to     *)
(* expand, and the tasks to begin and to end.  A level is pushed in four   *)
(* steps, of which party 2 has three (it does not wait for an answer).     *)
(***************************************************************************)
Stage(p) == CASE at[p] = "wait" -> 0 [] at[p] = "answer" -> 1 [] at[p] = "write" -> 2 [] OTHER -> 3

ToFollow(p) == Levels - readycount[p]
ToExpand(p) == endlevel - level[p]
ToPush(p)   == 4 * (Levels - pushed[p]) - Stage(p)

TaskWork(p, a) ==
  CASE task[p][a] = "created" -> 2 [] task[p][a] = "done" -> 0 [] OTHER -> 1

WorkOf(p) ==
  ToFollow(p) + ToPush(p) + ToExpand(p) + (TaskWork(p, "push") + TaskWork(p, "expand"))

Work == WorkOf(1) + WorkOf(2) + IF revealed THEN 0 ELSE 1

(***************************************************************************)
(* The activities come nearer to their end with every step of any thread,  *)
(* and no step leads to where they are stuck before it.  Nothing goes round*)
(* in circles: a level is neither pushed nor expanded again.               *)
(***************************************************************************)
FssProgress == [][FssNeverStuck' /\ 0 <= Work' /\ Work' < Work]_vars

(***************************************************************************)
(* For all sizes of the teams and all choices of threads for the tasks, the*)
(* activities end in both parties and dpf_with_beta goes on.  There are two*)
(* exceptions: the team of one party, and not that of the other, is a      *)
(* single thread (fss_altered.c:315); or the master has run fss_Z_pusher in*)
(* one party only, so that its current protocol is pd2 afterwards.         *)
(***************************************************************************)
FssEnds == SameConnection => <>AllEnded

=============================================================================
