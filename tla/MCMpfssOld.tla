----------------------------- MODULE MCMpfssOld -----------------------------
(***************************************************************************)
(* An instance of MpfssOld with two indices out of three and three        *)
(* buckets, in which keys are twice; the second seed gives other lengths.  *)
(* Two threads leave ranges of different lengths; four are more than there *)
(* are buckets.  All ranges are run by one OpenMP thread or by two.        *)
(***************************************************************************)
EXTENDS MpfssOld

MCBitPos == {"x", "y", "z"}
MCByte == [n \in 0 .. 2 |-> CASE n = 0 -> "x" [] n = 1 -> "y" [] OTHER -> "z"]
MCSeed == {0, 1}
MCBuckets == [s \in MCSeed |-> [n \in 0 .. 2 |->
  IF s = 0
  THEN CASE n = 0 -> <<0, 0, 1, 1>> [] n = 1 -> <<1, 2>> [] OTHER -> <<0, 2, 2>>
  ELSE CASE n = 0 -> <<0, 0, 1, 1>> [] n = 1 -> <<0, 1, 2>> [] OTHER -> <<2, 2>>]]
MCMask == {[c \in 1 .. 4 |-> IF c % 2 = 0 THEN {"bit", "x", "z"} ELSE {"y"}]}
MCValues == {[k \in 0 .. 1 |-> IF k = 0 THEN {0} ELSE {}],
             [k \in 0 .. 1 |-> IF k = 0 THEN {} ELSE {1}]}
MCThreads == {1, 2, 4}
MCSchedule == {[k \in 0 .. 2 |-> 0], [k \in 0 .. 2 |-> k % 2]}

=============================================================================
