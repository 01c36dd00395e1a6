----------------------------- MODULE MCMpfssNew -----------------------------
(***************************************************************************)
(* An instance of MpfssNew with t = 2 indices out of size = 4 and b = 3    *)
(* buckets.  Under the first seed key 1 is twice in bucket 0 (two of its   *)
(* three hash functions collide); the second seed gives other lengths to   *)
(* two buckets.                                                            *)
(***************************************************************************)
EXTENDS MpfssNew

MCBitPos == {"x", "y"}
MCSeed == {0, 1}
MCBuckets == [s \in MCSeed |-> [n \in 0 .. 2 |->
  IF s = 0
  THEN CASE n = 0 -> <<0, 1, 1, 2>> [] n = 1 -> <<0, 1, 2, 3>> [] OTHER -> <<0, 2, 3, 3>>
  ELSE CASE n = 0 -> <<0, 1, 2, 3>> [] n = 1 -> <<0, 1, 3>> [] OTHER -> <<0, 1, 2, 2, 3>>]]
MCMask == {[c \in 1 .. 5 |-> IF c % 2 = 0 THEN {"bit", "x"} ELSE {"y"}]}
MCValues == {[k \in 0 .. 1 |-> IF k = 0 THEN {"x"} ELSE {}], [k \in 0 .. 1 |-> IF k = 0 THEN {} ELSE {"y"}]}
MCSchedule == {[n \in 0 .. 2 |-> 0], [n \in 0 .. 2 |-> n % 2]}

=============================================================================
