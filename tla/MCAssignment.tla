---------------------------- MODULE MCAssignment ----------------------------
(***************************************************************************)
(* An instance of Assignment with t = 3 indices out of size = 6, so that   *)
(* b = 4, max_loop = 3, and 5-bit integers.  The hash function collides for*)
(* some keys under both functions and takes the least integer for one seed.*)
(***************************************************************************)
EXTENDS Assignment

MCSize == 6
MCKey == 0 .. MCSize - 1
MCRand == 0 .. 3
MCIntMin == -16
MCHashFunction ==
  [p \in MCRand \X MCKey |-> ((11 * p[1] + 7 * p[2] + 5 * p[1] * p[2] + 6) % 32) - 16]
MCSizeHashTables == [t \in {0} |-> NoBuckets(3)]
MCMaxLoop == MaxLoopFor(MCSize)

=============================================================================
