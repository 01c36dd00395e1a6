---------------------------- MODULE MCMpfssNaive ----------------------------
(***************************************************************************)
(* An instance of MpfssNaive with vectors of three elements, one to three  *)
(* indices, sorted or not, and one or two threads.  Three indices and two  *)
(* threads give ranges of different lengths, one index and two threads a   *)
(* thread without a range.                                                 *)
(***************************************************************************)
EXTENDS MpfssNaive

MCBitPos == {"x", "y"}
MCMask == {[k \in 0 .. 2 |-> IF k = 0 THEN {"bit", "y"} ELSE {"x"}]}
MCInputs == {[n \in 0 .. 0 |-> 1],
             [n \in 0 .. 1 |-> 2 * n], [n \in 0 .. 1 |-> 2 - n],
             [n \in 0 .. 2 |-> (n + 1) % 3]}
MCValues == {<<[n \in 0 .. 2 |-> IF n = 0 THEN {"x"} ELSE {}],
               [n \in 0 .. 2 |-> IF n = 0 THEN {} ELSE IF n = 1 THEN {"y"} ELSE {"x", "y"}]>>}

=============================================================================
