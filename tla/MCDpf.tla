------------------------------- MODULE MCDpf -------------------------------
(***************************************************************************)
(* An instance of DpfWithBeta with blocks of two bits and all vectors of up*)
(* to six elements, so that there are full and pruned trees of depth 0..3. *)
(* The generators are not injective and do not commute with the correction.*)
(***************************************************************************)
EXTENDS DpfWithBeta

MCBitPos == {0, 1}
MCMaxSize == 6
MCPow2 == [k \in 0 .. MCMaxSize + 1 |-> 2 ^ k]
MCLeft(x) == CASE x = {} -> {0} [] x = {0} -> {0, 1} [] x = {1} -> {1} [] OTHER -> {0}
MCRight(x) == CASE x = {} -> {1} [] x = {0} -> {0} [] x = {1} -> {} [] OTHER -> {0, 1}
MCPRG == [s \in {0, 1} |-> [x \in SUBSET MCBitPos |-> IF s = 0 THEN MCLeft(x) ELSE MCRight(x)]]

=============================================================================
