---------------------------- MODULE MCFssAltered ----------------------------
(***************************************************************************)
(* An instance of FssAltered: vectors whose trees have one level, a pruned *)
(* and a full second one, and three levels; blocks of two bits.            *)
(***************************************************************************)
EXTENDS FssAltered

MCBitPos == {0, 1}
MCMaxSize == 5
MCSizes == {2, 3, 5}
MCRoots == {{0}, {1}}
MCTeams == 1 .. 3
MCPow2 == [k \in 0 .. MCMaxSize + 1 |-> 2 ^ k]
MCLeft(x) == CASE x = {} -> {0} [] x = {0} -> {0, 1} [] x = {1} -> {1} [] OTHER -> {0}
MCRight(x) == CASE x = {} -> {1} [] x = {0} -> {0} [] x = {1} -> {} [] OTHER -> {0, 1}
MCPRG == [s \in {0, 1} |-> [x \in SUBSET MCBitPos |-> IF s = 0 THEN MCLeft(x) ELSE MCRight(x)]]

=============================================================================
