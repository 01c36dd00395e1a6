------------------------------- MODULE Shares -------------------------------
(***************************************************************************)
(* What the modules of the two-party protocol have in common: a block of   *)
(* memblocksize bytes is the set of its one bits, and a value is shared by *)
(* two blocks whose exclusive or it is.                                    *)
(***************************************************************************)
EXTENDS Integers, FiniteSets

CONSTANT BitPos   \* the positions of the bits of a block

Party == {1, 2}
Block == SUBSET BitPos
Zero  == {}

Xor(x, y) == (x \ y) \union (y \ x)

\* The rank of the index in bucket n among the indices of all buckets, from 0;
\* -1 stands for an unused bucket.
Rank(val, n) == Cardinality({c \in DOMAIN val : val[c] # -1 /\ val[c] < val[n]})

(***************************************************************************)
(* The beta of bucket n: what the parties' shares of that rank combine to. *)
(***************************************************************************)
BetaOf(share, val, n) ==
  IF val[n] = -1 THEN Zero ELSE Xor(share[1][Rank(val, n)], share[2][Rank(val, n)])

=============================================================================
