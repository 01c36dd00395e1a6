------------------------------- MODULE FssTree -------------------------------
(***************************************************************************)
(* What the two distributed point functions of includes/fss-altered have in*)
(* common: blocks, the pseudorandom generator and the size of the tree.    *)
(*                                                                         *)
(* Of the 16 bytes of a block, bit 0, the lowest bit of the first byte, is *)
(* the control bit.  The pseudorandom generator is any  *)
(* function of the block.                                                  *)
(***************************************************************************)
EXTENDS Shares

CONSTANTS
  PRG,      \* offline_prg under keyL (0) and keyR (1)
  MaxSize,  \* the greatest length of a vector
  Pow2      \* the powers of two, 1 << k

Side  == {0, 1}     \* left and right

ASSUME BlockAssumption == 0 \in BitPos
ASSUME PRGAssumption == PRG \in [Side -> [Block -> Block]]
ASSUME SizeAssumption == MaxSize \in Nat \ {0}
ASSUME Pow2Assumption ==
  /\ Pow2 \in [0 .. MaxSize + 1 -> Nat]
  /\ Pow2[0] = 1
  /\ \A k \in 0 .. MaxSize : Pow2[k + 1] = 2 * Pow2[k]

Bit(x) == 0 \in x

(***************************************************************************)
(* The cells of the buffers.  offline_start writes a right child even when *)
(* the tree is its root, so there is one cell more than the vector has.    *)
(***************************************************************************)
Cell == 0 .. MaxSize
Buffer == {"level", "output"}   \* level_data, level_bits; local_output, local_bit_output

LOG2LL(n) == CHOOSE e \in 0 .. MaxSize : Pow2[e] <= n /\ n < Pow2[e + 1]

=============================================================================
