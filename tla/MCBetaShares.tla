---------------------------- MODULE MCBetaShares ----------------------------
(***************************************************************************)
(* An instance of BetaShares with 2 values and 4 buckets, so that two      *)
(* elements of the list compare as equal (1.5 * t gives two unused         *)
(* buckets from t = 4 on): every assignment of two of three indices and all*)
(* shares of two bits.                                                     *)
(***************************************************************************)
EXTENDS BetaShares

MCBitPos == {0, 1}
MCIndex == 0 .. 2

=============================================================================
