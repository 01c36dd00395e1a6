----------------------------- MODULE DpfWithBeta -----------------------------
(***************************************************************************)
(* includes/mpfss_naive/mpfss_naive.oc: dpf_with_beta and dpf_proper with  *)
(* cprg_set.  Both correct the outputs of FssCprg with a block that is     *)
(* revealed to both parties, and repair the bit vector when there is no    *)
(* index (an unused bucket).  dpf_with_beta turns the values into shares of*)
(* the function that is the caller's beta at the index and 0 elsewhere.    *)
(* dpf_proper has no beta to set and multiplies where dpf_with_beta adds.  *)
(***************************************************************************)
EXTENDS FssCprg

VARIABLES
  set_beta,     \* the entry point: dpf_with_beta (TRUE) or dpf_proper
  beta,         \* the oblivious value
  temp_local    \* the correction, revealed to both parties

dvars == <<vars, set_beta, beta, temp_local>>

\* beta_non_obliv in dpf_proper: every byte is 1, or 0 without an index.
BetaOfProper == IF index = -1 THEN Zero ELSE {0}

(***************************************************************************)
(* dpf_with_beta has a beta of the caller; in dpf_proper party 1 feeds it. *)
(* Of the bytes of a block one is modelled, {0} is the number 1.           *)
(***************************************************************************)
DInit ==
  /\ Init
  /\ set_beta \in BOOLEAN
  /\ beta \in IF set_beta THEN Block ELSE {BetaOfProper}
  /\ temp_local = Zero

FssStep == Next /\ UNCHANGED <<set_beta, beta, temp_local>>

\* active_block_delta, shared by the parties' L_local.
Delta == Xor(acc[1][0], acc[2][0])

\* dpf_with_beta: temp is active_block_delta ^ beta.
RevealDelta ==
  /\ pc = "delta" /\ set_beta
  /\ temp_local' = Xor(Delta, beta)
  /\ pc' = "correct"
  /\ UNCHANGED <<shape, level, thislevelblocks, nextlevelblocks, ii, front, data, bits,
                 acc, Z, advice, set_beta, beta>>

\* dpf_proper: temp is active_block_delta * beta.
RevealProduct ==
  /\ pc = "delta" /\ ~ set_beta
  /\ temp_local' = IF beta = Zero THEN Zero ELSE Delta
  /\ pc' = "correct"
  /\ UNCHANGED <<shape, level, thislevelblocks, nextlevelblocks, ii, front, data, bits,
                 acc, Z, advice, set_beta, beta>>

\* Bug: the correction is applied to every element.
CorrectValues_m1 ==
  /\ pc = "correct"
  /\ data' = [p \in Party |-> [data[p] EXCEPT
                !["output"] = [c \in Cell |-> IF c < size THEN Xor(@[c], temp_local) ELSE @[c]]]]
  /\ pc' = "index"
  /\ UNCHANGED <<shape, level, thislevelblocks, nextlevelblocks, ii, front, bits,
                 acc, Z, advice, set_beta, beta, temp_local>>

\* Each element whose bit is set gets the correction, in both parties.
CorrectValues ==
  /\ pc = "correct"
  /\ data' = [p \in Party |-> [data[p] EXCEPT
                !["output"] = [c \in Cell |->
                   IF c < size /\ bits[p]["output"][c] THEN Xor(@[c], temp_local) ELSE @[c]]]]
  /\ pc' = "index"
  /\ UNCHANGED <<shape, level, thislevelblocks, nextlevelblocks, ii, front, bits,
                 acc, Z, advice, set_beta, beta, temp_local>>

\* The elements whose bits differ; sum and index_correction are its cardinality
\* and its greatest element, and party 1 learns both.
Differing == {c \in 0 .. size - 1 : bits[1]["output"][c] # bits[2]["output"][c]}

\* Party 1 flips its bit at index_correction.
CorrectBit(ic_no) == bits' = [bits EXCEPT ![1]["output"][ic_no] = ~ @]

\* "Correction for undefined behaviour of fss for index==-1".
CorrectIndex ==
  /\ pc = "index"
  /\ \/ index = -1 /\ \E ic_no \in Differing :
          (\A c \in Differing : c <= ic_no) /\ CorrectBit(ic_no)
     \/ (index # -1 \/ Differing = {}) /\ UNCHANGED bits
  /\ pc' = "done"
  /\ UNCHANGED <<shape, level, thislevelblocks, nextlevelblocks, ii, front, data,
                 acc, Z, advice, set_beta, beta, temp_local>>

DDone == pc = "done" /\ UNCHANGED dvars

DNext == FssStep \/ RevealDelta \/ RevealProduct \/ CorrectValues \/ CorrectIndex \/ DDone

DSpec == DInit /\ [][DNext]_dvars

-----------------------------------------------------------------------------
DTypeOK ==
  /\ TypeOK
  /\ pc \in Control \union {"correct", "index", "done"}
  /\ set_beta \in BOOLEAN /\ beta \in Block /\ temp_local \in Block

\* The values of the two parties at c, combined.
Value(c) == Xor(data[1]["output"][c], data[2]["output"][c])

(***************************************************************************)
(* The result: the bits are shares of the indicator of the index, the      *)
(* values shares of the function that is beta at the index and 0 elsewhere.*)
(* For an unused bucket (index -1) the bits are shares of 0, and so are the*)
(* values, provided that beta is 0: the bit is repaired, the value is not. *)
(* The bits are right in dpf_proper as well.                               *)
(***************************************************************************)
PointFunction ==
  pc = "done" =>
    \A c \in 0 .. size - 1 :
      /\ (bits[1]["output"][c] # bits[2]["output"][c]) <=> (c = index)
      /\ set_beta /\ (index # -1 \/ beta = Zero) =>
           Value(c) = IF c = index THEN beta ELSE Zero

(***************************************************************************)
(* TEST_dpf_proper (mpfss_naive_unittest.oc:407-427) and the comment on    *)
(* dpf_proper (mpfss_naive.oc:270-281): with an index, the values are      *)
(* shares of the function that is active_block_delta, which dpf_proper     *)
(* returns, at the index and 0 elsewhere.  A vector of one element, whose  *)
(* buffers are too short (LevelsFit), is left out.                         *)
(***************************************************************************)
ProperPointFunction ==
  pc = "done" /\ ~ set_beta /\ index # -1 /\ endlevel > 0 =>
    \A c \in 0 .. size - 1 : Value(c) = IF c = index THEN Delta ELSE Zero

(***************************************************************************)
(* When dpf_with_beta compares the bits of the parties, at most one element*)
(* differs, so flipping one bit is enough; and without an index one differs*)
(* only if the size is a power of two, the full tree.                      *)
(***************************************************************************)
OneBitToRepair ==
  pc = "index" =>
    /\ \A c, d \in Differing : c = d
    /\ index = -1 /\ Differing # {} => size = Pow2[endlevel] /\ Differing = {size - 1}

=============================================================================
