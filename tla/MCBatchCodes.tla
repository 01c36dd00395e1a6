---------------------------- MODULE MCBatchCodes ----------------------------
(***************************************************************************)
(* An instance of BatchCodes with the numbers 0 .. 3, each in two batches: *)
(* as many batches as indices, fewer, and more.  All outcomes of the draws *)
(* include empty batches and batches that have a number twice.             *)
(***************************************************************************)
EXTENDS BatchCodes

Tree == INSTANCE SearchTree

MCShapes == {<<3, 3>>, <<3, 2>>, <<2, 3>>, <<1, 2>>}

(***************************************************************************)
(* The tree operations are right on all sequences of up to five of four    *)
(* keys; and the trees that create_batches_bst leaves, of up to eight, give*)
(* what BatchCodes takes of a batch: the first element with an index, and  *)
(* all elements (binary_search_tree.c).                                    *)
(***************************************************************************)
TreesCorrect ==
  /\ stage = "draw" /\ sanity = 0 => Tree!TreeCorrect(0 .. 3, 5)
  /\ stage = "drawn" /\ fed = size * d => \A b \in 0 .. m - 1 :
       /\ \A x \in Key : Tree!FindsFirst(batches[b], x)
       /\ Tree!ListsAll(batches[b])

=============================================================================
