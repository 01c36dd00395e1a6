----------------------------- MODULE SearchTree -----------------------------
(***************************************************************************)
(* includes/binary_search_tree.c: a binary search tree in which a key may  *)
(* occur more than once.  A tree is NULL or a node with its subtrees; an   *)
(* operator returns the tree that its function leaves behind.              *)
(***************************************************************************)
EXTENDS Integers, FiniteSets, SequencesExt

CONSTANT NULL

newBTNode(s, key) == [s |-> s, key |-> key, left |-> NULL, right |-> NULL]

\* An equal key goes to the right.
RECURSIVE insert(_, _, _)
insert(node, s, key) ==
  IF node = NULL THEN newBTNode(s, key)
  ELSE IF key < node.key THEN [node EXCEPT !.left = insert(@, s, key)]
  ELSE [node EXCEPT !.right = insert(@, s, key)]

RECURSIVE minValueBTNode(_)
minValueBTNode(node) == IF node.left = NULL THEN node ELSE minValueBTNode(node.left)

\* Bug: the successor is not deleted.
RECURSIVE deleteBTNode_m1(_, _)
deleteBTNode_m1(root, key) ==
  IF root = NULL THEN NULL
  ELSE IF key < root.key THEN [root EXCEPT !.left = deleteBTNode_m1(@, key)]
  ELSE IF key > root.key THEN [root EXCEPT !.right = deleteBTNode_m1(@, key)]
  ELSE IF root.left = NULL THEN root.right
  ELSE IF root.right = NULL THEN root.left
  ELSE [root EXCEPT !.key = minValueBTNode(root.right).key]

\* A node with two children gets the key of its successor, which is deleted;
\* the successor's s is lost, the node keeps its own.
RECURSIVE deleteBTNode(_, _)
deleteBTNode(root, key) ==
  IF root = NULL THEN NULL
  ELSE IF key < root.key THEN [root EXCEPT !.left = deleteBTNode(@, key)]
  ELSE IF key > root.key THEN [root EXCEPT !.right = deleteBTNode(@, key)]
  ELSE IF root.left = NULL THEN root.right
  ELSE IF root.right = NULL THEN root.left
  ELSE LET temp == minValueBTNode(root.right) IN
       [root EXCEPT !.key = temp.key, !.right = deleteBTNode(@, temp.key)]

\* The topmost node with the key.
RECURSIVE search(_, _)
search(root, key) ==
  IF root = NULL \/ root.key = key THEN root
  ELSE IF root.key < key THEN search(root.right, key) ELSE search(root.left, key)

\* write_in_array: despite its name, a node comes before its subtrees.
RECURSIVE inorder_array(_)
inorder_array(root) ==
  IF root = NULL THEN <<>>
  ELSE <<root.s>> \o inorder_array(root.left) \o inorder_array(root.right)

\* inorder: the keys as they are printed.
RECURSIVE inorder(_)
inorder(root) ==
  IF root = NULL THEN <<>> ELSE inorder(root.left) \o <<root.key>> \o inorder(root.right)

RECURSIVE get_size(_)
get_size(root) == IF root = NULL THEN 0 ELSE 1 + get_size(root.left) + get_size(root.right)

-----------------------------------------------------------------------------
\* The tree after inserting the keys of a sequence; s is the place in it.
TreeOf(keys) ==
  LET tree[n \in 0 .. Len(keys)] == IF n = 0 THEN NULL ELSE insert(tree[n - 1], n, keys[n])
  IN  tree[Len(keys)]

Ascending(keys) == \A m, n \in DOMAIN keys : m < n => keys[m] <= keys[n]
Occurrences(keys, key) == {n \in DOMAIN keys : keys[n] = key}

\* What a tree made of keys returns for a key.
FindsFirst(keys, key) ==
  LET found == search(TreeOf(keys), key)
  IN  IF Occurrences(keys, key) = {} THEN found = NULL
      ELSE found.key = key /\ found.s = Min(Occurrences(keys, key))

\* inorder_array has every element once.
ListsAll(keys) ==
  /\ Len(inorder_array(TreeOf(keys))) = Len(keys)
  /\ Range(inorder_array(TreeOf(keys))) = DOMAIN keys

\* Deleting a key takes away one occurrence and leaves a search tree.
DeletesOne(keys, key) ==
  LET left == inorder(deleteBTNode(TreeOf(keys), key))
  IN  /\ Ascending(left)
      /\ \A k \in Range(keys) :
           Cardinality(Occurrences(left, k)) =
             Cardinality(Occurrences(keys, k)) - IF k = key THEN 1 ELSE 0

\* Distinct keys are found with their own s after a deletion; of the successor that
\* moves to a deleted node with two children nothing is said.
KeepsContents(keys, key) ==
  LET node == search(TreeOf(keys), key)
      tree == deleteBTNode(TreeOf(keys), key)
      TwoChildren == node # NULL /\ node.left # NULL /\ node.right # NULL
      Moves(k) == TwoChildren /\ k = Min({l \in Range(keys) : l > key})
  IN  IsInjective(keys) =>
        \A n \in DOMAIN keys : keys[n] = key \/ Moves(keys[n]) \/ search(tree, keys[n]).s = n

(***************************************************************************)
(* The tree against the sequence of the keys put into it, for every        *)
(* sequence of up to n of these keys: sorted, enumerated completely, found *)
(* by the first occurrence.  Deletion is right for the keys, and for what  *)
(* is stored with those that it does not move.                             *)
(***************************************************************************)
TreeCorrect(Keys, n) ==
  \A keys \in BoundedSeq(Keys, n) :
    /\ Ascending(inorder(TreeOf(keys)))
    /\ get_size(TreeOf(keys)) = Len(keys)
    /\ ListsAll(keys)
    /\ \A key \in Keys :
         FindsFirst(keys, key) /\ DeletesOne(keys, key) /\ KeepsContents(keys, key)

=============================================================================
