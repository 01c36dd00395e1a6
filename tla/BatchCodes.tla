----------------------------- MODULE BatchCodes -----------------------------
(***************************************************************************)
(* The batch codes, an alternative to cuckoo hashing: every number below   *)
(* size goes into d batches at random, and each index of party 1 is matched*)
(* with a batch of its own that contains it.                               *)
(*   binary_search_tree_focused_batch_creation.oc (method "bst"), up to the*)
(*     vector of mpfss_batch_codes_bst;                                    *)
(*   list_focused_batch_creation.oc (method "ll"): create_batches_ll and   *)
(*     combine_batches_indices_ll.                                         *)
(* No code calls them any more, mpfss_batch_codes.oh is missing, and       *)
(* create_indices has lost the first of the four arguments it gets here.   *)
(* Both parties create the same batches, from numbers that they exchange;  *)
(* they are one here.                                                      *)
(*                                                                         *)
(* A batch is the sequence of its elements.  In method "bst" it is a search*)
(* tree, into which they were inserted in this order; what search and      *)
(* inorder_array make of such a tree is checked in MCBatchCodes.           *)
(***************************************************************************)
EXTENDS CreateIndices, LinkedList, Sequences

CONSTANTS
  d,        \* mpfss->d_rounded
  Shapes    \* the pairs of t and m (mpfss->m_rounded) that are considered

Key == 0 .. size - 1

ASSUME BatchAssumption ==
  /\ d \in Nat \ {0} /\ NULL \notin Int
  /\ Shapes \subseteq (Nat \ {0}) \X (Nat \ {0})

VARIABLES
  method,      \* "bst" or "ll"
  m,           \* the number of batches
  header,      \* ll: val of the head of the caller's list of indices
  batches,     \* the numbers in each batch
  fed,         \* how many elements the batches have
  batch_list,  \* the batches without a match: bt_roots, linked (bst), batch_head (ll)
  index_list,  \* ll: the indices without a match, with their head -1
  j,           \* the index in hand: its number, or its node in index_list
  element,     \* the batch in hand (bst), the one before it (ll)
  skipped,     \* ll: i, the batches that have been looked at
  matches,     \* bst: by batch; ll: in the order of the indices
  mpfss_vector \* bst: the result, combined

bvars == <<ivars, method, m, header, batches, fed, batch_list, index_list, j, element, skipped,
           matches, mpfss_vector>>
selection == <<t, indices, i, sanity, already_exists>>
shape   == <<selection, method, m, header>>
content == <<batches, fed>>

BInit ==
  /\ \E s \in Shapes : t = s[1] /\ m = s[2]
  /\ IInit
  /\ method \in {"bst", "ll"}
  /\ header = 0
  /\ batches = [b \in 0 .. m - 1 |-> <<>>]
  /\ fed = 0
  /\ batch_list = NewList(IF method = "bst" THEN 0 ELSE -1, m - 1)
  /\ index_list = IF method = "bst" THEN NewList(-1, -1) ELSE NewList(-1, t - 1)
  /\ j = 0 /\ element = 0 /\ skipped = 0
  /\ matches = <<>>
  /\ mpfss_vector = [x \in Key |-> FALSE]

Select ==
  /\ INext
  /\ UNCHANGED <<method, m, header, content, batch_list, index_list, j, element, skipped,
                 matches, mpfss_vector>>

-----------------------------------------------------------------------------
\* Number val goes into batch r.
PutInto(r, val) == batches' = [batches EXCEPT ![r] = Append(@, val)] /\ fed' = fed + 1

\* The loops over numbers and copies; each party contributes to the draw.
CreateElement ==
  /\ stage = "drawn" /\ fed < size * d
  /\ \E r_a, r_b \in 0 .. m - 1 : PutInto((r_a + r_b) % m, fed \div d)
  /\ UNCHANGED <<shape, stage, batch_list, index_list, j, element, skipped, matches,
                 mpfss_vector>>

\* The matching begins, with the first batch or with the head of the batches.
BeginMatching ==
  /\ stage = "drawn" /\ fed = size * d
  /\ stage' = method
  /\ element' = IF method = "bst" THEN 0 ELSE -1
  /\ header' \in IF method = "bst" THEN {0} ELSE Key
  /\ UNCHANGED <<selection, method, m, content, batch_list, index_list, j, skipped,
                 matches, mpfss_vector>>

\* The value of the index in hand; the head of the list has one, too.
index == IF j = -1 THEN header ELSE indices[j]

pointinfo(b, pos) == [val |-> index, batch |-> b, index_in_batch |-> pos]

\* Bug: the head of the batch counts as a position.
Places_m1(b) == {pos \in 1 .. Len(batches[b]) : batches[b][pos] = index}

\* The positions of the index in hand in batch b; the search takes the first.
Places(b) == {pos \in 0 .. Len(batches[b]) - 1 : batches[b][pos + 1] = index}
First(b, pos) == pos \in Places(b) /\ \A k \in Places(b) : pos <= k

-----------------------------------------------------------------------------
\* combine_batches_indices_bst.

\* Bug: the search goes on from the neighbour, not from the head.
BstMatch_m1 ==
  /\ stage = "bst" /\ j < t /\ element < t
  /\ \E pos \in Places(element) : First(element, pos) /\
       matches' = With(matches, element, pointinfo(element, pos))
  /\ batch_list' = delink(batch_list, element)
  /\ LET some_node == after(batch_list, element) IN
     IF some_node = NULL
     THEN stage' = "ok" /\ UNCHANGED <<j, element>>
     ELSE j' = j + 1 /\ element' = some_node /\ UNCHANGED stage
  /\ UNCHANGED <<shape, content, index_list, skipped, mpfss_vector>>

\* The index is in this batch; the search for the next one starts at the head
\* of the others, and ends if there are no others.
BstMatch ==
  /\ stage = "bst" /\ j < t /\ element < t
  /\ \E pos \in Places(element) : First(element, pos) /\
       matches' = With(matches, element, pointinfo(element, pos))
  /\ batch_list' = delink(batch_list, element)
  /\ LET some_node == after(batch_list, element) IN
     IF some_node = NULL
     THEN stage' = "ok" /\ UNCHANGED <<j, element>>
     ELSE j' = j + 1 /\ element' = get_head(batch_list', some_node) /\ UNCHANGED stage
  /\ UNCHANGED <<shape, content, index_list, skipped, mpfss_vector>>

BstMiss ==
  /\ stage = "bst" /\ j < t /\ Places(element) = {}
  /\ IF batch_list[element].next = NULL
     THEN stage' = "failed" /\ UNCHANGED element
     ELSE element' = batch_list[element].next /\ UNCHANGED stage
  /\ UNCHANGED <<shape, content, batch_list, index_list, j, skipped, matches, mpfss_vector>>

BstEnd ==
  /\ stage = "bst" /\ j = t
  /\ stage' = "ok"
  /\ UNCHANGED <<shape, content, batch_list, index_list, j, element, skipped, matches,
                 mpfss_vector>>

\* matches is indexed by m batches and has room for t: a match in another batch is
\* written behind it, and get_batch_vectors reads the matches of all batches.
BstOverrun ==
  /\ \/ stage = "bst" /\ j < t /\ Places(element) # {} /\ element >= t
     \/ stage = "ok" /\ method = "bst" /\ m > t
  /\ stage' = "undefined"
  /\ UNCHANGED <<shape, content, batch_list, index_list, j, element, skipped, matches,
                 mpfss_vector>>

\* get_batch_vectors, external: a DPF for each batch, of its match if it has one.
vectors(b, pos) == b \in DOMAIN matches /\ matches[b].index_in_batch = pos

\* get_mpfss_vector_bc_bst, once both parties know the outcome.
CombineVectors ==
  /\ stage = "ok" /\ method = "bst" /\ m <= t
  /\ mpfss_vector' = [x \in Key |->
       \E b \in 0 .. m - 1 : \E pos \in 0 .. Len(batches[b]) - 1 :
         batches[b][pos + 1] = x /\ vectors(b, pos)]
  /\ stage' = "done"
  /\ UNCHANGED <<shape, content, batch_list, index_list, j, element, skipped, matches>>

-----------------------------------------------------------------------------
\* combine_batches_indices_ll and check_this_batch_ll.

no_available_batches == m - Cardinality(DOMAIN matches)
batch_current == batch_list[element].next

\* The index is in this batch: both are deleted from their lists.  After the last
\* index del_dllnode returns the head, which is treated as an index.
LlMatch ==
  /\ stage = "ll"
  /\ \E pos \in Places(batch_current) : First(batch_current, pos) /\
       matches' = With(matches, m - no_available_batches, pointinfo(batch_current, pos))
  /\ batch_list' = del(batch_list, batch_current)
  /\ index_list' = del(index_list, j)
  /\ j' = after(index_list, j)
  /\ stage' = IF no_available_batches = 1 \/ j' = NULL THEN "ok" ELSE "ll"
  /\ element' = -1 /\ skipped' = 0
  /\ UNCHANGED <<shape, content, mpfss_vector>>

\* Bug: after the last batch the search starts over.
LlMiss_m1 ==
  /\ stage = "ll" /\ batches[batch_current] # <<>> /\ Places(batch_current) = {}
  /\ IF skipped + 1 = no_available_batches
     THEN element' = -1 /\ skipped' = 0
     ELSE element' = batch_current /\ skipped' = skipped + 1
  /\ UNCHANGED <<shape, content, stage, batch_list, index_list, j, matches, mpfss_vector>>

\* It is not: the next batch, or failure after the last.
LlMiss ==
  /\ stage = "ll" /\ batches[batch_current] # <<>> /\ Places(batch_current) = {}
  /\ IF skipped + 1 = no_available_batches
     THEN stage' = "failed" /\ UNCHANGED <<element, skipped>>
     ELSE element' = batch_current /\ skipped' = skipped + 1 /\ UNCHANGED stage
  /\ UNCHANGED <<shape, content, batch_list, index_list, j, matches, mpfss_vector>>

\* "skip empty batches" ends the inner loop, and the outer one starts over.
LlEmpty ==
  /\ stage = "ll" /\ batches[batch_current] = <<>>
  /\ element' = -1 /\ skipped' = 0
  /\ UNCHANGED <<shape, content, stage, batch_list, index_list, j, matches, mpfss_vector>>

\* Returned, or both parties have exited, or the outcome is undefined.
Ended == stage \in {"failed", "done", "undefined"} \/ (stage = "ok" /\ method = "ll")

BNext ==
  \/ Select \/ CreateElement \/ BeginMatching
  \/ BstMatch \/ BstMiss \/ BstEnd \/ BstOverrun \/ CombineVectors
  \/ LlMatch \/ LlMiss \/ LlEmpty
  \/ Ended /\ UNCHANGED bvars

\* Both parties are running.
BSpec == BInit /\ [][BNext]_bvars /\ WF_bvars(BNext)

-----------------------------------------------------------------------------
Unmatched == 0 .. m - 1 \ {matches[k].batch : k \in DOMAIN matches}
Contains(b, x) == \E pos \in DOMAIN batches[b] : batches[b][pos] = x

BCTypeOK ==
  /\ <<t, m>> \in Shapes /\ method \in {"bst", "ll"}
  /\ stage \in {"draw", "drawn", "bst", "ll", "ok", "failed", "done", "undefined"}
  /\ indices \in [0 .. t - 1 -> Key] /\ i \in 0 .. t /\ sanity \in 0 .. limit
  /\ already_exists \in BOOLEAN
  /\ fed \in 0 .. size * d /\ batches \in [0 .. m - 1 -> Seq(Key)]
  /\ j \in -1 .. t \/ j = NULL
  /\ element \in -1 .. m - 1 /\ skipped \in 0 .. m - 1
  /\ mpfss_vector \in [Key -> BOOLEAN]

(***************************************************************************)
(* The lists are right after any sequence of deletions at any place: the   *)
(* one of the batches has those without a match, the one of the indices    *)
(* those that are left (linked_list.c, list_utils.c).                      *)
(***************************************************************************)
ListsSound ==
  IF method = "bst" THEN LinksExactly(batch_list, Unmatched)
  ELSE /\ LinksExactly(batch_list, Unmatched \union {-1})
       /\ j # NULL => LinksExactly(index_list, {-1} \union (Cardinality(DOMAIN matches) .. t - 1))

(***************************************************************************)
(* The matches are of the first indices, in different batches, and give a  *)
(* position at which the batch has the index, though a batch can have a    *)
(* number twice; so the vector is the indicator of the matched indices.    *)
(***************************************************************************)
MatchesValid ==
  /\ \A k, l \in DOMAIN matches : matches[k].batch = matches[l].batch => k = l
  /\ \A k \in DOMAIN matches : LET batch == batches[matches[k].batch] IN
       /\ matches[k].index_in_batch \in 0 .. Len(batch) - 1
       /\ batch[matches[k].index_in_batch + 1] = matches[k].val
  /\ LET n == Cardinality(DOMAIN matches) IN
     {matches[k].val : k \in DOMAIN matches} =
       {IF k < t THEN indices[k] ELSE header : k \in 0 .. n - 1}
  /\ stage = "done" => \A x \in Key :
       mpfss_vector[x] <=> \E k \in DOMAIN matches : matches[k].val = x

(***************************************************************************)
(* The search gives up only if no batch without a match has the index in   *)
(* hand.  Where there are as many batches as indices or more, it reports   *)
(* success only when every index has a match ("All indices have been       *)
(* assigned", binary_search_tree_focused_batch_creation.oc:153).           *)
(***************************************************************************)
OutcomeJustified ==
  /\ stage = "failed" => \A b \in Unmatched : ~ Contains(b, index)
  /\ stage \in {"ok", "done"} /\ m >= t =>
       \A n \in 0 .. t - 1 : \E k \in DOMAIN matches : matches[k].val = indices[n]

\* The first batch that combine_batches_indices_ll stops at is empty.
StuckAtEmpty ==
  stage = "ll" /\ \E b \in Unmatched :
    batches[b] = <<>> /\ \A c \in Unmatched : c < b => batches[c] # <<>> /\ ~ Contains(c, index)

(***************************************************************************)
(* The matching comes to an end, unless combine_batches_indices_ll meets an*)
(* empty batch before one that has the index: then it starts over for ever.*)
(***************************************************************************)
BatchEnds == <>Ended \/ <>[]StuckAtEmpty

=============================================================================
