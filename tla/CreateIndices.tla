--------------------------- MODULE CreateIndices ---------------------------
(***************************************************************************)
(* includes/util.c: create_indices.  Party 1 draws t distinct numbers below*)
(* size - 1.  A draw that was there before sets already_exists, which is   *)
(* never reset: no later draw is accepted, the loop runs to its limit, and *)
(* then t consecutive numbers are taken instead.                           *)
(* (create_indices.c is an earlier copy that BUILD does not compile.)      *)
(***************************************************************************)
EXTENDS Integers

CONSTANTS
  size,          \* the length of the vector
  LimitPerIndex  \* the draws per index before giving up: 100000

\* t * LimitPerIndex is assumed to fit into an int.
ASSUME IndicesAssumption == size \in Nat \ {0, 1} /\ LimitPerIndex \in Nat \ {0, 1}

VARIABLES
  t,               \* how many
  indices,         \* indices_notobliv
  i,               \* how many have been accepted
  sanity,          \* how many have been drawn
  already_exists,  \* a draw was there before
  stage            \* "draw" until create_indices returns

ivars == <<t, indices, i, sanity, already_exists, stage>>

limit == t * LimitPerIndex

\* bcRandomInt(random_gen, size - 1).  The library is not in the repository; its
\* bound is assumed to be exclusive, as the older create_indices.c:33 needs it,
\* which draws with the bound size.  Under this assumption the greatest index,
\* size - 1, is never drawn, though the comment of create_indices has [0,size).
Drawable == 0 .. size - 2

\* t is chosen by the user of this module.
IInit ==
  /\ indices = [j \in 0 .. t - 1 |-> 0]
  /\ i = 0 /\ sanity = 0 /\ already_exists = FALSE
  /\ stage = "draw"

\* Bug: the comparison starts at the second index.
DrawIndex_m1 ==
  /\ stage = "draw" /\ i < t /\ sanity < limit
  /\ \E rand \in Drawable :
       LET refused == already_exists \/ \E j \in 1 .. i - 1 : indices[j] = rand IN
       /\ already_exists' = refused
       /\ indices' = IF refused THEN indices ELSE [indices EXCEPT ![i] = rand]
       /\ i' = IF refused THEN i ELSE i + 1
  /\ sanity' = sanity + 1
  /\ UNCHANGED <<t, stage>>

\* One iteration of the loop.
DrawIndex ==
  /\ stage = "draw" /\ i < t /\ sanity < limit
  /\ \E rand \in Drawable :
       LET refused == already_exists \/ \E j \in 0 .. i - 1 : indices[j] = rand IN
       /\ already_exists' = refused
       /\ indices' = IF refused THEN indices ELSE [indices EXCEPT ![i] = rand]
       /\ i' = IF refused THEN i ELSE i + 1
  /\ sanity' = sanity + 1
  /\ UNCHANGED <<t, stage>>

\* Returns 1.
Drawn ==
  /\ stage = "draw" /\ i = t /\ sanity < limit
  /\ stage' = "drawn"
  /\ UNCHANGED <<t, indices, i, sanity, already_exists>>

\* Bug: the numbers do not wrap around.
Consecutive_m1 ==
  /\ stage = "draw" /\ sanity >= limit
  /\ \E rand \in Drawable : indices' = [j \in 0 .. t - 1 |-> rand + j]
  /\ stage' = "drawn"
  /\ UNCHANGED <<t, i, sanity, already_exists>>

\* Returns 0; the caller does not look at it, a test (buckets_test.cpp) tries again.
Consecutive ==
  /\ stage = "draw" /\ sanity >= limit
  /\ \E rand \in Drawable : indices' = [j \in 0 .. t - 1 |-> (rand + j) % (size - 1)]
  /\ stage' = "drawn"
  /\ UNCHANGED <<t, i, sanity, already_exists>>

INext == DrawIndex \/ Drawn \/ Consecutive

\* The function on its own.
ISpec == t \in Nat /\ IInit /\ [][INext]_ivars

-----------------------------------------------------------------------------
(***************************************************************************)
(* However the loop ends, the indices are distinct and below size - 1, as  *)
(* long as there are that many (util.c:102).  The hashing of mpfss_cuckoo  *)
(* and the pairing of values by rank both rely on it.                      *)
(***************************************************************************)
IndicesDistinct ==
  stage # "draw" /\ t <= size - 1 =>
    \A j, k \in DOMAIN indices :
      indices[j] \in Drawable /\ (indices[j] = indices[k] => j = k)

=============================================================================
