----------------------------- MODULE LinkedList -----------------------------
(***************************************************************************)
(* includes/linked_list.c and del_batch of list_utils.c: doubly linked     *)
(* lists.  A list is its heap, a function from nodes to their pointers; the*)
(* nodes are numbers, their contents belong to the user of the list.       *)
(***************************************************************************)
EXTENDS Integers, FiniteSets

CONSTANT NULL

create_head(n) == [k \in {n} |-> [is_head |-> TRUE, prev |-> NULL, next |-> NULL]]

\* f with v for x, which may be new.
With(f, x, v) == [k \in DOMAIN f \union {x} |-> IF k = x THEN v ELSE f[k]]

\* A new last node n behind prev.
insert_dllnode(list, prev, n) ==
  With([list EXCEPT ![prev].next = n], n, [is_head |-> FALSE, prev |-> prev, next |-> NULL])

\* The nodes first .. last, inserted one after the other.
NewList(first, last) ==
  LET list[n \in first .. last] ==
        IF n = first THEN create_head(n) ELSE insert_dllnode(list[n - 1], n - 1, n)
  IN  list[last]

\* Bug: the node that follows keeps its pointer to the one that is deleted.
delink_m1(list, n) ==
  LET prev == list[n].prev
      next == list[n].next
  IN  CASE prev # NULL /\ next # NULL -> [list EXCEPT ![prev].next = next]
        [] prev = NULL /\ next # NULL -> [list EXCEPT ![next].prev = NULL, ![next].is_head = TRUE]
        [] prev # NULL /\ next = NULL -> [list EXCEPT ![prev].next = NULL]
        [] prev = NULL /\ next = NULL -> list

\* delink_dllnode: a middle node, the first, the last, and the only one.
delink(list, n) ==
  LET prev == list[n].prev
      next == list[n].next
  IN  CASE prev # NULL /\ next # NULL -> [list EXCEPT ![prev].next = next, ![next].prev = prev]
        [] prev = NULL /\ next # NULL -> [list EXCEPT ![next].prev = NULL, ![next].is_head = TRUE]
        [] prev # NULL /\ next = NULL -> [list EXCEPT ![prev].next = NULL]
        [] prev = NULL /\ next = NULL -> list

\* What delink_dllnode and del_dllnode return: the next node, else the previous.
after(list, n) == IF list[n].next # NULL THEN list[n].next ELSE list[n].prev

\* del_dllnode, del_batch: the node is freed.
del(list, n) == [k \in DOMAIN list \ {n} |-> delink(list, n)[k]]

\* Back to the head, in as many steps as there are nodes at most.
get_head(list, n) ==
  LET walk[k \in 0 .. Cardinality(DOMAIN list)] ==
        IF k = 0 THEN n
        ELSE IF list[walk[k - 1]].is_head THEN walk[k - 1] ELSE list[walk[k - 1]].prev
  IN  walk[Cardinality(DOMAIN list)]

(***************************************************************************)
(* The list consists of exactly these nodes, in ascending order: forward   *)
(* and backward pointers agree, and the first node only is a head.         *)
(***************************************************************************)
LinksExactly(list, nodes) ==
  /\ nodes \subseteq DOMAIN list
  /\ \A n \in nodes :
       LET below == {k \in nodes : k < n}
           above == {k \in nodes : k > n}
       IN  /\ list[n].is_head <=> below = {}
           /\ IF below = {} THEN list[n].prev = NULL
              ELSE list[n].prev \in below /\ \A k \in below : k <= list[n].prev
           /\ IF above = {} THEN list[n].next = NULL
              ELSE list[n].next \in above /\ \A k \in above : k >= list[n].next

=============================================================================
