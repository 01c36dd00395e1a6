------------------------- MODULE AssignmentContract -------------------------
(***************************************************************************)
(* What create_assignement promises its callers, without hash tables: one  *)
(* step to a system of distinct representatives, or to a failure.          *)
(***************************************************************************)
EXTENDS Integers

CONSTANTS Bucket   \* the buckets

VARIABLES
  indices,   \* the set of indices to be assigned
  home,      \* home[k]: the buckets that contain k
  outcome,   \* "working", "assigned", "failed" or "crashed"
  assigned   \* the index of each bucket, -1 for none; <<>> before

vars == <<indices, home, outcome, assigned>>

Init == outcome = "working" /\ assigned = <<>>

(***************************************************************************)
(* Every index has exactly one bucket, one that contains it; a bucket has  *)
(* at most one index.                                                      *)
(***************************************************************************)
ValidAssignment(a) ==
  /\ \A b \in Bucket : a[b] # -1 => a[b] \in indices /\ b \in home[a[b]]
  /\ \A k \in indices : \E b \in Bucket : a[b] = k
  /\ \A b, c \in Bucket : a[b] = a[c] /\ a[b] # -1 => b = c

Assign ==
  /\ outcome = "working"
  /\ outcome' = "assigned"
  /\ DOMAIN assigned' = Bucket
  /\ ValidAssignment(assigned')
  /\ UNCHANGED <<indices, home>>

Fail ==
  /\ outcome = "working"
  /\ outcome' \in {"failed", "crashed"}
  /\ UNCHANGED <<indices, home, assigned>>

Next == Assign \/ Fail

Spec == Init /\ [][Next]_vars

=============================================================================
