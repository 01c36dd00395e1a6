------------------------------ MODULE MCCuckoo ------------------------------
(***************************************************************************)
(* An instance of Cuckoo with two tables of different lengths, the general *)
(* case of cuckoo.cpp (cuckoo_test.cpp uses three), 4-bit integers and an  *)
(* irregular hash function that takes the least integer too.               *)
(***************************************************************************)
EXTENDS Cuckoo

MCKey == 0 .. 3
MCRand == 0 .. 2
MCIntMin == -8
MCHashFunction ==
  [p \in MCRand \X MCKey |-> ((5 * p[1] + 7 * p[2] + 3 * p[1] * p[2]) % 16) - 8]
MCSizeHashTables == [t \in 0 .. 1 |-> IF t = 0 THEN 2 ELSE 3]

=============================================================================
