------------------------------- MODULE Cuckoo -------------------------------
(***************************************************************************)
(* includes/cuckoo/cuckoo.cpp: cuckoo hashing with a random walk.          *)
(*                                                                         *)
(* cuckoo() places the keys of a vector one after the other; place() walks *)
(* through the tables, evicting the key it finds in an occupied slot, until*)
(* it meets a free slot or has evicted max_loop - 1 keys.  The recursion of*)
(* place() is a tail call, so its parameters are state variables here and  *)
(* one activation of place() is one step.                                  *)
(*                                                                         *)
(* rand() is a nondeterministic choice of the hash function.  The second   *)
(* component of a table entry (rand_no) is left out: place() copies it and *)
(* never reads it for a decision, since the random walk chooses the hash   *)
(* function afresh in every activation (cuckoo.cpp:96-98).                 *)
(***************************************************************************)
EXTENDS Integers

CONSTANTS
  Key,             \* the keys that can be placed
  Rand,            \* the seeds of the hash functions
  HashFunction,    \* hash_function: [Rand \X Key -> 32-bit integers]
  IntMin,          \* the least value of a C int
  NoHashFunctions, \* w
  NoHashTables,    \* no_hash_tables
  SizeHashTables,  \* size_hash_tables: [0 .. NoHashTables-1 -> Nat \ {0}]
  MaxLoop,         \* max_loop
  NoKeys           \* no_keys, the length of the vector of keys

Function == 0 .. NoHashFunctions - 1
TableID  == 0 .. NoHashTables - 1

ASSUME KeyAssumption == Key \subseteq Nat
ASSUME IntMinAssumption == IntMin \in Int /\ IntMin < 0
ASSUME HashFunctionAssumption ==
  HashFunction \in [Rand \X Key -> IntMin .. (-IntMin - 1)]
ASSUME SizesAssumption ==
  /\ NoHashFunctions \in Nat \ {0}
  /\ NoHashTables \in Nat \ {0}
  /\ SizeHashTables \in [TableID -> Nat \ {0}]
  /\ MaxLoop \in Int
  /\ NoKeys \in Nat

(***************************************************************************)
(* The C library's abs on two's complement integers: the least integer has *)
(* no negation and stays as it is.                                         *)
(***************************************************************************)
CAbs(n) == IF n < 0 /\ n # IntMin THEN -n ELSE n

\* fast_mod applies % only to inputs that need it; negative ones pass through.
fast_mod(input, ceil) == IF input >= ceil THEN input % ceil ELSE input

hash_this(k, rand, length) == fast_mod(CAbs(HashFunction[<<rand, k>>]), length)

Slot == UNION {{t} \X (0 .. SizeHashTables[t] - 1) : t \in TableID}

VARIABLES
  keys,        \* the vector of keys, indexed from 0
  rands,       \* c->rands, the seeds of the hash functions
  table,       \* c->tables, the key in each slot (0 at first)
  table_usage, \* c->table_usage, which slots hold a key
  pc,          \* "loop": in cuckoo(); "place": in place(); or the outcome
  i,           \* the loop counter of cuckoo()
  key,         \* place()'s key, the one in hand
  tableID,     \* place()'s tableID
  cnt,         \* place()'s cnt
  evictions    \* the sum that cuckoo() returns

vars == <<keys, rands, table, table_usage, pc, i, key, tableID, cnt, evictions>>

Outcome == {"ok", "max_loop", "out_of_range"}

Injective(f) == \A x, y \in DOMAIN f : f[x] = f[y] => x = y

-----------------------------------------------------------------------------
(***************************************************************************)
(* initialize() and the prologue of cuckoo().  The callers pass distinct   *)
(* keys (create_indices) and distinct seeds (create_rand_vector).          *)
(***************************************************************************)
Init ==
  /\ keys \in [0 .. NoKeys - 1 -> Key] /\ Injective(keys)
  /\ rands \in [Function -> Rand] /\ Injective(rands)
  /\ table = [s \in Slot |-> 0]
  /\ table_usage = [s \in Slot |-> FALSE]
  /\ pc = "loop"
  /\ i = 0
  /\ key = 0 /\ tableID = 0 /\ cnt = 0
  /\ evictions = 0

\* cuckoo(): the next key of the vector, place(keys.at(i), 0, 0, 0, c).
StartKey ==
  /\ pc = "loop" /\ i < NoKeys
  /\ key' = keys[i] /\ tableID' = 0 /\ cnt' = 0
  /\ pc' = "place"
  /\ UNCHANGED <<keys, rands, table, table_usage, i, evictions>>

\* cuckoo(): all keys placed, the evictions are returned.
Finish ==
  /\ pc = "loop" /\ i = NoKeys
  /\ pc' = "ok"
  /\ UNCHANGED <<keys, rands, table, table_usage, i, key, tableID, cnt, evictions>>

\* Bug: every table is taken to be as long as the first one.
Probe_m1(f) == <<tableID, hash_this(key, rands[f], SizeHashTables[0])>>

\* The slot an activation of place() looks at when rand() chose function f.
Probe(f) == <<tableID, hash_this(key, rands[f], SizeHashTables[tableID])>>

\* Bug: the slot is not marked as used.
PlaceFree_m1(f) ==
  LET s == Probe(f) IN
  /\ pc = "place" /\ s \in Slot /\ ~ table_usage[s]
  /\ table' = [table EXCEPT ![s] = key]
  /\ evictions' = evictions + cnt
  /\ i' = i + 1
  /\ pc' = "loop"
  /\ UNCHANGED <<keys, rands, table_usage, key, tableID, cnt>>

\* place(): the slot is free.  The key stays there, cuckoo() goes on.
PlaceFree(f) ==
  LET s == Probe(f) IN
  /\ pc = "place" /\ s \in Slot /\ ~ table_usage[s]
  /\ table' = [table EXCEPT ![s] = key]
  /\ table_usage' = [table_usage EXCEPT ![s] = TRUE]
  /\ evictions' = evictions + cnt
  /\ i' = i + 1
  /\ pc' = "loop"
  /\ UNCHANGED <<keys, rands, key, tableID, cnt>>

\* Bug: the walk goes on at max_loop.
PlaceEvict_m1(f) ==
  LET s == Probe(f) IN
  /\ pc = "place" /\ s \in Slot /\ table_usage[s]
  /\ table' = [table EXCEPT ![s] = key]
  /\ key' = table[s]
  /\ tableID' = (tableID + 1) % NoHashTables
  /\ cnt' = cnt + 1
  /\ UNCHANGED <<keys, rands, table_usage, pc, i, evictions>>

\* Bug: the table number is not reduced.
PlaceEvict_m2(f) ==
  LET s == Probe(f) IN
  /\ pc = "place" /\ s \in Slot /\ table_usage[s] /\ cnt + 1 # MaxLoop
  /\ table' = [table EXCEPT ![s] = key]
  /\ key' = table[s]
  /\ tableID' = tableID + 1
  /\ cnt' = cnt + 1
  /\ UNCHANGED <<keys, rands, table_usage, pc, i, evictions>>

\* place(): the slot is taken and the walk may go on.  The key in hand moves
\* in, and place() is called for the key that was there, in the next table.
PlaceEvict(f) ==
  LET s == Probe(f) IN
  /\ pc = "place" /\ s \in Slot /\ table_usage[s] /\ cnt + 1 # MaxLoop
  /\ table' = [table EXCEPT ![s] = key]
  /\ key' = table[s]
  /\ tableID' = (tableID + 1) % NoHashTables
  /\ cnt' = cnt + 1
  /\ UNCHANGED <<keys, rands, table_usage, pc, i, evictions>>

\* place(): max_loop is reached; cuckoo() gives up at once and returns -1.
PlaceFail(f) ==
  /\ pc = "place" /\ Probe(f) \in Slot /\ table_usage[Probe(f)]
  /\ cnt + 1 = MaxLoop
  /\ pc' = "max_loop"
  /\ UNCHANGED <<keys, rands, table, table_usage, i, key, tableID, cnt, evictions>>

\* place(): the hash is negative and vector::at throws std::out_of_range,
\* which nothing catches.
PlaceThrow(f) ==
  /\ pc = "place" /\ Probe(f) \notin Slot
  /\ pc' = "out_of_range"
  /\ UNCHANGED <<keys, rands, table, table_usage, i, key, tableID, cnt, evictions>>

place(f) == PlaceFree(f) \/ PlaceEvict(f) \/ PlaceFail(f) \/ PlaceThrow(f)

\* The program has ended.
Done == pc \in Outcome /\ UNCHANGED vars

Next == StartKey \/ Finish \/ (\E f \in Function : place(f)) \/ Done

Spec == Init /\ [][Next]_vars

-----------------------------------------------------------------------------
TypeOK ==
  /\ keys \in [0 .. NoKeys - 1 -> Key] /\ Injective(keys)
  /\ rands \in [Function -> Rand] /\ Injective(rands)
  /\ table \in [Slot -> Nat]
  /\ table_usage \in [Slot -> BOOLEAN]
  /\ pc \in {"loop", "place"} \union Outcome
  /\ i \in 0 .. NoKeys /\ (pc \in {"loop", "ok"} \/ i < NoKeys)
  /\ key \in Nat
  /\ tableID \in TableID
  /\ cnt \in Nat
  /\ evictions \in Nat

\* The number of keys that place() has been called for by cuckoo().
Entered == IF pc \in {"loop", "ok"} THEN i ELSE i + 1

\* Slot s holds the key at position j of the vector.
Holds(s, j) == table_usage[s] /\ table[s] = keys[j]

\* The key at position j of the vector is the one place() has in hand; after a
\* failure, the one that was in hand and is in no table.
InHand(j) == pc \notin {"loop", "ok"} /\ key = keys[j]

(***************************************************************************)
(* No walk loses or duplicates a key: a key that was handed to place() is  *)
(* in exactly one slot, or it is the key in hand and in no slot; the keys  *)
(* still to come are in no slot.  In particular, when place() gives up     *)
(* (cuckoo.cpp:113-122) exactly one key is missing, and not necessarily the*)
(* one whose insertion failed.                                             *)
(***************************************************************************)
NoKeyLost ==
  \A j \in 0 .. NoKeys - 1 :
    /\ \A s, r \in Slot : Holds(s, j) /\ Holds(r, j) => s = r
    /\ j < Entered => (InHand(j) <=> \A s \in Slot : ~ Holds(s, j))
    /\ j >= Entered => ~ InHand(j) /\ \A s \in Slot : ~ Holds(s, j)

(***************************************************************************)
(* A used slot holds a key of the vector at a place where one of the hash  *)
(* functions puts it, whatever the order of evictions was: this is what    *)
(* makes the key a member of the bucket with the slot's number             *)
(* (buckets.cpp:43-55).                                                    *)
(***************************************************************************)
HashedTo(k, s) ==
  \E f \in Function : s[2] = hash_this(k, rands[f], SizeHashTables[s[1]])

SlotsHoldHashedKeys ==
  \A s \in Slot : table_usage[s] =>
    \E j \in 0 .. NoKeys - 1 : j < Entered /\ table[s] = keys[j] /\ HashedTo(keys[j], s)

(***************************************************************************)
(* The walk is bounded by max_loop although place() tests equality and not *)
(* an order (cuckoo.cpp:113): cnt stays below max_loop, or, for the        *)
(* max_loop = 0 that 0.5 * t gives for a single key, at 0.  The sum        *)
(* returned to create_assignement stays within the corresponding bound.    *)
(***************************************************************************)
WalkLimit == IF MaxLoop >= 1 THEN MaxLoop - 1 ELSE 0

WalkBounded ==
  MaxLoop >= 1 \/ NoKeys <= 1 => cnt <= WalkLimit /\ evictions <= i * WalkLimit

(***************************************************************************)
(* std::out_of_range is thrown for one value of the hash only, the least   *)
(* int, which abs leaves negative (cuckoo.cpp:71) and fast_mod lets pass.  *)
(***************************************************************************)
ThrowsOnIntMinOnly ==
  pc = "out_of_range" => \E f \in Function : HashFunction[<<rands[f], key>>] = IntMin

(***************************************************************************)
(* A slot never becomes free again, and the key of a used slot changes only*)
(* by going to the hand of place(): no step overwrites a key silently.     *)
(***************************************************************************)
NoSilentOverwrite ==
  [][\A s \in Slot : table_usage[s] =>
       /\ table_usage'[s]
       /\ table'[s] # table[s] => pc' = "place" /\ key' = table[s]]_vars

=============================================================================
