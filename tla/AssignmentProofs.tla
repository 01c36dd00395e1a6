-------------------------- MODULE AssignmentProofs --------------------------
(***************************************************************************)
(* Theorems about Cuckoo, for every set of keys, hash function, number and *)
(* size of tables and max_loop; and about Assignment, which runs Cuckoo on *)
(* the indices, for every size, t, w, hash function and choice of indices  *)
(* and seeds.                                                              *)
(***************************************************************************)
EXTENDS Assignment, WellFoundedInduction, TLAPS

Assumptions ==
  /\ Key \subseteq Nat
  /\ IntMin \in Int /\ IntMin < 0
  /\ HashFunction \in [Rand \X Key -> IntMin .. (-IntMin - 1)]
  /\ NoHashFunctions \in Nat \ {0}
  /\ NoHashTables \in Nat \ {0}
  /\ SizeHashTables \in [TableID -> Nat \ {0}]
  /\ MaxLoop \in Int
  /\ NoKeys \in Nat

\* The assumptions on the constants under one name.
LEMMA AllAssumptions == Assumptions
  BY KeyAssumption, IntMinAssumption, HashFunctionAssumption, SizesAssumption
     DEF Assumptions

-----------------------------------------------------------------------------
(* Slots and the arithmetic of hash_this.                                  *)

\* A slot is a position of a table, 0 included and the length excluded.
LEMMA SlotPair ==
  ASSUME NEW s \in Slot
  PROVE  /\ s = <<s[1], s[2]>>
         /\ s[1] \in TableID
         /\ s[2] \in 0 .. SizeHashTables[s[1]] - 1
  BY DEF Slot

\* The next table of a walk is one of the tables.
LEMMA NextTable ==
  ASSUME NEW t \in TableID
  PROVE  (t + 1) % NoHashTables \in TableID
  BY AllAssumptions DEF Assumptions, TableID

(***************************************************************************)
(* hash_this is a position of the table for every hash but the least int,  *)
(* whose absolute value is negative (cuckoo.cpp:68-74).                    *)
(***************************************************************************)
THEOREM HashInRange ==
  ASSUME NEW k \in Key, NEW r \in Rand, NEW len \in Nat \ {0},
         HashFunction[<<r, k>>] # IntMin
  PROVE  hash_this(k, r, len) \in 0 .. len - 1
  <1> DEFINE h == HashFunction[<<r, k>>]
             a == CAbs(h)
  <1>1. h \in IntMin .. (-IntMin - 1)
    BY AllAssumptions DEF Assumptions
  <1>2. a \in Nat
    BY <1>1, AllAssumptions DEF CAbs, Assumptions
  <1>3. CASE a >= len
    <2>1. a % len \in 0 .. len - 1
      BY <1>2
    <2> QED BY <2>1, <1>3 DEF hash_this, fast_mod
  <1>4. CASE a < len
    BY <1>2, <1>4 DEF hash_this, fast_mod
  <1> QED BY <1>2, <1>3, <1>4

-----------------------------------------------------------------------------
\* The variables of cuckoo() keep their types: slots and tables stay in range
\* (cuckoo.cpp:89-133, 242-261).
THEOREM TypeCorrect == Spec => []TypeOK
  <1>1. Init => TypeOK
    BY AllAssumptions DEF Init, TypeOK, Assumptions, Outcome, TableID
  <1>2. TypeOK /\ [Next]_vars => TypeOK'
    <2> SUFFICES ASSUME TypeOK, [Next]_vars PROVE TypeOK'
      OBVIOUS
    <2> USE DEF TypeOK, Outcome
    <2>1. CASE StartKey
      BY <2>1, AllAssumptions DEF StartKey, Assumptions, TableID
    <2>2. CASE Finish
      BY <2>2 DEF Finish
    <2>3. ASSUME NEW f \in Function, PlaceFree(f) PROVE TypeOK'
      BY <2>3, AllAssumptions DEF PlaceFree, Assumptions
    <2>4. ASSUME NEW f \in Function, PlaceEvict(f) PROVE TypeOK'
      BY <2>4, NextTable DEF PlaceEvict
    <2>5. ASSUME NEW f \in Function, PlaceFail(f) PROVE TypeOK'
      BY <2>5 DEF PlaceFail
    <2>6. ASSUME NEW f \in Function, PlaceThrow(f) PROVE TypeOK'
      BY <2>6 DEF PlaceThrow
    <2>7. CASE UNCHANGED vars
      BY <2>7 DEF vars
    <2> QED
      BY <2>1, <2>2, <2>3, <2>4, <2>5, <2>6, <2>7 DEF Next, place, Done
  <1> QED BY <1>1, <1>2, PTL DEF Spec

-----------------------------------------------------------------------------
(***************************************************************************)
(* No key is lost or duplicated, whatever the hash functions and the random*)
(* walk do, and also when place() gives up or throws.                      *)
(***************************************************************************)
THEOREM KeysNeverLost == Spec => []NoKeyLost
  <1>1. Init => NoKeyLost
    BY AllAssumptions DEF Init, NoKeyLost, Entered, InHand, Holds, Assumptions
  <1>2. TypeOK /\ NoKeyLost /\ [Next]_vars => NoKeyLost'
    <2> SUFFICES ASSUME TypeOK, NoKeyLost, [Next]_vars PROVE NoKeyLost'
      OBVIOUS
    <2>1. CASE StartKey
      <3>1. \A x, y \in 0 .. NoKeys - 1 : keys[x] = keys[y] => x = y
        BY DEF TypeOK, Injective
      <3>2. Entered = i /\ Entered' = i + 1 /\ key' = keys[i] /\ i \in 0 .. NoKeys - 1
        BY <2>1, AllAssumptions DEF StartKey, Entered, TypeOK, Assumptions
      <3>3. \A s, j : Holds(s, j)' <=> Holds(s, j)
        BY <2>1 DEF StartKey, Holds
      <3>4. \A j \in 0 .. NoKeys - 1 : ~ InHand(j) /\ (InHand(j)' <=> j = i)
        BY <2>1, <3>1, <3>2 DEF StartKey, InHand, TypeOK
      <3> QED
        BY <3>2, <3>3, <3>4 DEF NoKeyLost, TypeOK
    <2>2. CASE Finish
      BY <2>2 DEF Finish, NoKeyLost, Entered, InHand, Holds
    <2>3. ASSUME NEW f \in Function, PlaceFree(f) PROVE NoKeyLost'
      <3> DEFINE t == Probe(f)
      <3>1. Entered = i + 1 /\ Entered' = i + 1
        BY <2>3 DEF PlaceFree, Entered, TypeOK
      <3>2. \A s \in Slot, j \in 0 .. NoKeys - 1 :
              Holds(s, j)' <=> Holds(s, j) \/ (s = t /\ InHand(j))
        BY <2>3 DEF PlaceFree, Holds, InHand, TypeOK
      <3>3. \A j : ~ InHand(j)'
        BY <2>3 DEF PlaceFree, InHand
      <3>4. t \in Slot
        BY <2>3 DEF PlaceFree
      <3> HIDE DEF t
      <3> QED
        BY <2>3, <3>1, <3>2, <3>3, <3>4 DEF NoKeyLost, TypeOK, PlaceFree
    <2>4. ASSUME NEW f \in Function, PlaceEvict(f) PROVE NoKeyLost'
      <3> DEFINE t == Probe(f)
      <3>1. Entered' = Entered
        BY <2>4 DEF PlaceEvict, Entered
      <3>2. \A s \in Slot, j \in 0 .. NoKeys - 1 :
              Holds(s, j)' <=> IF s = t THEN InHand(j) ELSE Holds(s, j)
        BY <2>4 DEF PlaceEvict, Holds, InHand, TypeOK
      <3>3. \A j \in 0 .. NoKeys - 1 : InHand(j)' <=> Holds(t, j)
        BY <2>4 DEF PlaceEvict, InHand, Holds
      <3>4. t \in Slot
        BY <2>4 DEF PlaceEvict
      <3>5. keys' = keys
        BY <2>4 DEF PlaceEvict
      <3> HIDE DEF t
      <3>6. ASSUME NEW j \in 0 .. NoKeys - 1
            PROVE  /\ \A s, r \in Slot : Holds(s, j)' /\ Holds(r, j)' => s = r
                   /\ j < Entered' => (InHand(j)' <=> \A s \in Slot : ~ Holds(s, j)')
                   /\ j >= Entered' => ~ InHand(j)' /\ \A s \in Slot : ~ Holds(s, j)'
        <4>1. /\ \A s, r \in Slot : Holds(s, j) /\ Holds(r, j) => s = r
              /\ j < Entered => (InHand(j) <=> \A s \in Slot : ~ Holds(s, j))
              /\ j >= Entered => ~ InHand(j) /\ \A s \in Slot : ~ Holds(s, j)
          BY DEF NoKeyLost
        <4>2. j < Entered \/ j >= Entered
          BY AllAssumptions DEF Entered, TypeOK, Assumptions
        <4> QED BY <4>1, <4>2, <3>1, <3>2, <3>3, <3>4
      <3> QED
        BY <3>6 DEF NoKeyLost
    <2>5. ASSUME NEW f \in Function, PlaceFail(f) PROVE NoKeyLost'
      BY <2>5 DEF PlaceFail, NoKeyLost, Entered, InHand, Holds
    <2>6. ASSUME NEW f \in Function, PlaceThrow(f) PROVE NoKeyLost'
      BY <2>6 DEF PlaceThrow, NoKeyLost, Entered, InHand, Holds
    <2>7. CASE UNCHANGED vars
      BY <2>7 DEF vars, NoKeyLost, Entered, InHand, Holds
    <2> QED
      BY <2>1, <2>2, <2>3, <2>4, <2>5, <2>6, <2>7 DEF Next, place, Done
  <1> QED BY <1>1, <1>2, TypeCorrect, PTL DEF Spec

-----------------------------------------------------------------------------
(***************************************************************************)
(* The key in hand is one of the keys cuckoo() has come to; this is what   *)
(* makes the next invariant inductive.                                     *)
(***************************************************************************)
KeyFromVector ==
  pc \notin {"loop", "ok"} => \E j \in 0 .. NoKeys - 1 : j < Entered /\ key = keys[j]

SlotInv == SlotsHoldHashedKeys /\ KeyFromVector

\* The slot that place() looks at is one the key in hand hashes to.
LEMMA ProbeIsHashed ==
  ASSUME TypeOK, NEW f \in Function
  PROVE  HashedTo(key, Probe(f)) /\ Probe(f)[1] = tableID
  BY DEF HashedTo, Probe, TypeOK

\* Used slots hold keys of the vector, at a place they hash to.
LEMMA SlotInvCorrect == Spec => []SlotInv
  <1>1. Init => SlotInv
    BY DEF Init, SlotInv, SlotsHoldHashedKeys, KeyFromVector
  <1>2. TypeOK /\ SlotInv /\ [Next]_vars => SlotInv'
    <2> SUFFICES ASSUME TypeOK, SlotInv, [Next]_vars PROVE SlotInv'
      OBVIOUS
    <2>1. CASE StartKey
      <3>1. Entered = i /\ Entered' = i + 1 /\ key' = keys[i] /\ i \in 0 .. NoKeys - 1
        BY <2>1, AllAssumptions DEF StartKey, Entered, TypeOK, Assumptions
      <3>2. KeyFromVector'
        BY <2>1, <3>1 DEF StartKey, KeyFromVector, TypeOK
      <3>3. SlotsHoldHashedKeys'
        BY <2>1, <3>1 DEF StartKey, SlotInv, SlotsHoldHashedKeys, HashedTo, TypeOK
      <3> QED BY <3>2, <3>3 DEF SlotInv
    <2>2. CASE Finish
      BY <2>2 DEF Finish, SlotInv, SlotsHoldHashedKeys, KeyFromVector, HashedTo, Entered
    <2>3. ASSUME NEW f \in Function, PlaceFree(f) PROVE SlotInv'
      <3>1. Entered = i + 1 /\ Entered' = i + 1 /\ UNCHANGED <<keys, rands>>
        BY <2>3 DEF PlaceFree, Entered, TypeOK
      <3>2. KeyFromVector'
        BY <2>3 DEF PlaceFree, KeyFromVector
      <3>3. PICK j \in 0 .. NoKeys - 1 : j < Entered /\ key = keys[j]
        BY <2>3 DEF PlaceFree, SlotInv, KeyFromVector
      <3>4. HashedTo(keys[j], Probe(f))
        BY <3>3, ProbeIsHashed
      <3>5. ASSUME NEW s \in Slot, table_usage'[s]
            PROVE  \E k \in 0 .. NoKeys - 1 :
                     k < Entered' /\ table'[s] = keys'[k] /\ HashedTo(keys[k], s)'
        <4>1. CASE s = Probe(f)
          BY <4>1, <2>3, <3>1, <3>3, <3>4 DEF PlaceFree, HashedTo, TypeOK
        <4>2. CASE s # Probe(f)
          <5>1. table_usage[s] /\ table'[s] = table[s]
            BY <4>2, <2>3, <3>5 DEF PlaceFree, TypeOK
          <5> QED BY <5>1, <3>1 DEF SlotInv, SlotsHoldHashedKeys, HashedTo
        <4> QED BY <4>1, <4>2
      <3> QED BY <3>2, <3>5 DEF SlotInv, SlotsHoldHashedKeys
    <2>4. ASSUME NEW f \in Function, PlaceEvict(f) PROVE SlotInv'
      <3>1. Entered' = Entered /\ UNCHANGED <<keys, rands>>
        BY <2>4 DEF PlaceEvict, Entered, TypeOK
      <3>2. KeyFromVector'
        BY <2>4, <3>1 DEF PlaceEvict, KeyFromVector, SlotInv, SlotsHoldHashedKeys
      <3>3. PICK j \in 0 .. NoKeys - 1 : j < Entered /\ key = keys[j]
        BY <2>4 DEF PlaceEvict, SlotInv, KeyFromVector
      <3>4. HashedTo(keys[j], Probe(f))
        BY <3>3, ProbeIsHashed
      <3>5. ASSUME NEW s \in Slot, table_usage'[s]
            PROVE  \E k \in 0 .. NoKeys - 1 :
                     k < Entered' /\ table'[s] = keys'[k] /\ HashedTo(keys[k], s)'
        <4>1. CASE s = Probe(f)
          BY <4>1, <2>4, <3>1, <3>3, <3>4 DEF PlaceEvict, HashedTo, TypeOK
        <4>2. CASE s # Probe(f)
          <5>1. table_usage[s] /\ table'[s] = table[s]
            BY <4>2, <2>4, <3>5 DEF PlaceEvict, TypeOK
          <5> QED BY <5>1, <3>1 DEF SlotInv, SlotsHoldHashedKeys, HashedTo
        <4> QED BY <4>1, <4>2
      <3> QED BY <3>2, <3>5 DEF SlotInv, SlotsHoldHashedKeys
    <2>5. ASSUME NEW f \in Function, PlaceFail(f) PROVE SlotInv'
      BY <2>5 DEF PlaceFail, SlotInv, SlotsHoldHashedKeys, KeyFromVector, HashedTo, Entered
    <2>6. ASSUME NEW f \in Function, PlaceThrow(f) PROVE SlotInv'
      BY <2>6 DEF PlaceThrow, SlotInv, SlotsHoldHashedKeys, KeyFromVector, HashedTo, Entered
    <2>7. CASE UNCHANGED vars
      BY <2>7 DEF vars, SlotInv, SlotsHoldHashedKeys, KeyFromVector, HashedTo, Entered
    <2> QED
      BY <2>1, <2>2, <2>3, <2>4, <2>5, <2>6, <2>7 DEF Next, place, Done
  <1> QED BY <1>1, <1>2, TypeCorrect, PTL DEF Spec

\* Every used slot always holds a key of the vector at one of its hash values.
THEOREM SlotsAlwaysHashed == Spec => []SlotsHoldHashedKeys
  <1>1. SlotInv => SlotsHoldHashedKeys
    BY DEF SlotInv
  <1> QED BY <1>1, SlotInvCorrect, PTL

-----------------------------------------------------------------------------
(***************************************************************************)
(* A slot in use keeps its key until place() takes it in hand.             *)
(***************************************************************************)
THEOREM NeverOverwritten == Spec => NoSilentOverwrite
  <1> DEFINE Kept == \A s \in Slot : table_usage[s] =>
               /\ table_usage'[s]
               /\ table'[s] # table[s] => pc' = "place" /\ key' = table[s]
  <1>1. TypeOK /\ [Next]_vars => [Kept]_vars
    <2> SUFFICES ASSUME TypeOK, Next PROVE Kept
      OBVIOUS
    <2>1. CASE StartKey
      BY <2>1 DEF StartKey
    <2>2. CASE Finish
      BY <2>2 DEF Finish
    <2>3. ASSUME NEW f \in Function, PlaceFree(f) PROVE Kept
      BY <2>3 DEF PlaceFree, TypeOK
    <2>4. ASSUME NEW f \in Function, PlaceEvict(f) PROVE Kept
      BY <2>4 DEF PlaceEvict, TypeOK
    <2>5. ASSUME NEW f \in Function, PlaceFail(f) PROVE Kept
      BY <2>5 DEF PlaceFail
    <2>6. ASSUME NEW f \in Function, PlaceThrow(f) PROVE Kept
      BY <2>6 DEF PlaceThrow
    <2>7. CASE Done
      BY <2>7 DEF Done, vars
    <2> QED
      BY <2>1, <2>2, <2>3, <2>4, <2>5, <2>6, <2>7 DEF Next, place
  <1> QED BY <1>1, TypeCorrect, PTL DEF Spec, NoSilentOverwrite

-----------------------------------------------------------------------------
(***************************************************************************)
(* The length of a walk.  With max_loop = 0 the equality test of place()   *)
(* never succeeds, and what bounds the walk is that a single key meets no  *)
(* other: that step needs the two invariants above.                        *)
(***************************************************************************)
LEMMA SingleKeyMeetsNone ==
  ASSUME TypeOK, NoKeyLost, SlotInv, NoKeys <= 1, pc = "place",
         NEW s \in Slot
  PROVE  ~ table_usage[s]
  <1> SUFFICES ASSUME table_usage[s] PROVE FALSE
    OBVIOUS
  <1>1. NoKeys \in Nat /\ NoKeys = 1 /\ i = 0 /\ Entered = 1
    BY AllAssumptions DEF TypeOK, Entered, Assumptions, Outcome
  <1>2. PICK j \in 0 .. NoKeys - 1 : table[s] = keys[j]
    BY DEF SlotInv, SlotsHoldHashedKeys
  <1>3. Holds(s, j)
    BY <1>2 DEF Holds
  <1>4. ~ InHand(j)
    BY <1>1, <1>3 DEF NoKeyLost
  <1>5. PICK h \in 0 .. NoKeys - 1 : key = keys[h]
    BY DEF SlotInv, KeyFromVector
  <1>6. h = j
    BY <1>1
  <1> QED BY <1>4, <1>5, <1>6 DEF InHand

\* One more walk of at most W evictions stays within the bound of the sum.
LEMMA OneMoreWalk ==
  ASSUME NEW n \in Nat, NEW W \in Nat, NEW e \in Nat, NEW c \in Nat,
         e <= n * W, c <= W
  PROVE  e + c <= (n + 1) * W
  <1>1. (n + 1) * W = n * W + W /\ n * W \in Nat
    OBVIOUS
  <1> QED BY <1>1

\* place() always stops within max_loop calls, and the sum stays within its bound.
THEOREM WalkAlwaysBounded == Spec => []WalkBounded
  <1> DEFINE Inv == TypeOK /\ NoKeyLost /\ SlotInv
  <1>1. Init => WalkBounded
    BY AllAssumptions DEF Init, WalkBounded, WalkLimit, Assumptions
  <1>2. Inv /\ WalkBounded /\ [Next]_vars => WalkBounded'
    <2> SUFFICES ASSUME Inv, WalkBounded, [Next]_vars, MaxLoop >= 1 \/ NoKeys <= 1
                 PROVE  cnt' <= WalkLimit /\ evictions' <= i' * WalkLimit
      BY DEF WalkBounded, WalkLimit
    <2>0. /\ WalkLimit \in Nat /\ cnt \in Nat /\ evictions \in Nat /\ i \in Nat
          /\ cnt <= WalkLimit /\ evictions <= i * WalkLimit
      BY AllAssumptions DEF WalkBounded, WalkLimit, TypeOK, Assumptions
    <2>1. CASE StartKey
      BY <2>0, <2>1 DEF StartKey
    <2>2. CASE Finish
      BY <2>0, <2>2 DEF Finish
    <2>3. ASSUME NEW f \in Function, PlaceFree(f)
          PROVE  cnt' <= WalkLimit /\ evictions' <= i' * WalkLimit
      <3>1. cnt' = cnt /\ evictions' = evictions + cnt /\ i' = i + 1
        BY <2>3 DEF PlaceFree
      <3>2. evictions + cnt <= (i + 1) * WalkLimit
        BY <2>0, OneMoreWalk
      <3> QED BY <2>0, <3>1, <3>2
    <2>4. ASSUME NEW f \in Function, PlaceEvict(f)
          PROVE  cnt' <= WalkLimit /\ evictions' <= i' * WalkLimit
      <3>1. Probe(f) \in Slot /\ table_usage[Probe(f)] /\ pc = "place"
        BY <2>4 DEF PlaceEvict
      <3>2. ~ NoKeys <= 1
        BY <3>1, SingleKeyMeetsNone
      <3>3. MaxLoop >= 1 /\ MaxLoop \in Int
        BY <3>2, AllAssumptions DEF Assumptions
      <3>4. cnt + 1 # MaxLoop /\ cnt' = cnt + 1 /\ UNCHANGED <<evictions, i>>
        BY <2>4 DEF PlaceEvict
      <3> QED BY <2>0, <3>3, <3>4 DEF WalkLimit
    <2>5. ASSUME NEW f \in Function, PlaceFail(f)
          PROVE  cnt' <= WalkLimit /\ evictions' <= i' * WalkLimit
      BY <2>0, <2>5 DEF PlaceFail
    <2>6. ASSUME NEW f \in Function, PlaceThrow(f)
          PROVE  cnt' <= WalkLimit /\ evictions' <= i' * WalkLimit
      BY <2>0, <2>6 DEF PlaceThrow
    <2>7. CASE UNCHANGED vars
      BY <2>0, <2>7 DEF vars
    <2> QED
      BY <2>1, <2>2, <2>3, <2>4, <2>5, <2>6, <2>7 DEF Next, place, Done
  <1> QED BY <1>1, <1>2, TypeCorrect, KeysNeverLost, SlotInvCorrect, PTL DEF Spec

(***************************************************************************)
(* The exception of cuckoo.cpp:105 comes from the least int only, because  *)
(* the key in hand is a key of the vector and every other hash is a slot.  *)
(***************************************************************************)
THEOREM ThrowsOnly == Spec => []ThrowsOnIntMinOnly
  <1>1. Init => ThrowsOnIntMinOnly
    BY DEF Init, ThrowsOnIntMinOnly
  <1>2. TypeOK /\ KeyFromVector /\ ThrowsOnIntMinOnly /\ [Next]_vars => ThrowsOnIntMinOnly'
    <2> SUFFICES ASSUME TypeOK, KeyFromVector, ThrowsOnIntMinOnly, [Next]_vars
                 PROVE  ThrowsOnIntMinOnly'
      OBVIOUS
    <2>1. ASSUME NEW f \in Function, PlaceThrow(f) PROVE ThrowsOnIntMinOnly'
      <3>1. Probe(f) \notin Slot /\ UNCHANGED <<rands, key>>
        BY <2>1 DEF PlaceThrow
      <3>2. tableID \in TableID /\ key \in Key /\ rands[f] \in Rand
        BY <2>1 DEF TypeOK, KeyFromVector, PlaceThrow, Outcome
      <3>3. SizeHashTables[tableID] \in Nat \ {0}
        BY <3>2, AllAssumptions DEF Assumptions
      <3>4. Probe(f) = <<tableID, hash_this(key, rands[f], SizeHashTables[tableID])>>
        BY DEF Probe
      <3>5. hash_this(key, rands[f], SizeHashTables[tableID]) \notin 0 .. SizeHashTables[tableID] - 1
        BY <3>1, <3>2, <3>4 DEF Slot
      <3>6. HashFunction[<<rands[f], key>>] = IntMin
        BY <3>2, <3>3, <3>5, HashInRange
      <3> QED BY <3>1, <3>6 DEF ThrowsOnIntMinOnly
    <2>2. pc = "out_of_range" => UNCHANGED vars
      BY DEF Next, StartKey, Finish, place, PlaceFree, PlaceEvict, PlaceFail, PlaceThrow, Done
    <2>3. ASSUME pc # "out_of_range", pc' = "out_of_range"
          PROVE  \E f \in Function : PlaceThrow(f)
      BY <2>3 DEF Next, StartKey, Finish, place, PlaceFree, PlaceEvict, PlaceFail, PlaceThrow,
                  Done, vars
    <2>4. CASE UNCHANGED vars
      BY <2>4 DEF ThrowsOnIntMinOnly, vars
    <2> QED BY <2>1, <2>2, <2>3, <2>4 DEF ThrowsOnIntMinOnly
  <1>3. SlotInv => KeyFromVector
    BY DEF SlotInv
  <1> QED BY <1>1, <1>2, <1>3, TypeCorrect, SlotInvCorrect, PTL DEF Spec

-----------------------------------------------------------------------------
\* The numbers of buckets, tables and hash functions satisfy what Cuckoo assumes of them.
LEMMA AssignmentFacts ==
  /\ Size \in Nat \ {0} /\ NoKeys \in 1 .. Size /\ Key = 0 .. Size - 1
  /\ NoHashFunctions \in Nat \ {0}
  /\ b \in Nat \ {0}
  /\ TableID = {0} /\ SizeHashTables[0] = b
  <1>1. NoKeys \in Nat /\ NoKeys >= 1
    BY AssignmentAssumption
  <1>2. b \in Nat \ {0}
    BY <1>1 DEF b, NoBuckets
  <1>3. TableID = {0}
    BY AssignmentAssumption DEF TableID
  <1> QED
    BY <1>2, <1>3, AssignmentAssumption, SizesAssumption DEF b

\* The slots of the one table are the buckets.
LEMMA SlotIsBucket ==
  /\ \A n \in Bucket : <<0, n>> \in Slot
  /\ \A s \in Slot : s = <<0, s[2]>> /\ s[2] \in Bucket
  BY AssignmentFacts DEF Slot, Bucket

-----------------------------------------------------------------------------
(***************************************************************************)
(* create_assignement runs cuckoo() and nothing else touches its table, so *)
(* the theorems about Cuckoo hold here.                                    *)
(***************************************************************************)
LEMMA StepIsCuckooStep == [ANext]_avars => [Next]_vars
  BY DEF ANext, avars, PushKey, PushThrows, BucketsDone, CuckooStep, BuildMatches,
         AssignFailed, ADone, Next, vars

\* Seen through the variables of Cuckoo, create_assignement is a run of cuckoo()
\* (buckets.cpp:57-76).
THEOREM RunsCuckoo == ASpec => Spec
  <1>1. AInit => Init
    BY DEF AInit
  <1> QED BY <1>1, StepIsCuckooStep, PTL DEF ASpec, Spec

CuckooInv == TypeOK /\ NoKeyLost /\ SlotInv

\* What the theorems on Cuckoo show of the table holds during an assignment.
LEMMA CuckooInvHolds == ASpec => []CuckooInv
  <1>1. TypeOK /\ NoKeyLost /\ SlotInv => CuckooInv
    BY DEF CuckooInv
  <1> QED BY <1>1, RunsCuckoo, TypeCorrect, KeysNeverLost, SlotInvCorrect, PTL

-----------------------------------------------------------------------------
(* The buckets.                                                            *)

BucketTypeOK ==
  /\ phase \in {"buckets", "cuckoo", "done", "failed", "crashed"}
  /\ gen_key \in 0 .. Size /\ gen_j \in Function
  /\ all_buckets \in [Bucket -> Seq(Key)]

\* Types of the variables that Assignment adds.
LEMMA BucketTypes == ASpec => []BucketTypeOK
  <1>1. AInit => BucketTypeOK
    BY AssignmentFacts DEF AInit, BucketTypeOK, Function
  <1>2. BucketTypeOK /\ [ANext]_avars => BucketTypeOK'
    <2> SUFFICES ASSUME BucketTypeOK, [ANext]_avars PROVE BucketTypeOK'
      OBVIOUS
    <2> USE DEF BucketTypeOK
    <2>1. CASE PushKey
      <3>1. gen_key \in Key
        BY <2>1, AssignmentFacts DEF PushKey
      <3>2. all_buckets' \in [Bucket -> Seq(Key)]
        BY <2>1, <3>1 DEF PushKey
      <3> QED
        BY <2>1, <3>2, AssignmentFacts DEF PushKey, Function
    <2>2. CASE PushThrows
      BY <2>2 DEF PushThrows, bucketVars
    <2>3. CASE BucketsDone
      BY <2>3 DEF BucketsDone, bucketVars
    <2>4. CASE CuckooStep
      BY <2>4 DEF CuckooStep, bucketVars
    <2>5. CASE BuildMatches
      BY <2>5 DEF BuildMatches, bucketVars
    <2>6. CASE AssignFailed
      BY <2>6 DEF AssignFailed, bucketVars
    <2>7. CASE UNCHANGED avars
      BY <2>7 DEF avars, bucketVars
    <2> QED
      BY <2>1, <2>2, <2>3, <2>4, <2>5, <2>6, <2>7 DEF ANext, ADone
  <1> QED BY <1>1, <1>2, PTL DEF ASpec

\* Every hash that has been used so far is the number of a bucket.
PushedInRange ==
  \A k \in Key, f \in Function : Pushed(k, f) => hash_this(k, rands[f], b) \in Bucket

BucketInv == BucketsCorrect /\ PushedInRange

\* An iteration of the inner loop adds exactly the pair it is at.
LEMMA PushedStep ==
  ASSUME BucketTypeOK, PushKey, NEW k \in Key, NEW f \in Function
  PROVE  Pushed(k, f)' <=> Pushed(k, f) \/ (k = gen_key /\ f = gen_j)
  <1>1. k \in Int /\ f \in 0 .. NoHashFunctions - 1 /\ gen_key \in Int
        /\ gen_j \in 0 .. NoHashFunctions - 1 /\ NoHashFunctions \in Nat
    BY AssignmentFacts DEF BucketTypeOK, Function
  <1>2. CASE gen_j + 1 < NoHashFunctions
    BY <1>1, <1>2 DEF PushKey, Pushed
  <1>3. CASE ~ (gen_j + 1 < NoHashFunctions)
    BY <1>1, <1>3 DEF PushKey, Pushed
  <1> QED BY <1>2, <1>3

\* The buckets are sorted and hold exactly what has been pushed, at every moment.
LEMMA BucketInvHolds == ASpec => []BucketInv
  <1>1. AInit => BucketInv
    <2> SUFFICES ASSUME AInit PROVE BucketInv
      OBVIOUS
    <2>1. \A n \in Bucket : DOMAIN all_buckets[n] = {}
      BY DEF AInit
    <2>2. \A k \in Key, f \in Function : ~ Pushed(k, f)
      BY AssignmentFacts DEF AInit, Pushed, Function
    <2> QED
      BY <2>1, <2>2 DEF BucketInv, BucketsCorrect, BucketsSorted, BucketsExact, PushedInRange
  <1>2. BucketTypeOK /\ BucketInv /\ [ANext]_avars => BucketInv'
    <2> SUFFICES ASSUME BucketTypeOK, BucketInv, [ANext]_avars PROVE BucketInv'
      OBVIOUS
    <2>1. CASE PushKey
      <3> DEFINE h == bucket_number
                 v == all_buckets[h]
      <3>1. /\ h \in Bucket /\ gen_key \in Key /\ gen_j \in Function
            /\ gen_key \in 0 .. Size - 1 /\ rands' = rands
            /\ h = hash_this(gen_key, rands[gen_j], b)
        BY <2>1, AssignmentFacts DEF PushKey, BucketTypeOK, vars, bucket_number
      <3>2. v \in Seq(Key) /\ Len(v) \in Nat
        BY <3>1 DEF BucketTypeOK
      <3>3. /\ all_buckets'[h] = Append(v, gen_key)
            /\ \A n \in Bucket : n # h => all_buckets'[n] = all_buckets[n]
        BY <2>1, <3>1 DEF PushKey, BucketTypeOK
      <3>4. /\ DOMAIN all_buckets'[h] = 1 .. Len(v) + 1
            /\ \A x \in 1 .. Len(v) : all_buckets'[h][x] = v[x]
            /\ all_buckets'[h][Len(v) + 1] = gen_key
            /\ DOMAIN v = 1 .. Len(v)
            /\ \A x \in 1 .. Len(v) : v[x] \in Key
        <4>1. /\ DOMAIN Append(v, gen_key) = 1 .. Len(v) + 1
              /\ \A x \in 1 .. Len(v) : Append(v, gen_key)[x] = v[x]
              /\ Append(v, gen_key)[Len(v) + 1] = gen_key
              /\ DOMAIN v = 1 .. Len(v)
              /\ \A x \in 1 .. Len(v) : v[x] \in Key
          BY <3>1, <3>2
        <4> QED BY <3>3, <4>1, Zenon
      <3> HIDE DEF h, v
      <3>5. \A x \in 1 .. Len(v) : v[x] <= gen_key
        <4> SUFFICES ASSUME NEW x \in 1 .. Len(v) PROVE v[x] <= gen_key
          OBVIOUS
        <4>1. PICK f \in Function : Pushed(v[x], f)
          BY <3>1, <3>4 DEF BucketInv, BucketsCorrect, BucketsExact, v
        <4> QED BY <4>1, <3>1, <3>4, AssignmentFacts DEF Pushed
      <3>6. BucketsSorted'
        <4> SUFFICES ASSUME NEW n \in Bucket,
                            NEW x \in DOMAIN all_buckets'[n], NEW y \in DOMAIN all_buckets'[n],
                            x <= y
                     PROVE  all_buckets'[n][x] <= all_buckets'[n][y]
          BY DEF BucketsSorted
        <4>1. CASE n = h
          <5>1. x \in 1 .. Len(v) + 1 /\ y \in 1 .. Len(v) + 1
            BY <4>1, <3>3, <3>4
          <5>2. \A p, q \in 1 .. Len(v) : p <= q => v[p] <= v[q]
            BY <3>1, <3>4 DEF BucketInv, BucketsCorrect, BucketsSorted, v
          <5>3. CASE y = Len(v) + 1
            BY <4>1, <5>1, <5>3, <3>1, <3>2, <3>4, <3>5, AssignmentFacts
          <5>4. CASE y # Len(v) + 1
            BY <4>1, <5>1, <5>2, <5>4, <3>2, <3>4
          <5> QED BY <5>3, <5>4
        <4>2. CASE n # h
          BY <4>2, <3>3 DEF BucketInv, BucketsCorrect, BucketsSorted
        <4> QED BY <4>1, <4>2
      <3>7. BucketsExact'
        <4> SUFFICES ASSUME NEW n \in Bucket, NEW k \in Key
                     PROVE  (\E x \in DOMAIN all_buckets'[n] : all_buckets'[n][x] = k)
                              <=> (\E f \in Function :
                                     Pushed(k, f)' /\ hash_this(k, rands'[f], b) = n)
          BY DEF BucketsExact
        <4>1. (\E x \in DOMAIN all_buckets[n] : all_buckets[n][x] = k)
                <=> (\E f \in Function : Pushed(k, f) /\ hash_this(k, rands[f], b) = n)
          BY DEF BucketInv, BucketsCorrect, BucketsExact
        <4>2. (\E x \in DOMAIN all_buckets'[n] : all_buckets'[n][x] = k)
                <=> (\E x \in DOMAIN all_buckets[n] : all_buckets[n][x] = k)
                    \/ (n = h /\ k = gen_key)
          <5>1. CASE n = h
            BY <5>1, <3>2, <3>4 DEF v
          <5>2. CASE n # h
            BY <5>2, <3>3
          <5> QED BY <5>1, <5>2
        <4>3. (\E f \in Function : Pushed(k, f)' /\ hash_this(k, rands'[f], b) = n)
                <=> (\E f \in Function : Pushed(k, f) /\ hash_this(k, rands[f], b) = n)
                    \/ (n = h /\ k = gen_key)
          BY <2>1, <3>1, PushedStep
        <4> QED BY <4>1, <4>2, <4>3
      <3>8. PushedInRange'
        BY <2>1, <3>1, PushedStep DEF BucketInv, PushedInRange
      <3> QED BY <3>6, <3>7, <3>8 DEF BucketInv, BucketsCorrect
    <2>2. CASE UNCHANGED <<bucketVars, rands>>
      BY <2>2 DEF bucketVars, BucketInv, BucketsCorrect, BucketsSorted, BucketsExact,
                  PushedInRange, Pushed
    <2>3. CuckooStep => UNCHANGED <<bucketVars, rands>>
      BY DEF CuckooStep, StartKey, Finish, place, PlaceFree, PlaceEvict, PlaceFail, PlaceThrow
    <2> QED
      BY <2>1, <2>2, <2>3
      DEF ANext, ADone, avars, vars, PushThrows, BucketsDone, BuildMatches, AssignFailed
  <1> QED BY <1>1, <1>2, BucketTypes, PTL DEF ASpec

\* The theorem of the property that is checked.
THEOREM BucketsAlwaysCorrect == ASpec => []BucketsCorrect
  <1>1. BucketInv => BucketsCorrect
    BY DEF BucketInv
  <1> QED BY <1>1, BucketInvHolds, PTL

-----------------------------------------------------------------------------
(* The order of the phases, and the matches.                               *)

PhaseInv ==
  /\ phase \in {"buckets", "crashed"} => pc = "loop"
  /\ phase \in {"cuckoo", "done", "failed"} => gen_key = Size
  /\ pc # "out_of_range"
  /\ pc = "ok" => i = NoKeys
  /\ phase # "done" => matches = <<>>
  /\ phase = "done" => pc = "ok" /\ matches = [n \in Bucket |-> MatchOf(n)]

\* All keys have passed through generate_buckets_cuckoo before cuckoo() runs,
\* so none of them has a hash that the table would reject.
LEMMA ProbeInTable ==
  ASSUME CuckooInv, BucketTypeOK, BucketInv, gen_key = Size, pc = "place",
         NEW f \in Function
  PROVE  Probe(f) \in Slot
  <1>1. PICK j \in 0 .. NoKeys - 1 : key = keys[j]
    BY DEF CuckooInv, SlotInv, KeyFromVector
  <1>2. key \in Key
    BY <1>1, AssignmentFacts DEF CuckooInv, TypeOK
  <1>3. Pushed(key, f)
    BY <1>2, AssignmentFacts DEF Pushed
  <1>4. hash_this(key, rands[f], b) \in Bucket
    BY <1>2, <1>3 DEF BucketInv, PushedInRange
  <1>5. tableID = 0
    BY AssignmentFacts DEF CuckooInv, TypeOK
  <1>6. Probe(f) = <<0, hash_this(key, rands[f], b)>>
    BY <1>5, AssignmentFacts DEF Probe
  <1> QED BY <1>4, <1>6, SlotIsBucket

\* The phases go with the states of the table they describe.
LEMMA PhaseInvHolds == ASpec => []PhaseInv
  <1>1. AInit => PhaseInv
    BY DEF AInit, Init, PhaseInv
  <1>2. CuckooInv /\ BucketTypeOK /\ BucketInv /\ PhaseInv /\ [ANext]_avars => PhaseInv'
    <2> SUFFICES ASSUME CuckooInv, BucketTypeOK, BucketInv, PhaseInv, [ANext]_avars
                 PROVE  PhaseInv'
      OBVIOUS
    <2> USE DEF PhaseInv
    <2>1. CASE PushKey
      BY <2>1 DEF PushKey, vars
    <2>2. CASE PushThrows
      BY <2>2 DEF PushThrows, vars, bucketVars
    <2>3. CASE BucketsDone
      BY <2>3 DEF BucketsDone, vars, bucketVars
    <2>4. CASE CuckooStep
      <3>1. phase = "cuckoo" /\ UNCHANGED <<phase, bucketVars, matches>>
        BY <2>4 DEF CuckooStep
      <3>2. pc' # "out_of_range" /\ (pc' = "ok" => i' = NoKeys)
        <4>1. ASSUME NEW f \in Function, PlaceThrow(f) PROVE FALSE
          BY <4>1, <3>1, ProbeInTable DEF PlaceThrow
        <4> QED
          BY <2>4, <4>1 DEF CuckooStep, StartKey, Finish, place, PlaceFree, PlaceEvict, PlaceFail
      <3> QED BY <3>1, <3>2 DEF bucketVars
    <2>5. CASE BuildMatches
      <3>1. \A n \in Bucket : MatchOf(n)' = MatchOf(n)
        BY <2>5 DEF BuildMatches, MatchOf, vars, bucketVars
      <3> QED BY <2>5, <3>1 DEF BuildMatches, vars, bucketVars
    <2>6. CASE AssignFailed
      BY <2>6 DEF AssignFailed, vars, bucketVars
    <2>7. CASE UNCHANGED avars
      BY <2>7 DEF avars, vars, bucketVars, MatchOf
    <2> QED
      BY <2>1, <2>2, <2>3, <2>4, <2>5, <2>6, <2>7 DEF ANext, ADone
  <1> QED BY <1>1, <1>2, CuckooInvHolds, BucketTypes, BucketInvHolds, PTL DEF ASpec

\* cuckoo() is never reached with a key whose hash its table would reject.
THEOREM CuckooIsSafe == ASpec => []CuckooNeverThrows
  <1>1. PhaseInv => CuckooNeverThrows
    BY DEF PhaseInv, CuckooNeverThrows
  <1> QED BY <1>1, PhaseInvHolds, PTL

-----------------------------------------------------------------------------
NatLess == {p \in Nat \X Nat : p[1] < p[2]}

\* The order of the naturals is well founded.
LEMMA NatLessWellFounded == IsWellFoundedOn(NatLess, Nat)
  <1>1. OpToRel(<, Nat) = NatLess
    BY Zenon DEF OpToRel, NatLess
  <1> QED BY <1>1, NatLessThanWellFounded, Zenon

(***************************************************************************)
(* std::lower_bound finds the first copy of an element of a sorted vector. *)
(***************************************************************************)
LEMMA LowerBoundFinds ==
  ASSUME NEW v \in Seq(Int), NEW x \in DOMAIN v,
         \A p, q \in DOMAIN v : p <= q => v[p] <= v[q]
  PROVE  /\ lower_bound(v, v[x]) \in 0 .. Len(v) - 1
         /\ v[lower_bound(v, v[x]) + 1] = v[x]
  <1>1. DOMAIN v = 1 .. Len(v) /\ Len(v) \in Nat /\ \A p \in DOMAIN v : v[p] \in Int
    OBVIOUS
  <1> DEFINE Above == {p \in 1 .. Len(v) : v[p] >= v[x]}
             Split(p) == /\ \A n \in 1 .. p : v[n] < v[x]
                         /\ \A n \in p + 1 .. Len(v) : v[n] >= v[x]
  <1>2. PICK y \in Above : \A z \in Above : y <= z
    <2>1. Above \in SUBSET Nat /\ x \in Above
      BY <1>1
    <2> HIDE DEF Above
    <2>2. PICK y \in Above : \A z \in Above : <<z, y>> \notin NatLess
      BY <2>1, NatLessWellFounded, WFMin
    <2>3. \A z \in Above : ~ (z < y)
      BY <2>1, <2>2 DEF NatLess
    <2>4. \A z \in Above : y <= z
      BY <2>1, <2>3
    <2> QED BY <2>4
  <1>3. y - 1 \in 0 .. Len(v) /\ Split(y - 1)
    BY <1>1, <1>2
  <1> DEFINE lb == CHOOSE p \in 0 .. Len(v) : Split(p)
  <1>4. lb \in 0 .. Len(v) /\ Split(lb)
    BY <1>3
  <1>5. lower_bound(v, v[x]) = lb
    BY DEF lower_bound
  <1> HIDE DEF lb
  <1>6. lb < x
    BY <1>1, <1>4
  <1>7. v[lb + 1] >= v[x] /\ v[lb + 1] <= v[x]
    BY <1>1, <1>4, <1>6
  <1> QED BY <1>1, <1>4, <1>5, <1>6, <1>7

AInv == CuckooInv /\ BucketTypeOK /\ BucketInv /\ PhaseInv

\* All of the invariants together.
LEMMA AInvHolds == ASpec => []AInv
  <1>1. CuckooInv /\ BucketTypeOK /\ BucketInv /\ PhaseInv => AInv
    BY DEF AInv
  <1> QED BY <1>1, CuckooInvHolds, BucketTypes, BucketInvHolds, PhaseInvHolds, PTL

\* The key in a used slot is one of the indices and is in the slot's bucket.
LEMMA UsedSlot ==
  ASSUME AInv, gen_key = Size, NEW n \in Bucket, table_usage[<<0, n>>]
  PROVE  /\ \E j \in 0 .. NoKeys - 1 : table[<<0, n>>] = keys[j]
         /\ table[<<0, n>>] \in Key /\ n \in Home(table[<<0, n>>])
         /\ \E x \in DOMAIN all_buckets[n] : all_buckets[n][x] = table[<<0, n>>]
  <1> DEFINE k == table[<<0, n>>]
  <1>1. <<0, n>> \in Slot
    BY SlotIsBucket
  <1>2. PICK j \in 0 .. NoKeys - 1 : k = keys[j] /\ HashedTo(keys[j], <<0, n>>)
    BY <1>1 DEF AInv, CuckooInv, SlotInv, SlotsHoldHashedKeys
  <1>3. k \in Key
    BY <1>2 DEF AInv, CuckooInv, TypeOK
  <1>4. PICK f \in Function : n = hash_this(k, rands[f], b)
    BY <1>2, AssignmentFacts DEF HashedTo
  <1>5. Pushed(k, f)
    BY <1>3, AssignmentFacts DEF Pushed
  <1>6. \E x \in DOMAIN all_buckets[n] : all_buckets[n][x] = k
    BY <1>3, <1>4, <1>5 DEF AInv, BucketInv, BucketsCorrect, BucketsExact
  <1> QED BY <1>2, <1>3, <1>4, <1>6 DEF Home

\* What create_assignement writes into the match of a bucket.
LEMMA MatchFacts ==
  ASSUME AInv, gen_key = Size, NEW n \in Bucket
  PROVE  /\ MatchOf(n) \in Match
         /\ table_usage[<<0, n>>] =>
              /\ MatchOf(n).val = table[<<0, n>>]
              /\ MatchOf(n).index_in_bucket \in 0 .. Len(all_buckets[n]) - 1
              /\ all_buckets[n][MatchOf(n).index_in_bucket + 1] = MatchOf(n).val
         /\ ~ table_usage[<<0, n>>] =>
              MatchOf(n).val = -1 /\ MatchOf(n).index_in_bucket = -1
  <1>1. CASE table_usage[<<0, n>>]
    <2> DEFINE v == all_buckets[n]
               k == table[<<0, n>>]
    <2>1. v \in Seq(Int) /\ Len(v) \in Nat /\ k \in Key
      <3>1. v \in Seq(Key) /\ Key \subseteq Int
        BY AssignmentFacts DEF AInv, BucketTypeOK
      <3> QED BY <3>1, <1>1, UsedSlot
    <2>2. PICK x \in DOMAIN v : v[x] = k
      BY <1>1, UsedSlot
    <2>3. \A p, q \in DOMAIN v : p <= q => v[p] <= v[q]
      BY DEF AInv, BucketInv, BucketsCorrect, BucketsSorted
    <2>4. MatchOf(n) = [bucket |-> n, val |-> k, index_in_bucket |-> lower_bound(v, k)]
      BY <1>1 DEF MatchOf
    <2> HIDE DEF v, k
    <2>5. lower_bound(v, k) \in 0 .. Len(v) - 1 /\ v[lower_bound(v, k) + 1] = k
      BY <2>1, <2>2, <2>3, LowerBoundFinds
    <2> QED BY <1>1, <2>1, <2>4, <2>5 DEF Match, v, k
  <1>2. CASE ~ table_usage[<<0, n>>]
    BY <1>2 DEF MatchOf, Match
  <1> QED BY <1>1, <1>2

-----------------------------------------------------------------------------
(***************************************************************************)
(* When create_assignement returns 1, every index has exactly one match, in*)
(* a bucket that contains it at the stated position: buckets_test.cpp's    *)
(* expectations, for every input.                                          *)
(***************************************************************************)
LEMMA OneSlotPerIndex ==
  ASSUME AInv, pc = "ok", NEW j \in 0 .. NoKeys - 1
  PROVE  \E n \in Bucket :
           /\ table_usage[<<0, n>>] /\ table[<<0, n>>] = keys[j]
           /\ \A m \in Bucket : table_usage[<<0, m>>] /\ table[<<0, m>>] = keys[j] => m = n
  <1>1. j < Entered /\ ~ InHand(j)
    BY AssignmentFacts DEF AInv, PhaseInv, Entered, InHand
  <1>2. PICK s \in Slot : Holds(s, j)
    BY <1>1 DEF AInv, CuckooInv, NoKeyLost
  <1>3. \A r \in Slot : Holds(r, j) => r = s
    BY <1>2 DEF AInv, CuckooInv, NoKeyLost
  <1>4. s = <<0, s[2]>> /\ s[2] \in Bucket
    BY SlotIsBucket
  <1>5. ASSUME NEW m \in Bucket, table_usage[<<0, m>>], table[<<0, m>>] = keys[j]
        PROVE  m = s[2]
    <2>1. <<0, m>> \in Slot
      BY SlotIsBucket
    <2>2. <<0, m>> = s
      BY <1>3, <1>5, <2>1 DEF Holds
    <2> QED BY <2>2
  <1> QED BY <1>2, <1>4, <1>5 DEF Holds

\* After a successful assignment each match names an index and its position in the
\* bucket it is matched with (buckets.cpp:82-109).
THEOREM MatchesAlwaysConsistent == ASpec => []MatchesConsistent
  <1>1. AInv => MatchesConsistent
    <2> SUFFICES ASSUME AInv, phase = "done" PROVE MatchesConsistent
      BY DEF MatchesConsistent
    <2>1. gen_key = Size /\ \A n \in Bucket : matches[n] = MatchOf(n)
      BY DEF AInv, PhaseInv
    <2>2. \A n \in Bucket :
            \/ matches[n].val = -1 /\ matches[n].index_in_bucket = -1
            \/ /\ matches[n].index_in_bucket \in 0 .. Len(all_buckets[n]) - 1
               /\ all_buckets[n][matches[n].index_in_bucket + 1] = matches[n].val
      BY <2>1, MatchFacts
    <2>3. ASSUME NEW j \in 0 .. NoKeys - 1
          PROVE  \E n \in Bucket :
                   /\ matches[n].val = keys[j]
                   /\ \A m \in Bucket : matches[m].val = keys[j] => m = n
      <3>1. keys[j] # -1
        BY AssignmentFacts DEF AInv, CuckooInv, TypeOK
      <3>2. \A n \in Bucket : matches[n].val = keys[j]
                                <=> table_usage[<<0, n>>] /\ table[<<0, n>>] = keys[j]
        BY <2>1, <3>1, MatchFacts
      <3>3. PICK n \in Bucket :
              /\ table_usage[<<0, n>>] /\ table[<<0, n>>] = keys[j]
              /\ \A m \in Bucket :
                   table_usage[<<0, m>>] /\ table[<<0, m>>] = keys[j] => m = n
        BY OneSlotPerIndex DEF AInv, PhaseInv
      <3> QED BY <3>2, <3>3
    <2> QED BY <2>2, <2>3 DEF MatchesConsistent
  <1> QED BY <1>1, AInvHolds, PTL

\* The types of all variables, the matches included.
THEOREM ATypeCorrect == ASpec => []ATypeOK
  <1>1. AInv => ATypeOK
    <2> SUFFICES ASSUME AInv PROVE ATypeOK
      OBVIOUS
    <2>1. CASE phase = "done"
      <3>1. \A n \in Bucket : MatchOf(n) \in Match
        BY <2>1, MatchFacts DEF AInv, PhaseInv, Match
      <3>2. matches \in [Bucket -> Match]
        BY <2>1, <3>1 DEF AInv, PhaseInv
      <3> QED BY <3>2 DEF ATypeOK, AInv, CuckooInv, BucketTypeOK
    <2>2. CASE phase # "done"
      BY <2>2 DEF ATypeOK, AInv, CuckooInv, BucketTypeOK, PhaseInv
    <2> QED BY <2>1, <2>2
  <1> QED BY <1>1, AInvHolds, PTL

-----------------------------------------------------------------------------
(***************************************************************************)
(* create_assignement implements its contract.                             *)
(***************************************************************************)
THEOREM AssignmentImplementsContract == ASpec => ImplementsContract
  <1>1. AInit => Contract!Init
    BY DEF AInit, Contract!Init
  <1>2. AInv /\ AInv' /\ [ANext]_avars => [Contract!Next]_(Contract!vars)
    <2> SUFFICES ASSUME AInv, AInv', [ANext]_avars
                 PROVE  Contract!Next \/ UNCHANGED Contract!vars
      OBVIOUS
    <2>0. UNCHANGED <<keys, rands>> =>
            /\ UNCHANGED {keys[j] : j \in 0 .. NoKeys - 1}
            /\ UNCHANGED [k \in Key |-> Home(k)]
      BY DEF Home
    <2>1. CASE BuildMatches
      <3>1. /\ phase = "cuckoo" /\ phase' = "done" /\ UNCHANGED <<keys, rands>>
            /\ matches' = [n \in Bucket |-> MatchOf(n)]
            /\ gen_key = Size /\ UNCHANGED <<table, table_usage>>
        BY <2>1 DEF BuildMatches, vars, AInv, PhaseInv
      <3> DEFINE a == [n \in DOMAIN matches' |-> matches'[n].val]
                 I == {keys'[j] : j \in 0 .. NoKeys - 1}
                 home == [k \in Key |-> Home(k)']
      <3>2. DOMAIN a = Bucket /\ \A n \in Bucket : a[n] = MatchOf(n).val
        BY <3>1
      <3>3. \A n \in Bucket :
              a[n] = IF table_usage[<<0, n>>] THEN table[<<0, n>>] ELSE -1
        BY <3>1, <3>2, MatchFacts
      <3>4. ASSUME NEW n \in Bucket, a[n] # -1
            PROVE  a[n] \in I /\ n \in home[a[n]]
        <4>1. table_usage[<<0, n>>] /\ a[n] = table[<<0, n>>]
          BY <3>3, <3>4
        <4> QED BY <3>1, <4>1, UsedSlot DEF Home
      <3>5. \A j \in 0 .. NoKeys - 1 : keys'[j] = keys[j] /\ keys[j] # -1
        BY <3>1, AssignmentFacts DEF AInv, CuckooInv, TypeOK
      <3>6. \A n \in Bucket, j \in 0 .. NoKeys - 1 :
              a[n] = keys[j] <=> table_usage[<<0, n>>] /\ table[<<0, n>>] = keys[j]
        BY <3>3, <3>5
      <3>7. \A j \in 0 .. NoKeys - 1 : \E n \in Bucket :
              a[n] = keys[j] /\ \A m \in Bucket : a[m] = keys[j] => m = n
        <4> TAKE j \in 0 .. NoKeys - 1
        <4>1. PICK n \in Bucket :
                /\ table_usage[<<0, n>>] /\ table[<<0, n>>] = keys[j]
                /\ \A m \in Bucket :
                     table_usage[<<0, m>>] /\ table[<<0, m>>] = keys[j] => m = n
          BY <2>1, OneSlotPerIndex DEF BuildMatches
        <4> QED BY <3>6, <4>1
      <3>8. \A n, m \in Bucket : a[n] = a[m] /\ a[n] # -1 => n = m
        <4> SUFFICES ASSUME NEW n \in Bucket, NEW m \in Bucket, a[n] = a[m], a[n] # -1
                     PROVE  n = m
          OBVIOUS
        <4>1. PICK j \in 0 .. NoKeys - 1 : a[n] = keys[j]
          BY <3>4, <3>5
        <4> QED BY <3>7, <4>1
      <3> HIDE DEF a, I, home
      <3>9. Contract!Assign
        BY <3>1, <3>2, <3>4, <3>5, <3>7, <3>8, <2>0
           DEF Contract!Assign, Contract!ValidAssignment, a, I, home
      <3> QED BY <3>9 DEF Contract!Next
    <2>2. CASE PushThrows \/ AssignFailed
      BY <2>2, <2>0 DEF PushThrows, AssignFailed, vars, Contract!Next, Contract!Fail
    <2>3. CASE PushKey \/ BucketsDone \/ CuckooStep \/ UNCHANGED avars
      <3>1. UNCHANGED <<keys, rands, matches>>
        BY <2>3 DEF PushKey, BucketsDone, CuckooStep, avars, vars, StartKey, Finish, place,
                    PlaceFree, PlaceEvict, PlaceFail, PlaceThrow
      <3>2. phase' = phase \/ (phase = "buckets" /\ phase' = "cuckoo")
        BY <2>3 DEF PushKey, BucketsDone, CuckooStep, avars
      <3> QED BY <2>0, <3>1, <3>2 DEF Contract!vars
    <2> QED BY <2>1, <2>2, <2>3 DEF ANext, ADone
  <1> QED BY <1>1, <1>2, AInvHolds, PTL DEF ASpec, ImplementsContract, Contract!Spec

=============================================================================
