--------------------------- MODULE MpfssOldProofs ---------------------------
(***************************************************************************)
(* Type correctness of MpfssOld, the absence of deadlock, the end of the   *)
(* loops, and the function that the results share, for any number of       *)
(* buckets, threads and calls.                                             *)
(***************************************************************************)
EXTENDS MpfssOld, ShareFacts

Early == {"buckets", "assign"}

\* The parties are in the same call.
SameCall ==
  run[1] = run[2] =>
    /\ pc[1] \in {"listen", "accept"} => pc[2] \in {"connect", "crash"} /\ wire = "empty"
    /\ pc[1] \in Early   => pc[2] \in Early /\ wire = "empty"
    /\ pc[1] = "yao"     => pc[2] \in Early \union {"yao"}
    /\ pc[1] \in {"loop", "ok"} => pc[2] \in {"loop", "ok"}
    /\ pc[1] = "failed"  => pc[2] \in Early \union {"failed"}
    /\ pc[1] = "yao" /\ pc[2] \in Early => wire = "assigned"
    /\ pc[1] = "failed" /\ pc[2] \in Early => wire = "failed"

\* Party 1 is in the next call already, or party 2 is.
AheadOne ==
  run[1] > run[2] =>
    /\ run[1] = run[2] + 1 /\ pc[1] \in {"listen", "accept"}
    /\ pc[2] \in Early \union {"loop", "ok", "failed"}
    /\ pc[2] \in Early => wire = "failed"

AheadTwo ==
  run[2] > run[1] =>
    /\ run[2] = run[1] + 1 /\ pc[2] \in {"connect", "crash"}
    /\ pc[1] \in {"loop", "ok", "failed"}

Links ==
  /\ pc[2] \notin Early => wire = "empty"
  /\ pc[1] = "undefined" <=> pc[2] = "undefined"
  /\ pc[1] = "undefined" => run[1] = run[2]

Calls == SameCall /\ AheadOne /\ AheadTwo /\ Links

\* The parties are in the loop of the same call, or have returned from it.
BothInLoop == run[1] = run[2] /\ \A p \in Party : pc[p] \in {"loop", "ok"}

(***************************************************************************)
(* A thread works only in the loop and only on a range that has buckets; it*)
(* ends where its range does.                                              *)
(***************************************************************************)
Loops ==
  /\ i \in [Party -> [Ranges -> Nat]]
  /\ \A p \in Party, k \in Ranges : at[p][k] # "ended" => pc[p] = "loop" /\ k \in Used
  /\ BothInLoop => \A k \in Used :
       /\ min_arr[k] <= i[1][k]
       /\ \A p \in Party : at[p][k] = "ended" => i[1][k] = max_arr[k]

\* What OTypeOK leaves open.
Location == {"listen", "accept", "connect", "buckets", "assign", "yao", "loop", "ok",
             "failed", "crash", "undefined"}
PcType == pc \in [Party -> Location]

\* The inductive invariant of the control.
IInv == OTypeOK /\ PcType /\ Calls /\ Loops

-----------------------------------------------------------------------------
\* There is a bucket.
LEMMA BucketFacts ==
  /\ b \in Nat \ {0} /\ Bucket \subseteq Nat /\ Ranges = Bucket
  /\ t \in Nat \ {0} /\ Key \subseteq Nat
  BY BucketAssumption DEF Bucket, Ranges, Key

\* The ranges of parallize are within the buckets and cover them.
LEMMA RangeFacts ==
  ASSUME threads \in Threads
  PROVE  /\ max_arr \in [Ranges -> Nat] /\ min_arr \in [Ranges -> Nat]
         /\ Used \subseteq Ranges
         /\ \A k \in Used : max_arr[k] <= b /\ min_arr[k] < max_arr[k]
         /\ \A n \in Bucket : \E k \in Used : min_arr[k] <= n /\ n < max_arr[k]
  <1>1. threads \in Nat \ {0} /\ b \in Nat \ {0} /\ Ranges = 0 .. b - 1
    BY OldAssumption, BucketFacts DEF Ranges
  <1>2. \A k \in Ranges : max_arr[k] = RangeEnd(b, threads, k)
    BY DEF max_arr, base, RangeEnd
  <1>3. /\ used_threads \in Nat \ {0}
        /\ \A k \in Nat : RangeEnd(b, threads, k) \in Nat
        /\ \A k \in 0 .. used_threads - 1 : RangeEnd(b, threads, k) \in 0 .. b
        /\ \A x \in 0 .. b - 1 : \E k \in 0 .. used_threads - 1 :
             x < RangeEnd(b, threads, k) /\ (k = 0 \/ RangeEnd(b, threads, k - 1) <= x)
    BY <1>1, RangesCover DEF used_threads
  <1>4. used_threads <= b /\ 0 .. used_threads - 1 \subseteq Ranges
    BY <1>1, <1>3 DEF used_threads
  <1>5. max_arr \in [Ranges -> Nat]
    <2>1. \A k \in Ranges : max_arr[k] \in Nat
      <3>1. Ranges \subseteq Nat
        BY <1>1
      <3> QED BY <1>2, <1>3, <3>1
    <2>2. max_arr = [k \in Ranges |-> max_arr[k]]
      BY DEF max_arr
    <2> QED BY <2>1, <2>2
  <1>6. min_arr \in [Ranges -> Nat]
    <2>1. \A k \in Ranges : k # 0 => k - 1 \in Ranges
      BY <1>1
    <2> QED BY <1>5, <2>1 DEF min_arr
  <1>7. Used \subseteq Ranges /\ \A k \in Used : max_arr[k] <= b /\ min_arr[k] < max_arr[k]
    BY <1>2, <1>3, <1>4 DEF Used
  <1>8. ASSUME NEW n \in Bucket PROVE \E k \in Used : min_arr[k] <= n /\ n < max_arr[k]
    <2>1. n \in 0 .. b - 1
      BY DEF Bucket
    <2>2. PICK k \in 0 .. used_threads - 1 :
            n < RangeEnd(b, threads, k) /\ (k = 0 \/ RangeEnd(b, threads, k - 1) <= n)
      BY <1>3, <2>1
    <2>3. k \in Ranges /\ n < max_arr[k] /\ min_arr[k] \in Nat
      BY <1>2, <1>4, <1>6, <2>2
    <2>4. min_arr[k] <= n
      <3>1. CASE k = 0
        BY <2>1, <2>3, <3>1 DEF min_arr
      <3>2. CASE k # 0
        <4>1. k - 1 \in Ranges /\ min_arr[k] = max_arr[k - 1]
          BY <1>1, <2>3, <3>2 DEF min_arr
        <4> QED BY <1>2, <2>2, <3>2, <4>1
      <3> QED BY <3>1, <3>2
    <2>5. k \in Used
      <3>1. min_arr[k] < max_arr[k]
        BY <1>5, <2>1, <2>3, <2>4
      <3> QED BY <3>1 DEF Used
    <2> QED BY <2>3, <2>4, <2>5
  <1> QED BY <1>5, <1>6, <1>7, <1>8

-----------------------------------------------------------------------------
\* Both parties begin with their first call.
LEMMA InitInv == Init => IInv
  <1> SUFFICES ASSUME Init PROVE IInv
    OBVIOUS
  <1>1. OTypeOK
    <2>1. output \in [Party -> Vector] /\ matches \in [Bucket -> Key \union {-1}]
      BY DEF Init, NoOutput, Vector, Cell, Unused
    <2>2. result \in [Party -> [Key -> T]]
      BY DEF Init, T
    <2>3. owner \in [Party -> [Ranges -> Nat]] /\ at \in [Party -> [Ranges -> {"todo", "running", "ended"}]]
      BY DEF Init, Idle
    <2>4. run \in [Party -> 1 .. Runs]
      BY OldAssumption DEF Init, Party
    <2>5. seed \in [Party -> Seed \union {-1}]
      BY DEF Init, Party
    <2>6. i[1] = i[2] /\ \A k \in Used : i[1][k] <= max_arr[k] /\ max_arr[k] <= b
      BY RangeFacts DEF Init, Party
    <2> QED BY <2>1, <2>2, <2>3, <2>4, <2>5, <2>6 DEF OTypeOK, Init
  <1>2. PcType
    BY DEF PcType, Location, Init, Party
  <1>3. Calls
    BY DEF Init, Calls, SameCall, AheadOne, AheadTwo, Links, Early, Party
  <1>4. Loops
    BY DEF Init, Loops, Idle, BothInLoop, Party
  <1> QED BY <1>1, <1>2, <1>3, <1>4 DEF IInv

\* Every step preserves the relation of the two parties' control.
LEMMA ControlStep == IInv /\ [Next]_vars => PcType' /\ Calls'
  <1> SUFFICES ASSUME IInv, [Next]_vars PROVE PcType' /\ Calls'
    OBVIOUS
  <1> USE DEF IInv, OTypeOK, PcType, Location, Party, Calls, SameCall, AheadOne, AheadTwo, Links, Early
  <1>0. run[1] \in Int /\ run[2] \in Int
    OBVIOUS
  <1>1. CASE Listen
    BY <1>0, <1>1 DEF Listen, call
  <1>2. CASE Connect
    BY <1>0, <1>2 DEF Connect, call
  <1>3. CASE Refused
    BY <1>0, <1>3 DEF Refused, call
  <1>4. ASSUME NEW p \in Party, CreateBuckets(p) PROVE PcType' /\ Calls'
    BY <1>0, <1>4 DEF CreateBuckets
  <1>5. CASE Assign
    BY <1>0, <1>5 DEF Assign, call
  <1>6. CASE AssignFails
    BY <1>0, <1>6 DEF AssignFails, call
  <1>7. CASE Receive
    BY <1>0, <1>7 DEF Receive, call
  <1>8. CASE EnterLoop
    BY <1>0, <1>8 DEF EnterLoop, call
  <1>9. ASSUME NEW p \in Party, NEW k \in Ranges, Begin(p, k) \/ EndRange(p, k) PROVE PcType' /\ Calls'
    BY <1>0, <1>9 DEF Begin, EndRange, call
  <1>10. ASSUME NEW k \in Ranges, RunDpf(k) PROVE PcType' /\ Calls'
    BY <1>0, <1>10 DEF RunDpf, call
  <1>11. ASSUME NEW k \in Ranges, OutOfStep(k) PROVE PcType' /\ Calls'
    <2>1. pc[1] = "loop" /\ pc[2] = "loop"
      BY <1>11 DEF OutOfStep, AtDpf, Loops
    <2>2. run[1] = run[2] /\ wire = "empty"
      BY <1>0, <2>1
    <2>3. pc' = <<"undefined", "undefined">> /\ UNCHANGED <<run, wire>>
      BY <1>11 DEF OutOfStep
    <2> QED BY <2>2, <2>3
  <1>12. ASSUME NEW p \in Party, Return(p) PROVE PcType' /\ Calls'
    BY <1>0, <1>12 DEF Return, CanReturn, call
  <1>13. ASSUME NEW p \in Party, NextRun(p) PROVE PcType' /\ Calls'
    BY <1>0, <1>13 DEF NextRun, call
  <1>14. CASE UNCHANGED vars
    BY <1>0, <1>14 DEF vars, call
  <1> QED BY <1>1, <1>2, <1>3, <1>4, <1>5, <1>6, <1>7, <1>8, <1>9, <1>10, <1>11, <1>12, <1>13,
             <1>14 DEF Next

-----------------------------------------------------------------------------
\* What is in the variable after m bytes: they, and above them what was there before.
AfterBytes(block, garbage, m) ==
  {n \in 0 .. SizeOfT - 1 :
     \/ n < m /\ Byte[MemBytes - lim + m - 1 - n] \in block
     \/ n >= m /\ n - m \in garbage}

\* One turn of the loop of prepare_results, for byte c of the block.
Appended(value, block, c) ==
  {n + 1 : n \in {n \in value : n + 1 < SizeOfT}} \union IF Byte[c] \in block THEN {0} ELSE {}

\* One more byte is one more turn.
LEMMA OneByte ==
  ASSUME NEW block, NEW garbage \in T, NEW m \in Nat
  PROVE  AfterBytes(block, garbage, m + 1) =
           Appended(AfterBytes(block, garbage, m), block, MemBytes - lim + m)
  <1> DEFINE lo == MemBytes - lim
             After(c) == AfterBytes(block, garbage, c)
             Up == {n + 1 : n \in {n \in After(m) : n + 1 < SizeOfT}}
             First == IF Byte[lo + m] \in block THEN {0} ELSE {}
  <1>1. SizeOfT \in Nat \ {0} /\ lo \in Nat
    BY OldAssumption DEF lim
  <1> HIDE DEF lo
  <1>2. \A n : \A c \in Nat : n \in After(c) <=>
          /\ n \in 0 .. SizeOfT - 1
          /\ \/ n < c /\ Byte[lo + c - 1 - n] \in block
             \/ n >= c /\ n - c \in garbage
    BY DEF AfterBytes, lo
  <1> HIDE DEF After
  <1>3. ASSUME NEW x \in 1 .. SizeOfT - 1 PROVE x \in After(m + 1) <=> x - 1 \in After(m)
    <2>1. lo + (m + 1) - 1 - x = lo + m - 1 - (x - 1) /\ x - (m + 1) = x - 1 - m
      BY <1>1
    <2>2. x \in 0 .. SizeOfT - 1 /\ x - 1 \in 0 .. SizeOfT - 1 /\ m + 1 \in Nat
      BY <1>1
    <2>3. x < m + 1 <=> x - 1 < m
      BY <1>1
    <2>4. x >= m + 1 <=> x - 1 >= m
      BY <1>1
    <2> QED BY <1>2, <2>1, <2>2, <2>3, <2>4
  <1>4. 0 \in After(m + 1) <=> Byte[lo + m] \in block
    <2>1. m + 1 \in Nat /\ 0 \in 0 .. SizeOfT - 1 /\ 0 < m + 1 /\ ~ (0 >= m + 1)
          /\ lo + (m + 1) - 1 - 0 = lo + m
      BY <1>1
    <2> QED BY <1>2, <2>1
  <1>5. After(m + 1) \subseteq 0 .. SizeOfT - 1 /\ After(m) \subseteq 0 .. SizeOfT - 1
    BY <1>2
  <1>6. ASSUME NEW x PROVE x \in After(m + 1) <=> x \in Up \union First
    <2>1. CASE x \in 1 .. SizeOfT - 1
      <3>1. x \in Up <=> x - 1 \in After(m)
        <4>1. x \in Up <=> \E n \in After(m) : n + 1 < SizeOfT /\ x = n + 1
          OBVIOUS
        <4>2. \A n \in After(m) : x = n + 1 <=> n = x - 1
          BY <1>1, <1>5, <2>1
        <4>3. x - 1 + 1 < SizeOfT /\ x = x - 1 + 1
          BY <1>1, <2>1
        <4> QED BY <4>1, <4>2, <4>3
      <3>2. x # 0
        BY <2>1
      <3> QED BY <1>3, <2>1, <3>1, <3>2
    <2>2. CASE x = 0
      <3>1. 0 \notin Up
        BY <1>1, <1>5
      <3> QED BY <1>4, <2>2, <3>1
    <2>3. CASE x \notin 0 .. SizeOfT - 1
      <3>1. x \notin Up
        BY <1>1, <1>5, <2>3
      <3>2. x # 0
        BY <1>1, <2>3
      <3> QED BY <1>5, <2>3, <3>1, <3>2
    <2> QED BY <1>1, <2>1, <2>2, <2>3
  <1>7. After(m + 1) = Up \union First
    <2> HIDE DEF Up, First
    <2> QED BY <1>6
  <1> QED BY <1>7 DEF After, lo, Appended

\* The recursive function has the value that was described.
LEMMA ShiftedIs ==
  ASSUME NEW block, NEW garbage \in T
  PROVE  Shifted(block, garbage)[MemBytes] = AfterBytes(block, garbage, lim)
  <1> DEFINE lo == MemBytes - lim
             Dom == lo .. MemBytes
             Turn(ii, before) == Appended(before, block, ii - 1)
             Rec(f) == [ii \in Dom |-> IF ii = lo THEN garbage ELSE Turn(ii, f[ii - 1])]
             After(m) == AfterBytes(block, garbage, m)
             F == [ii \in Dom |-> After(ii - lo)]
             value == Shifted(block, garbage)
  <1>1. value = CHOOSE f : f = Rec(f)
    BY DEF Shifted, Appended
  <1>2. lo \in Nat /\ lim \in Nat /\ MemBytes = lo + lim /\ MemBytes \in Nat /\ SizeOfT \in Nat
    BY OldAssumption DEF lim
  <1>3. After(0) = garbage
    <2>1. garbage \subseteq 0 .. SizeOfT - 1
      BY DEF T
    <2>2. ASSUME NEW n PROVE n \in After(0) <=> n \in garbage
      <3>1. \A c \in 0 .. SizeOfT - 1 : ~ (c < 0) /\ c >= 0 /\ c - 0 = c
        BY <1>2
      <3>2. n \in After(0) <=> n \in 0 .. SizeOfT - 1 /\ n \in garbage
        BY <3>1 DEF AfterBytes
      <3> QED BY <2>1, <3>2
    <2> HIDE DEF After
    <2> QED BY <2>2
  <1>4. ASSUME NEW m \in Nat, NEW x, x = lo + m + 1 PROVE After(m + 1) = Turn(x, After(m))
    <2>1. After(m + 1) = Appended(After(m), block, lo + m)
      BY OneByte
    <2>2. x - 1 = lo + m
      BY <1>2, <1>4
    <2> QED BY <2>1, <2>2
  <1> HIDE DEF lo, Turn, After, value
  <1>5. F = Rec(F)
    <2>1. ASSUME NEW ii \in Dom PROVE F[ii] = Rec(F)[ii]
      <3>1. CASE ii = lo
        <4>1. ii - lo = 0
          BY <1>2, <3>1
        <4> QED BY <1>3, <3>1, <4>1
      <3>2. CASE ii # lo
        <4>1. ii - 1 \in Dom /\ ii - 1 - lo \in Nat /\ (ii - 1 - lo) + 1 = ii - lo /\ lo + (ii - 1 - lo) + 1 = ii
          BY <1>2, <3>2
        <4>2. After(ii - lo) = Turn(ii, After(ii - 1 - lo))
          <5>1. After((ii - 1 - lo) + 1) = Turn(ii, After(ii - 1 - lo))
            BY <1>4, <4>1
          <5> QED BY <4>1, <5>1
        <4>3. F[ii - 1] = After(ii - 1 - lo) /\ F[ii] = After(ii - lo)
          BY <4>1
        <4> QED BY <3>2, <4>2, <4>3
      <3> QED BY <3>1, <3>2
    <2>2. F = [ii \in Dom |-> F[ii]] /\ Rec(F) = [ii \in Dom |-> Rec(F)[ii]]
      OBVIOUS
    <2> HIDE DEF F, Rec, Dom
    <2>3. [ii \in Dom |-> F[ii]] = [ii \in Dom |-> Rec(F)[ii]]
      BY <2>1
    <2> QED BY <2>2, <2>3
  <1>6. value = Rec(value)
    <2> HIDE DEF F, Rec
    <2> QED BY <1>1, <1>5
  <1> DEFINE S == {m \in Nat : m <= lim => value[lo + m] = After(m)}
  <1>7. \A m \in Nat : m \in S
    <2>1. 0 \in S
      <3>1. lo \in Dom /\ lo + 0 = lo
        BY <1>2
      <3>2. value[lo] = garbage
        BY <1>6, <3>1
      <3> QED BY <1>3, <3>1, <3>2
    <2>2. ASSUME NEW m \in Nat, m \in S PROVE m + 1 \in S
      <3> SUFFICES ASSUME m + 1 <= lim, NEW x, x = lo + (m + 1) PROVE value[x] = After(m + 1)
        OBVIOUS
      <3>1. value[lo + m] = After(m)
        BY <1>2, <2>2
      <3>2. x \in Dom /\ x # lo /\ x - 1 = lo + m /\ x = lo + m + 1
        BY <1>2
      <3>3. value[x] = Turn(x, value[x - 1])
        <4> HIDE DEF Dom
        <4> QED BY <1>6, <3>2
      <3> QED BY <1>4, <3>1, <3>2, <3>3
    <2> HIDE DEF S
    <2> QED BY <2>1, <2>2, SetInduction
  <1>8. lim \in S /\ lo + lim = MemBytes
    BY <1>2, <1>7
  <1> QED BY <1>2, <1>8 DEF value, After

\* What a block is converted to: a value, and if it has room for T all of it is from
\* the block.
LEMMA FromBytesIs ==
  ASSUME NEW block, NEW garbage \in T
  PROVE  /\ FromBytes(block, garbage) \in T
         /\ SizeOfT <= MemBytes =>
              FromBytes(block, garbage) = {n \in 0 .. SizeOfT - 1 : Byte[MemBytes - 1 - n] \in block}
  <1>1. FromBytes(block, garbage) = AfterBytes(block, garbage, lim)
    BY ShiftedIs DEF FromBytes
  <1>2. SizeOfT \in Nat /\ MemBytes \in Nat /\ lim \in Nat /\ garbage \subseteq 0 .. SizeOfT - 1
    BY OldAssumption DEF lim, T
  <1>3. ASSUME SizeOfT <= MemBytes, NEW n \in 0 .. SizeOfT - 1
        PROVE  n < lim /\ ~ (n >= lim) /\ MemBytes - lim + lim - 1 - n = MemBytes - 1 - n
    BY <1>2, <1>3 DEF lim
  <1>4. ASSUME SizeOfT <= MemBytes
        PROVE  AfterBytes(block, garbage, lim) = {n \in 0 .. SizeOfT - 1 : Byte[MemBytes - 1 - n] \in block}
    BY <1>3, <1>4 DEF AfterBytes
  <1>5. AfterBytes(block, garbage, lim) \in T
    BY DEF AfterBytes, T
  <1> QED BY <1>1, <1>4, <1>5

\* A block that has room for T keeps every byte of a value.
LEMMA ToBytesIs ==
  ASSUME SizeOfT <= MemBytes, NEW v \in T
  PROVE  /\ ToBytes(v) \subseteq BitPos
         /\ \A n \in 0 .. SizeOfT - 1 : Byte[MemBytes - 1 - n] \in ToBytes(v) <=> n \in v
  <1>1. /\ SizeOfT \in Nat /\ MemBytes \in Nat /\ lim = SizeOfT /\ v \subseteq 0 .. SizeOfT - 1
        /\ Byte \in [0 .. MemBytes - 1 -> BitPos]
        /\ \A x, z \in 0 .. MemBytes - 1 : Byte[x] = Byte[z] => x = z
    BY OldAssumption DEF lim, T, Injective
  <1>2. \A n \in 0 .. SizeOfT - 1 : MemBytes - 1 - n \in 0 .. MemBytes - 1 /\ n < lim
    BY <1>1
  <1>3. ToBytes(v) \subseteq BitPos
    BY <1>1, <1>2 DEF ToBytes
  <1>4. ASSUME NEW n \in 0 .. SizeOfT - 1
        PROVE  Byte[MemBytes - 1 - n] \in ToBytes(v) <=> n \in v
    <2>1. n \in v => Byte[MemBytes - 1 - n] \in ToBytes(v)
      BY <1>2 DEF ToBytes
    <2>2. ASSUME NEW m \in v, Byte[MemBytes - 1 - n] = Byte[MemBytes - 1 - m] PROVE n = m
      <3>1. m \in 0 .. SizeOfT - 1
        BY <1>1
      <3>2. MemBytes - 1 - n = MemBytes - 1 - m
        BY <1>1, <1>2, <2>2, <3>1
      <3> QED BY <1>1, <3>1, <3>2
    <2> QED BY <2>1, <2>2 DEF ToBytes
  <1> QED BY <1>3, <1>4

\* What two blocks are converted to combines to the values they combine to.
LEMMA ValuesSurvive ==
  ASSUME SizeOfT <= MemBytes, NEW v \in T, NEW w \in T, NEW B, NEW C, NEW g \in T, NEW h \in T,
         Xor(B, C) = {"bit"} \union Xor(ToBytes(v), ToBytes(w))
  PROVE  Xor(FromBytes(B, g), FromBytes(C, h)) = Xor(v, w)
  <1>1. /\ FromBytes(B, g) = {n \in 0 .. SizeOfT - 1 : Byte[MemBytes - 1 - n] \in B}
        /\ FromBytes(C, h) = {n \in 0 .. SizeOfT - 1 : Byte[MemBytes - 1 - n] \in C}
    BY FromBytesIs
  <1>2. v \subseteq 0 .. SizeOfT - 1 /\ w \subseteq 0 .. SizeOfT - 1
    BY DEF T
  <1>3. \A n \in 0 .. SizeOfT - 1 :
          /\ Byte[MemBytes - 1 - n] \in ToBytes(v) <=> n \in v
          /\ Byte[MemBytes - 1 - n] \in ToBytes(w) <=> n \in w
    BY ToBytesIs
  <1>4. \A n \in 0 .. SizeOfT - 1 : Byte[MemBytes - 1 - n] # "bit"
    <2>1. \A n \in 0 .. SizeOfT - 1 : MemBytes - 1 - n \in 0 .. MemBytes - 1
      BY OldAssumption
    <2> QED BY <2>1, OldAssumption, BucketAssumption
  <1>5. \A n \in 0 .. SizeOfT - 1 :
          Byte[MemBytes - 1 - n] \in Xor(B, C) <=> n \in Xor(v, w)
    BY <1>3, <1>4 DEF Xor
  <1>6. ASSUME NEW n PROVE n \in Xor(FromBytes(B, g), FromBytes(C, h)) <=> n \in Xor(v, w)
    <2>1. n \in Xor(FromBytes(B, g), FromBytes(C, h)) <=>
            n \in 0 .. SizeOfT - 1 /\ Byte[MemBytes - 1 - n] \in Xor(B, C)
      BY <1>1 DEF Xor
    <2>2. n \in Xor(v, w) => n \in 0 .. SizeOfT - 1
      BY <1>2 DEF Xor
    <2> QED BY <1>5, <2>1, <2>2
  <1> QED BY <1>6

-----------------------------------------------------------------------------
\* The number of threads never changes, nor do the ranges.
LEMMA RangesFixed ==
  [Next]_vars =>
    threads' = threads /\ Used' = Used /\ max_arr' = max_arr /\ min_arr' = min_arr
  <1> SUFFICES ASSUME [Next]_vars
               PROVE  threads' = threads /\ Used' = Used /\ max_arr' = max_arr /\ min_arr' = min_arr
    OBVIOUS
  <1>1. threads' = threads
    BY DEF Next, vars, call, Listen, Connect, Refused, CreateBuckets, Assign, AssignFails, Receive,
           EnterLoop, Begin, RunDpf, OutOfStep, EndRange, Return, NextRun
  <1> QED BY <1>1 DEF Used, min_arr, max_arr, base, used_threads

\* Every step preserves the types, and the loops stay within their ranges.
LEMMA TypeStep == IInv /\ [Next]_vars => OTypeOK'
  <1> SUFFICES ASSUME IInv, [Next]_vars PROVE OTypeOK'
    OBVIOUS
  <1>0. Loops /\ threads \in Threads /\ Used' = Used /\ max_arr' = max_arr /\ min_arr' = min_arr
    BY RangesFixed DEF IInv, OTypeOK
  <1> USE <1>0 DEF IInv, OTypeOK, PcType, Location, Party
  <1>1. CASE Listen
    BY <1>1 DEF Listen, call, loop
  <1>2. CASE Connect
    BY <1>2 DEF Connect, call, loop
  <1>3. CASE Refused
    BY <1>3 DEF Refused, call, loop
  <1>4. ASSUME NEW p \in Party, CreateBuckets(p) PROVE OTypeOK'
    BY <1>4 DEF CreateBuckets, loop
  <1>5. CASE Assign
    BY <1>5 DEF Assign, call, loop
  <1>6. CASE AssignFails
    BY <1>6 DEF AssignFails, call, loop
  <1>7. CASE Receive
    BY <1>7 DEF Receive, call, loop
  <1>8. CASE EnterLoop
    <2>1. /\ \A p \in Party : owner'[p] \in [Ranges -> Nat]
          /\ owner' \in [Party -> Schedule]
      BY <1>8, OldAssumption DEF EnterLoop
    <2>2. i'[1] = i'[2] /\ \A k \in Used : i'[1][k] <= max_arr[k] /\ max_arr[k] <= b
      <3>1. i'[1] = min_arr /\ i'[2] = min_arr
        BY <1>8 DEF EnterLoop
      <3>2. \A k \in Used : min_arr[k] \in Nat /\ max_arr[k] \in Nat /\ min_arr[k] < max_arr[k] /\ max_arr[k] <= b
        BY RangeFacts
      <3> QED BY <3>1, <3>2
    <2>3. at' \in [Party -> [Ranges -> {"todo", "running", "ended"}]]
      BY <1>8 DEF EnterLoop
    <2>4. pc' = <<"loop", "loop">> /\ UNCHANGED <<call, run, matches, wire, dpf, output, result>>
      BY <1>8 DEF EnterLoop
    <2>5. owner' \in [Party -> [Ranges -> Nat]]
      BY <2>1
    <2> QED BY <2>2, <2>3, <2>4, <2>5 DEF call
  <1>9. ASSUME NEW p \in Party, NEW k \in Ranges, Begin(p, k) \/ EndRange(p, k) PROVE OTypeOK'
    BY <1>9 DEF Begin, EndRange, call
  <1>10. ASSUME NEW k \in Ranges, RunDpf(k) PROVE OTypeOK'
    <2>1. i[1][k] < max_arr[k] /\ i[1] = i[2] /\ i \in [Party -> [Ranges -> Nat]]
      BY <1>10 DEF RunDpf, AtDpf, Loops
    <2>2. \A p \in Party : i'[p] = [i[p] EXCEPT ![k] = @ + 1]
      BY <1>10 DEF RunDpf
    <2>3. i'[1] = i'[2]
      BY <2>1, <2>2
    <2>4. ASSUME NEW c \in Used PROVE i'[1][c] <= max_arr[c]
      <3>1. c \in Ranges /\ max_arr[c] \in Nat
        BY RangeFacts
      <3> QED BY <2>1, <2>2, <3>1
    <2> QED BY <1>10, <2>3, <2>4 DEF RunDpf, call
  <1>11. ASSUME NEW k \in Ranges, OutOfStep(k) PROVE OTypeOK'
    BY <1>11 DEF OutOfStep, call, Idle
  <1>12. ASSUME NEW p \in Party, Return(p) PROVE OTypeOK'
    <2>1. \A k \in Key : Sum(p, k) \in Cell
      BY DEF Sum, XorAt, Cell
    <2>2. output' \in [Party -> Vector]
      BY <1>12, <2>1 DEF Return, Vector
    <2>3. result' \in [Party -> [Key -> T]]
      <3>1. PICK garbage \in T :
              result' = [result EXCEPT ![p] = [k \in Key |-> FromBytes(Sum(p, k), garbage)]]
        BY <1>12 DEF Return
      <3>2. \A k \in Key : FromBytes(Sum(p, k), garbage) \in T
        BY FromBytesIs
      <3>3. [k \in Key |-> FromBytes(Sum(p, k), garbage)] \in [Key -> T]
        BY <3>2
      <3> HIDE DEF T
      <3> QED BY <3>1, <3>3
    <2>4. matches' \in [Bucket -> Key \union {-1}]
      BY <1>12 DEF Return, Unused
    <2>5. owner' \in [Party -> [Ranges -> Nat]]
      BY <1>12 DEF Return
    <2>6. pc' = [pc EXCEPT ![p] = "ok"] /\ UNCHANGED <<call, run, wire, at, i>>
      BY <1>12 DEF Return
    <2> QED BY <2>2, <2>3, <2>4, <2>5, <2>6 DEF call
  <1>13. ASSUME NEW p \in Party, NextRun(p) PROVE OTypeOK'
    <2>1. run' \in [Party -> 1 .. Runs]
      BY <1>13, OldAssumption DEF NextRun
    <2> QED BY <1>13, <2>1 DEF NextRun, loop
  <1>14. CASE UNCHANGED vars
    BY <1>14 DEF vars, call, loop
  <1> QED BY <1>1, <1>2, <1>3, <1>4, <1>5, <1>6, <1>7, <1>8, <1>9, <1>10, <1>11, <1>12, <1>13,
             <1>14 DEF Next

\* Every step preserves what relates the ranges to the control.
LEMMA LoopsStep == IInv /\ [Next]_vars => Loops'
  <1> SUFFICES ASSUME IInv, [Next]_vars PROVE Loops'
    OBVIOUS
  <1>0. Loops /\ threads \in Threads /\ Used' = Used /\ max_arr' = max_arr /\ min_arr' = min_arr
    BY RangesFixed DEF IInv, OTypeOK
  <1> USE <1>0 DEF IInv, OTypeOK, PcType, Location, Party, Loops, BothInLoop
  <1>1. CASE Listen \/ Connect \/ Refused \/ Assign \/ AssignFails \/ Receive
    BY <1>1 DEF Listen, Connect, Refused, Assign, AssignFails, Receive, loop
  <1>2. ASSUME NEW p \in Party, CreateBuckets(p) PROVE Loops'
    BY <1>2 DEF CreateBuckets, loop
  <1>3. CASE EnterLoop
    <2>1. min_arr \in [Ranges -> Nat] /\ Used \subseteq Ranges
      BY RangeFacts
    <2>2. \A p \in Party : i'[p] = min_arr /\ pc'[p] = "loop"
      BY <1>3 DEF EnterLoop
    <2>3. \A p \in Party, k \in Ranges : at'[p][k] = IF k \in Used THEN "todo" ELSE "ended"
      BY <1>3 DEF EnterLoop
    <2>4. i' \in [Party -> [Ranges -> Nat]]
      BY <1>3, <2>1 DEF EnterLoop
    <2> QED BY <2>1, <2>2, <2>3, <2>4
  <1>4. ASSUME NEW p \in Party, NEW k \in Ranges, Begin(p, k) PROVE Loops'
    BY <1>4 DEF Begin, CanBegin
  <1>5. ASSUME NEW p \in Party, NEW k \in Ranges, EndRange(p, k) PROVE Loops'
    BY <1>5 DEF EndRange, CanEnd
  <1>6. ASSUME NEW k \in Ranges, RunDpf(k) PROVE Loops'
    <2>1. \A p \in Party : at[p][k] = "running"
      BY <1>6 DEF RunDpf, AtDpf
    <2>2. \A p \in Party : i'[p] = [i[p] EXCEPT ![k] = @ + 1]
      BY <1>6 DEF RunDpf
    <2>3. UNCHANGED <<pc, run, at>>
      BY <1>6 DEF RunDpf
    <2>4. i' \in [Party -> [Ranges -> Nat]]
      BY <1>6 DEF RunDpf
    <2>5. \A c \in Used : c \in Ranges /\ min_arr[c] \in Nat
      BY RangeFacts
    <2> QED BY <2>1, <2>2, <2>3, <2>4, <2>5
  <1>7. ASSUME NEW k \in Ranges, OutOfStep(k) PROVE Loops'
    BY <1>7 DEF OutOfStep, Idle
  <1>8. ASSUME NEW p \in Party, Return(p) PROVE Loops'
    BY <1>8 DEF Return, CanReturn
  <1>9. ASSUME NEW p \in Party, NextRun(p) PROVE Loops'
    BY <1>9 DEF NextRun, loop
  <1>10. CASE UNCHANGED vars
    BY <1>10 DEF vars, loop
  <1> QED BY <1>1, <1>2, <1>3, <1>4, <1>5, <1>6, <1>7, <1>8, <1>9, <1>10 DEF Next

\* The inductive invariant holds.
THEOREM OldInvariant == Spec => []IInv
  <1>1. IInv /\ [Next]_vars => IInv'
    BY TypeStep, ControlStep, LoopsStep DEF IInv
  <1> QED BY InitInv, <1>1, PTL DEF Spec

(***************************************************************************)
(* The types of MpfssOld; and the loops of a range are in the same place in*)
(* both parties and within the range (parallel.c: parallize).              *)
(***************************************************************************)
THEOREM OldTypeCorrect == Spec => []OTypeOK
  <1>1. IInv => OTypeOK
    BY DEF IInv
  <1> QED BY OldInvariant, <1>1, PTL

-----------------------------------------------------------------------------
(***************************************************************************)
(* As long as a party is in the loop, what has ended in one of the parties *)
(* is at its end in both.                                                  *)
(***************************************************************************)
LoopsEnd ==
  \A p \in Party : pc[p] = "loop" =>
    \A q \in Party, k \in Used : at[q][k] = "ended" => i[1][k] = max_arr[k]

LEMMA LoopsEndStep == IInv /\ LoopsEnd /\ [Next]_vars => LoopsEnd'
  <1> SUFFICES ASSUME IInv, LoopsEnd, [Next]_vars PROVE LoopsEnd'
    OBVIOUS
  <1>0. /\ Used' = Used /\ max_arr' = max_arr /\ Used \subseteq Ranges
        /\ pc \in [Party -> Location] /\ i[1] = i[2] /\ i \in [Party -> [Ranges -> Nat]]
        /\ at \in [Party -> [Ranges -> {"todo", "running", "ended"}]]
    BY RangesFixed, RangeFacts DEF IInv, OTypeOK, PcType, Loops
  <1>1. ASSUME UNCHANGED <<at, i>>, \A p \in Party : pc'[p] = "loop" => pc[p] = "loop"
        PROVE  LoopsEnd'
    BY <1>0, <1>1 DEF LoopsEnd
  <1>2. CASE Listen \/ Connect \/ Refused \/ Assign \/ AssignFails \/ Receive
    BY <1>0, <1>1, <1>2 DEF Listen, Connect, Refused, Assign, AssignFails, Receive, loop, Party
  <1>3. ASSUME NEW p \in Party, CreateBuckets(p) \/ Return(p) \/ NextRun(p) PROVE LoopsEnd'
    BY <1>0, <1>1, <1>3 DEF CreateBuckets, Return, NextRun, loop, Party
  <1>4. CASE EnterLoop
    BY <1>0, <1>4 DEF EnterLoop, LoopsEnd
  <1>5. ASSUME NEW p \in Party, NEW k \in Ranges, Begin(p, k) PROVE LoopsEnd'
    BY <1>0, <1>5 DEF Begin, LoopsEnd
  <1>6. ASSUME NEW p \in Party, NEW k \in Ranges, EndRange(p, k) PROVE LoopsEnd'
    <2>1. i[1][k] = max_arr[k]
      BY <1>0, <1>6 DEF EndRange, CanEnd, Party
    <2> QED BY <1>0, <1>6, <2>1 DEF EndRange, LoopsEnd
  <1>7. ASSUME NEW k \in Ranges, RunDpf(k) PROVE LoopsEnd'
    <2>1. /\ UNCHANGED <<pc, at>> /\ \A q \in Party : at[q][k] # "ended"
          /\ \A c \in Ranges \ {k} : i'[1][c] = i[1][c]
      BY <1>0, <1>7 DEF RunDpf, AtDpf, Party
    <2> QED BY <1>0, <2>1 DEF LoopsEnd
  <1>8. ASSUME NEW k \in Ranges, OutOfStep(k) PROVE LoopsEnd'
    BY <1>8 DEF OutOfStep, LoopsEnd, Party
  <1>9. CASE UNCHANGED vars
    BY <1>1, <1>9 DEF vars, loop
  <1> QED BY <1>2, <1>3, <1>4, <1>5, <1>6, <1>7, <1>8, <1>9 DEF Next

\* The circuits get out of step only if the seeds differ.
SeedsDiffer == pc[1] = "undefined" => seed[1] # seed[2]

LEMMA SeedsStep == IInv /\ SeedsDiffer /\ [Next]_vars => SeedsDiffer'
  <1> SUFFICES ASSUME IInv, SeedsDiffer, [Next]_vars, pc'[1] = "undefined"
               PROVE  seed'[1] # seed'[2]
    BY DEF SeedsDiffer
  <1> USE DEF Party
  <1>0. pc \in [Party -> Location] /\ (pc[1] = "undefined" <=> pc[2] = "undefined")
    BY DEF IInv, PcType, Calls, Links
  <1>1. CASE \E k \in Ranges : OutOfStep(k)
    <2>1. PICK k \in Ranges : OutOfStep(k)
      BY <1>1
    <2>2. i[1][k] = i[2][k] /\ Len(BucketOf(1, k)) # Len(BucketOf(2, k)) /\ UNCHANGED seed
      BY <2>1 DEF OutOfStep, IInv, OTypeOK, call
    <2> QED BY <2>2 DEF BucketOf
  <1>2. ASSUME UNCHANGED pc, UNCHANGED seed PROVE seed'[1] # seed'[2]
    BY <1>2 DEF SeedsDiffer
  <1>3. CASE Listen \/ Connect \/ Refused \/ Assign \/ AssignFails \/ Receive \/ EnterLoop
    BY <1>0, <1>2, <1>3
       DEF Listen, Connect, Refused, Assign, AssignFails, Receive, EnterLoop, call, SeedsDiffer
  <1>4. ASSUME NEW p \in Party, CreateBuckets(p) PROVE FALSE
    BY <1>0, <1>4 DEF CreateBuckets
  <1>5. ASSUME NEW p \in Party, Return(p) \/ NextRun(p) PROVE FALSE
    BY <1>0, <1>5 DEF Return, CanReturn, NextRun
  <1>6. ASSUME NEW p \in Party, NEW k \in Ranges, Begin(p, k) \/ EndRange(p, k) \/ RunDpf(k)
        PROVE  UNCHANGED <<pc, seed>>
    BY <1>6 DEF Begin, EndRange, RunDpf, call
  <1>7. CASE UNCHANGED vars
    BY <1>2, <1>7 DEF vars, call
  <1> QED BY <1>1, <1>2, <1>3, <1>4, <1>5, <1>6, <1>7 DEF Next

(***************************************************************************)
(* A loop in which a party still is goes on: the first range that is open  *)
(* in one of the parties is taken, evaluated or left.                      *)
(***************************************************************************)
LEMMA LoopGoesOn ==
  ASSUME IInv, LoopsEnd, NEW p \in Party, pc[p] = "loop"
  PROVE  CanProceed
  <1> SUFFICES ASSUME ~ CanProceed PROVE FALSE
    OBVIOUS
  <1> DEFINE Rest == {k \in Ranges : \E q \in Party : at[q][k] # "ended"}
  <1>1. Rest \in SUBSET Nat
    BY BucketFacts
  <1>2. Rest # {}
    BY DEF CanProceed, CanReturn
  <1>3. PICK k \in Rest : \A c \in Rest : k <= c
    <2> HIDE DEF Rest
    <2> QED BY <1>1, <1>2, LeastElement
  <1>4. /\ k \in Used /\ Used \subseteq Ranges /\ i[1] = i[2] /\ i[1][k] <= max_arr[k]
        /\ i[1][k] \in Nat /\ max_arr[k] \in Nat
        /\ at \in [Party -> [Ranges -> {"todo", "running", "ended"}]]
    BY <1>3, RangeFacts DEF IInv, Loops, OTypeOK, Party
  <1>5. \A q \in Party : at[q][k] # "todo"
    <2>1. SUFFICES ASSUME NEW q \in Party, at[q][k] = "todo" PROVE CanBegin(q, k)
      BY <1>4 DEF CanProceed
    <2>2. \A c \in Used : c < k => at[q][c] = "ended"
      BY <1>3, <1>4, BucketFacts
    <2> QED BY <2>1, <2>2 DEF CanBegin
  <1>6. PICK q \in Party : at[q][k] = "running"
    BY <1>3, <1>4, <1>5
  <1>7. i[1][k] < max_arr[k]
    <2>1. ~ CanEnd(q, k)
      BY <1>4 DEF CanProceed
    <2> QED BY <1>4, <1>6, <2>1 DEF CanEnd, Party
  <1>8. \A r \in Party : at[r][k] = "running"
    <2>1. \A r \in Party : at[r][k] # "ended"
      BY <1>4, <1>7 DEF LoopsEnd
    <2> QED BY <1>4, <1>5, <2>1
  <1> QED BY <1>4, <1>7, <1>8 DEF CanProceed, AtDpf, Party

\* When nobody can proceed both parties have come to the same end of their calls.
LEMMA NobodyWaits == IInv /\ LoopsEnd /\ SeedsDiffer => OldNeverStuck
  <1> SUFFICES ASSUME IInv, LoopsEnd, SeedsDiffer, ~ CanProceed, pc[2] # "crash",
                      pc[2] # "undefined"
               PROVE  Ended
    BY DEF OldNeverStuck, Over, IInv, Calls, Links, SeedsDiffer
  <1>0. 1 \in Party /\ 2 \in Party /\ \A p \in Party : p = 1 \/ p = 2
    BY DEF Party
  <1>1. pc[1] # "loop" /\ pc[2] # "loop"
    BY <1>0, LoopGoesOn
  <1>2. /\ pc[1] \in {"accept", "yao", "ok", "failed"}
        /\ pc[2] \in {"assign", "yao", "ok", "failed"}
        /\ pc[2] = "assign" => wire = "empty"
    <2>1. pc[1] # "buckets" /\ pc[2] # "buckets"
      BY <1>0 DEF CanProceed
    <2>2. pc[1] # "undefined"
      BY DEF IInv, Calls, Links
    <2> QED BY <1>1, <2>1, <2>2 DEF CanProceed, IInv, OTypeOK
  <1>3. run[1] \in Nat /\ run[2] \in Nat /\ Runs \in Nat /\ run[1] <= Runs /\ run[2] <= Runs
    BY <1>0, OldAssumption DEF IInv, OTypeOK
  <1>4. \A p \in Party : pc[p] \in {"ok", "failed"} => run[p] = Runs
    BY <1>0, <1>3 DEF CanProceed
  <1>5. run[1] = run[2]
    <2>1. CASE run[1] > run[2]
      BY <1>0, <1>1, <1>2, <1>3, <1>4, <2>1 DEF IInv, Calls, AheadOne, Early
    <2>2. CASE run[2] > run[1]
      BY <1>2, <2>2 DEF IInv, Calls, AheadTwo
    <2> QED BY <1>3, <2>1, <2>2
  <1>6. ~ (pc[1] = "yao" /\ pc[2] = "yao")
    BY <1>0 DEF CanProceed
  <1>7. pc[1] = pc[2] /\ pc[1] \in {"ok", "failed"}
    BY <1>1, <1>2, <1>5, <1>6 DEF IInv, Calls, SameCall, Early
  <1> QED BY <1>0, <1>4, <1>7 DEF Ended

(***************************************************************************)
(* The two processes of mpfss_cuckoo never deadlock, for any number of     *)
(* buckets, calls and threads and any distribution of the ranges to the    *)
(* OpenMP threads of the parties.                                          *)
(***************************************************************************)
THEOREM OldNoDeadlock == Spec => []OldNeverStuck
  <1>1. Init => LoopsEnd /\ SeedsDiffer
    BY DEF Init, LoopsEnd, SeedsDiffer, Party
  <1>2. Spec => [](LoopsEnd /\ SeedsDiffer)
    BY <1>1, LoopsEndStep, SeedsStep, OldInvariant, PTL DEF Spec
  <1> QED BY <1>2, OldInvariant, NobodyWaits, PTL

-----------------------------------------------------------------------------
\* The numbers that a party's work is made of, and their bounds.
LoopMax == b * b + 2 * b

WorkNumbers ==
  \A p \in Party :
    /\ run[p] \in 1 .. Runs /\ InLoop(p) \in 0 .. LoopMax
    /\ InCall(p) \in 0 .. CallWork - 1 /\ WorkOf(p) \in Nat

LEMMA MaxFacts ==
  b \in Nat \ {0} /\ LoopMax \in Nat /\ CallWork = LoopMax + 7 /\ Runs \in Nat
  <1>1. b \in Nat \ {0} /\ Runs \in Nat
    BY BucketFacts, OldAssumption
  <1>2. b * b \in Nat
    BY <1>1
  <1> QED BY <1>1, <1>2 DEF LoopMax, CallWork

\* There are no more ranges, and pairs of a range and a bucket, than that.
LEMMA FewInLoop ==
  /\ \A S \in SUBSET Ranges : IsFiniteSet(S) /\ Cardinality(S) \in 0 .. b
  /\ \A S \in SUBSET (Ranges \X Bucket) : IsFiniteSet(S) /\ Cardinality(S) \in 0 .. b * b
  <1>1. b \in Nat /\ IsFiniteSet(Bucket) /\ Cardinality(Bucket) = b /\ Ranges = Bucket
    BY BucketFacts, FS_Interval DEF Bucket
  <1>2. IsFiniteSet(Ranges \X Bucket) /\ Cardinality(Ranges \X Bucket) = b * b
    BY <1>1, FS_Product
  <1>3. b * b \in Nat
    BY <1>1
  <1>4. ASSUME NEW S \in SUBSET Ranges PROVE IsFiniteSet(S) /\ Cardinality(S) \in 0 .. b
    BY <1>1, FS_Subset, FS_CardinalityType
  <1>5. ASSUME NEW S \in SUBSET (Ranges \X Bucket)
        PROVE  IsFiniteSet(S) /\ Cardinality(S) \in 0 .. b * b
    <2> DEFINE U == Ranges \X Bucket
    <2> HIDE DEF U
    <2>1. IsFiniteSet(U) /\ Cardinality(U) = b * b /\ S \in SUBSET U
      BY <1>2 DEF U
    <2>2. IsFiniteSet(S) /\ Cardinality(S) <= Cardinality(U) /\ Cardinality(S) \in Nat
      BY <2>1, FS_Subset, FS_CardinalityType
    <2> QED BY <1>3, <2>1, <2>2
  <1> QED BY <1>4, <1>5

LEMMA LoopBounds ==
  ASSUME threads \in Threads, NEW p
  PROVE  /\ ToDo(p) \in SUBSET Ranges /\ Open(p) \in SUBSET Ranges
         /\ ToRun(p) \in SUBSET (Ranges \X Bucket)
         /\ InLoop(p) \in 0 .. LoopMax
  <1>1. ToDo(p) \in SUBSET Ranges /\ Open(p) \in SUBSET Ranges
    BY DEF ToDo, Open
  <1>2. ToRun(p) \in SUBSET (Ranges \X Bucket)
    BY RangeFacts DEF ToRun
  <1>3. /\ Cardinality(ToDo(p)) \in 0 .. b /\ Cardinality(Open(p)) \in 0 .. b
        /\ Cardinality(ToRun(p)) \in 0 .. b * b
    BY <1>1, <1>2, FewInLoop
  <1>4. b * b \in Nat /\ b \in Nat
    BY MaxFacts
  <1>5. InLoop(p) \in 0 .. LoopMax
    BY <1>3, <1>4 DEF InLoop, LoopMax
  <1> QED BY <1>1, <1>2, <1>5

LEMMA WorkBounds == IInv => WorkNumbers
  <1> SUFFICES ASSUME IInv, NEW p \in Party
               PROVE  /\ run[p] \in 1 .. Runs /\ InLoop(p) \in 0 .. LoopMax
                      /\ InCall(p) \in 0 .. CallWork - 1 /\ WorkOf(p) \in Nat
    BY DEF WorkNumbers
  <1>1. run[p] \in 1 .. Runs /\ Runs \in Nat /\ InLoop(p) \in 0 .. LoopMax
    BY MaxFacts, LoopBounds DEF IInv, OTypeOK
  <1>2. CallWork = LoopMax + 7 /\ LoopMax \in Nat
    BY MaxFacts
  <1>3. InCall(p) \in 0 .. CallWork - 1
    BY <1>1, <1>2 DEF InCall
  <1>4. (Runs - run[p]) * CallWork \in Nat
    <2>1. Runs - run[p] \in Nat /\ CallWork \in Nat
      BY <1>1, <1>2
    <2> QED BY <2>1
  <1>5. WorkOf(p) \in Nat
    BY <1>2, <1>3, <1>4 DEF WorkOf
  <1> QED BY <1>1, <1>3, <1>5

\* In the same call a party's work changes as what is left of the call.
LEMMA WorkInCall ==
  ASSUME WorkNumbers, WorkNumbers', NEW p \in Party, run'[p] = run[p]
  PROVE  /\ InCall(p)' < InCall(p) => WorkOf(p)' < WorkOf(p)
         /\ InCall(p)' = InCall(p) => WorkOf(p)' = WorkOf(p)
  <1> DEFINE Calls0 == (Runs - run[p]) * CallWork
  <1>1. Calls0 \in Int /\ InCall(p) \in Int /\ InCall(p)' \in Int
    BY MaxFacts DEF WorkNumbers
  <1>2. WorkOf(p) = Calls0 + InCall(p)
    BY DEF WorkOf
  <1>3. WorkOf(p)' = Calls0 + InCall(p)'
    BY DEF WorkOf, CallWork
  <1> HIDE DEF Calls0
  <1> QED BY <1>1, <1>2, <1>3

\* A party that a step leaves where it is.
Same(p) == pc'[p] = pc[p] /\ run'[p] = run[p] /\ at'[p] = at[p] /\ i'[p] = i[p]

LEMMA LoopSame ==
  ASSUME [Next]_vars, NEW p, at'[p] = at[p]
  PROVE  /\ ToDo(p)' = ToDo(p) /\ Open(p)' = Open(p)
         /\ i'[p] = i[p] => ToRun(p)' = ToRun(p) /\ InLoop(p)' = InLoop(p)
  <1>1. ToDo(p)' = ToDo(p) /\ Open(p)' = Open(p)
    BY DEF ToDo, Open
  <1>2. ASSUME i'[p] = i[p] PROVE ToRun(p)' = ToRun(p)
    BY <1>2, RangesFixed DEF ToRun
  <1> QED BY <1>1, <1>2 DEF InLoop

LEMMA WorkSame ==
  ASSUME WorkNumbers, WorkNumbers', [Next]_vars, NEW p \in Party, Same(p)
  PROVE  WorkOf(p)' = WorkOf(p)
  <1>1. InLoop(p)' = InLoop(p)
    BY LoopSame DEF Same
  <1>2. InCall(p)' = InCall(p)
    BY <1>1 DEF InCall, CallWork, Same
  <1> QED BY <1>2, WorkInCall DEF Same

\* A range that is taken, and one that ends.
LEMMA LessInLoop ==
  ASSUME IInv, [Next]_vars, NEW p \in Party, NEW k \in Ranges, i'[p] = i[p],
         NEW w \in {"running", "ended"},
         \/ at[p][k] = "todo" /\ w = "running"
         \/ at[p][k] = "running" /\ w = "ended",
         at'[p] = [at[p] EXCEPT ![k] = w]
  PROVE  InLoop(p)' = InLoop(p) - 1
  <1>1. /\ ToDo(p) \in SUBSET Ranges /\ Open(p) \in SUBSET Ranges
        /\ ToRun(p) \in SUBSET (Ranges \X Bucket) /\ at[p] \in [Ranges -> {"todo", "running", "ended"}]
    BY LoopBounds DEF IInv, OTypeOK
  <1>2. /\ IsFiniteSet(ToDo(p)) /\ IsFiniteSet(Open(p)) /\ Cardinality(ToDo(p)) \in Int
        /\ Cardinality(Open(p)) \in Int /\ Cardinality(ToRun(p)) \in Int
    BY <1>1, FewInLoop, MaxFacts
  <1>3. ToRun(p)' = ToRun(p)
    BY RangesFixed DEF ToRun
  <1>4. CASE at[p][k] = "todo"
    <2>1. k \in ToDo(p) /\ ToDo(p)' = ToDo(p) \ {k} /\ Open(p)' = Open(p)
      BY <1>1, <1>4 DEF ToDo, Open
    <2>2. Cardinality(ToDo(p)') = Cardinality(ToDo(p)) - 1
      BY <1>2, <2>1, FS_RemoveElement
    <2> QED BY <1>2, <1>3, <2>1, <2>2 DEF InLoop
  <1>5. CASE at[p][k] = "running"
    <2>1. k \in Open(p) /\ Open(p)' = Open(p) \ {k} /\ ToDo(p)' = ToDo(p)
      BY <1>1, <1>5 DEF ToDo, Open
    <2>2. Cardinality(Open(p)') = Cardinality(Open(p)) - 1
      BY <1>2, <2>1, FS_RemoveElement
    <2> QED BY <1>2, <1>3, <2>1, <2>2 DEF InLoop
  <1> QED BY <1>4, <1>5

\* A bucket whose DPF has been executed.
LEMMA LessToRun ==
  ASSUME IInv, [Next]_vars, NEW p \in Party, NEW k \in Used, at'[p] = at[p],
         i[p] \in [Ranges -> Nat], i[p][k] < max_arr[k], max_arr[k] <= b,
         i'[p] = [i[p] EXCEPT ![k] = @ + 1]
  PROVE  InLoop(p)' = InLoop(p) - 1
  <1> DEFINE n == i[p][k]
             S == ToRun(p)
  <1>1. /\ ToDo(p) \in SUBSET Ranges /\ Open(p) \in SUBSET Ranges /\ S \in SUBSET (Ranges \X Bucket)
        /\ Used \subseteq Ranges /\ max_arr \in [Ranges -> Nat]
    BY LoopBounds, RangeFacts DEF IInv, OTypeOK
  <1>2. /\ IsFiniteSet(S) /\ Cardinality(ToDo(p)) \in Int
        /\ Cardinality(Open(p)) \in Int /\ Cardinality(S) \in Int
    BY <1>1, FewInLoop, MaxFacts
  <1>3. n \in Bucket /\ n \in Nat
    <2>1. n \in Nat /\ max_arr[k] \in Nat /\ b \in Nat
      BY <1>1, MaxFacts
    <2> QED BY <2>1 DEF Bucket
  <1>4. ToRun(p)' = S \ {<<k, n>>}
    <2>1. ToRun(p)' = {e \in Used \X Bucket : i'[p][e[1]] <= e[2] /\ e[2] < max_arr[e[1]]}
      BY RangesFixed DEF ToRun
    <2>2. ASSUME NEW c \in Used, NEW m \in Bucket
          PROVE  i'[p][c] <= m <=> i[p][c] <= m /\ ~ (c = k /\ m = n)
      <3>1. i'[p][c] = IF c = k THEN n + 1 ELSE i[p][c]
        BY <1>1
      <3>2. m \in Nat
        BY BucketFacts
      <3> QED BY <1>3, <3>1, <3>2
    <2> QED BY <2>1, <2>2 DEF ToRun
  <1>5. <<k, n>> \in S
    BY <1>3 DEF ToRun
  <1>6. ToDo(p)' = ToDo(p) /\ Open(p)' = Open(p)
    BY LoopSame
  <1>7. Cardinality(ToRun(p)') = Cardinality(S) - 1
    <2> DEFINE e == <<k, n>>
    <2>1. ToRun(p)' = S \ {e} /\ e \in S
      BY <1>4, <1>5
    <2> HIDE DEF S, e
    <2> QED BY <1>2, <2>1, FS_RemoveElement
  <1> QED BY <1>2, <1>6, <1>7 DEF InLoop

\* Every step lowers the work of one party and raises that of none.
LEMMA WorkStep ==
  ASSUME IInv, WorkNumbers, WorkNumbers', Next
  PROVE  /\ \A p \in Party : 0 <= WorkOf(p)' /\ WorkOf(p)' <= WorkOf(p)
         /\ UNCHANGED vars \/ \E p \in Party : WorkOf(p)' < WorkOf(p)
  <1> SUFFICES ASSUME ~ UNCHANGED vars
               PROVE  /\ \A p \in Party : 0 <= WorkOf(p)' /\ WorkOf(p)' <= WorkOf(p)
                      /\ \E p \in Party : WorkOf(p)' < WorkOf(p)
    <2>1. CASE UNCHANGED vars
      <3>1. \A p \in Party : Same(p)
        BY <2>1 DEF vars, loop, Same
      <3>2. \A p \in Party : WorkOf(p)' = WorkOf(p) /\ WorkOf(p) \in Nat
        BY <3>1, WorkSame DEF WorkNumbers
      <3> QED BY <2>1, <3>2
    <2> QED BY <2>1
  <1> DEFINE Less == /\ \A p \in Party : 0 <= WorkOf(p)' /\ WorkOf(p)' <= WorkOf(p)
                     /\ \E p \in Party : WorkOf(p)' < WorkOf(p)
  <1>0. /\ CallWork \in Nat /\ LoopMax \in Nat /\ CallWork = LoopMax + 7 /\ CallWork' = CallWork
        /\ 1 \in Party /\ 2 \in Party /\ \A p \in Party : p = 1 \/ p = 2
    BY MaxFacts DEF CallWork, Party
  <1>1. /\ pc \in [Party -> Location] /\ run \in [Party -> 1 .. Runs]
        /\ at \in [Party -> [Ranges -> {"todo", "running", "ended"}]]
        /\ i \in [Party -> [Ranges -> Nat]] /\ i[1] = i[2] /\ threads \in Threads /\ Loops
    BY DEF IInv, PcType, OTypeOK, Loops
  <1>2. \A p \in Party : /\ WorkOf(p) \in Nat /\ WorkOf(p)' \in Nat
                         /\ InLoop(p) \in 0 .. LoopMax /\ InLoop(p)' \in 0 .. LoopMax
    BY <1>0 DEF WorkNumbers, LoopMax
  <1>3. ASSUME NEW p \in Party, WorkOf(p)' < WorkOf(p), \A q \in Party \ {p} : Same(q) PROVE Less
    <2>1. \A q \in Party \ {p} : WorkOf(q)' = WorkOf(q)
      BY <1>3, WorkSame
    <2> QED BY <1>2, <1>3, <2>1
  <1>4. ASSUME \A p \in Party : WorkOf(p)' < WorkOf(p) PROVE Less
    BY <1>0, <1>2, <1>4
  <1>5. ASSUME NEW p \in Party, UNCHANGED <<run, at, i>>, NEW w \in Location,
               pc' = [pc EXCEPT ![p] = w], InCall(p)' < InCall(p)
        PROVE  Less
    <2>1. WorkOf(p)' < WorkOf(p)
      BY <1>5, WorkInCall
    <2> QED BY <1>1, <1>3, <1>5, <2>1 DEF Same
  <1>6. CASE Listen
    <2>1. /\ UNCHANGED <<run, at, i>> /\ pc[1] = "listen" /\ pc' = [pc EXCEPT ![1] = "accept"]
          /\ pc'[1] = "accept"
      BY <1>0, <1>1, <1>6 DEF Listen, loop
    <2>2. InCall(1)' < InCall(1)
      BY <1>0, <2>1 DEF InCall
    <2> QED BY <1>0, <1>5, <2>1, <2>2 DEF Location
  <1>7. CASE Connect
    <2>1. /\ UNCHANGED run /\ pc[1] = "accept" /\ pc[2] = "connect"
          /\ pc'[1] = "buckets" /\ pc'[2] = "buckets"
      BY <1>7 DEF Connect
    <2>2. ASSUME NEW p \in Party PROVE InCall(p)' < InCall(p)
      BY <1>0, <2>1 DEF InCall
    <2> QED BY <1>4, <2>1, <2>2, WorkInCall
  <1>8. CASE Refused
    <2>1. /\ UNCHANGED <<run, at, i>> /\ pc[2] = "connect" /\ pc' = [pc EXCEPT ![2] = "crash"]
          /\ pc'[2] = "crash"
      BY <1>0, <1>1, <1>8 DEF Refused, loop
    <2>2. InCall(2)' < InCall(2)
      BY <1>0, <2>1 DEF InCall
    <2> QED BY <1>0, <1>5, <2>1, <2>2 DEF Location
  <1>9. ASSUME NEW p \in Party, CreateBuckets(p) PROVE Less
    <2>1. /\ UNCHANGED <<run, at, i>> /\ pc[p] = "buckets" /\ pc' = [pc EXCEPT ![p] = "assign"]
          /\ pc'[p] = "assign"
      BY <1>1, <1>9 DEF CreateBuckets, loop
    <2>2. InCall(p)' < InCall(p)
      BY <1>0, <2>1 DEF InCall
    <2> QED BY <1>5, <2>1, <2>2 DEF Location
  <1>10. CASE Assign \/ AssignFails \/ Receive
    <2>1. PICK p \in Party, w \in {"yao", "failed"} :
            /\ UNCHANGED <<run, at, i>> /\ pc[p] = "assign"
            /\ pc' = [pc EXCEPT ![p] = w] /\ pc'[p] = w
      BY <1>0, <1>1, <1>10 DEF Assign, AssignFails, Receive, loop
    <2>2. InCall(p)' < InCall(p)
      BY <1>0, <2>1 DEF InCall
    <2> QED BY <1>5, <2>1, <2>2 DEF Location
  <1>11. CASE EnterLoop
    <2>1. UNCHANGED run /\ \A p \in Party : pc[p] = "yao" /\ pc'[p] = "loop"
      BY <1>0, <1>11 DEF EnterLoop
    <2>2. ASSUME NEW p \in Party PROVE InCall(p)' < InCall(p)
      BY <1>0, <1>2, <2>1 DEF InCall
    <2> QED BY <1>4, <2>1, <2>2, WorkInCall
  <1>12. ASSUME NEW p \in Party, UNCHANGED <<pc, run>>, pc[p] = "loop", InLoop(p)' = InLoop(p) - 1
         PROVE  WorkOf(p)' < WorkOf(p)
    <2>1. InCall(p)' < InCall(p)
      BY <1>2, <1>12 DEF InCall
    <2> QED BY <1>12, <2>1, WorkInCall
  <1>13. ASSUME NEW p \in Party, NEW k \in Ranges, Begin(p, k) \/ EndRange(p, k) PROVE Less
    <2>1. PICK w \in {"running", "ended"} :
            /\ at' = [at EXCEPT ![p][k] = w] /\ UNCHANGED <<pc, run, i>>
            /\ \/ at[p][k] = "todo" /\ w = "running"
               \/ at[p][k] = "running" /\ w = "ended"
      BY <1>13 DEF Begin, CanBegin, EndRange, CanEnd
    <2>2. at'[p] = [at[p] EXCEPT ![k] = w] /\ pc[p] = "loop"
      BY <1>1, <2>1 DEF Loops
    <2>3. InLoop(p)' = InLoop(p) - 1
      BY <2>1, <2>2, LessInLoop
    <2>4. \A q \in Party \ {p} : Same(q)
      BY <1>1, <2>1 DEF Same
    <2> QED BY <1>3, <1>12, <2>1, <2>2, <2>3, <2>4
  <1>14. ASSUME NEW k \in Ranges, RunDpf(k) PROVE Less
    <2>1. /\ UNCHANGED <<pc, run, at>>
          /\ \A p \in Party : /\ at[p][k] = "running" /\ i[p][k] < max_arr[k]
                              /\ i'[p] = [i[p] EXCEPT ![k] = @ + 1]
      BY <1>14 DEF RunDpf, AtDpf
    <2>2. k \in Used /\ max_arr[k] <= b /\ \A p \in Party : pc[p] = "loop"
      BY <1>1, <2>1, RangeFacts DEF Loops, Party
    <2>3. ASSUME NEW p \in Party PROVE InLoop(p)' = InLoop(p) - 1
      BY <1>1, <2>1, <2>2, LessToRun
    <2> QED BY <1>4, <1>12, <2>1, <2>2, <2>3
  <1>15. ASSUME NEW k \in Ranges, OutOfStep(k) PROVE Less
    <2>1. UNCHANGED run /\ \A p \in Party : at[p][k] = "running" /\ pc'[p] = "undefined"
      BY <1>0, <1>15 DEF OutOfStep, AtDpf
    <2>2. \A p \in Party : pc[p] = "loop"
      BY <1>1, <2>1 DEF Loops
    <2>3. ASSUME NEW p \in Party PROVE InCall(p)' < InCall(p)
      BY <1>2, <2>1, <2>2 DEF InCall
    <2> QED BY <1>4, <2>1, <2>3, WorkInCall
  <1>16. ASSUME NEW p \in Party, Return(p) PROVE Less
    <2>1. /\ UNCHANGED <<run, at, i>> /\ pc[p] = "loop" /\ pc' = [pc EXCEPT ![p] = "ok"]
          /\ pc'[p] = "ok"
      BY <1>1, <1>16 DEF Return, CanReturn
    <2>2. InCall(p)' < InCall(p)
      BY <1>2, <2>1 DEF InCall
    <2> QED BY <1>5, <2>1, <2>2 DEF Location
  <1>17. ASSUME NEW p \in Party, NextRun(p) PROVE Less
    <2>1. run'[p] = run[p] + 1 /\ \A q \in Party \ {p} : Same(q)
      BY <1>1, <1>17 DEF NextRun, loop, Same
    <2> DEFINE K == (Runs - run[p]) * CallWork
    <2>2. WorkOf(p) = K + InCall(p)
      BY DEF WorkOf
    <2>3. WorkOf(p)' = (Runs - (run[p] + 1)) * CallWork + InCall(p)'
      BY <1>0, <2>1 DEF WorkOf
    <2>4. InCall(p) \in Nat /\ InCall(p)' \in Nat /\ InCall(p)' < CallWork
      BY <1>0 DEF WorkNumbers
    <2>5. (Runs - (run[p] + 1)) * CallWork = K - CallWork /\ K \in Int
      <3>1. run[p] \in Int /\ Runs \in Int
        BY <1>1, MaxFacts
      <3> HIDE DEF CallWork
      <3> QED BY <1>0, <3>1
    <2> HIDE DEF K
    <2>6. WorkOf(p)' < WorkOf(p)
      BY <1>0, <2>2, <2>3, <2>4, <2>5
    <2> QED BY <1>3, <2>1, <2>6
  <1> QED BY <1>6, <1>7, <1>8, <1>9, <1>10, <1>11, <1>13, <1>14, <1>15, <1>16, <1>17 DEF Next

(***************************************************************************)
(* The loops of main, parallize and call_dpf_threaded all end: every step  *)
(* lowers a natural number, less than Runs * (b * b + 2 * b + 7) in each   *)
(* party.  With OldNoDeadlock all calls return, but for the exceptions in  *)
(* Over, if only the processes keep running.                               *)
(***************************************************************************)
THEOREM OldTerminates == Spec => OldProgress
  <1> DEFINE Less == /\ \A p \in Party : 0 <= WorkOf(p)' /\ WorkOf(p)' <= WorkOf(p)
                     /\ \E p \in Party : WorkOf(p)' < WorkOf(p)
             Good == /\ OldNeverStuck'
                     /\ \A p \in Party : 0 <= WorkOf(p)' /\ WorkOf(p)' <= WorkOf(p)
                     /\ \E p \in Party : WorkOf(p)' < WorkOf(p)
  <1>1. IInv /\ WorkNumbers /\ WorkNumbers' /\ [Next]_vars => [Less]_vars
    BY WorkStep
  <1>2. OldNeverStuck' /\ [Less]_vars => [Good]_vars
    OBVIOUS
  <1>3. Spec => []WorkNumbers
    BY OldInvariant, WorkBounds, PTL
  <1> HIDE DEF Less, Good
  <1>4. Spec => [][Good]_vars
    BY <1>1, <1>2, <1>3, OldInvariant, OldNoDeadlock, PTL DEF Spec
  <1> QED BY <1>4 DEF OldProgress, Good

-----------------------------------------------------------------------------
\* Nothing lies between a number and itself.
LEMMA EmptyRange == ASSUME NEW x \in Int, NEW n \in Int PROVE ~ (x <= n /\ n < x)
  OBVIOUS

\* What the buckets of a seed are.
LEMMA BucketsOfSeed ==
  ASSUME NEW s \in Seed
  PROVE  IsBuckets(Buckets[s]) /\ DOMAIN Buckets[s] = Bucket
  <1>1. DOMAIN Buckets[s] = Bucket /\ Key \subseteq Nat
    BY BucketAssumption DEF Key
  <1>2. IsFiniteSet(Bucket)
    <2>1. 0 \in Int /\ b - 1 \in Int
      BY BucketFacts
    <2> QED BY <2>1, FS_Interval DEF Bucket
  <1>3. ASSUME NEW n \in Bucket
        PROVE  /\ Buckets[s][n] \in Seq(Nat)
               /\ \A x, z \in DOMAIN Buckets[s][n] : x <= z => Buckets[s][n][x] <= Buckets[s][n][z]
    <2>1. Buckets[s][n] \in Seq(Key)
      BY BucketAssumption
    <2>2. Buckets[s][n] \in Seq(Nat)
      <3>1. Len(Buckets[s][n]) \in Nat /\ Buckets[s][n] \in [1 .. Len(Buckets[s][n]) -> Key]
        BY <2>1
      <3>2. Buckets[s][n] \in [1 .. Len(Buckets[s][n]) -> Nat]
        BY <1>1, <3>1
      <3> QED BY <3>1, <3>2
    <2> QED BY <2>2, BucketAssumption
  <1> QED BY <1>1, <1>2, <1>3 DEF IsBuckets

IndexSet == ImageOf(indices, DOMAIN indices)

\* The DPF of bucket n has been evaluated.
Finished(n) == \E k \in Used : min_arr[k] <= n /\ n < i[1][k]

\* BothInLoop with the same hash functions.
Together == BothInLoop /\ seed[1] = seed[2]

\* D are the outputs of the DPFs in both parties, also in a party that has
\* put its vector together and freed them.
Evaluated(D, a) ==
  /\ IsAssignment(a, IndexSet, Buckets[seed[1]])
  /\ pc[1] = "loop" => matches = a
  /\ \A n \in Bucket : Finished(n) => SharedIn(D, n, Buckets[seed[1]], a, Betas(share, a))
  /\ \A p \in Party :
       /\ pc[p] = "loop" => dpf[p] = D[p]
       /\ pc[p] = "ok" =>
            /\ output[p] = [k \in Key |-> XorAt(Buckets[seed[p]], D[p], k)]
            /\ \E g \in T : result[p] = [k \in Key |-> FromBytes(output[p][k], g)]

SeedInv == \A p \in Party :
  run[p] > 1 \/ pc[p] \in {"assign", "yao", "loop", "ok", "failed"} => seed[p] \in Seed

DataInv ==
  /\ \E d : dpf = [p \in Party |-> [n \in Bucket |-> d[p][n]]]
  /\ SeedInv
  /\ pc[1] \in {"yao", "loop"} => IsAssignment(matches, IndexSet, Buckets[seed[1]])
  /\ Together => \E a, D : Evaluated(D, a)

\* Nothing is evaluated at first.
LEMMA InitData == Init => DataInv
  <1> SUFFICES ASSUME Init PROVE DataInv
    OBVIOUS
  <1>1. \E d : dpf = [p \in Party |-> [n \in Bucket |-> d[p][n]]]
    <2>1. dpf = [p \in Party |-> [n \in Bucket |-> dpf[p][n]]]
      BY DEF Init, NoDpf
    <2> QED BY <2>1
  <1>2. SeedInv
    BY DEF Init, SeedInv, Party
  <1>3. ~ Together /\ pc[1] \notin {"yao", "loop"}
    BY DEF Init, Together, BothInLoop, Party
  <1> QED BY <1>1, <1>2, <1>3 DEF DataInv

\* The seed is chosen before it is used.
LEMMA SeedStep == IInv /\ SeedInv /\ [Next]_vars => SeedInv'
  <1> SUFFICES ASSUME IInv, SeedInv, [Next]_vars PROVE SeedInv'
    OBVIOUS
  <1>0. Loops
    BY DEF IInv
  <1> USE DEF IInv, OTypeOK, PcType, Location, Party, SeedInv
  <1>1. CASE Listen \/ Connect \/ Refused
    BY <1>1 DEF Listen, Connect, Refused, call
  <1>2. ASSUME NEW p \in Party, CreateBuckets(p) PROVE SeedInv'
    BY <1>2, BucketAssumption, OldAssumption DEF CreateBuckets
  <1>3. CASE Assign \/ AssignFails \/ Receive
    BY <1>3 DEF Assign, AssignFails, Receive, call
  <1>4. CASE EnterLoop
    BY <1>4 DEF EnterLoop, call
  <1>5. ASSUME NEW p \in Party, NEW k \in Ranges, Begin(p, k) \/ EndRange(p, k) PROVE SeedInv'
    BY <1>5 DEF Begin, EndRange, call
  <1>6. ASSUME NEW k \in Ranges, RunDpf(k) \/ OutOfStep(k) PROVE SeedInv'
    <2>1. CASE RunDpf(k)
      <3>1. UNCHANGED <<pc, run, seed>>
        BY <2>1 DEF RunDpf, call
      <3> QED BY <3>1
    <2>2. CASE OutOfStep(k)
      <3>1. UNCHANGED <<run, seed>> /\ \A p \in Party : pc'[p] = "undefined"
        BY <2>2 DEF OutOfStep, call
      <3> QED BY <3>1
    <2> QED BY <1>6, <2>1, <2>2
  <1>7. ASSUME NEW p \in Party, Return(p) PROVE SeedInv'
    BY <1>7 DEF Return, CanReturn, call
  <1>8. ASSUME NEW p \in Party, NextRun(p) PROVE SeedInv'
    BY <1>8, BucketAssumption, OldAssumption DEF NextRun
  <1>9. CASE UNCHANGED vars
    BY <1>9 DEF vars, call
  <1> QED BY <1>1, <1>2, <1>3, <1>4, <1>5, <1>6, <1>7, <1>8, <1>9 DEF Next

\* The vectors of DPFs always have a place for each bucket.
LEMMA DomainStep ==
  (\E d : dpf = [p \in Party |-> [n \in Bucket |-> d[p][n]]]) /\ [Next]_vars
    => (\E d : dpf = [p \in Party |-> [n \in Bucket |-> d[p][n]]])'
  <1> SUFFICES ASSUME NEW d, dpf = [p \in Party |-> [n \in Bucket |-> d[p][n]]], [Next]_vars
               PROVE  dpf' = [p \in Party |-> [n \in Bucket |-> dpf'[p][n]]]
    OBVIOUS
  <1>1. CASE UNCHANGED dpf
    BY <1>1
  <1>2. ASSUME NEW k \in Ranges, RunDpf(k)
        PROVE  dpf' = [p \in Party |-> [c \in Bucket |-> dpf'[p][c]]]
    BY <1>2 DEF RunDpf
  <1>3. ASSUME NEW p \in Party, Return(p)
        PROVE  dpf' = [q \in Party |-> [c \in Bucket |-> dpf'[q][c]]]
    BY <1>3 DEF Return, NoDpf
  <1>4. UNCHANGED dpf \/ (\E k \in Ranges : RunDpf(k)) \/ \E p \in Party : Return(p)
    BY DEF Next, vars, Listen, Connect, Refused, CreateBuckets, Assign, AssignFails, Receive,
           EnterLoop, Begin, OutOfStep, EndRange, NextRun
  <1> QED BY <1>1, <1>2, <1>3, <1>4

\* Party 1's matches stay an assignment of its indices while it needs them.
LEMMA MatchesStep ==
  ASSUME IInv, DataInv, [Next]_vars, pc'[1] \in {"yao", "loop"}
  PROVE  IsAssignment(matches', IndexSet', Buckets[seed'[1]])
  <1> USE DEF IInv, OTypeOK, PcType, Location, Party
  <1>1. CASE Assign
    <2>1. /\ matches' \in [Bucket -> Key \union {-1}] /\ Contract!ValidAssignment(matches')
          /\ UNCHANGED <<indices, seed>>
      BY <1>1 DEF Assign, call
    <2>2. seed[1] \in Seed
      BY <1>1 DEF Assign, DataInv, SeedInv
    <2>3. IsAssignment(matches', IndexSet, Buckets[seed[1]])
      <3>1. /\ \A n \in Bucket : matches'[n] # -1 =>
                   matches'[n] \in IndexSet /\ n \in Home(seed[1])[matches'[n]]
            /\ \A k \in IndexSet : \E n \in Bucket : matches'[n] = k
            /\ \A n, c \in Bucket : matches'[n] = matches'[c] /\ matches'[n] # -1 => n = c
        BY <2>1, BucketAssumption DEF Contract!ValidAssignment, IndexSet, ImageOf, Key
      <3>2. \A n \in Bucket : matches'[n] # -1 =>
              \E x \in DOMAIN Buckets[seed[1]][n] : Buckets[seed[1]][n][x] = matches'[n]
        <4> SUFFICES ASSUME NEW n \in Bucket, matches'[n] # -1
                     PROVE  \E x \in DOMAIN Buckets[seed[1]][n] : Buckets[seed[1]][n][x] = matches'[n]
          OBVIOUS
        <4>1. matches'[n] \in Key
          BY <2>1
        <4>2. n \in Home(seed[1])[matches'[n]]
          BY <3>1
        <4> DEFINE k == matches'[n]
        <4> HIDE DEF k
        <4>3. \E x \in DOMAIN Buckets[seed[1]][n] : Buckets[seed[1]][n][x] = k
          BY <4>1, <4>2 DEF Home, k
        <4> QED BY <4>3 DEF k
      <3>3. DOMAIN Buckets[seed[1]] = Bucket
        BY <2>2, BucketsOfSeed
      <3> QED BY <2>1, <3>1, <3>2, <3>3 DEF IsAssignment
    <2> QED BY <2>1, <2>3 DEF IndexSet
  <1>2. CASE ~ Assign
    <2>1. pc[1] \in {"yao", "loop"}
      <3>1. CASE Listen \/ Connect \/ Refused \/ AssignFails \/ Receive \/ EnterLoop
        BY <3>1 DEF Listen, Connect, Refused, AssignFails, Receive, EnterLoop
      <3>2. CASE \E p \in Party : CreateBuckets(p) \/ Return(p) \/ NextRun(p)
        BY <3>2 DEF CreateBuckets, Return, CanReturn, NextRun
      <3>3. CASE \E k \in Ranges : RunDpf(k) \/ OutOfStep(k)
        BY <3>3 DEF RunDpf, OutOfStep
      <3>4. CASE UNCHANGED pc
        BY <3>4
      <3>5. ASSUME NEW p \in Party, NEW k \in Ranges, Begin(p, k) \/ EndRange(p, k)
            PROVE  UNCHANGED pc
        BY <3>5 DEF Begin, EndRange
      <3> QED BY <1>2, <3>1, <3>2, <3>3, <3>4, <3>5 DEF Next, vars
    <2>2. UNCHANGED <<matches, indices, seed[1]>>
      BY <1>2, <2>1 DEF Next, vars, call, Listen, Connect, Refused, CreateBuckets, AssignFails,
             Receive, EnterLoop, Begin, RunDpf, OutOfStep, EndRange, Return, NextRun
    <2> QED BY <2>1, <2>2 DEF DataInv, IndexSet
  <1> QED BY <1>1, <1>2

\* Every step keeps what is evaluated, or evaluates one more bucket.
LEMMA EvaluatedStep ==
  ASSUME IInv, DataInv, [Next]_vars, Together'
  PROVE  (\E a, D : Evaluated(D, a))'
  <1> USE DEF IInv, OTypeOK, PcType, Location, Party
  <1>0. /\ Loops /\ threads \in Threads
        /\ Used' = Used /\ max_arr' = max_arr /\ min_arr' = min_arr
    BY RangesFixed
  <1>1. ASSUME NEW k \in Ranges, RunDpf(k) PROVE (\E a, D : Evaluated(D, a))'
    <2> DEFINE n == i[1][k]
    <2>1. /\ \A p \in Party : at[p][k] = "running" /\ pc'[p] = pc[p] /\ pc[p] = "loop"
          /\ k \in Used /\ i[1] = i[2] /\ n < max_arr[k]
      BY <1>0, <1>1 DEF RunDpf, AtDpf, Loops
    <2>2. Together /\ seed[1] \in Seed /\ seed[2] = seed[1]
      BY <1>1, <2>1 DEF Together, BothInLoop, RunDpf, DataInv, SeedInv, call
    <2>3. n \in Bucket
      <3>1. min_arr[k] \in Nat /\ max_arr[k] \in Nat /\ max_arr[k] <= b
        BY <1>0, <2>1, RangeFacts
      <3>2. n \in Nat
        BY <1>0 DEF Loops
      <3> QED BY <2>1, <3>1, <3>2, BucketFacts DEF Bucket
    <2>4. PICK a, D : Evaluated(D, a)
      BY <2>2 DEF DataInv
    <2>5. a = matches /\ \A p \in Party : dpf[p] = D[p]
      BY <2>1, <2>4 DEF Evaluated
    <2>6. PICK mask \in Mask, stray \in Block :
            dpf' = [p \in Party |-> [dpf[p] EXCEPT ![i[p][k]] =
              SharesOf(PointOf(BucketOf(1, k), matches[n], BetaOf(share, matches, n), stray), mask)[p]]]
      BY <1>1 DEF RunDpf
    <2>7. \A p \in Party, c \in Bucket : c # n => dpf'[p][c] = D[p][c]
      BY <2>1, <2>5, <2>6
    <2>8. DOMAIN a = Bucket
      BY <2>2, <2>4, BucketsOfSeed DEF Evaluated, IsAssignment
    <2>9. \A p \in Party : dpf'[p][n] =
            SharesOf(PointOf(Buckets[seed[1]][n], a[n], Betas(share, a)[n], stray), mask)[p]
      <3>1. Betas(share, a)[n] = BetaOf(share, matches, n) /\ a = matches
        BY <2>3, <2>5, <2>8 DEF Betas
      <3>2. BucketOf(1, k) = Buckets[seed[1]][n]
        BY DEF BucketOf
      <3>3. \A p \in Party : n \in DOMAIN dpf[p] /\ i[p][k] = n
        BY <2>1, <2>3 DEF DataInv
      <3> HIDE DEF n
      <3> QED BY <2>6, <3>1, <3>2, <3>3
    <2>10. a[n] = -1 => Betas(share, a)[n] = Zero
      BY <2>3, <2>8 DEF Betas, BetaOf
    <2> HIDE DEF n
    <2>11. SharedIn(dpf', n, Buckets[seed[1]], a, Betas(share, a))
      BY <2>9, <2>10, OutputsShare, Zenon
    <2>12. \A c \in Bucket : Finished(c)' => c = n \/ Finished(c)
      <3>1. \A m \in Used : m \in Ranges
        BY <1>0, RangeFacts
      <3>2. \A m \in Ranges : i'[1][m] = IF m = k THEN n + 1 ELSE i[1][m]
        BY <1>0, <1>1 DEF RunDpf, Loops, n
      <3>3. n \in Int /\ Bucket \subseteq Int
        BY <2>3, BucketFacts
      <3>4. n = i[1][k]
        BY DEF n
      <3> QED BY <1>0, <3>1, <3>2, <3>3, <3>4 DEF Finished
    <2>13. \A c \in Bucket : Finished(c)' => SharedIn(dpf', c, Buckets[seed[1]], a, Betas(share, a))
      <3> SUFFICES ASSUME NEW c \in Bucket, Finished(c)', c # n
                   PROVE  SharedIn(dpf', c, Buckets[seed[1]], a, Betas(share, a))
        BY <2>11
      <3>1. dpf'[1][c] = D[1][c] /\ dpf'[2][c] = D[2][c]
        BY <2>7
      <3>2. SharedIn(D, c, Buckets[seed[1]], a, Betas(share, a))
        BY <2>4, <2>12 DEF Evaluated
      <3> QED BY <3>1, <3>2 DEF SharedIn
    <2>14. UNCHANGED <<pc, seed, indices, y, matches>> /\ share' = share
      BY <1>1 DEF RunDpf, call, share
    <2>15. Evaluated(dpf, a)'
      BY <2>1, <2>4, <2>5, <2>13, <2>14 DEF Evaluated, IndexSet
    <2> QED BY <2>15
  <1>2. ASSUME NEW p \in Party, Return(p) PROVE (\E a, D : Evaluated(D, a))'
    <2>1. /\ pc[p] = "loop" /\ \A k \in Ranges : at[p][k] = "ended"
          /\ output' = [output EXCEPT ![p] = [k \in Key |-> XorAt(Buckets[seed[p]], dpf[p], k)]]
          /\ pc' = [pc EXCEPT ![p] = "ok"]
          /\ dpf' = [dpf EXCEPT ![p] = NoDpf]
          /\ matches' = IF p = 1 THEN Unused ELSE matches
          /\ UNCHANGED <<run, seed, indices, y, i>> /\ share' = share
      BY <1>2 DEF Return, CanReturn, Sum, call, share
    <2>2. PICK garbage \in T :
            result' = [result EXCEPT ![p] =
              [k \in Key |-> FromBytes(XorAt(Buckets[seed[p]], dpf[p], k), garbage)]]
      BY <1>2 DEF Return, Sum
    <2>3. Together
      BY <2>1 DEF Together, BothInLoop
    <2>4. PICK a, D : Evaluated(D, a)
      BY <2>3 DEF DataInv
    <2>5. ASSUME NEW n \in Bucket PROVE Finished(n)
      <3>1. PICK k \in Used : min_arr[k] <= n /\ n < max_arr[k]
        BY <1>0, RangeFacts
      <3>2. k \in Ranges
        BY <1>0, RangeFacts
      <3>3. i[1][k] = max_arr[k]
        BY <1>0, <2>1, <2>3, <3>2 DEF Loops, Together
      <3> QED BY <3>1, <3>3 DEF Finished
    <2>6. \A n \in Bucket : SharedIn(D, n, Buckets[seed[1]], a, Betas(share, a))
      BY <2>4, <2>5 DEF Evaluated
    <2>7. ASSUME NEW q \in Party
          PROVE  /\ pc'[q] = "loop" => dpf'[q] = D[q]
                 /\ pc'[q] = "ok"  =>
                      /\ output'[q] = [k \in Key |-> XorAt(Buckets[seed[q]], D[q], k)]
                      /\ \E g \in T : result'[q] = [k \in Key |-> FromBytes(output'[q][k], g)]
      <3>1. CASE q = p
        <4>1. /\ pc'[q] = "ok" /\ output'[q] = [k \in Key |-> XorAt(Buckets[seed[p]], dpf[p], k)]
              /\ result'[q] = [k \in Key |-> FromBytes(XorAt(Buckets[seed[p]], dpf[p], k), garbage)]
          BY <2>1, <2>2, <3>1
        <4>2. dpf[p] = D[p]
          BY <2>1, <2>4 DEF Evaluated
        <4>3. result'[q] = [k \in Key |-> FromBytes(output'[q][k], garbage)]
          BY <4>1
        <4> QED BY <3>1, <4>1, <4>2, <4>3
      <3>2. CASE q # p
        <4>1. pc'[q] = pc[q] /\ output'[q] = output[q] /\ result'[q] = result[q]
          BY <2>1, <2>2, <3>2
        <4>2. dpf'[q] = dpf[q]
          BY <2>1, <3>2 DEF DataInv
        <4> QED BY <2>4, <4>1, <4>2 DEF Evaluated
      <3> QED BY <3>1, <3>2
    <2>8. pc'[1] = "loop" => matches' = a
      BY <2>1, <2>4 DEF Evaluated
    <2>9. Evaluated(D, a)'
      <3>1. IndexSet' = IndexSet /\ seed' = seed /\ share' = share
        BY <2>1 DEF IndexSet
      <3>2. IsAssignment(a, IndexSet', Buckets[seed'[1]])
        BY <2>4, <3>1 DEF Evaluated
      <3>3. \A n \in Bucket : SharedIn(D, n, Buckets[seed'[1]], a, Betas(share', a))
        BY <2>6, <3>1
      <3>4. \A q \in Party :
              /\ pc'[q] = "loop" => dpf'[q] = D[q]
              /\ pc'[q] = "ok"  =>
                   /\ output'[q] = [k \in Key |-> XorAt(Buckets[seed'[q]], D[q], k)]
                   /\ \E g \in T : result'[q] = [k \in Key |-> FromBytes(output'[q][k], g)]
        BY <2>7, <3>1
      <3> QED BY <2>8, <3>2, <3>3, <3>4, Zenon DEF Evaluated
    <2> QED BY <2>9
  <1>3. CASE EnterLoop
    <2>1. /\ pc[1] = "yao" /\ pc' = <<"loop", "loop">> /\ i'[1] = min_arr
          /\ UNCHANGED <<seed, indices, y, matches, dpf>> /\ share' = share
      BY <1>3 DEF EnterLoop, call, share
    <2>2. \A n \in Bucket : ~ Finished(n)'
      <3>1. \A k \in Used : min_arr[k] \in Nat
        BY <1>0, RangeFacts
      <3>2. \A k \in Used : i'[1][k] = min_arr[k]
        BY <2>1
      <3>3. Bucket \subseteq Int
        BY BucketFacts
      <3>4. ASSUME NEW n \in Bucket, NEW k \in Used PROVE ~ (min_arr[k] <= n /\ n < min_arr[k])
        <4>1. min_arr[k] \in Int /\ n \in Int
          BY <3>1, <3>3
        <4> QED BY <4>1, EmptyRange
      <3> QED BY <1>0, <3>2, <3>4 DEF Finished
    <2>3. IsAssignment(matches, IndexSet, Buckets[seed[1]])
      BY <2>1 DEF DataInv
    <2>4. Evaluated(dpf, matches)'
      BY <2>1, <2>2, <2>3 DEF Evaluated, IndexSet
    <2> QED BY <2>4
  <1>4. ASSUME UNCHANGED <<pc, run, seed, indices, y, matches, i, dpf, output, result>>
        PROVE  (\E a, D : Evaluated(D, a))'
    <2>1. PICK a, D : Evaluated(D, a)
      BY <1>4 DEF Together, BothInLoop, DataInv
    <2>2. \A c \in Bucket : Finished(c)' => Finished(c)
      BY <1>0, <1>4 DEF Finished
    <2>3. share' = share
      BY <1>4 DEF share
    <2>4. Evaluated(D, a)'
      BY <1>4, <2>1, <2>2, <2>3 DEF Evaluated, IndexSet
    <2> QED BY <2>4
  <1>5. ASSUME NEW p \in Party, NEW k \in Ranges, Begin(p, k) \/ EndRange(p, k)
        PROVE  (\E a, D : Evaluated(D, a))'
    BY <1>4, <1>5 DEF Begin, EndRange, call
  <1>6. CASE UNCHANGED vars
    BY <1>4, <1>6 DEF vars, call, loop
  <1>7. CASE Listen \/ Connect \/ Refused \/ Assign \/ AssignFails
    BY <1>7 DEF Listen, Connect, Refused, Assign, AssignFails, Together, BothInLoop, Calls, SameCall, Early
  <1>8. CASE Receive
    BY <1>8 DEF Receive, Together, BothInLoop
  <1>9. ASSUME NEW p \in Party, CreateBuckets(p) \/ NextRun(p) PROVE FALSE
    BY <1>9 DEF CreateBuckets, NextRun, Together, BothInLoop
  <1>10. ASSUME NEW k \in Ranges, OutOfStep(k) PROVE FALSE
    BY <1>10 DEF OutOfStep, Together, BothInLoop
  <1> QED BY <1>1, <1>2, <1>3, <1>5, <1>6, <1>7, <1>8, <1>9, <1>10 DEF Next

\* The two inductive invariants together hold.
THEOREM OldDataInvariant == Spec => [](IInv /\ DataInv)
  <1>1. Init => IInv /\ DataInv
    BY InitInv, InitData
  <1>2. IInv /\ DataInv /\ [Next]_vars => DataInv'
    <2> SUFFICES ASSUME IInv, DataInv, [Next]_vars PROVE DataInv'
      OBVIOUS
    <2>1. (\E d : dpf = [p \in Party |-> [n \in Bucket |-> d[p][n]]])'
      BY DomainStep DEF DataInv
    <2>2. SeedInv'
      BY SeedStep DEF DataInv
    <2>3. pc'[1] \in {"yao", "loop"} => IsAssignment(matches', IndexSet', Buckets[seed'[1]])
      BY MatchesStep
    <2>4. Together' => (\E a, D : Evaluated(D, a))'
      BY EvaluatedStep
    <2> QED BY <2>1, <2>2, <2>3, <2>4 DEF DataInv
  <1>3. IInv /\ [Next]_vars => IInv'
    BY TypeStep, ControlStep, LoopsStep DEF IInv
  <1> QED BY <1>1, <1>2, <1>3, PTL DEF Spec

\* A value's bytes are bits of a block.
LEMMA SharesAreBlocks ==
  ASSUME OTypeOK
  PROVE  /\ AreBlocks(share, t)
         /\ \A p \in Party, r \in 0 .. t - 1 : y[p][r] \in T /\ share[p][r] = ToBytes(y[p][r])
  <1>1. /\ Byte \in [0 .. MemBytes - 1 -> BitPos] /\ MemBytes \in Nat /\ SizeOfT \in Nat
        /\ lim \in Nat /\ lim <= MemBytes
    BY OldAssumption DEF lim
  <1>2. \A p \in Party : y[p] \in [0 .. t - 1 -> T]
    BY OldAssumption DEF OTypeOK
  <1>3. ASSUME NEW v \in T PROVE ToBytes(v) \subseteq BitPos
    <2>1. \A n \in v : n < lim => MemBytes - 1 - n \in 0 .. MemBytes - 1
      BY <1>1 DEF T
    <2>2. \A n \in v : n < lim => Byte[MemBytes - 1 - n] \in BitPos
      BY <1>1, <2>1
    <2> QED BY <2>2 DEF ToBytes
  <1>4. \A p \in Party, r \in 0 .. t - 1 : y[p][r] \in T /\ share[p][r] = ToBytes(y[p][r])
    BY <1>2 DEF share
  <1>5. AreBlocks(share, t)
    BY <1>3, <1>4 DEF AreBlocks
  <1> QED BY <1>4, <1>5

(***************************************************************************)
(* The vectors that the parties return (mpfss_cuckoo.h: prepare_results)   *)
(* combine to the function of the indices and values of this call, however *)
(* parallize splits the buckets, in whatever order the threads take the    *)
(* ranges, and whatever the memory of the uninitialized value held.        *)
(***************************************************************************)
THEOREM ThreadsAlwaysShareFunction == Spec => []ThreadsShareFunction
  <1>1. ASSUME IInv, DataInv, run[1] = run[2], pc = <<"ok", "ok">>, seed[1] = seed[2]
        PROVE  ThreadsShareFunction
    <2>1. Together /\ pc[1] = "ok" /\ pc[2] = "ok" /\ BothInLoop
      BY <1>1 DEF Together, BothInLoop, Party
    <2>2. PICK a, D : Evaluated(D, a)
      BY <1>1, <2>1 DEF DataInv
    <2>3. seed[1] \in Seed /\ OTypeOK /\ threads \in Threads
      BY <1>1, <2>1 DEF DataInv, SeedInv, IInv, OTypeOK, Party
    <2> DEFINE B == Buckets[seed[1]]
    <2>4. IsAssignment(a, IndexSet, B) /\ IsBuckets(B) /\ DOMAIN B = Bucket
      BY <2>2, <2>3, BucketsOfSeed DEF Evaluated
    <2>5. ASSUME NEW n \in Bucket PROVE Finished(n)
      <3>1. PICK k \in Used : min_arr[k] <= n /\ n < max_arr[k]
        BY <2>3, RangeFacts
      <3>2. k \in Ranges
        BY <2>3, RangeFacts
      <3>3. at[1][k] = "ended"
        <4>1. at[1][k] # "ended" => pc[1] = "loop"
          BY <1>1, <3>2 DEF Loops, IInv, Party
        <4> QED BY <2>1, <4>1
      <3>4. i[1][k] = max_arr[k]
        BY <1>1, <2>1, <3>3 DEF Loops, IInv, Party
      <3> QED BY <3>1, <3>4 DEF Finished
    <2>6. Complementary(D, B, a, Betas(share, a))
      BY <2>2, <2>4, <2>5 DEF Evaluated, Complementary
    <2>7. /\ \A p \in Party : output[p] = [k \in Key |-> XorAt(B, D[p], k)]
          /\ \A p \in Party : \E g \in T : result[p] = [k \in Key |-> FromBytes(output[p][k], g)]
      BY <1>1, <2>1, <2>2 DEF Evaluated, Party
    <2>8. PICK g \in T : result[1] = [k \in Key |-> FromBytes(output[1][k], g)]
      BY <2>7 DEF Party
    <2>9. PICK h \in T : result[2] = [k \in Key |-> FromBytes(output[2][k], h)]
      BY <2>7 DEF Party
    <2>10. /\ t \in Nat \ {0} /\ Key \subseteq Nat
           /\ indices \in [0 .. t - 1 -> Key] /\ InjectiveOn(indices, DOMAIN indices)
      BY <2>3, BucketAssumption DEF OTypeOK, Key, Indices, Injective, InjectiveOn
    <2>11. indices \in [0 .. t - 1 -> Nat]
      BY <2>10
    <2>12. /\ AreBlocks(share, t)
           /\ \A p \in Party, r \in 0 .. t - 1 : y[p][r] \in T /\ share[p][r] = ToBytes(y[p][r])
      BY <2>3, SharesAreBlocks
    <2> HIDE DEF B
    <2>13. FunctionShared(B, D, indices, share)
      <3> HIDE DEF share
      <3> QED BY <2>4, <2>6, <2>10, <2>11, <2>12, FunctionOfShares, Zenon DEF IndexSet
    <2>14. ASSUME NEW k \in Key \ {indices[j] : j \in DOMAIN indices}
           PROVE  output[1][k] = output[2][k] /\ (SizeOfT <= MemBytes => result[1][k] = result[2][k])
      <3>1. k \in Nat \ ImageOf(indices, DOMAIN indices)
        BY <2>10 DEF ImageOf
      <3>2. XorAt(B, D[1], k) = XorAt(B, D[2], k)
        BY <2>13, <3>1 DEF FunctionShared
      <3>3. output[1][k] = output[2][k]
        BY <2>7, <3>2 DEF Party
      <3>4. result[1][k] = FromBytes(output[1][k], g) /\ result[2][k] = FromBytes(output[1][k], h)
        BY <2>8, <2>9, <3>3
      <3>5. SizeOfT <= MemBytes => FromBytes(output[1][k], g) = FromBytes(output[1][k], h)
        BY FromBytesIs
      <3> QED BY <3>3, <3>4, <3>5
    <2>15. ASSUME NEW j \in DOMAIN indices
           PROVE  LET r == Rank(indices, j) IN
                  /\ "bit" \in Xor(output[1][indices[j]], output[2][indices[j]])
                  /\ SizeOfT <= MemBytes =>
                       Xor(result[1][indices[j]], result[2][indices[j]]) = Xor(y[1][r], y[2][r])
      <3> DEFINE k == indices[j]
                 r == Rank(indices, j)
      <3>1. k \in Key /\ DOMAIN indices = 0 .. t - 1
        BY <2>10
      <3>2. output[1][k] = XorAt(B, D[1], k) /\ output[2][k] = XorAt(B, D[2], k)
        BY <2>7, <3>1 DEF Party
      <3>3. r \in 0 .. t - 1 /\
            Xor(output[1][k], output[2][k]) = {"bit"} \union Xor(share[1][r], share[2][r])
        BY <2>13, <3>1, <3>2 DEF FunctionShared
      <3>4. result[1][k] = FromBytes(output[1][k], g) /\ result[2][k] = FromBytes(output[2][k], h)
        BY <2>8, <2>9, <3>1
      <3> HIDE DEF k, r
      <3>5. /\ y[1][r] \in T /\ share[1][r] = ToBytes(y[1][r])
            /\ y[2][r] \in T /\ share[2][r] = ToBytes(y[2][r])
        BY <2>12, <3>3 DEF Party
      <3>6. Xor(output[1][k], output[2][k]) = {"bit"} \union Xor(ToBytes(y[1][r]), ToBytes(y[2][r]))
        BY <3>3, <3>5
      <3>7. SizeOfT <= MemBytes =>
              Xor(FromBytes(output[1][k], g), FromBytes(output[2][k], h)) = Xor(y[1][r], y[2][r])
        BY <3>5, <3>6, ValuesSurvive
      <3>8. "bit" \in Xor(output[1][k], output[2][k])
        BY <3>6
      <3> QED BY <3>4, <3>7, <3>8 DEF k, r
    <2> QED BY <2>14, <2>15 DEF ThreadsShareFunction
  <1>2. IInv /\ DataInv => ThreadsShareFunction
    BY <1>1 DEF ThreadsShareFunction
  <1> QED BY OldDataInvariant, <1>2, PTL

=============================================================================
