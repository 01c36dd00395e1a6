-------------------------- MODULE MpfssNaiveProofs --------------------------
(***************************************************************************)
(* MpfssNaive for any length of the vector and any number of indices and   *)
(* threads: types, the execution of each DPF by one thread, and the        *)
(* function that the results of one thread share.                          *)
(***************************************************************************)
EXTENDS MpfssNaive, ShareFacts

\* The thread xors an output into the vector.
InBody == {"read", "write"}

\* The first DPF of range k that has not been executed, seen from party p.
Begun(p, k) == j[p][k] + IF at[p][k] \in InBody THEN 1 ELSE 0

Executed(n) == \E k \in Used : min_arr[k] <= n /\ n < Begun(1, k)

\* Before the loop over the threads.
Untouched ==
  /\ \A p \in Party, k \in Thread : at[p][k] = "idle"
  /\ \A n \in 0 .. t - 1 : ran[n] = 0
  /\ \A p \in Party, k \in Key : output[p][k] = {}

\* A thread stays in its range and ends with it; the two parties execute the
\* DPFs of a range together.
InRange ==
  /\ \A p \in Party, k \in Thread \ Used : at[p][k] = "ended"
  /\ \A p \in Party, k \in Used :
       /\ at[p][k] # "idle"
       /\ min_arr[k] <= j[p][k] /\ j[p][k] <= max_arr[k]
       /\ at[p][k] = "ended" <=> j[p][k] = max_arr[k]
       /\ at[p][k] = "write" => i[p][k] < Size
  /\ \A k \in Used : Begun(1, k) = Begun(2, k)

Once == \A n \in 0 .. t - 1 : ran[n] = IF Executed(n) THEN 1 ELSE 0

Control ==
  /\ pc = "sort" => Untouched
  /\ pc # "sort" => InRange /\ Once
  /\ pc = "done" => \A p \in Party, k \in Thread : at[p][k] = "ended"

\* The inductive invariant of the control.
IInv == VTypeOK /\ Control

-----------------------------------------------------------------------------
\* The constants.
LEMMA SizeFacts ==
  /\ Size \in Nat \ {0} /\ MaxT \in Nat \ {0} /\ MaxThreads \in Nat \ {0}
  /\ Key \subseteq Nat /\ Thread \subseteq Nat
  BY NaiveAssumption DEF Key, Thread

\* The ranges of parallize_naive are within the DPFs, cover them and are disjoint.
LEMMA RangeFacts ==
  ASSUME t \in 1 .. MaxT, threads \in 1 .. MaxThreads
  PROVE  /\ max_arr \in [Thread -> Nat] /\ min_arr \in [Thread -> Nat]
         /\ Used \subseteq Thread
         /\ \A k \in Used : max_arr[k] <= t /\ min_arr[k] < max_arr[k]
         /\ \A n \in 0 .. t - 1 : \E k \in Used : min_arr[k] <= n /\ n < max_arr[k]
         /\ \A k, c \in Used, n \in Nat :
              min_arr[k] <= n /\ n < max_arr[k] /\ min_arr[c] <= n /\ n < max_arr[c] => k = c
  <1>1. /\ threads \in Nat \ {0} /\ t \in Nat \ {0} /\ Thread = 0 .. MaxThreads - 1
        /\ threads <= MaxThreads /\ MaxThreads \in Nat
    BY SizeFacts DEF Thread
  <1>2. \A k \in Thread : max_arr[k] = RangeEnd(t, threads, k)
    BY DEF max_arr, base, RangeEnd
  <1>3. /\ used_threads \in Nat \ {0}
        /\ \A k \in Nat : RangeEnd(t, threads, k) \in Nat
        /\ \A k \in 0 .. used_threads - 1 : RangeEnd(t, threads, k) \in 0 .. t
        /\ \A k, c \in 0 .. used_threads - 1 :
             k <= c => RangeEnd(t, threads, k) <= RangeEnd(t, threads, c)
        /\ \A x \in 0 .. t - 1 : \E k \in 0 .. used_threads - 1 :
             x < RangeEnd(t, threads, k) /\ (k = 0 \/ RangeEnd(t, threads, k - 1) <= x)
    BY <1>1, RangesCover DEF used_threads
  <1>4. used_threads <= threads /\ 0 .. used_threads - 1 \subseteq Thread
    <2>1. used_threads \in Nat /\ used_threads <= threads
      BY <1>1 DEF used_threads
    <2> QED BY <1>1, <2>1
  <1>5. max_arr \in [Thread -> Nat]
    <2>1. \A k \in Thread : max_arr[k] \in Nat
      <3>1. Thread \subseteq Nat
        BY <1>1
      <3> QED BY <1>2, <1>3, <3>1
    <2>2. max_arr = [k \in Thread |-> max_arr[k]]
      BY DEF max_arr
    <2> QED BY <2>1, <2>2
  <1>6. min_arr \in [Thread -> Nat]
    <2>1. \A k \in Thread : k # 0 => k - 1 \in Thread
      BY <1>1
    <2> QED BY <1>5, <2>1 DEF min_arr
  <1>7. Used \subseteq Thread /\ \A k \in Used : max_arr[k] <= t /\ min_arr[k] < max_arr[k]
    BY <1>2, <1>3, <1>4 DEF Used
  <1>8. ASSUME NEW n \in 0 .. t - 1 PROVE \E k \in Used : min_arr[k] <= n /\ n < max_arr[k]
    <2>1. PICK k \in 0 .. used_threads - 1 :
            n < RangeEnd(t, threads, k) /\ (k = 0 \/ RangeEnd(t, threads, k - 1) <= n)
      BY <1>3
    <2>2. k \in Thread /\ n < max_arr[k] /\ min_arr[k] \in Nat
      BY <1>2, <1>4, <1>6, <2>1
    <2>3. min_arr[k] <= n
      <3>1. CASE k = 0
        BY <2>2, <3>1 DEF min_arr
      <3>2. CASE k # 0
        <4>1. k - 1 \in Thread /\ min_arr[k] = max_arr[k - 1]
          BY <1>1, <2>2, <3>2 DEF min_arr
        <4> QED BY <1>2, <2>1, <3>2, <4>1
      <3> QED BY <3>1, <3>2
    <2>4. k \in Used
      <3>1. min_arr[k] < max_arr[k]
        BY <1>5, <2>2, <2>3
      <3> QED BY <3>1 DEF Used
    <2> QED BY <2>2, <2>3, <2>4
  <1>9. ASSUME NEW k \in Used, NEW c \in Used, k < c PROVE max_arr[k] <= min_arr[c]
    <2>1. k \in 0 .. used_threads - 1 /\ c \in 0 .. used_threads - 1
      BY DEF Used
    <2>2. c # 0 /\ c - 1 \in 0 .. used_threads - 1 /\ k <= c - 1
      BY <1>3, <1>9, <2>1
    <2>3. k \in Thread /\ c \in Thread /\ c - 1 \in Thread
      BY <1>4, <2>1, <2>2
    <2>4. min_arr[c] = max_arr[c - 1]
      BY <2>2, <2>3 DEF min_arr
    <2> QED BY <1>2, <1>3, <2>1, <2>2, <2>3, <2>4
  <1>10. ASSUME NEW k \in Used, NEW c \in Used, NEW n \in Nat,
                min_arr[k] <= n, n < max_arr[k], min_arr[c] <= n, n < max_arr[c]
         PROVE  k = c
    <2>1. k \in Thread /\ c \in Thread /\ k \in Int /\ c \in Int
      BY <1>1, <1>7
    <2>2. max_arr[k] \in Nat /\ max_arr[c] \in Nat /\ min_arr[k] \in Nat /\ min_arr[c] \in Nat
      BY <1>5, <1>6, <2>1
    <2>3. ~ (k < c) /\ ~ (c < k)
      BY <1>9, <1>10, <2>2
    <2> QED BY <2>1, <2>3
  <1> QED BY <1>5, <1>6, <1>7, <1>8, <1>10

-----------------------------------------------------------------------------
\* The ranges do not change.
LEMMA RangesFixed ==
  [Next]_vars => /\ UNCHANGED <<t, threads, given, share>>
                 /\ Used' = Used /\ min_arr' = min_arr /\ max_arr' = max_arr
  <1> SUFFICES ASSUME [Next]_vars
               PROVE  /\ UNCHANGED <<t, threads, given, share>>
                      /\ Used' = Used /\ min_arr' = min_arr /\ max_arr' = max_arr
    OBVIOUS
  <1>1. UNCHANGED <<t, threads, given, share>>
    BY DEF Next, vars, input, Sort, Join, Done, Dpf, Read, Write, NextDpf
  <1>2. max_arr' = max_arr /\ used_threads' = used_threads
    BY <1>1 DEF max_arr, base, used_threads
  <1>3. min_arr' = min_arr
    BY <1>2 DEF min_arr
  <1> QED BY <1>1, <1>2, <1>3 DEF Used

\* Both parties begin before the sort.
LEMMA InitInv == Init => IInv
  <1> SUFFICES ASSUME Init PROVE IInv
    OBVIOUS
  <1>1. PICK n \in 1 .. MaxT : given \in [0 .. n - 1 -> Key] /\ Injective(given)
    BY NaiveAssumption DEF Init
  <1>2. t = n
    <2>1. n \in Nat \ {0} /\ DOMAIN given = 0 .. n - 1 /\ 0 \in Int /\ n - 1 \in Int
      BY <1>1, SizeFacts
    <2>2. Cardinality(0 .. n - 1) = IF 0 > n - 1 THEN 0 ELSE (n - 1) - 0 + 1
      BY <2>1, FS_Interval
    <2> QED BY <2>1, <2>2 DEF Init
  <1>3. VTypeOK
    <2>1. /\ t \in 1 .. MaxT /\ given \in [0 .. t - 1 -> Key] /\ Injective(given)
          /\ indices = given /\ ran \in [0 .. t - 1 -> Nat]
      BY <1>1, <1>2 DEF Init
    <2>2. /\ at \in [Party -> [Thread -> {"idle", "dpf", "read", "write", "ended"}]]
          /\ j \in [Party -> [Thread -> Nat]] /\ i \in [Party -> [Thread -> 0 .. Size]]
      BY SizeFacts DEF Init, Each
    <2>3. /\ loaded \in [Party -> [Thread -> Cell]]
          /\ local \in [Party -> [Thread -> [Key -> Cell]]]
          /\ output \in [Party -> [Key -> Cell]]
      BY DEF Init, Each, Cell
    <2>4. threads \in 1 .. MaxThreads /\ share \in Values /\ pc = "sort"
      BY DEF Init
    <2>5. \A p \in Party, k \in Used : j[p][k] \in 0 .. t
      <3>1. Used \subseteq Thread
        BY <2>1, <2>4, RangeFacts
      <3>2. 0 \in 0 .. t
        BY <2>1, SizeFacts
      <3> QED BY <3>1, <3>2 DEF Init, Each
    <2> QED BY <2>1, <2>2, <2>3, <2>4, <2>5 DEF VTypeOK
  <1>4. Control
    BY DEF Init, Control, Untouched, Each
  <1> QED BY <1>3, <1>4 DEF IInv

\* The types are preserved.
LEMMA TypeStep == IInv /\ [Next]_vars => VTypeOK'
  <1> SUFFICES ASSUME IInv, [Next]_vars PROVE VTypeOK'
    OBVIOUS
  <1>0. t \in 1 .. MaxT /\ threads \in 1 .. MaxThreads /\ t \in Nat /\ Size \in Nat
    BY SizeFacts DEF IInv, VTypeOK
  <1>r. /\ max_arr \in [Thread -> Nat] /\ min_arr \in [Thread -> Nat] /\ Used \subseteq Thread
        /\ \A k \in Used : max_arr[k] <= t /\ min_arr[k] < max_arr[k]
    BY <1>0, RangeFacts
  <1>f. t' = t /\ Used' = Used
    BY RangesFixed
  <1> USE DEF IInv, VTypeOK
  <1>1. CASE Sort
    <2>1. indices' \in [0 .. t - 1 -> Key]
      BY <1>1 DEF Sort
    <2>2. Injective(indices')
      <3>1. \A n, m \in 0 .. t - 1 : n < m => indices'[n] < indices'[m]
        BY <1>1 DEF Sort
      <3>2. \A n \in 0 .. t - 1 : indices'[n] \in Int
        <4>1. Key \subseteq Int
          BY SizeFacts
        <4> QED BY <2>1, <4>1
      <3>3. \A n, m \in 0 .. t - 1 : n # m => indices'[n] # indices'[m]
        BY <1>0, <3>1, <3>2
      <3> QED BY <2>1, <3>3 DEF Injective
    <2>3. j' \in [Party -> [Thread -> Nat]] /\ \A p \in Party, k \in Used : j'[p][k] \in 0 .. t
      <3>1. \A k \in Used : min_arr[k] \in 0 .. t
        BY <1>0, <1>r
      <3>2. j' = [p \in Party |-> min_arr]
        BY <1>1 DEF Sort
      <3> QED BY <1>r, <3>1, <3>2
    <2>4. at' \in [Party -> [Thread -> {"idle", "dpf", "read", "write", "ended"}]]
      BY <1>1 DEF Sort
    <2> QED BY <1>0, <1>1, <1>f, <2>1, <2>2, <2>3, <2>4 DEF Sort, input
  <1>2. CASE Join
    BY <1>2, <1>f DEF Join, input, thread
  <1>3. CASE Done \/ UNCHANGED vars
    BY <1>3, <1>f DEF Done, vars, input, thread
  <1>4. ASSUME NEW k \in Thread, Dpf(k) PROVE VTypeOK'
    <2>1. PICK mask \in Mask :
            local' = <<[local[1] EXCEPT ![k] = mask],
                       [local[2] EXCEPT ![k] = [c \in Key |-> Xor(mask[c], Point(j[1][k])[c])]]>>
      BY <1>4 DEF Dpf
    <2>2. j[1][k] \in 0 .. t - 1
      <3>1. pc # "sort" /\ k \in Used
        BY <1>4 DEF Dpf, Control, Untouched, InRange, Party
      <3>2. j[1][k] \in 0 .. t /\ j[1][k] < max_arr[k] /\ max_arr[k] \in Nat /\ max_arr[k] <= t
        BY <1>r, <1>4, <3>1 DEF Dpf, Party
      <3> QED BY <1>0, <3>2
    <2>3. mask \in [Key -> Cell]
      BY NaiveAssumption
    <2>4. [c \in Key |-> Xor(mask[c], Point(j[1][k])[c])] \in [Key -> Cell]
      <3> DEFINE n == j[1][k]
      <3>1. share[1][n] \in Block /\ share[2][n] \in Block
        <4>1. n \in 0 .. MaxT - 1 /\ share \in [Party -> [0 .. MaxT - 1 -> Block]]
          BY <1>0, <2>2, SizeFacts, NaiveAssumption
        <4> QED BY <4>1 DEF Party
      <3>2. \A c \in Key : Point(n)[c] \in Cell
        BY <3>1 DEF Point, Cell, Block, Xor
      <3> HIDE DEF n
      <3>3. \A c \in Key : Xor(mask[c], Point(n)[c]) \in Cell
        BY <2>3, <3>2 DEF Xor, Cell
      <3> QED BY <3>3 DEF n
    <2>5. local' \in [Party -> [Thread -> [Key -> Cell]]]
      <3>1. /\ local[1] \in [Thread -> [Key -> Cell]] /\ local[2] \in [Thread -> [Key -> Cell]]
        BY DEF Party
      <3> DEFINE other == [c \in Key |-> Xor(mask[c], Point(j[1][k])[c])]
                 Local == [Thread -> [Key -> Cell]]
      <3>2. [local[1] EXCEPT ![k] = mask] \in Local
        BY <2>3, <3>1
      <3>3. other \in [Key -> Cell]
        BY <2>4
      <3> HIDE DEF other
      <3>4. [local[2] EXCEPT ![k] = other] \in Local
        BY <3>1, <3>3
      <3>5. local' = <<[local[1] EXCEPT ![k] = mask], [local[2] EXCEPT ![k] = other]>>
        BY <2>1 DEF other
      <3> HIDE DEF Local
      <3>6. \A x \in Local, z \in Local : <<x, z>> \in [Party -> Local]
        BY DEF Party
      <3>7. local' \in [Party -> Local]
        BY <3>2, <3>4, <3>5, <3>6
      <3> QED BY <3>7 DEF Local
    <2>6. /\ at' \in [Party -> [Thread -> {"idle", "dpf", "read", "write", "ended"}]]
          /\ i' \in [Party -> [Thread -> 0 .. Size]]
      <3>1. /\ at' = [p \in Party |-> [at[p] EXCEPT ![k] = "read"]]
            /\ i' = [p \in Party |-> [i[p] EXCEPT ![k] = 0]]
        BY <1>4 DEF Dpf
      <3>2. 0 \in 0 .. Size
        BY <1>0
      <3> QED BY <3>1, <3>2
    <2>8. ran' \in [0 .. t - 1 -> Nat]
      <3>1. ran' = [ran EXCEPT ![j[1][k]] = @ + 1] /\ ran \in [0 .. t - 1 -> Nat]
        BY <1>4 DEF Dpf
      <3> HIDE DEF VTypeOK
      <3> QED BY <2>2, <3>1
    <2>7. UNCHANGED <<t, threads, given, share, indices, pc, j, loaded, output>>
      BY <1>4 DEF Dpf, input
    <2> QED BY <1>f, <2>5, <2>6, <2>7, <2>8
  <1>5. ASSUME NEW p \in Party, NEW k \in Thread, Read(p, k) PROVE VTypeOK'
    <2>1. i[p][k] \in Key
      <3>1. i[p][k] \in 0 .. Size /\ i[p][k] < Size
        BY <1>5 DEF Read
      <3> QED BY <1>0, <3>1 DEF Key
    <2>2. output[p][i[p][k]] \in Cell
      BY <2>1
    <2>3. loaded' \in [Party -> [Thread -> Cell]]
      BY <1>5, <2>2 DEF Read
    <2>4. at' \in [Party -> [Thread -> {"idle", "dpf", "read", "write", "ended"}]]
      BY <1>5 DEF Read
    <2>5. UNCHANGED <<t, threads, given, share, indices, pc, j, i, local, output, ran>>
      BY <1>5 DEF Read, input
    <2> QED BY <1>f, <2>3, <2>4, <2>5
  <1>6. ASSUME NEW p \in Party, NEW k \in Thread, Write(p, k) PROVE VTypeOK'
    <2>1. i[p][k] \in Key /\ i[p][k] + 1 \in 0 .. Size
      <3>1. pc # "sort" /\ k \in Used
        BY <1>6 DEF Write, Control, Untouched, InRange
      <3>2. i[p][k] \in 0 .. Size /\ i[p][k] < Size
        BY <1>6, <3>1 DEF Write, Control, InRange
      <3> QED BY <1>0, <3>2 DEF Key
    <2>2. Xor(loaded[p][k], local[p][k][i[p][k]]) \in Cell
      <3>1. loaded[p][k] \in Cell /\ local[p][k][i[p][k]] \in Cell
        BY <2>1
      <3> QED BY <3>1 DEF Xor, Cell
    <2>3. output' \in [Party -> [Key -> Cell]]
      BY <1>6, <2>1, <2>2 DEF Write
    <2>4. /\ at' \in [Party -> [Thread -> {"idle", "dpf", "read", "write", "ended"}]]
          /\ i' \in [Party -> [Thread -> 0 .. Size]]
      BY <1>6, <2>1 DEF Write
    <2>5. UNCHANGED <<t, threads, given, share, indices, pc, j, loaded, local, ran>>
      BY <1>6 DEF Write, input
    <2> QED BY <1>f, <2>3, <2>4, <2>5
  <1>7. ASSUME NEW p \in Party, NEW k \in Thread, NextDpf(p, k) PROVE VTypeOK'
    <2>1. pc # "sort" /\ k \in Used
      BY <1>7 DEF NextDpf, Control, Untouched, InRange
    <2>2. j[p][k] \in 0 .. t /\ j[p][k] < max_arr[k] /\ max_arr[k] \in Nat /\ max_arr[k] <= t
      BY <1>r, <1>7, <2>1 DEF NextDpf, Control, InRange
    <2>3. j[p][k] + 1 \in 0 .. t
      BY <1>0, <2>2
    <2>4. j' \in [Party -> [Thread -> Nat]] /\ \A q \in Party, c \in Used : j'[q][c] \in 0 .. t
      BY <1>r, <1>7, <2>3 DEF NextDpf
    <2>5. at' \in [Party -> [Thread -> {"idle", "dpf", "read", "write", "ended"}]]
      BY <1>7 DEF NextDpf
    <2>6. UNCHANGED <<t, threads, given, share, indices, pc, i, loaded, local, output, ran>>
      BY <1>7 DEF NextDpf, input
    <2> QED BY <1>f, <2>4, <2>5, <2>6
  <1> QED BY <1>1, <1>2, <1>3, <1>4, <1>5, <1>6, <1>7 DEF Next


\* A thread that works is within its range, and the run has begun and not ended.
LEMMA Working ==
  ASSUME IInv, NEW p \in Party, NEW k \in Thread, at[p][k] \in {"dpf", "read", "write"}
  PROVE  /\ pc = "dpfs" /\ k \in Used /\ InRange /\ Once
         /\ j[p][k] \in Nat /\ max_arr[k] \in Nat /\ min_arr[k] \in Nat
         /\ min_arr[k] <= j[p][k] /\ j[p][k] < max_arr[k] /\ max_arr[k] <= t
  <1>1. pc # "sort" /\ pc # "done" /\ InRange /\ Once
    BY DEF IInv, Control, Untouched
  <1>2. k \in Used
    BY <1>1 DEF InRange
  <1>3. t \in 1 .. MaxT /\ threads \in 1 .. MaxThreads /\ pc \in {"sort", "dpfs", "done"}
        /\ j[p][k] \in Nat
    BY DEF IInv, VTypeOK
  <1>4. max_arr[k] \in Nat /\ min_arr[k] \in Nat /\ max_arr[k] <= t
    BY <1>2, <1>3, RangeFacts
  <1>5. min_arr[k] <= j[p][k] /\ j[p][k] <= max_arr[k] /\ j[p][k] # max_arr[k]
    BY <1>1, <1>2 DEF InRange
  <1> QED BY <1>1, <1>2, <1>3, <1>4, <1>5

\* The steps of one thread change nothing for the others.
LEMMA ThreadStep ==
  ASSUME IInv, [Next]_vars, NEW p \in Party, NEW k \in Used, pc = "dpfs", pc' = pc,
         UNCHANGED ran,
         \A q \in Party, c \in Thread : q # p \/ c # k =>
           at'[q][c] = at[q][c] /\ j'[q][c] = j[q][c] /\ i'[q][c] = i[q][c],
         Begun(p, k)' = Begun(p, k),
         /\ at'[p][k] # "idle"
         /\ min_arr[k] <= j'[p][k] /\ j'[p][k] <= max_arr[k]
         /\ at'[p][k] = "ended" <=> j'[p][k] = max_arr[k]
         /\ at'[p][k] = "write" => i'[p][k] < Size
  PROVE  Control'
  <1>1. InRange /\ Once
    BY DEF IInv, Control
  <1>2. UNCHANGED t /\ Used' = Used /\ min_arr' = min_arr /\ max_arr' = max_arr
    BY RangesFixed
  <1>3. Used \subseteq Thread
    BY RangeFacts DEF IInv, VTypeOK
  <1>4. \A q \in Party, c \in Used : Begun(q, c)' = Begun(q, c)
    BY <1>3 DEF Begun
  <1>5. InRange'
    <2>1. \A q \in Party, c \in Thread \ Used : at'[q][c] = "ended"
      BY <1>1 DEF InRange
    <2>2. \A q \in Party, c \in Used :
            /\ at'[q][c] # "idle"
            /\ min_arr[c] <= j'[q][c] /\ j'[q][c] <= max_arr[c]
            /\ at'[q][c] = "ended" <=> j'[q][c] = max_arr[c]
            /\ at'[q][c] = "write" => i'[q][c] < Size
      BY <1>1, <1>3 DEF InRange
    <2>3. \A c \in Used : Begun(1, c)' = Begun(2, c)'
      BY <1>1, <1>4 DEF InRange, Party
    <2> QED BY <1>2, <2>1, <2>2, <2>3 DEF InRange
  <1>6. Once'
    <2>1. \A n : Executed(n)' = Executed(n)
      BY <1>2, <1>4 DEF Executed, Party
    <2> QED BY <1>1, <1>2, <2>1 DEF Once
  <1> QED BY <1>5, <1>6 DEF Control

\* Every step preserves the control.
LEMMA ControlStep == IInv /\ [Next]_vars => Control'
  <1> SUFFICES ASSUME IInv, [Next]_vars PROVE Control'
    OBVIOUS
  <1>0. t \in 1 .. MaxT /\ threads \in 1 .. MaxThreads /\ t \in Nat /\ Size \in Nat
    BY SizeFacts DEF IInv, VTypeOK
  <1>r. /\ max_arr \in [Thread -> Nat] /\ min_arr \in [Thread -> Nat] /\ Used \subseteq Thread
        /\ \A k \in Used : max_arr[k] <= t /\ min_arr[k] < max_arr[k]
    BY <1>0, RangeFacts
  <1>f. t' = t /\ Used' = Used /\ min_arr' = min_arr /\ max_arr' = max_arr
    BY RangesFixed
  <1>t. /\ j \in [Party -> [Thread -> Nat]] /\ i \in [Party -> [Thread -> 0 .. Size]]
        /\ at \in [Party -> [Thread -> {"idle", "dpf", "read", "write", "ended"}]]
        /\ ran \in [0 .. t - 1 -> Nat]
    BY DEF IInv, VTypeOK
  <1>1. CASE Sort
    <2>1. /\ at' = [p \in Party |-> [k \in Thread |-> IF k \in Used THEN "dpf" ELSE "ended"]]
          /\ j' = [p \in Party |-> min_arr] /\ ran' = ran /\ pc = "sort" /\ pc' = "dpfs"
      BY <1>1 DEF Sort
    <2>2. \A p \in Party, k \in Used : at'[p][k] = "dpf" /\ j'[p][k] = min_arr[k]
      BY <1>r, <2>1
    <2>3. \A p \in Party, k \in Used : Begun(p, k)' = min_arr[k]
      <3>1. \A k \in Used : min_arr[k] + 0 = min_arr[k]
        BY <1>r
      <3> QED BY <2>2, <3>1 DEF Begun, InBody
    <2>4. InRange'
      <3>1. \A p \in Party, k \in Thread \ Used : at'[p][k] = "ended"
        BY <2>1
      <3>2. \A k \in Used : min_arr[k] <= min_arr[k] /\ min_arr[k] <= max_arr[k] /\ min_arr[k] # max_arr[k]
        BY <1>r
      <3> QED BY <1>f, <2>2, <2>3, <3>1, <3>2 DEF InRange, Party
    <2>5. Once'
      <3>1. \A n \in 0 .. t - 1 : ran[n] = 0
        BY <2>1 DEF IInv, Control, Untouched
      <3>2. \A n \in 0 .. t - 1 : ~ Executed(n)'
        <4>1. \A n \in 0 .. t - 1, k \in Used : ~ (min_arr[k] <= n /\ n < min_arr[k])
          BY <1>0, <1>r
        <4> QED BY <1>f, <2>3, <4>1 DEF Executed, Party
      <3> QED BY <1>f, <2>1, <3>1, <3>2 DEF Once
    <2> QED BY <2>1, <2>4, <2>5 DEF Control
  <1>2. ASSUME UNCHANGED <<at, j, i, ran>>, pc # "sort", pc' # "sort",
               pc' = "done" => \A p \in Party, k \in Thread : at[p][k] = "ended"
        PROVE  Control'
    <2>1. InRange' /\ Once'
      BY <1>2, <1>f DEF IInv, Control, InRange, Once, Executed, Begun
    <2> QED BY <1>2, <2>1 DEF Control
  <1>3. CASE Join
    BY <1>2, <1>3 DEF Join, thread
  <1>4. CASE Done \/ UNCHANGED vars
    <2>1. UNCHANGED <<at, j, i, ran, pc, output>>
      BY <1>4 DEF Done, vars, thread
    <2>2. CASE pc = "sort"
      BY <1>f, <2>1, <2>2 DEF IInv, Control, Untouched
    <2>3. CASE pc # "sort"
      BY <1>2, <2>1, <2>3 DEF IInv, Control
    <2> QED BY <2>2, <2>3
  <1>5. ASSUME NEW k \in Thread, Dpf(k) PROVE Control'
    <2> DEFINE n == j[1][k]
    <2>1. /\ \A p \in Party : at[p][k] = "dpf"
          /\ ran' = [ran EXCEPT ![n] = @ + 1]
          /\ at' = [p \in Party |-> [at[p] EXCEPT ![k] = "read"]]
          /\ UNCHANGED <<pc, j>>
      BY <1>5 DEF Dpf
    <2>2. /\ pc = "dpfs" /\ k \in Used /\ InRange /\ Once
          /\ max_arr[k] \in Nat /\ min_arr[k] \in Nat /\ max_arr[k] <= t
      BY <2>1, Working DEF Party
    <2>3. \A p \in Party : min_arr[k] <= j[p][k] /\ j[p][k] < max_arr[k] /\ j[p][k] \in Nat
      BY <2>1, Working
    <2>4. \A p \in Party : j[p][k] = n
      <3>1. Begun(1, k) = j[1][k] /\ Begun(2, k) = j[2][k]
        BY <2>1, <2>3 DEF Begun, InBody, Party
      <3> QED BY <2>2, <3>1 DEF InRange, Party
    <2>5. /\ \A p \in Party : at'[p][k] = "read"
          /\ \A p \in Party, c \in Thread : c # k => at'[p][c] = at[p][c]
      BY <1>t, <2>1
    <2>6. /\ \A p \in Party, c \in Used : c # k => Begun(p, c)' = Begun(p, c)
          /\ \A p \in Party : Begun(p, k)' = n + 1
      BY <1>r, <2>1, <2>4, <2>5 DEF Begun, InBody
    <2>7. n \in 0 .. t - 1 /\ min_arr[k] <= n /\ n < max_arr[k] /\ n \in Nat
      BY <1>0, <2>2, <2>3 DEF Party
    <2>8. i' = [p \in Party |-> [i[p] EXCEPT ![k] = 0]]
      BY <1>5 DEF Dpf
    <2> HIDE DEF n
    <2>9. InRange'
      <3>1. \A p \in Party, c \in Thread \ Used : at'[p][c] = "ended"
        BY <2>2, <2>5 DEF InRange
      <3>2. \A p \in Party, c \in Used :
              /\ at'[p][c] # "idle"
              /\ min_arr[c] <= j[p][c] /\ j[p][c] <= max_arr[c]
              /\ at'[p][c] = "ended" <=> j[p][c] = max_arr[c]
              /\ at'[p][c] = "write" => i'[p][c] < Size
        <4> SUFFICES ASSUME NEW p \in Party, NEW c \in Used
                     PROVE  /\ at'[p][c] # "idle"
                            /\ min_arr[c] <= j[p][c] /\ j[p][c] <= max_arr[c]
                            /\ at'[p][c] = "ended" <=> j[p][c] = max_arr[c]
                            /\ at'[p][c] = "write" => i'[p][c] < Size
          OBVIOUS
        <4>1. CASE c = k
          BY <2>2, <2>4, <2>5, <2>7, <4>1
        <4>2. CASE c # k
          <5>1. i'[p][c] = i[p][c]
            BY <1>r, <1>t, <2>8, <4>2
          <5> QED BY <1>r, <2>2, <2>5, <4>2, <5>1 DEF InRange
        <4> QED BY <4>1, <4>2
      <3>3. \A c \in Used : Begun(1, c)' = Begun(2, c)'
        <4>1. \A c \in Used : Begun(1, c) = Begun(2, c)
          BY <2>2 DEF InRange
        <4> QED BY <2>6, <4>1 DEF Party
      <3> QED BY <1>f, <2>1, <3>1, <3>2, <3>3 DEF InRange
    <2>10. Once'
      <3> SUFFICES ASSUME NEW m \in 0 .. t - 1
                   PROVE  ran'[m] = IF Executed(m)' THEN 1 ELSE 0
        BY <1>f DEF Once
      <3>1. ran[m] = IF Executed(m) THEN 1 ELSE 0
        BY <2>2 DEF Once
      <3>2. Begun(1, k) = n /\ \A c \in Used : Begun(1, c) \in Nat /\ Begun(1, c) <= max_arr[c]
        <4>1. Begun(1, k) = n
          BY <2>1, <2>4, <2>7 DEF Begun, InBody, Party
        <4>2. ASSUME NEW c \in Used PROVE Begun(1, c) \in Nat /\ Begun(1, c) <= max_arr[c]
          <5>1. c \in Thread /\ j[1][c] \in Nat /\ max_arr[c] \in Nat /\ j[1][c] <= max_arr[c]
                /\ (at[1][c] \in InBody => j[1][c] # max_arr[c])
            BY <1>r, <1>t, <2>2 DEF InRange, Party, InBody
          <5> QED BY <5>1 DEF Begun
        <4> QED BY <4>1, <4>2
      <3>3. CASE m = n
        <4>1. ~ Executed(n)
          <5> SUFFICES ASSUME NEW c \in Used, min_arr[c] <= n, n < Begun(1, c) PROVE FALSE
            BY DEF Executed
          <5>1. max_arr[c] \in Nat
            BY <1>r
          <5>2. n < max_arr[c]
            BY <2>7, <3>2, <5>1
          <5>3. c = k
            BY <1>0, <2>2, <2>7, <5>2, RangeFacts
          <5> QED BY <2>7, <3>2, <5>3
        <4>2. Executed(m)'
          <5>1. min_arr'[k] <= m /\ k \in Used' /\ m < Begun(1, k)'
            BY <1>f, <2>2, <2>6, <2>7, <3>3 DEF Party
          <5> QED BY <5>1 DEF Executed
        <4>3. ran'[n] = 1
          BY <1>t, <2>1, <2>7, <3>1, <3>3, <4>1
        <4> QED BY <3>3, <4>2, <4>3
      <3>4. CASE m # n
        <4>1. Executed(m)' <=> Executed(m)
          <5>1. m < n + 1 <=> m < n
            BY <2>7, <3>4
          <5>2. \A c \in Used : m < Begun(1, c)' <=> m < Begun(1, c)
            BY <2>6, <3>2, <5>1 DEF Party
          <5> QED BY <1>f, <5>2 DEF Executed
        <4>2. ran'[m] = ran[m]
          BY <1>t, <2>1, <3>4
        <4> QED BY <3>1, <4>1, <4>2
      <3> QED BY <3>3, <3>4
    <2> QED BY <2>1, <2>2, <2>9, <2>10 DEF Control
  <1>6. ASSUME NEW p \in Party, NEW k \in Thread, Read(p, k) PROVE Control'
    <2>1. /\ at[p][k] = "read" /\ at' = [at EXCEPT ![p][k] = "write"] /\ i[p][k] < Size
          /\ UNCHANGED <<pc, j, i, ran>>
      BY <1>6 DEF Read
    <2>2. /\ pc = "dpfs" /\ k \in Used /\ max_arr[k] \in Nat /\ j[p][k] \in Nat
          /\ min_arr[k] <= j[p][k] /\ j[p][k] < max_arr[k]
      BY <2>1, Working
    <2>3. at'[p][k] = "write" /\ \A q \in Party, c \in Thread : q # p \/ c # k => at'[q][c] = at[q][c]
      BY <1>t, <2>1
    <2>4. Begun(p, k)' = Begun(p, k)
      BY <2>1, <2>3 DEF Begun, InBody
    <2>5. j[p][k] <= max_arr[k] /\ j[p][k] # max_arr[k]
      BY <2>2
    <2> QED BY <2>1, <2>2, <2>3, <2>4, <2>5, ThreadStep
  <1>7. ASSUME NEW p \in Party, NEW k \in Thread, Write(p, k) PROVE Control'
    <2>1. /\ at[p][k] = "write" /\ at' = [at EXCEPT ![p][k] = "read"]
          /\ i' = [i EXCEPT ![p][k] = @ + 1] /\ UNCHANGED <<pc, j, ran>>
      BY <1>7 DEF Write
    <2>2. /\ pc = "dpfs" /\ k \in Used /\ max_arr[k] \in Nat /\ j[p][k] \in Nat
          /\ min_arr[k] <= j[p][k] /\ j[p][k] < max_arr[k]
      BY <2>1, Working
    <2>3. /\ at'[p][k] = "read"
          /\ \A q \in Party, c \in Thread : q # p \/ c # k => at'[q][c] = at[q][c] /\ i'[q][c] = i[q][c]
      BY <1>t, <2>1
    <2>4. Begun(p, k)' = Begun(p, k)
      BY <2>1, <2>3 DEF Begun, InBody
    <2>5. j[p][k] <= max_arr[k] /\ j[p][k] # max_arr[k]
      BY <2>2
    <2> QED BY <2>1, <2>2, <2>3, <2>4, <2>5, ThreadStep
  <1>8. ASSUME NEW p \in Party, NEW k \in Thread, NextDpf(p, k) PROVE Control'
    <2>1. /\ at[p][k] = "read" /\ j' = [j EXCEPT ![p][k] = @ + 1]
          /\ at' = [at EXCEPT ![p][k] = IF j[p][k] + 1 < max_arr[k] THEN "dpf" ELSE "ended"]
          /\ UNCHANGED <<pc, i, ran>>
      BY <1>8 DEF NextDpf
    <2>2. /\ pc = "dpfs" /\ k \in Used /\ max_arr[k] \in Nat /\ j[p][k] \in Nat
          /\ min_arr[k] \in Nat /\ min_arr[k] <= j[p][k] /\ j[p][k] < max_arr[k]
      BY <2>1, Working
    <2>3. /\ j'[p][k] = j[p][k] + 1
          /\ at'[p][k] = IF j[p][k] + 1 < max_arr[k] THEN "dpf" ELSE "ended"
          /\ \A q \in Party, c \in Thread : q # p \/ c # k => at'[q][c] = at[q][c] /\ j'[q][c] = j[q][c]
      BY <1>t, <2>1
    <2>4. Begun(p, k)' = Begun(p, k)
      BY <2>1, <2>2, <2>3 DEF Begun, InBody
    <2>5. /\ min_arr[k] <= j'[p][k] /\ j'[p][k] <= max_arr[k]
          /\ at'[p][k] = "ended" <=> j'[p][k] = max_arr[k]
      BY <2>2, <2>3
    <2>6. at'[p][k] \notin {"idle", "write"}
      BY <2>3
    <2> QED BY <2>1, <2>2, <2>3, <2>4, <2>5, <2>6, ThreadStep
  <1> QED BY <1>1, <1>3, <1>4, <1>5, <1>6, <1>7, <1>8 DEF Next

THEOREM NaiveInvariant == Spec => []IInv
  <1>1. IInv /\ [Next]_vars => IInv'
    BY TypeStep, ControlStep DEF IInv
  <1> QED BY InitInv, <1>1, PTL DEF Spec

\* The types.
THEOREM NaiveTypeCorrect == Spec => []VTypeOK
  <1>1. IInv => VTypeOK
    BY DEF IInv
  <1> QED BY NaiveInvariant, <1>1, PTL

(***************************************************************************)
(* parallize_naive: for every number of DPFs and threads each DPF is       *)
(* executed by one thread, once, and all have been when the threads ended. *)
(***************************************************************************)
THEOREM EachDpfAlwaysOnce == Spec => []EachDpfOnce
  <1>1. ASSUME IInv PROVE EachDpfOnce
    <2>1. DOMAIN ran = 0 .. t - 1 /\ t \in 1 .. MaxT /\ threads \in 1 .. MaxThreads
      BY <1>1 DEF IInv, VTypeOK
    <2>2. \A n \in DOMAIN ran : ran[n] \in {0, 1}
      BY <1>1, <2>1 DEF IInv, Control, Untouched, Once
    <2>3. ASSUME pc = "done", NEW n \in DOMAIN ran PROVE ran[n] = 1
      <3>1. PICK k \in Used : min_arr[k] <= n /\ n < max_arr[k]
        BY <2>1, RangeFacts
      <3>2. k \in Thread
        BY <2>1, RangeFacts
      <3>3. at[1][k] = "ended" /\ j[1][k] = max_arr[k] /\ InRange /\ Once
        BY <1>1, <2>3, <3>2 DEF IInv, Control, InRange, Party
      <3>4. Begun(1, k) = max_arr[k]
        <4>1. max_arr[k] + 0 = max_arr[k]
          BY <2>1, <3>2, RangeFacts
        <4> QED BY <3>3, <4>1 DEF Begun, InBody
      <3> QED BY <2>1, <3>1, <3>3, <3>4 DEF Once, Executed
    <2> QED BY <2>2, <2>3 DEF EachDpfOnce
  <1> QED BY NaiveInvariant, <1>1, PTL

-----------------------------------------------------------------------------
\* The indices after the sort: party 1's, in ascending order.
Sorted == pc # "sort" =>
  /\ \A n, m \in 0 .. t - 1 : n < m => indices[n] < indices[m]
  /\ \A n \in 0 .. t - 1 : \E m \in 0 .. t - 1 : indices[n] = given[m]

\* What cell c of the only thread's vector will be when the thread has xored the
\* output of its DPF into the vector.
Added(p, c) ==
  IF at[p][0] \in InBody /\ c >= i[p][0] THEN Xor(output[p][c], local[p][0][c]) ELSE output[p][c]

\* The parties' cells c combine to the points of the DPFs before DPF m.
CombinedAt(c, m) ==
  /\ \A n \in 0 .. t - 1 : n < m /\ c = indices[n] =>
       Xor(Added(1, c), Added(2, c)) = {"bit"} \union Xor(share[1][n], share[2][n])
  /\ (\A n \in 0 .. t - 1 : n < m => c # indices[n]) => Added(1, c) = Added(2, c)

OneThread == threads = 1 /\ pc # "sort" =>
  /\ \A p \in Party : at[p][0] = "write" => loaded[p][0] = output[p][i[p][0]]
  /\ \A c \in Key : CombinedAt(c, Begun(1, 0))

\* The only thread has the range of all DPFs.
LEMMA OneRange ==
  ASSUME t \in 1 .. MaxT, threads = 1
  PROVE  0 \in Thread /\ Used = {0} /\ min_arr[0] = 0 /\ max_arr[0] = t
  <1>1. t \in Nat \ {0} /\ 0 \in Thread
    BY SizeFacts DEF Thread
  <1>2. base = t /\ t - base * threads = 0 /\ used_threads = 1
    BY <1>1 DEF base, used_threads
  <1>3. max_arr[0] = t
    <2>1. max_arr[0] = (0 + 1) * base + 0
      BY <1>1, <1>2 DEF max_arr
    <2> QED BY <1>1, <1>2, <2>1
  <1>4. min_arr[0] = 0
    BY <1>1 DEF min_arr
  <1>5. 0 .. 1 - 1 = {0}
    OBVIOUS
  <1>6. Used = {k \in {0} : min_arr[k] < max_arr[k]}
    BY <1>2, <1>5 DEF Used
  <1>7. min_arr[0] < max_arr[0]
    BY <1>1, <1>3, <1>4
  <1> QED BY <1>1, <1>3, <1>4, <1>6, <1>7

\* The order of the indices remains.
LEMMA SortedStep == Sorted /\ [Next]_vars => Sorted'
  <1> SUFFICES ASSUME Sorted, [Next]_vars PROVE Sorted'
    OBVIOUS
  <1>0. t' = t /\ given' = given
    BY RangesFixed
  <1>1. CASE Sort
    <2>1. \A n \in 0 .. t - 1 : indices'[n] \in {given[m] : m \in 0 .. t - 1}
      BY <1>1 DEF Sort
    <2>2. \A n, m \in 0 .. t - 1 : n < m => indices'[n] < indices'[m]
      BY <1>1 DEF Sort
    <2> QED BY <1>0, <2>1, <2>2 DEF Sorted
  <1>2. CASE UNCHANGED indices /\ (pc' # "sort" => pc # "sort")
    BY <1>0, <1>2 DEF Sorted
  <1>3. \/ Sort
        \/ UNCHANGED indices /\ (pc' # "sort" => pc # "sort")
    BY DEF Next, vars, Join, Done, Dpf, Read, Write, NextDpf
  <1> QED BY <1>1, <1>2, <1>3

\* The steps between two DPFs do not change what the vectors will be.
LEMMA SameCombined ==
  ASSUME UNCHANGED <<t, indices, share>>, Begun(1, 0)' = Begun(1, 0),
         \A c \in Key : Added(1, c)' = Added(1, c) /\ Added(2, c)' = Added(2, c),
         \A c \in Key : CombinedAt(c, Begun(1, 0))
  PROVE  (\A c \in Key : CombinedAt(c, Begun(1, 0)))'
  <1>1. \A c \in Key : CombinedAt(c, Begun(1, 0))'
    BY DEF CombinedAt
  <1> QED BY <1>1 DEF Key

LEMMA OneThreadStep == IInv /\ Sorted /\ OneThread /\ [Next]_vars => OneThread'
  <1> SUFFICES ASSUME IInv, Sorted, OneThread, [Next]_vars, threads' = 1, pc' # "sort"
               PROVE  /\ \A p \in Party : at'[p][0] = "write" => loaded'[p][0] = output'[p][i'[p][0]]
                      /\ (\A c \in Key : CombinedAt(c, Begun(1, 0)))'
    BY DEF OneThread
  <1>0. UNCHANGED <<t, threads, share>> /\ threads = 1 /\ t \in 1 .. MaxT /\ t \in Nat
    BY RangesFixed, SizeFacts DEF IInv, VTypeOK
  <1>o. 0 \in Thread /\ Used = {0} /\ min_arr[0] = 0 /\ max_arr[0] = t
    BY <1>0, OneRange
  <1>t. /\ j \in [Party -> [Thread -> Nat]] /\ i \in [Party -> [Thread -> 0 .. Size]]
        /\ at \in [Party -> [Thread -> {"idle", "dpf", "read", "write", "ended"}]]
        /\ loaded \in [Party -> [Thread -> Cell]] /\ output \in [Party -> [Key -> Cell]]
        /\ local \in [Party -> [Thread -> [Key -> Cell]]]
    BY DEF IInv, VTypeOK
  <1>k. Key \subseteq Nat /\ Size \in Nat /\ \A c \in Key : c < Size
    BY SizeFacts DEF Key
  <1>a. ASSUME pc # "sort"
        PROVE  /\ \A p \in Party : at[p][0] = "write" => loaded[p][0] = output[p][i[p][0]]
               /\ \A c \in Key : CombinedAt(c, Begun(1, 0))
    BY <1>0, <1>a DEF OneThread
  <1>1. CASE Sort
    <2>1. /\ at' = [p \in Party |-> [k \in Thread |-> IF k \in Used THEN "dpf" ELSE "ended"]]
          /\ j' = [p \in Party |-> min_arr] /\ UNCHANGED output /\ pc = "sort"
      BY <1>1 DEF Sort
    <2>2. \A p \in Party : at'[p][0] = "dpf" /\ j'[p][0] = 0
      BY <1>o, <2>1
    <2>3. \A p \in Party, c \in Key : output'[p][c] = {}
      BY <2>1 DEF IInv, Control, Untouched
    <2>4. Begun(1, 0)' = 0
      BY <2>2 DEF Begun, InBody, Party
    <2>5. \A c \in Key : Added(1, c)' = {} /\ Added(2, c)' = {}
      BY <2>2, <2>3 DEF Added, InBody, Party
    <2>6. \A n \in 0 .. t - 1 : ~ (n < 0)
      OBVIOUS
    <2>7. \A c \in Key : CombinedAt(c, Begun(1, 0))'
      BY <1>0, <2>4, <2>5, <2>6 DEF CombinedAt
    <2> QED BY <2>2, <2>7 DEF Key
  <1>2. CASE UNCHANGED <<at, j, i, loaded, local, output, indices>> /\ pc # "sort"
    <2>1. \A c \in Key : Added(1, c)' = Added(1, c) /\ Added(2, c)' = Added(2, c)
      BY <1>2 DEF Added
    <2>2. Begun(1, 0)' = Begun(1, 0)
      BY <1>2 DEF Begun
    <2> QED BY <1>0, <1>a, <1>2, <2>1, <2>2, SameCombined
  <1>3. ASSUME NEW k \in Thread, Dpf(k)
        PROVE  /\ \A p \in Party : at'[p][0] = "write" => loaded'[p][0] = output'[p][i'[p][0]]
               /\ (\A c \in Key : CombinedAt(c, Begun(1, 0)))'
    <2>1. PICK mask \in Mask :
            local' = <<[local[1] EXCEPT ![k] = mask],
                       [local[2] EXCEPT ![k] = [c \in Key |-> Xor(mask[c], Point(j[1][k])[c])]]>>
      BY <1>3 DEF Dpf
    <2>2. /\ \A p \in Party : at[p][k] = "dpf"
          /\ at' = [p \in Party |-> [at[p] EXCEPT ![k] = "read"]]
          /\ i' = [p \in Party |-> [i[p] EXCEPT ![k] = 0]]
          /\ UNCHANGED <<pc, j, indices, output>>
      BY <1>3 DEF Dpf
    <2>3. k = 0 /\ pc = "dpfs" /\ j[1][k] \in Nat /\ j[1][k] < t
      BY <1>o, <2>2, Working DEF Party
    <2> DEFINE n == j[1][0]
    <2>4. n \in 0 .. t - 1 /\ Begun(1, 0) = n /\ Begun(1, 0)' = n + 1
      <3>1. at'[1][0] = "read" /\ at[1][0] = "dpf" /\ j'[1][0] = n
        BY <1>t, <1>o, <2>2, <2>3 DEF Party
      <3>2. n \in 0 .. t - 1 /\ n + 0 = n
        BY <1>0, <2>3
      <3> QED BY <3>1, <3>2 DEF Begun, InBody
    <2>5. ASSUME NEW c \in Key
          PROVE  /\ Added(1, c) = output[1][c] /\ Added(2, c) = output[2][c]
                 /\ Added(1, c)' = Xor(output[1][c], mask[c])
                 /\ Added(2, c)' = Xor(output[2][c], Xor(mask[c], Point(n)[c]))
      <3>1. /\ local'[1][0] = mask /\ local'[2][0][c] = Xor(mask[c], Point(n)[c])
        BY <1>o, <1>t, <2>1, <2>3 DEF Party
      <3>2. \A p \in Party : at'[p][0] = "read" /\ i'[p][0] = 0 /\ at[p][0] = "dpf"
        BY <1>o, <1>t, <2>2, <2>3
      <3>3. c >= 0
        BY <1>k
      <3> QED BY <2>2, <3>1, <3>2, <3>3 DEF Added, InBody, Party
    <2>6. \A c \in Key : CombinedAt(c, n)
      BY <1>a, <2>3, <2>4
    <2>7. \A m \in 0 .. t - 1 : indices[m] = indices[n] => m = n
      BY <2>4 DEF IInv, VTypeOK, Injective
    <2>8. Begun(1, 0)' = n + 1 /\ UNCHANGED <<t, indices, share>>
      BY <1>0, <2>2, <2>4
    <2>9. n \in 0 .. t - 1 /\ n \in Nat
      BY <2>4
    <2> HIDE DEF n
    <2>10. \A m \in 0 .. t - 1 : m < n + 1 <=> m < n \/ m = n
      BY <2>9
    <2>11. ASSUME NEW c \in Key PROVE CombinedAt(c, Begun(1, 0))'
      <3> DEFINE x == output[1][c]
                 z == output[2][c]
      <3>1. /\ \A m \in 0 .. t - 1 : m < n /\ c = indices[m] =>
                 Xor(x, z) = {"bit"} \union Xor(share[1][m], share[2][m])
            /\ (\A m \in 0 .. t - 1 : m < n => c # indices[m]) => x = z
        BY <2>5, <2>6 DEF CombinedAt
      <3>2. Xor(Added(1, c)', Added(2, c)') = Xor(Xor(x, z), Point(n)[c])
        BY <2>5 DEF Xor
      <3>3. Point(n)[c] = IF c = indices[n] THEN {"bit"} \union Xor(share[1][n], share[2][n]) ELSE {}
        BY DEF Point
      <3>4. /\ \A m \in 0 .. t - 1 : m < n + 1 /\ c = indices[m] =>
                 Xor(Added(1, c)', Added(2, c)') = {"bit"} \union Xor(share[1][m], share[2][m])
            /\ (\A m \in 0 .. t - 1 : m < n + 1 => c # indices[m]) => Added(1, c)' = Added(2, c)'
        <4>1. CASE c = indices[n]
          <5>1. \A m \in 0 .. t - 1 : m < n => c # indices[m]
            <6>1. \A m \in 0 .. t - 1 : m < n => m # n
              BY <2>9
            <6> QED BY <2>7, <4>1, <6>1
          <5>2. Xor(Added(1, c)', Added(2, c)') = {"bit"} \union Xor(share[1][n], share[2][n])
            <6>1. x = z
              BY <3>1, <5>1
            <6> HIDE DEF x, z
            <6>2. Xor(Xor(x, z), Point(n)[c]) = Point(n)[c]
              BY <6>1 DEF Xor
            <6> QED BY <3>2, <3>3, <4>1, <6>2
          <5>3. \A m \in 0 .. t - 1 : c = indices[m] => m = n
            BY <2>7, <4>1
          <5>4. n < n + 1
            BY <2>9
          <5> QED BY <2>9, <4>1, <5>2, <5>3, <5>4
        <4>2. CASE c # indices[n]
          <5>1. \A m \in 0 .. t - 1 : c = indices[m] => (m < n + 1 <=> m < n)
            BY <2>10, <4>2
          <5>2. Xor(Added(1, c)', Added(2, c)') = Xor(x, z)
            <6>1. Point(n)[c] = {}
              BY <3>3, <4>2
            <6> HIDE DEF x, z
            <6>2. Xor(Xor(x, z), {}) = Xor(x, z)
              BY DEF Xor
            <6> QED BY <3>2, <6>1, <6>2
          <5>3. x = z => Added(1, c)' = Added(2, c)'
            <6>1. Point(n)[c] = {}
              BY <3>3, <4>2
            <6>2. Xor(mask[c], {}) = mask[c]
              BY DEF Xor
            <6> QED BY <2>5, <6>1, <6>2
          <5> HIDE DEF x, z
          <5> QED BY <3>1, <5>1, <5>2, <5>3
        <4> QED BY <4>1, <4>2
      <3> QED BY <2>8, <3>4 DEF CombinedAt
    <2>12. \A p \in Party : at'[p][0] # "write"
      BY <1>o, <1>t, <2>2, <2>3
    <2> QED BY <2>11, <2>12 DEF Key
  <1>4. ASSUME NEW p \in Party, NEW k \in Thread, Read(p, k)
        PROVE  /\ \A q \in Party : at'[q][0] = "write" => loaded'[q][0] = output'[q][i'[q][0]]
               /\ (\A c \in Key : CombinedAt(c, Begun(1, 0)))'
    <2>1. /\ at[p][k] = "read" /\ at' = [at EXCEPT ![p][k] = "write"]
          /\ loaded' = [loaded EXCEPT ![p][k] = output[p][i[p][k]]]
          /\ UNCHANGED <<indices, pc, j, i, local, output>>
      BY <1>4 DEF Read
    <2>2. k = 0 /\ pc = "dpfs"
      BY <1>o, <2>1, Working
    <2>3. /\ at'[p][0] = "write" /\ loaded'[p][0] = output[p][i[p][0]]
          /\ \A q \in Party \ {p} : at'[q][0] = at[q][0] /\ loaded'[q][0] = loaded[q][0]
      BY <1>o, <1>t, <2>1, <2>2
    <2>4. \A q \in Party : at'[q][0] = "write" => loaded'[q][0] = output'[q][i'[q][0]]
      BY <1>a, <2>1, <2>2, <2>3
    <2>5. \A q \in Party : at'[q][0] \in InBody <=> at[q][0] \in InBody
      BY <2>1, <2>2, <2>3 DEF InBody
    <2>6. \A c \in Key : Added(1, c)' = Added(1, c) /\ Added(2, c)' = Added(2, c)
      BY <2>1, <2>5 DEF Added, Party
    <2>7. Begun(1, 0)' = Begun(1, 0)
      BY <2>1, <2>5 DEF Begun, Party
    <2> QED BY <1>0, <1>a, <2>1, <2>2, <2>4, <2>6, <2>7, SameCombined
  <1>5. ASSUME NEW p \in Party, NEW k \in Thread, Write(p, k)
        PROVE  /\ \A q \in Party : at'[q][0] = "write" => loaded'[q][0] = output'[q][i'[q][0]]
               /\ (\A c \in Key : CombinedAt(c, Begun(1, 0)))'
    <2>1. /\ at[p][k] = "write" /\ at' = [at EXCEPT ![p][k] = "read"]
          /\ output' = [output EXCEPT ![p][i[p][k]] = Xor(loaded[p][k], local[p][k][i[p][k]])]
          /\ i' = [i EXCEPT ![p][k] = @ + 1]
          /\ UNCHANGED <<indices, pc, j, loaded, local>>
      BY <1>5 DEF Write
    <2>2. k = 0 /\ pc = "dpfs"
      BY <1>o, <2>1, Working
    <2> DEFINE m == i[p][0]
    <2>3. m \in Nat /\ loaded[p][0] = output[p][m] /\ m < Size
      BY <1>a, <1>o, <1>t, <2>1, <2>2, Working DEF InRange
    <2>4. /\ at'[p][0] = "read" /\ i'[p][0] = m + 1
          /\ \A q \in Party \ {p} :
               at'[q][0] = at[q][0] /\ i'[q][0] = i[q][0] /\ output'[q] = output[q]
          /\ \A c \in Key : output'[p][c] =
               IF c = m THEN Xor(output[p][m], local[p][0][m]) ELSE output[p][c]
      BY <1>o, <1>t, <2>1, <2>2, <2>3
    <2>5. \A q \in Party : at'[q][0] = "write" => loaded'[q][0] = output'[q][i'[q][0]]
      BY <1>a, <2>1, <2>2, <2>4
    <2> HIDE DEF m
    <2>6. ASSUME NEW c \in Key PROVE Added(p, c)' = Added(p, c)
      <3>1. c >= m + 1 <=> c >= m /\ c # m
        BY <1>k, <2>3
      <3>2. c = m => c >= m
        BY <2>3
      <3>3. Added(p, c) = IF c >= m THEN Xor(output[p][c], local[p][0][c]) ELSE output[p][c]
        BY <2>1, <2>2 DEF Added, InBody, m
      <3>4. Added(p, c)' = IF c >= m + 1 THEN Xor(output'[p][c], local[p][0][c]) ELSE output'[p][c]
        BY <2>1, <2>4 DEF Added, InBody
      <3> QED BY <2>4, <3>1, <3>2, <3>3, <3>4
    <2>7. \A q \in Party \ {p}, c \in Key : Added(q, c)' = Added(q, c)
      BY <2>1, <2>4 DEF Added
    <2>8. \A c \in Key : Added(1, c)' = Added(1, c) /\ Added(2, c)' = Added(2, c)
      BY <2>6, <2>7 DEF Party
    <2>9. Begun(1, 0)' = Begun(1, 0)
      BY <2>1, <2>2, <2>4 DEF Begun, InBody, Party
    <2> QED BY <1>0, <1>a, <2>1, <2>2, <2>5, <2>8, <2>9, SameCombined
  <1>6. ASSUME NEW p \in Party, NEW k \in Thread, NextDpf(p, k)
        PROVE  /\ \A q \in Party : at'[q][0] = "write" => loaded'[q][0] = output'[q][i'[q][0]]
               /\ (\A c \in Key : CombinedAt(c, Begun(1, 0)))'
    <2>1. /\ at[p][k] = "read" /\ i[p][k] = Size /\ j' = [j EXCEPT ![p][k] = @ + 1]
          /\ at' = [at EXCEPT ![p][k] = IF j[p][k] + 1 < max_arr[k] THEN "dpf" ELSE "ended"]
          /\ UNCHANGED <<indices, pc, i, loaded, local, output>>
      BY <1>6 DEF NextDpf
    <2>2. k = 0 /\ pc = "dpfs" /\ j[p][0] \in Nat
      BY <1>o, <2>1, Working
    <2>3. /\ at'[p][0] \notin {"read", "write"} /\ j'[p][0] = j[p][0] + 1
          /\ \A q \in Party \ {p} : at'[q][0] = at[q][0] /\ j'[q][0] = j[q][0]
      BY <1>o, <1>t, <2>1, <2>2
    <2>4. \A q \in Party : at'[q][0] = "write" => loaded'[q][0] = output'[q][i'[q][0]]
      BY <1>a, <2>1, <2>2, <2>3
    <2>5. ASSUME NEW c \in Key PROVE Added(p, c)' = Added(p, c)
      <3>1. ~ (c >= Size)
        BY <1>k
      <3> QED BY <2>1, <2>2, <2>3, <3>1 DEF Added, InBody
    <2>6. \A q \in Party \ {p}, c \in Key : Added(q, c)' = Added(q, c)
      BY <2>1, <2>3 DEF Added
    <2>7. \A c \in Key : Added(1, c)' = Added(1, c) /\ Added(2, c)' = Added(2, c)
      BY <2>5, <2>6 DEF Party
    <2>8. Begun(1, 0)' = Begun(1, 0)
      <3>1. j[p][0] + 1 + 0 = j[p][0] + 1
        BY <2>2
      <3>2. Begun(p, 0) = j[p][0] + 1
        BY <2>1, <2>2 DEF Begun, InBody
      <3>3. Begun(p, 0)' = j[p][0] + 1
        BY <2>3, <3>1 DEF Begun, InBody
      <3>4. p # 1 => Begun(1, 0)' = Begun(1, 0)
        BY <2>3 DEF Begun, Party
      <3> QED BY <3>2, <3>3, <3>4
    <2> QED BY <1>0, <1>a, <2>1, <2>2, <2>4, <2>7, <2>8, SameCombined
  <1>7. CASE Join
    BY <1>2, <1>7 DEF Join, thread
  <1>8. CASE Done \/ UNCHANGED vars
    BY <1>2, <1>8 DEF Done, vars, thread
  <1> QED BY <1>1, <1>3, <1>4, <1>5, <1>6, <1>7, <1>8 DEF Next

-----------------------------------------------------------------------------
Ascending(h, N) == \A x, z \in 0 .. N - 1 : x < z => h[x] < h[z]
DrawnFrom(h, g, N) == \A x \in 0 .. N - 1 : \E z \in 0 .. N - 1 : h[x] = g[z]
InPlace(h, g, N) == \A n \in 0 .. N - 1 : Rank(g, n) \in 0 .. N - 1 /\ h[Rank(g, n)] = g[n]

(***************************************************************************)
(* An ascending arrangement h of the distinct numbers g: the k-th smallest *)
(* is in place k.                                                          *)
(***************************************************************************)
LEMMA PlaceOfRank ==
  ASSUME NEW N \in Nat \ {0}, NEW g \in [0 .. N - 1 -> Nat], NEW h \in [0 .. N - 1 -> Nat],
         InjectiveOn(g, 0 .. N - 1), Ascending(h, N), DrawnFrom(h, g, N)
  PROVE  InPlace(h, g, N)
  <1> SUFFICES ASSUME NEW n \in 0 .. N - 1
               PROVE  Rank(g, n) \in 0 .. N - 1 /\ h[Rank(g, n)] = g[n]
    BY DEF InPlace
  <1> DEFINE S == 0 .. N - 1
  <1>1. IsFiniteSet(S) /\ Cardinality(S) = N
    <2>1. 0 \in Int /\ N - 1 \in Int
      OBVIOUS
    <2>2. IsFiniteSet(0 .. N - 1) /\ Cardinality(0 .. N - 1) = IF 0 > N - 1 THEN 0 ELSE (N - 1) - 0 + 1
      BY <2>1, FS_Interval
    <2> QED BY <2>2
  <1>2. \A x, z \in S : h[x] < h[z] => x < z
    <2> SUFFICES ASSUME NEW x \in S, NEW z \in S, h[x] < h[z], ~ (x < z) PROVE FALSE
      OBVIOUS
    <2>1. h[x] \in Nat /\ h[z] \in Nat /\ (z = x \/ z < x)
      OBVIOUS
    <2>2. z < x => h[z] < h[x]
      BY DEF Ascending
    <2> QED BY <2>1, <2>2
  <1>3. InjectiveOn(h, S)
    <2> SUFFICES ASSUME NEW x \in S, NEW z \in S, h[x] = h[z], x # z PROVE FALSE
      BY DEF InjectiveOn
    <2>1. h[x] \in Nat /\ h[z] \in Nat /\ (x < z \/ z < x)
      OBVIOUS
    <2>2. h[x] < h[z] \/ h[z] < h[x]
      BY <2>1 DEF Ascending
    <2> QED BY <2>1, <2>2
  <1>4. ImageOf(h, S) = ImageOf(g, S)
    <2>1. ImageOf(h, S) \subseteq ImageOf(g, S)
      BY DEF ImageOf, DrawnFrom
    <2>2. /\ IsFiniteSet(ImageOf(g, S)) /\ Cardinality(ImageOf(g, S)) = N
          /\ Cardinality(ImageOf(h, S)) = N
      <3> HIDE DEF S
      <3> QED BY <1>1, <1>3, ImageSize DEF S
    <2> HIDE DEF S
    <2> QED BY <2>1, <2>2, FS_Subset
  <1>5. PICK m \in S : h[m] = g[n]
    BY <1>4 DEF ImageOf
  <1> DEFINE C == {c \in S : g[c] # -1 /\ g[c] < g[n]}
             D == 0 .. m - 1
  <1>6. Rank(g, n) = Cardinality(C)
    BY DEF Rank
  <1>7. D \subseteq S /\ IsFiniteSet(D) /\ Cardinality(D) = m
    <2>1. 0 \in Int /\ m - 1 \in Int /\ m \in Nat
      OBVIOUS
    <2>2. IsFiniteSet(0 .. m - 1) /\ Cardinality(0 .. m - 1) = IF 0 > m - 1 THEN 0 ELSE (m - 1) - 0 + 1
      BY <2>1, FS_Interval
    <2>3. 0 .. m - 1 \subseteq 0 .. N - 1
      BY <2>1
    <2>4. 0 > m - 1 => m = 0
      BY <2>1
    <2>5. (m - 1) - 0 + 1 = m
      BY <2>1
    <2> QED BY <2>2, <2>3, <2>4, <2>5
  <1>8. ImageOf(g, C) = ImageOf(h, D)
    <2>1. ASSUME NEW c \in C PROVE \E x \in D : g[c] = h[x]
      <3>1. PICK x \in S : h[x] = g[c]
        BY <1>4 DEF ImageOf
      <3>2. x < m
        BY <1>2, <1>5, <3>1
      <3>3. x \in D
        BY <3>2
      <3> QED BY <3>1, <3>3
    <2>2. ASSUME NEW x \in D PROVE \E c \in C : g[c] = h[x]
      <3>1. x \in S /\ x < m
        BY <1>7
      <3>2. PICK c \in S : h[x] = g[c]
        BY <3>1 DEF DrawnFrom
      <3>3. g[c] < g[n] /\ g[c] # -1
        <4>1. h[x] < h[m] /\ g[c] \in Nat
          BY <3>1 DEF Ascending
        <4> QED BY <1>5, <3>2, <4>1
      <3> QED BY <3>2, <3>3
    <2> HIDE DEF C, D
    <2> QED BY <2>1, <2>2 DEF ImageOf
  <1>9. IsFiniteSet(C) /\ InjectiveOn(g, C) /\ InjectiveOn(h, D)
    <2>1. C \subseteq S
      OBVIOUS
    <2> HIDE DEF C, D, S
    <2>2. IsFiniteSet(C)
      BY <1>1, <2>1, FS_Subset
    <2> QED BY <1>3, <1>7, <2>1, <2>2 DEF InjectiveOn, S
  <1>10. Cardinality(C) = m
    <2> HIDE DEF C, D
    <2>1. Cardinality(ImageOf(g, C)) = Cardinality(C)
      BY <1>9, ImageSize
    <2>2. Cardinality(ImageOf(h, D)) = Cardinality(D)
      BY <1>7, <1>9, ImageSize
    <2> QED BY <1>7, <1>8, <2>1, <2>2
  <1> QED BY <1>5, <1>6, <1>10

\* All parts of the inductive invariant hold together.
THEOREM NaiveDataInvariant == Spec => [](IInv /\ Sorted /\ OneThread)
  <1>1. Init => IInv /\ Sorted /\ OneThread
    <2>1. Init => Sorted /\ OneThread
      BY DEF Init, Sorted, OneThread
    <2> QED BY InitInv, <2>1
  <1>2. IInv /\ [Next]_vars => IInv'
    BY TypeStep, ControlStep DEF IInv
  <1> QED BY <1>1, <1>2, SortedStep, OneThreadStep, PTL DEF Spec

(***************************************************************************)
(* get_mpfss_vectors with one thread: the vectors of the parties combine to*)
(* the k-th shared value at the k-th smallest index, and to 0 elsewhere,   *)
(* for every order of the indices that are given and whatever the masks.   *)
(***************************************************************************)
THEOREM SequentialAlwaysShares == Spec => []SequentialShares
  <1>1. ASSUME IInv, Sorted, OneThread, pc = "done", threads = 1 PROVE SharesOfSortedFunction
    <2>1. /\ t \in 1 .. MaxT /\ t \in Nat \ {0} /\ given \in [0 .. t - 1 -> Key] /\ Injective(given)
          /\ indices \in [0 .. t - 1 -> Key]
          /\ j \in [Party -> [Thread -> Nat]]
      BY <1>1, SizeFacts DEF IInv, VTypeOK
    <2>2. 0 \in Thread /\ Used = {0} /\ max_arr[0] = t
      BY <1>1, <2>1, OneRange
    <2>3. \A p \in Party : at[p][0] = "ended"
      BY <1>1, <2>2 DEF IInv, Control
    <2>4. Begun(1, 0) = t
      <3>1. j[1][0] = t
        BY <1>1, <2>2, <2>3 DEF IInv, Control, InRange, Party
      <3>2. t + 0 = t
        BY <2>1
      <3> QED BY <2>3, <3>1, <3>2 DEF Begun, InBody, Party
    <2>5. \A c \in Key : Added(1, c) = output[1][c] /\ Added(2, c) = output[2][c]
      BY <2>3 DEF Added, InBody, Party
    <2>6. \A c \in Key : CombinedAt(c, t)
      BY <1>1, <2>4 DEF OneThread
    <2>7. \A n \in 0 .. t - 1 : n < t
      BY <2>1
    <2>8. ASSUME NEW c \in Key \ {given[n] : n \in DOMAIN given} PROVE output[1][c] = output[2][c]
      <3>1. \A n \in 0 .. t - 1 : c # indices[n]
        BY <1>1, <2>1 DEF Sorted
      <3> QED BY <2>5, <2>6, <3>1 DEF CombinedAt
    <2>9. ASSUME NEW n \in DOMAIN given
          PROVE  LET r == Rank(given, n) IN
                 Xor(output[1][given[n]], output[2][given[n]]) =
                   {"bit"} \union Xor(share[1][r], share[2][r])
      <3> DEFINE r == Rank(given, n)
      <3>1. n \in 0 .. t - 1 /\ given[n] \in Key
        BY <2>1
      <3>2. r \in 0 .. t - 1 /\ indices[r] = given[n]
        <4>1. given \in [0 .. t - 1 -> Nat] /\ indices \in [0 .. t - 1 -> Nat]
          BY <2>1, SizeFacts
        <4>2. InjectiveOn(given, 0 .. t - 1)
          BY <2>1 DEF Injective, InjectiveOn
        <4>3. Ascending(indices, t) /\ DrawnFrom(indices, given, t)
          BY <1>1 DEF Sorted, Ascending, DrawnFrom
        <4>4. InPlace(indices, given, t)
          BY <2>1, <4>1, <4>2, <4>3, PlaceOfRank
        <4> QED BY <3>1, <4>4 DEF InPlace
      <3> HIDE DEF r
      <3>3. Xor(Added(1, given[n]), Added(2, given[n])) = {"bit"} \union Xor(share[1][r], share[2][r])
        BY <2>6, <2>7, <3>1, <3>2 DEF CombinedAt
      <3> QED BY <2>5, <3>1, <3>3 DEF r
    <2> QED BY <2>8, <2>9 DEF SharesOfSortedFunction
  <1>2. IInv /\ Sorted /\ OneThread => SequentialShares
    BY <1>1 DEF SequentialShares
  <1> QED BY NaiveDataInvariant, <1>2, PTL

=============================================================================
