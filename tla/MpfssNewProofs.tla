--------------------------- MODULE MpfssNewProofs ---------------------------
(***************************************************************************)
(* Type correctness of MpfssNew, the alignment of the parties' calls, the  *)
(* absence of deadlock, the end of the loops, and the function that the    *)
(* results share, for any number of buckets, threads and calls.            *)
(***************************************************************************)
EXTENDS MpfssNew, ShareFacts

Early  == {"sleep", "buckets", "assign"}
AllDone(p) == \A n \in Bucket : proto[p][n] = "done"

\* The parties are in the same call.
SameCall ==
  run[1] = run[2] =>
    /\ pc[1] \in {"listen", "accept"} =>
         pc[2] \in {"connect", "sleep", "exit"} /\ conns[1] < b /\ wire = "empty"
    /\ pc[1] \in {"buckets", "assign"} => pc[2] \in Early /\ wire = "empty"
    /\ pc[1] = "yao"    => pc[2] \in Early \union {"yao", "ok"}
    /\ pc[1] = "ok"     => pc[2] \in {"yao", "ok"}
    /\ pc[1] = "failed" => pc[2] \in Early \union {"failed"}
    /\ pc[1] = "yao" /\ pc[2] \in Early => wire = "assigned"
    /\ pc[1] = "failed" /\ pc[2] \in Early => wire = "failed"
    /\ pc[2] \in {"buckets", "assign"} => conns[2] = b

\* Party 1 is in the next call already, or party 2 is.
AheadOne ==
  run[1] > run[2] =>
    /\ run[1] = run[2] + 1 /\ pc[1] \in {"listen", "accept"}
    /\ conns[1] = 0 /\ conns[2] = b
    /\ pc[2] \in Early \union {"yao", "ok", "failed"}
    /\ pc[2] \in Early => wire = "failed"

AheadTwo ==
  run[2] > run[1] =>
    /\ run[2] = run[1] + 1 /\ pc[2] \in {"connect", "exit"}
    /\ conns[2] = 0 /\ conns[1] = b
    /\ pc[1] \in {"yao", "ok", "failed"}

Links ==
  /\ run[1] = run[2] => conns[1] = conns[2]
  /\ pc[2] \notin Early => wire = "empty"
  /\ pc[2] = "connect" => conns[2] < b
  /\ pc[1] = "undefined" <=> pc[2] = "undefined"
  /\ pc[1] = "undefined" => run[1] = run[2]
  /\ \A p \in Party :
       pc[p] \notin {"listen", "accept", "connect", "sleep", "exit"} => conns[p] = b

\* A thread runs its protocols in order, and a protocol is done in both parties
\* or in neither, until one of them has returned.
Threads ==
  /\ \A p \in Party, n, c \in Bucket :
       owner[p][c] = owner[p][n] /\ c < n /\ proto[p][n] # "todo" => proto[p][c] = "done"
  /\ \A p \in Party : pc[p] \notin {"yao", "undefined"} => proto[p] = Todo
  /\ pc[1] = "yao" /\ pc[2] = "yao" =>
       \A n \in Bucket : proto[1][n] = "done" <=> proto[2][n] = "done"
  /\ \A p, q \in Party : p # q /\ pc[p] = "yao" =>
       /\ run[p] = run[q] /\ pc[q] \in Early => \A n \in Bucket : proto[p][n] # "done"
       /\ run[q] > run[p] \/ (run[q] = run[p] /\ pc[q] = "ok") => AllDone(p)

\* What NTypeOK leaves open.
Location == {"listen", "accept", "connect", "sleep", "buckets", "assign", "yao", "ok",
             "failed", "exit", "undefined"}
PcType == pc \in [Party -> Location]

Calls == SameCall /\ AheadOne /\ AheadTwo /\ Links

\* The inductive invariant.
IInv == NTypeOK /\ PcType /\ Calls /\ Threads

-----------------------------------------------------------------------------
\* There is a bucket.
LEMMA BucketFacts == b \in Nat \ {0} /\ Bucket \subseteq Nat
  BY NewAssumption, BucketAssumption DEF Bucket

\* Both parties begin with their first call.
LEMMA InitInv == Init => IInv
  <1> SUFFICES ASSUME Init PROVE IInv
    OBVIOUS
  <1>1. NTypeOK
    <2>1. output \in [Party -> Vector] /\ matches \in [Bucket -> Key \union {-1}]
      BY DEF Init, NoOutput, Vector, Cell, Unused
    <2>2. proto \in [Party -> [Bucket -> {"todo", "running", "done"}]]
      BY DEF Init, Todo
    <2>3. owner \in [Party -> [Bucket -> Nat]]
      BY DEF Init
    <2>4. run \in [Party -> 1 .. Runs] /\ conns \in [Party -> 0 .. b]
      BY BucketFacts, NewAssumption, BucketAssumption DEF Init, Party
    <2>5. seed \in [Party -> Seed \union {-1}]
      BY DEF Init, Party
    <2> QED BY <2>1, <2>2, <2>3, <2>4, <2>5 DEF NTypeOK, Init
  <1>2. PcType
    BY DEF PcType, Location, Init, Party
  <1>3. SameCall /\ AheadOne /\ AheadTwo /\ Links
    BY BucketFacts DEF Init, SameCall, AheadOne, AheadTwo, Links, Early, Party
  <1>4. Threads
    BY DEF Init, Threads, Todo, Party
  <1> QED BY <1>1, <1>2, <1>3, <1>4 DEF IInv, Calls

\* Every step preserves the types; Connect needs that a connection is missing.
LEMMA TypeStep == IInv /\ [Next]_vars => NTypeOK' /\ PcType'
  <1> SUFFICES ASSUME IInv, [Next]_vars PROVE NTypeOK' /\ PcType'
    OBVIOUS
  <1> USE BucketFacts DEF IInv, NTypeOK, PcType, Location, Party
  <1>1. CASE Listen
    BY <1>1 DEF Listen, call
  <1>2. CASE Connect
    <2>1. run[1] = run[2] /\ conns[1] < b /\ conns[2] < b
      BY <1>2 DEF Connect, Calls, Links, AheadOne, AheadTwo, SameCall
    <2> QED BY <1>2, <2>1 DEF Connect, call
  <1>3. CASE Refused
    BY <1>3 DEF Refused, call
  <1>4. CASE Wake
    BY <1>4 DEF Wake, call
  <1>5. ASSUME NEW p \in Party, CreateBuckets(p) PROVE NTypeOK' /\ PcType'
    BY <1>5 DEF CreateBuckets
  <1>6. CASE Assign
    BY <1>6, NewAssumption, BucketAssumption DEF Assign, EnterYao, call
  <1>7. CASE AssignFails
    BY <1>7 DEF AssignFails, call
  <1>8. CASE Receive
    <2>1. owner' \in [Party -> [Bucket -> Nat]]
      <3>1. owner' = owner \/ \E o \in Schedule : owner' = [owner EXCEPT ![2] = o]
        BY <1>8 DEF Receive, EnterYao
      <3>2. Schedule \subseteq [Bucket -> Nat]
        BY NewAssumption
      <3> QED BY <3>1, <3>2
    <2>2. pc' = [pc EXCEPT ![2] = "yao"] \/ pc' = [pc EXCEPT ![2] = "failed"]
      BY <1>8 DEF Receive, EnterYao
    <2> QED BY <1>8, <2>1, <2>2 DEF Receive, call
  <1>9. ASSUME NEW p \in Party, NEW n \in Bucket, Begin(p, n) PROVE NTypeOK' /\ PcType'
    BY <1>9 DEF Begin, CanBegin, call
  <1>10. ASSUME NEW n \in Bucket, RunProtocol(n) PROVE NTypeOK' /\ PcType'
    BY <1>10 DEF RunProtocol, BothRun, call
  <1>11. ASSUME NEW n \in Bucket, OutOfStep(n) PROVE NTypeOK' /\ PcType'
    BY <1>11 DEF OutOfStep, BothRun, call
  <1>12. ASSUME NEW p \in Party, Return(p) PROVE NTypeOK' /\ PcType'
    <2>1. \A k \in Key : Sum(p, k) \in Cell
      BY DEF Sum, XorAt, Cell
    <2>2. output' \in [Party -> Vector]
      BY <1>12, <2>1 DEF Return, CanReturn, Vector
    <2> QED BY <1>12, <2>2 DEF Return, CanReturn, call, Unused, Todo
  <1>13. ASSUME NEW p \in Party, NextRun(p) PROVE NTypeOK' /\ PcType'
    <2>1. output' \in [Party -> Vector]
      BY <1>13 DEF NextRun, Vector, NoOutput, Cell
    <2>2. run' \in [Party -> 1 .. Runs]
      BY <1>13, NewAssumption, BucketAssumption DEF NextRun
    <2> QED BY <1>13, <2>1, <2>2 DEF NextRun
  <1>14. CASE UNCHANGED vars
    BY <1>14 DEF vars, call
  <1> QED BY <1>1, <1>2, <1>3, <1>4, <1>5, <1>6, <1>7, <1>8, <1>9, <1>10, <1>11, <1>12,
             <1>13, <1>14 DEF Next

\* Every step preserves the relation of the two parties' control.
LEMMA ControlStep == IInv /\ [Next]_vars => Calls'
  <1> SUFFICES ASSUME IInv, [Next]_vars PROVE Calls'
    OBVIOUS
  <1> USE BucketFacts DEF IInv, NTypeOK, PcType, Location, Party, Calls, SameCall, AheadOne, AheadTwo, Links, Early
  <1>1. CASE Listen
    BY <1>1 DEF Listen, call
  <1>2. CASE Connect
    BY <1>2 DEF Connect, call
  <1>3. CASE Refused
    BY <1>3 DEF Refused, call
  <1>4. CASE Wake
    BY <1>4 DEF Wake, call
  <1>5. ASSUME NEW p \in Party, CreateBuckets(p) PROVE Calls'
    BY <1>5 DEF CreateBuckets, call
  <1>6. CASE Assign
    BY <1>6 DEF Assign, EnterYao, call
  <1>7. CASE AssignFails
    BY <1>7 DEF AssignFails, call
  <1>8. CASE Receive
    BY <1>8 DEF Receive, EnterYao, call
  <1>9. ASSUME NEW p \in Party, NEW n \in Bucket, Begin(p, n) PROVE Calls'
    BY <1>9 DEF Begin, CanBegin, call
  <1>10. ASSUME NEW n \in Bucket, RunProtocol(n) PROVE Calls'
    BY <1>10 DEF RunProtocol, BothRun, call
  <1>11. ASSUME NEW n \in Bucket, OutOfStep(n) PROVE Calls'
    <2>1. \A p \in Party : pc[p] \in {"yao", "undefined"}
      BY <1>11 DEF OutOfStep, BothRun, Threads, Todo
    <2>2. run[1] = run[2] /\ \A p \in Party : conns[p] = b
      BY <2>1
    <2>3. wire = "empty"
      BY <2>1
    <2>4. pc'[1] = "undefined" /\ pc'[2] = "undefined" /\ UNCHANGED <<run, conns, wire>>
      BY <1>11 DEF OutOfStep, BothRun
    <2> QED BY <2>2, <2>3, <2>4
  <1>12. ASSUME NEW p \in Party, Return(p) PROVE Calls'
    <2>1. 0 \in Bucket
      BY DEF Bucket
    <2>2. \A q \in Party : q # p /\ run[q] = run[p] => pc[q] \notin Early
      BY <1>12, <2>1 DEF Return, CanReturn, Threads
    <2> QED BY <1>12, <2>2 DEF Return, CanReturn, call
  <1>13. ASSUME NEW p \in Party, NextRun(p) PROVE Calls'
    BY <1>13 DEF NextRun, call
  <1>14. CASE UNCHANGED vars
    BY <1>14 DEF vars, call
  <1> QED BY <1>1, <1>2, <1>3, <1>4, <1>5, <1>6, <1>7, <1>8, <1>9, <1>10, <1>11, <1>12, <1>13, <1>14 DEF Next

\* Every step preserves what relates the protocols of the two parties.
LEMMA ThreadsStep == IInv /\ [Next]_vars => Threads'
  <1> SUFFICES ASSUME IInv, [Next]_vars PROVE Threads'
    OBVIOUS
  <1> USE BucketFacts DEF IInv, NTypeOK, PcType, Location, Party, Early
  <1>0. /\ \A p \in Party : pc[p] # "yao" /\ pc[p] # "undefined" => proto[p] = Todo
        /\ 0 \in Bucket
    BY DEF Threads, Bucket
  <1>1. CASE Listen
    BY <1>1 DEF Listen, Threads, AllDone, Calls, Links, SameCall, AheadOne
  <1>2. CASE Connect
    BY <1>2 DEF Connect, Threads, AllDone, Calls, Links, SameCall, AheadOne
  <1>3. CASE Refused
    BY <1>3 DEF Refused, Threads, AllDone, Calls, Links, SameCall, AheadOne, AheadTwo
  <1>4. CASE Wake
    BY <1>4 DEF Wake, Threads, AllDone, Calls, Links, SameCall, AheadOne
  <1>5. ASSUME NEW p \in Party, CreateBuckets(p) PROVE Threads'
    BY <1>5 DEF CreateBuckets, Threads, AllDone, Calls, Links, SameCall, AheadOne
  <1>6. CASE Assign
    BY <1>0, <1>6 DEF Assign, EnterYao, Threads, AllDone, Todo, Calls, Links, SameCall, AheadOne, AheadTwo, call
  <1>7. CASE AssignFails
    BY <1>7 DEF AssignFails, Threads, AllDone, Calls, Links, SameCall, AheadOne
  <1>8. CASE Receive
    BY <1>0, <1>8 DEF Receive, EnterYao, Threads, AllDone, Todo, Calls, Links, SameCall, AheadOne, AheadTwo
  <1>9. ASSUME NEW p \in Party, NEW n \in Bucket, Begin(p, n) PROVE Threads'
    BY <1>9 DEF Begin, CanBegin, Threads, AllDone, Calls, Links, SameCall, AheadOne
  <1>10. ASSUME NEW n \in Bucket, RunProtocol(n) PROVE Threads'
    <2>1. \A p \in Party : pc[p] \in {"yao", "undefined"}
      BY <1>10 DEF RunProtocol, BothRun, Threads, Todo
    <2>2. pc[1] = pc[2]
      BY <2>1 DEF Calls, Links
    <2>3. /\ \A p \in Party, c \in Bucket :
               proto'[p][c] = IF c = n THEN "done" ELSE proto[p][c]
          /\ UNCHANGED <<pc, run, owner>>
      BY <1>10 DEF RunProtocol, BothRun
    <2>4. \A p \in Party, m, c \in Bucket :
            owner[p][c] = owner[p][m] /\ c < m /\ proto'[p][m] # "todo" => proto'[p][c] = "done"
      <3>1. \A p \in Party : proto[p][n] = "running"
        BY <1>10 DEF RunProtocol, BothRun
      <3>2. \A p \in Party, m \in Bucket : proto'[p][m] # "todo" => proto[p][m] # "todo"
        BY <2>3, <3>1
      <3>3. \A p \in Party, c \in Bucket : proto[p][c] = "done" => proto'[p][c] = "done"
        BY <2>3
      <3> QED BY <3>2, <3>3 DEF Threads
    <2>5. \A p, q \in Party : p # q => pc[q] \notin Early /\ (AllDone(p) => AllDone(p)')
      <3>1. \A q \in Party : pc[q] \notin Early
        BY <2>1
      <3>2. ASSUME NEW p \in Party, AllDone(p) PROVE AllDone(p)'
        BY <2>3, <3>2 DEF AllDone
      <3> QED BY <3>1, <3>2
    <2> QED BY <2>1, <2>2, <2>3, <2>4, <2>5 DEF Threads
  <1>11. ASSUME NEW n \in Bucket, OutOfStep(n) PROVE Threads'
    <2>1. \A p \in Party : pc'[p] = "undefined"
      BY <1>11 DEF OutOfStep, BothRun
    <2>2. UNCHANGED <<owner, proto>>
      BY <1>11 DEF OutOfStep, BothRun
    <2>3. \A p \in Party, m, c \in Bucket :
            owner'[p][c] = owner'[p][m] /\ c < m /\ proto'[p][m] # "todo" => proto'[p][c] = "done"
      BY <2>2 DEF Threads
    <2> QED BY <2>1, <2>3 DEF Threads
  <1>12. ASSUME NEW p \in Party, Return(p) PROVE Threads'
    BY <1>12 DEF Return, CanReturn, Threads, AllDone, Todo, Calls, Links, SameCall, AheadOne, AheadTwo
  <1>13. ASSUME NEW p \in Party, NextRun(p) PROVE Threads'
    BY <1>0, <1>13 DEF NextRun, Threads, AllDone, Todo, Calls, Links, SameCall, AheadOne, AheadTwo
  <1>14. CASE UNCHANGED vars
    BY <1>14 DEF vars, call, Threads, AllDone
  <1> QED BY <1>1, <1>2, <1>3, <1>4, <1>5, <1>6, <1>7, <1>8, <1>9, <1>10, <1>11, <1>12,
             <1>13, <1>14 DEF Next

\* The inductive invariant holds.
THEOREM NewInvariant == Spec => []IInv
  <1>1. IInv /\ [Next]_vars => IInv'
    BY TypeStep, ControlStep, ThreadsStep DEF IInv
  <1> QED BY InitInv, <1>1, PTL DEF Spec

\* The types of MpfssNew, the bound b on the connections of a call included.
THEOREM NewTypeCorrect == Spec => []NTypeOK
  <1>1. IInv => NTypeOK
    BY DEF IInv
  <1> QED BY NewInvariant, <1>1, PTL

\* Whatever needs both parties (mpfss_new_cuckoo.h:106-213) happens in the same
\* call of both.
THEOREM CallsAlwaysAligned == Spec => []CallsAligned
  <1>1. IInv => CallsAligned
    BY DEF IInv, Calls, SameCall, AheadOne, AheadTwo, Links, CallsAligned
  <1> QED BY NewInvariant, <1>1, PTL

\* Both parties learn the same outcome (mpfss_new_cuckoo.h:160-183), and it is
\* consumed in the call it belongs to.
THEOREM OutcomesAlwaysAgree == Spec => []OutcomesAgree
  <1>1. IInv => OutcomesAgree
    BY DEF IInv, NTypeOK, Calls, SameCall, Links, Early, OutcomesAgree
  <1> QED BY NewInvariant, <1>1, PTL

(***************************************************************************)
(* The first protocol that is not done is at the turn of its thread in both*)
(* parties.                                                                *)
(***************************************************************************)
LEMMA TurnOfOne == IInv => SomeProtocolCanProceed
  <1>1. ASSUME IInv, \A p \in Party : pc[p] = "yao",
               NEW q \in Party, NEW m \in Bucket, proto[q][m] # "done"
        PROVE  \E n \in Bucket : \A p \in Party : AtTurn(p, n)
    <2> DEFINE Rest == {n \in Bucket : proto[1][n] # "done"}
    <2>1. \A n \in Bucket : proto[1][n] = "done" <=> proto[2][n] = "done"
      BY <1>1 DEF IInv, Threads, Party
    <2>2. Rest \in SUBSET Nat /\ Rest # {}
      BY <1>1, <2>1, BucketFacts DEF Party
    <2>3. PICK n \in Rest : \A c \in Rest : n <= c
      <3> HIDE DEF Rest
      <3> QED BY <2>2, LeastElement
    <2>4. \A p \in Party, c \in Bucket : proto[p][c] # "done" => n <= c
      BY <2>1, <2>3 DEF Party
    <2>5. ASSUME NEW p \in Party PROVE AtTurn(p, n)
      <3>1. proto[p][n] # "done"
        BY <2>1, <2>3 DEF Party
      <3>2. ASSUME NEW c \in Bucket \ {n}, owner[p][c] = owner[p][n], proto[p][c] = "running"
            PROVE  FALSE
        <4>1. n < c
          BY <2>4, <3>2, BucketFacts
        <4>2. owner[p][n] = owner[p][c] /\ n < c /\ proto[p][c] # "todo" => proto[p][n] = "done"
          BY <1>1 DEF IInv, Threads
        <4> QED BY <3>1, <3>2, <4>1, <4>2
      <3>3. \A c \in Bucket \ {n} : c < n => proto[p][c] = "done"
        BY <2>4, BucketFacts
      <3> QED BY <3>1, <3>2, <3>3 DEF AtTurn
    <2> QED BY <2>5
  <1> QED BY <1>1 DEF SomeProtocolCanProceed

\* While both parties are in run_exec_yao their threads do not all wait for one
\* another.
THEOREM NoCircularWaiting == Spec => []SomeProtocolCanProceed
  <1> QED BY NewInvariant, TurnOfOne, PTL

-----------------------------------------------------------------------------
\* The protocols get out of step only if the seeds differ.
SeedsDiffer == pc[1] = "undefined" => seed[1] # seed[2]

LEMMA SeedsStep == IInv /\ SeedsDiffer /\ [Next]_vars /\ IInv' => SeedsDiffer'
  <1> SUFFICES ASSUME IInv, SeedsDiffer, [Next]_vars, IInv', pc'[1] = "undefined"
               PROVE  seed'[1] # seed'[2]
    BY DEF SeedsDiffer
  <1>1. pc'[2] = "undefined" /\ pc \in [Party -> Location] /\ 1 \in Party /\ 2 \in Party
    BY DEF IInv, Calls, Links, PcType, Party
  <1>2. CASE \E n \in Bucket : OutOfStep(n)
    BY <1>2 DEF OutOfStep, BucketOf, call
  <1>3. CASE ~ \E n \in Bucket : OutOfStep(n)
    <2>1. seed' = seed
      <3>1. \A p \in Party : ~ CreateBuckets(p)
        BY <1>1 DEF CreateBuckets, Party
      <3> QED BY <1>3, <3>1 DEF Next, Listen, Connect, Refused, Wake, Assign, AssignFails, Receive,
                                Begin, RunProtocol, Return, NextRun, vars, call
    <2>2. pc[1] = "undefined"
      <3>1. CASE UNCHANGED pc
        BY <3>1
      <3>2. ASSUME NEW p \in Party, NEW w \in Location \ {"undefined"}, pc' = [pc EXCEPT ![p] = w]
            PROVE  FALSE
        BY <1>1, <3>2 DEF Party
      <3>3. CASE Connect
        BY <1>1, <3>3 DEF Connect
      <3>4. CASE Listen \/ Refused \/ Wake
        BY <3>2, <3>4, <1>1 DEF Listen, Refused, Wake, Location
      <3>5. ASSUME NEW p \in Party, CreateBuckets(p) \/ Return(p) \/ NextRun(p) PROVE FALSE
        BY <3>2, <3>5 DEF CreateBuckets, Return, NextRun, Location
      <3>6. CASE Assign \/ AssignFails \/ Receive
        BY <3>2, <3>6, <1>1 DEF Assign, AssignFails, Receive, EnterYao, Location
      <3>7. ASSUME NEW p \in Party, NEW n \in Bucket, Begin(p, n) \/ RunProtocol(n)
            PROVE  UNCHANGED pc
        BY <3>7 DEF Begin, RunProtocol
      <3>8. CASE UNCHANGED vars
        BY <3>8 DEF vars
      <3> QED BY <1>1, <1>3, <3>1, <3>3, <3>4, <3>5, <3>6, <3>7, <3>8 DEF Next
    <2> QED BY <2>1, <2>2 DEF SeedsDiffer
  <1> QED BY <1>2, <1>3

\* When nobody can proceed both parties have come to the end of their calls.
LEMMA NobodyWaits == IInv /\ SeedsDiffer => NewNeverStuck
  <1> SUFFICES ASSUME IInv, SeedsDiffer, ~ CanProceed, pc[2] # "exit", pc[2] # "undefined"
               PROVE  Ended
    BY DEF NewNeverStuck, Over, IInv, Calls, Links, SeedsDiffer
  <1>0. 1 \in Party /\ 2 \in Party /\ \A p \in Party : p = 1 \/ p = 2
    BY DEF Party
  <1>1. /\ pc[1] \in {"accept", "yao", "ok", "failed"}
        /\ pc[2] \in {"assign", "yao", "ok", "failed"}
        /\ pc[2] = "assign" => wire = "empty"
    <2>1. pc[1] # "buckets" /\ pc[2] # "buckets"
      BY <1>0 DEF CanProceed
    <2>2. pc[1] # "undefined"
      BY DEF IInv, Calls, Links
    <2> QED BY <2>1, <2>2 DEF CanProceed, IInv, NTypeOK
  <1>2. /\ run[1] \in Nat /\ run[2] \in Nat /\ Runs \in Nat /\ run[1] <= Runs /\ run[2] <= Runs
    BY <1>0, NewAssumption DEF IInv, NTypeOK
  <1>3. \A p \in Party : pc[p] \in {"ok", "failed"} => run[p] = Runs
    BY <1>0, <1>2 DEF CanProceed
  <1>4. \A p \in Party : ~ (pc[p] = "yao" /\ AllDone(p))
    BY DEF CanProceed, CanReturn, AllDone
  <1>5. ~ (pc[1] = "yao" /\ pc[2] = "yao")
    <2>1. SUFFICES ASSUME \A p \in Party : pc[p] = "yao" PROVE FALSE
      BY <1>0
    <2>2. \E p \in Party, n \in Bucket : proto[p][n] # "done"
      BY <1>0, <1>4, <2>1 DEF AllDone
    <2>3. PICK n \in Bucket : \A p \in Party : AtTurn(p, n)
      BY <2>1, <2>2, TurnOfOne DEF SomeProtocolCanProceed
    <2>4. \A p \in Party : proto[p][n] # "todo"
      <3>1. SUFFICES ASSUME NEW p \in Party, proto[p][n] = "todo" PROVE CanBegin(p, n)
        BY DEF CanProceed
      <3>2. n \in Nat /\ \A c \in Bucket : c < n => c # n
        BY BucketFacts
      <3> QED BY <2>1, <2>3, <3>1, <3>2 DEF AtTurn, CanBegin
    <2>5. \A p \in Party : proto[p][n] = "running"
      BY <2>3, <2>4 DEF AtTurn, IInv, NTypeOK
    <2> QED BY <2>5 DEF CanProceed, BothRun
  <1>6. run[1] = run[2]
    <2>1. CASE run[1] > run[2]
      <3>1. pc[2] \in {"assign", "yao", "ok", "failed"} /\ (pc[2] = "assign" => wire = "failed")
        BY <1>1, <2>1 DEF IInv, Calls, AheadOne, Early
      <3>2. pc[2] # "yao"
        BY <1>0, <1>4, <2>1 DEF IInv, Threads
      <3> QED BY <1>0, <1>1, <1>2, <1>3, <2>1, <3>1, <3>2
    <2>2. CASE run[2] > run[1]
      BY <1>1, <2>2 DEF IInv, Calls, AheadTwo
    <2> QED BY <1>2, <2>1, <2>2
  <1>7. pc[1] # "accept"
    BY <1>1, <1>6 DEF IInv, Calls, SameCall
  <1>8. pc[1] # "yao" /\ pc[2] # "yao"
    <2>1. pc[1] = "yao" => pc[2] \in {"yao", "ok"}
      BY <1>1, <1>6 DEF IInv, Calls, SameCall, Early
    <2>2. pc[2] = "yao" => pc[1] \in {"yao", "ok"}
      BY <1>1, <1>6 DEF IInv, Calls, SameCall, Early
    <2>3. \A p, q \in Party : p # q /\ pc[p] = "yao" /\ run[q] = run[p] /\ pc[q] = "ok" => AllDone(p)
      BY DEF IInv, Threads
    <2> QED BY <1>0, <1>4, <1>5, <1>6, <2>1, <2>2, <2>3
  <1>9. pc[2] \in {"ok", "failed"}
    BY <1>1, <1>6, <1>7, <1>8 DEF IInv, Calls, SameCall, Early
  <1> QED BY <1>0, <1>1, <1>3, <1>7, <1>8, <1>9 DEF Ended

(***************************************************************************)
(* The two processes of mpfss_new_cuckoo never deadlock, for any number of *)
(* buckets, calls and threads and any distribution of the protocols to     *)
(* them: not in establish_connections, whose loops run independently, nor  *)
(* over the outcome of the assignment, nor in run_exec_yao.                *)
(***************************************************************************)
THEOREM NewNoDeadlock == Spec => []NewNeverStuck
  <1>1. Init => SeedsDiffer
    BY DEF Init, SeedsDiffer
  <1>2. Spec => []SeedsDiffer
    BY <1>1, SeedsStep, NewInvariant, PTL DEF Spec
  <1> QED BY <1>2, NewInvariant, NobodyWaits, PTL

-----------------------------------------------------------------------------
\* The numbers that a party's work is made of, and their bounds.
WorkNumbers ==
  \A p \in Party :
    /\ run[p] \in 1 .. Runs /\ conns[p] \in 0 .. b
    /\ ToRun(p) \in 0 .. 2 * b /\ InCall(p) \in 0 .. CallWork - 1 /\ WorkOf(p) \in Nat

\* The protocols in a state are no more than the buckets.
LEMMA FewProtocols ==
  ASSUME NEW S \in SUBSET Bucket
  PROVE  IsFiniteSet(S) /\ Cardinality(S) \in 0 .. b
  <1>1. b \in Nat /\ IsFiniteSet(Bucket) /\ Cardinality(Bucket) = b
    BY BucketFacts, FS_Interval DEF Bucket
  <1> QED BY <1>1, FS_Subset, FS_CardinalityType

LEMMA WorkBounds == IInv => WorkNumbers
  <1> SUFFICES ASSUME IInv, NEW p \in Party
               PROVE  /\ run[p] \in 1 .. Runs /\ conns[p] \in 0 .. b /\ ToRun(p) \in 0 .. 2 * b
                      /\ InCall(p) \in 0 .. CallWork - 1 /\ WorkOf(p) \in Nat
    BY DEF WorkNumbers
  <1>1. run[p] \in 1 .. Runs /\ conns[p] \in 0 .. b /\ b \in Nat /\ Runs \in Nat
    BY BucketFacts, NewAssumption DEF IInv, NTypeOK
  <1>2. ToRun(p) \in 0 .. 2 * b
    <2> DEFINE S == {n \in Bucket : proto[p][n] = "todo"}
               U == {n \in Bucket : proto[p][n] # "done"}
    <2>1. Cardinality(S) \in 0 .. b /\ Cardinality(U) \in 0 .. b
      BY FewProtocols
    <2>2. ToRun(p) = Cardinality(S) + Cardinality(U)
      BY DEF ToRun
    <2> HIDE DEF S, U
    <2> QED BY <1>1, <2>1, <2>2
  <1>3. ToConnect(p) \in -1 .. 2 * b + 1
    BY <1>1 DEF ToConnect
  <1>4. InCall(p) \in 0 .. CallWork - 1
    BY <1>1, <1>2, <1>3 DEF InCall, CallWork
  <1>5. (Runs - run[p]) * CallWork \in Nat
    BY <1>1 DEF CallWork
  <1> QED BY <1>1, <1>2, <1>4, <1>5 DEF WorkOf

\* In the same call a party's work changes as what is left of the call.
LEMMA WorkInCall ==
  ASSUME WorkNumbers, WorkNumbers', NEW p \in Party, run'[p] = run[p]
  PROVE  /\ InCall(p)' < InCall(p) => WorkOf(p)' < WorkOf(p)
         /\ InCall(p)' = InCall(p) => WorkOf(p)' = WorkOf(p)
  <1> DEFINE Calls0 == (Runs - run[p]) * CallWork
  <1>1. Calls0 \in Int /\ InCall(p) \in Int /\ InCall(p)' \in Int
    BY BucketFacts, NewAssumption DEF WorkNumbers, CallWork
  <1>2. WorkOf(p) = Calls0 + InCall(p)
    BY DEF WorkOf
  <1>3. WorkOf(p)' = Calls0 + InCall(p)'
    BY DEF WorkOf, CallWork
  <1> HIDE DEF Calls0
  <1> QED BY <1>1, <1>2, <1>3

\* The other party, or one that a step leaves where it is.
LEMMA WorkSame ==
  ASSUME WorkNumbers, WorkNumbers', NEW p \in Party,
         pc'[p] = pc[p], run'[p] = run[p], conns'[p] = conns[p], proto'[p] = proto[p]
  PROVE  WorkOf(p)' = WorkOf(p)
  <1>1. ToRun(p)' = ToRun(p) /\ ToConnect(p)' = ToConnect(p)
    BY DEF ToRun, ToConnect
  <1>2. InCall(p)' = InCall(p)
    BY <1>1 DEF InCall
  <1> QED BY <1>2, WorkInCall

\* A protocol that is taken is no longer to do, one that has run is done.
LEMMA LessToRun ==
  ASSUME NEW p \in Party, NEW n \in Bucket, NEW w \in {"running", "done"},
         proto[p] \in [Bucket -> {"todo", "running", "done"}],
         \/ proto[p][n] = "todo" /\ w = "running"
         \/ proto[p][n] = "running" /\ w = "done",
         proto'[p] = [proto[p] EXCEPT ![n] = w]
  PROVE  ToRun(p)' = ToRun(p) - 1
  <1> DEFINE S == {c \in Bucket : proto[p][c] = "todo"}
             U == {c \in Bucket : proto[p][c] # "done"}
  <1>1. S \in SUBSET Bucket /\ U \in SUBSET Bucket
    OBVIOUS
  <1>2. ToRun(p) = Cardinality(S) + Cardinality(U)
    BY DEF ToRun
  <1>3. ToRun(p)' = Cardinality(S') + Cardinality(U')
    BY DEF ToRun
  <1>4. CASE proto[p][n] = "todo"
    <2>1. S' = S \ {n} /\ n \in S /\ U' = U
      BY <1>4
    <2> HIDE DEF S, U
    <2>2. IsFiniteSet(S) /\ Cardinality(S) \in Int /\ Cardinality(U) \in Int
      BY <1>1, FewProtocols
    <2>3. Cardinality(S') = Cardinality(S) - 1
      BY <2>1, <2>2, FS_RemoveElement
    <2> QED BY <1>2, <1>3, <2>1, <2>2, <2>3
  <1>5. CASE proto[p][n] = "running"
    <2>1. U' = U \ {n} /\ n \in U /\ S' = S
      BY <1>5
    <2> HIDE DEF S, U
    <2>2. IsFiniteSet(U) /\ Cardinality(S) \in Int /\ Cardinality(U) \in Int
      BY <1>1, FewProtocols
    <2>3. Cardinality(U') = Cardinality(U) - 1
      BY <2>1, <2>2, FS_RemoveElement
    <2> QED BY <1>2, <1>3, <2>1, <2>2, <2>3
  <1> QED BY <1>4, <1>5

\* Every step lowers the work of a party and raises that of none.
LEMMA WorkStep ==
  ASSUME IInv, WorkNumbers, WorkNumbers', Next, ~ UNCHANGED vars
  PROVE  /\ \A p \in Party : 0 <= WorkOf(p)' /\ WorkOf(p)' <= WorkOf(p)
         /\ \E p \in Party : WorkOf(p)' < WorkOf(p)
  <1> DEFINE Same(q) == /\ pc'[q] = pc[q] /\ run'[q] = run[q]
                        /\ conns'[q] = conns[q] /\ proto'[q] = proto[q]
             Less == /\ \A p \in Party : 0 <= WorkOf(p)' /\ WorkOf(p)' <= WorkOf(p)
                     /\ \E p \in Party : WorkOf(p)' < WorkOf(p)
  <1>0. /\ b \in Nat \ {0} /\ Runs \in Nat /\ 1 \in Party /\ 2 \in Party
        /\ \A p \in Party : p = 1 \/ p = 2
    BY BucketFacts, NewAssumption DEF Party
  <1>1. /\ pc \in [Party -> Location] /\ run \in [Party -> 1 .. Runs] /\ conns \in [Party -> 0 .. b]
        /\ proto \in [Party -> [Bucket -> {"todo", "running", "done"}]]
    BY DEF IInv, PcType, NTypeOK
  <1>2. \A p \in Party : WorkOf(p) \in Nat /\ WorkOf(p)' \in Nat /\ ToRun(p) \in 0 .. 2 * b
                         /\ ToRun(p)' \in 0 .. 2 * b
    BY DEF WorkNumbers
  <1>3. ASSUME NEW p \in Party, WorkOf(p)' < WorkOf(p), \A q \in Party \ {p} : Same(q) PROVE Less
    <2>1. \A q \in Party \ {p} : WorkOf(q)' = WorkOf(q)
      BY <1>3, WorkSame
    <2> QED BY <1>2, <1>3, <2>1
  <1>4. ASSUME NEW p \in Party, UNCHANGED <<run, conns, proto>>, NEW w \in Location,
               pc' = [pc EXCEPT ![p] = w], InCall(p)' < InCall(p)
        PROVE  Less
    <2>1. WorkOf(p)' < WorkOf(p)
      BY <1>4, WorkInCall
    <2> QED BY <1>1, <1>3, <1>4, <2>1
  <1>5. CASE Listen
    <2>1. /\ UNCHANGED <<run, conns, proto>> /\ pc[1] = "listen" /\ pc' = [pc EXCEPT ![1] = "accept"]
          /\ pc'[1] = "accept"
      BY <1>0, <1>1, <1>5 DEF Listen
    <2>2. InCall(1)' < InCall(1)
      BY <1>0, <1>1, <2>1 DEF InCall, ToConnect
    <2> QED BY <1>0, <1>4, <2>1, <2>2 DEF Location
  <1>6. CASE Connect
    <2>1. /\ UNCHANGED <<run, proto>> /\ pc[1] = "accept" /\ pc[2] = "connect" /\ pc'[2] = "sleep"
          /\ pc'[1] = IF conns[1] + 1 < b THEN "listen" ELSE "buckets"
          /\ conns'[1] = conns[1] + 1 /\ conns'[2] = conns[2] + 1
      BY <1>0, <1>6 DEF Connect
    <2>2. conns[1] < b
      <3>1. run[1] \in Int /\ run[2] \in Int
        BY <1>0, <1>1
      <3> QED BY <2>1, <3>1 DEF IInv, Calls, SameCall, AheadOne, AheadTwo, Early
    <2>3. InCall(1)' < InCall(1)
      BY <1>0, <1>1, <2>1, <2>2 DEF InCall, ToConnect
    <2>4. InCall(2)' < InCall(2)
      BY <1>0, <1>1, <2>1 DEF InCall, ToConnect
    <2>5. WorkOf(1)' < WorkOf(1) /\ WorkOf(2)' < WorkOf(2)
      BY <1>0, <2>1, <2>3, <2>4, WorkInCall
    <2> QED BY <1>0, <1>2, <2>5
  <1>7. CASE Refused
    <2>1. /\ UNCHANGED <<run, conns, proto>> /\ pc[2] = "connect" /\ pc' = [pc EXCEPT ![2] = "exit"]
          /\ pc'[2] = "exit"
      BY <1>0, <1>1, <1>7 DEF Refused
    <2>2. InCall(2)' < InCall(2)
      BY <1>0, <1>1, <2>1 DEF InCall, ToConnect
    <2> QED BY <1>0, <1>4, <2>1, <2>2 DEF Location
  <1>8. CASE Wake
    <2>1. /\ UNCHANGED <<run, conns, proto>> /\ pc[2] = "sleep"
          /\ pc' = [pc EXCEPT ![2] = IF conns[2] < b THEN "connect" ELSE "buckets"]
          /\ pc'[2] = IF conns[2] < b THEN "connect" ELSE "buckets"
      BY <1>0, <1>1, <1>8 DEF Wake
    <2>2. InCall(2)' < InCall(2)
      BY <1>0, <1>1, <2>1 DEF InCall, ToConnect
    <2> QED BY <1>0, <1>4, <2>1, <2>2 DEF Location
  <1>9. ASSUME NEW p \in Party, CreateBuckets(p) PROVE Less
    <2>1. /\ UNCHANGED <<run, conns, proto>> /\ pc[p] = "buckets" /\ pc' = [pc EXCEPT ![p] = "assign"]
          /\ pc'[p] = "assign"
      BY <1>1, <1>9 DEF CreateBuckets
    <2>2. InCall(p)' < InCall(p)
      BY <1>0, <2>1 DEF InCall
    <2> QED BY <1>4, <2>1, <2>2 DEF Location
  <1>10. CASE Assign \/ AssignFails \/ Receive
    <2>1. PICK p \in Party, w \in {"yao", "failed"} :
            /\ UNCHANGED <<run, conns, proto>> /\ pc[p] = "assign"
            /\ pc' = [pc EXCEPT ![p] = w] /\ pc'[p] = w
      BY <1>0, <1>1, <1>10 DEF Assign, AssignFails, Receive, EnterYao
    <2>2. ToRun(p)' = ToRun(p)
      BY <2>1 DEF ToRun
    <2>3. InCall(p)' < InCall(p)
      BY <1>0, <1>2, <2>1, <2>2 DEF InCall
    <2> QED BY <1>4, <2>1, <2>3 DEF Location
  <1>11. ASSUME NEW p \in Party, NEW n \in Bucket, Begin(p, n) PROVE Less
    <2>1. /\ UNCHANGED <<pc, run, conns>> /\ pc[p] = "yao" /\ proto[p][n] = "todo"
          /\ proto'[p] = [proto[p] EXCEPT ![n] = "running"]
          /\ \A q \in Party \ {p} : Same(q)
      BY <1>1, <1>11 DEF Begin, CanBegin
    <2>2. ToRun(p)' = ToRun(p) - 1
      BY <1>1, <2>1, LessToRun
    <2>3. InCall(p)' < InCall(p)
      BY <1>2, <2>1, <2>2 DEF InCall
    <2> QED BY <1>3, <2>1, <2>3, WorkInCall
  <1>12. ASSUME NEW p \in Party, NEW n \in Bucket, proto[p][n] = "running"
         PROVE  pc[p] \in {"yao", "undefined"}
    <2>1. proto[p] # Todo
      BY <1>12 DEF Todo
    <2> QED BY <2>1 DEF IInv, Threads
  <1>13. ASSUME NEW n \in Bucket, RunProtocol(n) PROVE Less
    <2>1. /\ UNCHANGED <<pc, run, conns>>
          /\ \A p \in Party : /\ proto[p][n] = "running"
                              /\ proto'[p] = [proto[p] EXCEPT ![n] = "done"]
      BY <1>13 DEF RunProtocol, BothRun
    <2>2. ASSUME NEW p \in Party PROVE WorkOf(p)' < WorkOf(p)
      <3>1. ToRun(p)' = ToRun(p) - 1
        BY <1>1, <2>1, LessToRun
      <3>2. pc[p] \in {"yao", "undefined"}
        BY <1>12, <2>1
      <3>3. InCall(p)' < InCall(p)
        BY <1>2, <2>1, <3>1, <3>2 DEF InCall
      <3> QED BY <2>1, <3>3, WorkInCall
    <2> QED BY <1>0, <1>2, <2>2
  <1>14. ASSUME NEW n \in Bucket, OutOfStep(n), pc' # pc PROVE Less
    <2>1. /\ UNCHANGED <<run, conns, proto>> /\ \A p \in Party : pc'[p] = "undefined"
          /\ \A p \in Party : proto[p][n] = "running"
      BY <1>14 DEF OutOfStep, BothRun
    <2>2. \A p \in Party : pc[p] \in {"yao", "undefined"}
      BY <1>12, <2>1
    <2>3. \A p \in Party : pc[p] = "yao"
      <3>1. SUFFICES ASSUME \E p \in Party : pc[p] = "undefined" PROVE FALSE
        BY <2>2
      <3>2. pc[1] = "undefined" /\ pc[2] = "undefined"
        BY <3>1 DEF IInv, Calls, Links, Party
      <3>3. \A p \in Party : pc'[p] = pc[p]
        BY <2>1, <3>2 DEF Party
      <3>4. pc' \in [Party -> Location]
        BY <1>1, <1>14 DEF OutOfStep, Location
      <3> QED BY <1>1, <1>14, <3>3, <3>4
    <2>4. ASSUME NEW p \in Party PROVE WorkOf(p)' < WorkOf(p)
      <3>1. ToRun(p)' = ToRun(p)
        BY <2>1 DEF ToRun
      <3>2. InCall(p)' < InCall(p)
        BY <1>2, <2>1, <2>3, <3>1 DEF InCall
      <3> QED BY <2>1, <3>2, WorkInCall
    <2> QED BY <1>0, <1>2, <2>4
  <1>15. ASSUME NEW p \in Party, Return(p) PROVE Less
    <2>1. /\ UNCHANGED <<run, conns>> /\ pc[p] = "yao" /\ pc'[p] = "ok"
          /\ \A q \in Party \ {p} : Same(q)
      BY <1>1, <1>15 DEF Return, CanReturn
    <2>2. InCall(p)' < InCall(p)
      BY <1>2, <2>1 DEF InCall
    <2> QED BY <1>3, <2>1, <2>2, WorkInCall
  <1>16. ASSUME NEW p \in Party, NextRun(p) PROVE Less
    <2>1. /\ run'[p] = run[p] + 1 /\ \A q \in Party \ {p} : Same(q)
      BY <1>1, <1>16 DEF NextRun
    <2>2. WorkOf(p) = (Runs - run[p]) * CallWork + InCall(p)
      BY DEF WorkOf
    <2>3. WorkOf(p)' = (Runs - (run[p] + 1)) * CallWork + InCall(p)'
      BY <2>1 DEF WorkOf, CallWork
    <2>4. InCall(p) \in Nat /\ InCall(p)' \in Nat /\ InCall(p)' < CallWork /\ CallWork \in Nat
      BY <1>0 DEF WorkNumbers, CallWork
    <2>5. (Runs - (run[p] + 1)) * CallWork = (Runs - run[p]) * CallWork - CallWork
          /\ (Runs - run[p]) * CallWork \in Int
      <3>1. run[p] \in Int
        BY <1>1
      <3> QED BY <1>0, <2>4, <3>1
    <2>6. WorkOf(p)' < WorkOf(p)
      <3> DEFINE K == (Runs - run[p]) * CallWork
      <3>1. WorkOf(p) = K + InCall(p) /\ WorkOf(p)' = K - CallWork + InCall(p)' /\ K \in Int
        BY <2>2, <2>3, <2>5
      <3> HIDE DEF K
      <3> QED BY <2>4, <3>1
    <2> QED BY <1>3, <2>1, <2>6
  <1>17. ASSUME NEW n \in Bucket, OutOfStep(n) PROVE pc' # pc
    BY <1>17 DEF OutOfStep, vars
  <1> QED BY <1>5, <1>6, <1>7, <1>8, <1>9, <1>10, <1>11, <1>13, <1>14, <1>15,
             <1>16, <1>17 DEF Next

(***************************************************************************)
(* The loops of establish_connections, run_exec_yao and main all end: every*)
(* step lowers a natural number.  With NewNoDeadlock all calls return, but *)
(* for the exceptions in Over, if only the processes keep running.         *)
(***************************************************************************)
THEOREM NewTerminates == Spec => NewProgress
  <1> DEFINE Less == /\ \A p \in Party : 0 <= WorkOf(p)' /\ WorkOf(p)' <= WorkOf(p)
                     /\ \E p \in Party : WorkOf(p)' < WorkOf(p)
             Good == /\ NewNeverStuck'
                     /\ \A p \in Party : 0 <= WorkOf(p)' /\ WorkOf(p)' <= WorkOf(p)
                     /\ \E p \in Party : WorkOf(p)' < WorkOf(p)
  <1>1. IInv /\ WorkNumbers /\ WorkNumbers' /\ [Next]_vars => [Less]_vars
    BY WorkStep
  <1>2. NewNeverStuck' /\ [Less]_vars => [Good]_vars
    OBVIOUS
  <1>3. Spec => []WorkNumbers
    BY NewInvariant, WorkBounds, PTL
  <1> HIDE DEF Less, Good
  <1>4. Spec => [][Good]_vars
    BY <1>1, <1>2, <1>3, NewInvariant, NewNoDeadlock, PTL DEF Spec
  <1> QED BY <1>4 DEF NewProgress, Good

-----------------------------------------------------------------------------
\* What the buckets of a seed are.
LEMMA BucketsOfSeed ==
  ASSUME NEW s \in Seed
  PROVE  IsBuckets(Buckets[s]) /\ DOMAIN Buckets[s] = Bucket
  <1>1. DOMAIN Buckets[s] = Bucket /\ Key \subseteq Nat
    BY BucketAssumption DEF Key
  <1>2. IsFiniteSet(Bucket)
    <2>1. 0 \in Int /\ b - 1 \in Int
      BY BucketFacts
    <2> QED BY <2>1, FS_Interval DEF Bucket
  <1>3. ASSUME NEW n \in Bucket
        PROVE  /\ Buckets[s][n] \in Seq(Nat)
               /\ \A x, z \in DOMAIN Buckets[s][n] : x <= z => Buckets[s][n][x] <= Buckets[s][n][z]
    <2>1. Buckets[s][n] \in Seq(Key)
      BY BucketAssumption
    <2>2. Buckets[s][n] \in Seq(Nat)
      <3>1. Len(Buckets[s][n]) \in Nat /\ Buckets[s][n] \in [1 .. Len(Buckets[s][n]) -> Key]
        BY <2>1
      <3>2. Buckets[s][n] \in [1 .. Len(Buckets[s][n]) -> Nat]
        BY <1>1, <3>1
      <3> QED BY <3>1, <3>2
    <2> QED BY <2>2, BucketAssumption
  <1> QED BY <1>1, <1>2, <1>3 DEF IsBuckets

IndexSet == ImageOf(indices, DOMAIN indices)

\* Both parties are in run_exec_yao of the same call, or have returned from it.
Together ==
  /\ run[1] = run[2] /\ seed[1] = seed[2]
  /\ \A p \in Party : pc[p] \in {"yao", "ok"}

Finished(n) == \E p \in Party : pc[p] = "ok" \/ proto[p][n] = "done"

\* D are the outputs of the DPFs in both parties, also in a party that has
\* put its vector together and freed them.
Evaluated(D, a) ==
  /\ IsAssignment(a, IndexSet, Buckets[seed[1]])
  /\ pc[1] = "yao" => matches = a
  /\ \A n \in Bucket : Finished(n) => SharedIn(D, n, Buckets[seed[1]], a, Betas(y, a))
  /\ \A p \in Party :
       /\ pc[p] = "yao" => dpf[p] = D[p]
       /\ pc[p] = "ok"  => output[p] = [k \in Key |-> XorAt(Buckets[seed[p]], D[p], k)]

SeedInv == \A p \in Party :
  run[p] > 1 \/ pc[p] \in {"assign", "yao", "ok", "failed"} => seed[p] \in Seed

DataInv ==
  /\ \E d : dpf = [p \in Party |-> [n \in Bucket |-> d[p][n]]]
  /\ SeedInv
  /\ pc[1] = "yao" => IsAssignment(matches, IndexSet, Buckets[seed[1]])
  /\ Together => \E a, D : Evaluated(D, a)

\* Nothing is evaluated at first.
LEMMA InitData == Init => DataInv
  <1> SUFFICES ASSUME Init PROVE DataInv
    OBVIOUS
  <1>1. \E d : dpf = [p \in Party |-> [n \in Bucket |-> d[p][n]]]
    <2>1. dpf = [p \in Party |-> [n \in Bucket |-> dpf[p][n]]]
      BY DEF Init, NoDpf
    <2> QED BY <2>1
  <1>2. SeedInv
    BY DEF Init, SeedInv, Party
  <1>3. ~ Together /\ pc[1] # "yao"
    BY DEF Init, Together, Party
  <1> QED BY <1>1, <1>2, <1>3 DEF DataInv

\* The seed is chosen before it is used.
LEMMA SeedStep == IInv /\ SeedInv /\ [Next]_vars => SeedInv'
  <1> SUFFICES ASSUME IInv, SeedInv, [Next]_vars PROVE SeedInv'
    OBVIOUS
  <1> USE DEF IInv, NTypeOK, PcType, Location, Party, SeedInv
  <1>1. CASE Listen \/ Connect \/ Refused \/ Wake
    BY <1>1 DEF Listen, Connect, Refused, Wake, call
  <1>2. ASSUME NEW p \in Party, CreateBuckets(p) PROVE SeedInv'
    BY <1>2, BucketAssumption, NewAssumption DEF CreateBuckets
  <1>3. CASE Assign \/ AssignFails \/ Receive
    BY <1>3 DEF Assign, AssignFails, Receive, EnterYao, call
  <1>4. ASSUME NEW p \in Party, NEW n \in Bucket, Begin(p, n) PROVE SeedInv'
    BY <1>4 DEF Begin, CanBegin, call
  <1>5. ASSUME NEW n \in Bucket, RunProtocol(n) \/ OutOfStep(n) PROVE SeedInv'
    BY <1>5 DEF RunProtocol, BothRun, OutOfStep, call
  <1>6. ASSUME NEW p \in Party, Return(p) PROVE SeedInv'
    BY <1>6 DEF Return, CanReturn, call
  <1>7. ASSUME NEW p \in Party, NextRun(p) PROVE SeedInv'
    BY <1>7, BucketAssumption, NewAssumption DEF NextRun
  <1>8. CASE UNCHANGED vars
    BY <1>8 DEF vars, call
  <1> QED BY <1>1, <1>2, <1>3, <1>4, <1>5, <1>6, <1>7, <1>8 DEF Next

\* The vectors of DPFs always have a place for each bucket.
LEMMA DomainStep ==
  (\E d : dpf = [p \in Party |-> [n \in Bucket |-> d[p][n]]]) /\ [Next]_vars
    => (\E d : dpf = [p \in Party |-> [n \in Bucket |-> d[p][n]]])'
  <1> SUFFICES ASSUME NEW d, dpf = [p \in Party |-> [n \in Bucket |-> d[p][n]]], [Next]_vars
               PROVE  dpf' = [p \in Party |-> [n \in Bucket |-> dpf'[p][n]]]
    OBVIOUS
  <1>1. CASE UNCHANGED dpf
    BY <1>1
  <1>2. ASSUME NEW n \in Bucket, RunProtocol(n)
        PROVE  dpf' = [p \in Party |-> [c \in Bucket |-> dpf'[p][c]]]
    BY <1>2 DEF RunProtocol, BothRun
  <1>3. ASSUME NEW p \in Party, Return(p)
        PROVE  dpf' = [q \in Party |-> [c \in Bucket |-> dpf'[q][c]]]
    BY <1>3 DEF Return, CanReturn, NoDpf
  <1>4. UNCHANGED dpf \/ (\E n \in Bucket : RunProtocol(n)) \/ \E p \in Party : Return(p)
    BY DEF Next, vars, Listen, Connect, Refused, Wake, CreateBuckets, Assign, AssignFails, Receive,
           Begin, OutOfStep, NextRun
  <1> QED BY <1>1, <1>2, <1>3, <1>4

\* Party 1's matches stay an assignment of its indices while it needs them.
LEMMA MatchesStep ==
  ASSUME IInv, DataInv, [Next]_vars, pc'[1] = "yao"
  PROVE  IsAssignment(matches', IndexSet', Buckets[seed'[1]])
  <1> USE DEF IInv, NTypeOK, PcType, Location, Party
  <1>1. CASE Assign
    <2>1. /\ matches' \in [Bucket -> Key \union {-1}] /\ Contract!ValidAssignment(matches')
          /\ UNCHANGED <<indices, seed>>
      BY <1>1 DEF Assign, call
    <2>2. seed[1] \in Seed
      BY <1>1 DEF Assign, DataInv, SeedInv
    <2>3. IsAssignment(matches', IndexSet, Buckets[seed[1]])
      <3>1. /\ \A n \in Bucket : matches'[n] # -1 =>
                   matches'[n] \in IndexSet /\ n \in Home(seed[1])[matches'[n]]
            /\ \A k \in IndexSet : \E n \in Bucket : matches'[n] = k
            /\ \A n, c \in Bucket : matches'[n] = matches'[c] /\ matches'[n] # -1 => n = c
        BY <2>1, BucketAssumption DEF Contract!ValidAssignment, IndexSet, ImageOf, Key
      <3>2. \A n \in Bucket : matches'[n] # -1 =>
              \E x \in DOMAIN Buckets[seed[1]][n] : Buckets[seed[1]][n][x] = matches'[n]
        <4> SUFFICES ASSUME NEW n \in Bucket, matches'[n] # -1
                     PROVE  \E x \in DOMAIN Buckets[seed[1]][n] : Buckets[seed[1]][n][x] = matches'[n]
          OBVIOUS
        <4>1. matches'[n] \in Key
          BY <2>1
        <4>2. n \in Home(seed[1])[matches'[n]]
          BY <3>1
        <4> DEFINE k == matches'[n]
        <4> HIDE DEF k
        <4>3. \E x \in DOMAIN Buckets[seed[1]][n] : Buckets[seed[1]][n][x] = k
          BY <4>1, <4>2 DEF Home, k
        <4> QED BY <4>3 DEF k
      <3>3. DOMAIN Buckets[seed[1]] = Bucket
        BY <2>2, BucketsOfSeed
      <3> QED BY <2>1, <3>1, <3>2, <3>3 DEF IsAssignment
    <2> QED BY <2>1, <2>3 DEF IndexSet
  <1>2. CASE ~ Assign
    <2>1. pc[1] = "yao"
      BY <1>2 DEF Next, vars, Listen, Connect, Refused, Wake, CreateBuckets, AssignFails, Receive,
             EnterYao, Begin, RunProtocol, OutOfStep, Return, NextRun
    <2>2. UNCHANGED <<matches, indices, seed[1]>>
      BY <1>2, <2>1 DEF Next, vars, call, Listen, Connect, Refused, Wake, CreateBuckets, AssignFails,
             Receive, EnterYao, Begin, RunProtocol, OutOfStep, Return, NextRun
    <2> QED BY <2>1, <2>2 DEF DataInv, IndexSet
  <1> QED BY <1>1, <1>2

\* Every step keeps what is evaluated, or evaluates one more bucket.
LEMMA EvaluatedStep ==
  ASSUME IInv, DataInv, [Next]_vars, Together'
  PROVE  (\E a, D : Evaluated(D, a))'
  <1> USE DEF IInv, NTypeOK, PcType, Location, Party
  <1>0. /\ \A p \in Party : pc[p] # "yao" /\ pc[p] # "undefined" => proto[p] = Todo
        /\ 0 \in Bucket
    BY BucketFacts DEF Threads, Bucket
  <1>1. ASSUME NEW n \in Bucket, RunProtocol(n) PROVE (\E a, D : Evaluated(D, a))'
    <2>1. \A p \in Party : proto[p][n] = "running" /\ pc'[p] = pc[p]
      BY <1>1 DEF RunProtocol, BothRun
    <2>2. \A p \in Party : pc[p] = "yao"
      BY <1>0, <2>1 DEF Together, Todo
    <2>3. Together /\ seed[1] \in Seed /\ seed[2] = seed[1]
      BY <1>1, <2>2 DEF Together, RunProtocol, DataInv, SeedInv, call
    <2>4. PICK a, D : Evaluated(D, a)
      BY <2>3 DEF DataInv
    <2>5. a = matches /\ \A p \in Party : dpf[p] = D[p]
      BY <2>2, <2>4 DEF Evaluated
    <2>6. PICK mask \in Mask, stray \in Block :
            dpf' = [p \in Party |-> [dpf[p] EXCEPT ![n] =
              SharesOf(PointOf(BucketOf(1, n), matches[n], BetaOf(y, matches, n), stray), mask)[p]]]
      BY <1>1 DEF RunProtocol, BothRun
    <2>7. \A p \in Party, c \in Bucket : c # n => dpf'[p][c] = D[p][c]
      BY <2>5, <2>6
    <2>8. \A p \in Party : dpf'[p][n] =
            SharesOf(PointOf(Buckets[seed[1]][n], a[n], Betas(y, a)[n], stray), mask)[p]
      BY <2>5, <2>6 DEF DataInv, BucketOf, Betas
    <2>9. a[n] = -1 => Betas(y, a)[n] = Zero
      <3>1. DOMAIN a = Bucket
        BY <2>3, <2>4, BucketsOfSeed DEF Evaluated, IsAssignment
      <3> QED BY <3>1 DEF Betas, BetaOf
    <2>10. SharedIn(dpf', n, Buckets[seed[1]], a, Betas(y, a))
      BY <2>8, <2>9, OutputsShare
    <2>11. \A c \in Bucket : Finished(c)' => c = n \/ Finished(c)
      BY <1>1, <2>1 DEF RunProtocol, BothRun, Finished
    <2>12. \A c \in Bucket : Finished(c)' => SharedIn(dpf', c, Buckets[seed[1]], a, Betas(y, a))
      <3> SUFFICES ASSUME NEW c \in Bucket, Finished(c)', c # n
                   PROVE  SharedIn(dpf', c, Buckets[seed[1]], a, Betas(y, a))
        BY <2>10
      <3>1. dpf'[1][c] = D[1][c] /\ dpf'[2][c] = D[2][c]
        BY <2>7
      <3>2. SharedIn(D, c, Buckets[seed[1]], a, Betas(y, a))
        BY <2>4, <2>11 DEF Evaluated
      <3> QED BY <3>1, <3>2 DEF SharedIn
    <2>13. UNCHANGED <<pc, seed, indices, y, matches>>
      BY <1>1 DEF RunProtocol, BothRun, call
    <2>14. Evaluated(dpf, a)'
      BY <2>2, <2>4, <2>5, <2>12, <2>13 DEF Evaluated, IndexSet
    <2> QED BY <2>14
  <1>2. ASSUME NEW p \in Party, Return(p) PROVE (\E a, D : Evaluated(D, a))'
    <2>1. /\ pc[p] = "yao" /\ \A n \in Bucket : proto[p][n] = "done"
          /\ output' = [output EXCEPT ![p] = [k \in Key |-> XorAt(Buckets[seed[p]], dpf[p], k)]]
          /\ pc' = [pc EXCEPT ![p] = "ok"]
          /\ dpf' = [dpf EXCEPT ![p] = NoDpf]
          /\ matches' = IF p = 1 THEN Unused ELSE matches
          /\ UNCHANGED <<run, seed, indices, y>>
      BY <1>2 DEF Return, CanReturn, Sum, call
    <2>2. Together
      BY <2>1 DEF Together
    <2>3. PICK a, D : Evaluated(D, a)
      BY <2>2 DEF DataInv
    <2>4. \A n \in Bucket : SharedIn(D, n, Buckets[seed[1]], a, Betas(y, a))
      BY <2>1, <2>3 DEF Evaluated, Finished
    <2>5. ASSUME NEW q \in Party
          PROVE  /\ pc'[q] = "yao" => dpf'[q] = D[q]
                 /\ pc'[q] = "ok"  => output'[q] = [k \in Key |-> XorAt(Buckets[seed[q]], D[q], k)]
      <3>1. CASE q = p
        <4>1. pc'[q] = "ok" /\ output'[q] = [k \in Key |-> XorAt(Buckets[seed[p]], dpf[p], k)]
          BY <2>1, <3>1
        <4>2. dpf[p] = D[p]
          BY <2>1, <2>3 DEF Evaluated
        <4> QED BY <3>1, <4>1, <4>2
      <3>2. CASE q # p
        <4>1. pc'[q] = pc[q] /\ output'[q] = output[q]
          BY <2>1, <3>2
        <4>2. dpf'[q] = dpf[q]
          BY <2>1, <3>2 DEF DataInv
        <4> QED BY <2>3, <4>1, <4>2 DEF Evaluated
      <3> QED BY <3>1, <3>2
    <2>6. pc'[1] = "yao" => matches' = a
      BY <2>1, <2>3 DEF Evaluated
    <2>7. Evaluated(D, a)'
      BY <2>1, <2>3, <2>4, <2>5, <2>6 DEF Evaluated, IndexSet
    <2> QED BY <2>7
  <1>3. CASE Receive
    <2>1. pc[2] = "assign" /\ pc'[1] = pc[1] /\ UNCHANGED <<run, seed, indices, y, matches, proto, dpf>>
      BY <1>3 DEF Receive, EnterYao, call
    <2>2. pc[1] = "yao" /\ run[1] = run[2]
      BY <2>1 DEF Together, Calls, SameCall
    <2>3. pc'[2] = "yao"
      BY <1>3 DEF Receive, EnterYao, Together
    <2>4. \A n \in Bucket : proto[1][n] # "done" /\ proto[2][n] = "todo"
      BY <1>0, <2>1, <2>2 DEF Threads, Early, Todo
    <2>5. \A n \in Bucket : ~ Finished(n)'
      BY <2>1, <2>2, <2>3, <2>4 DEF Finished
    <2>6. IsAssignment(matches, IndexSet, Buckets[seed[1]])
      BY <2>2 DEF DataInv
    <2>7. Evaluated(dpf, matches)'
      BY <2>1, <2>2, <2>3, <2>5, <2>6 DEF Evaluated, IndexSet
    <2> QED BY <2>7
  <1>4. ASSUME NEW p \in Party, NEW n \in Bucket, Begin(p, n) PROVE (\E a, D : Evaluated(D, a))'
    <2>1. UNCHANGED <<pc, run, seed, indices, y, matches, dpf, output>>
      BY <1>4 DEF Begin, CanBegin, call
    <2>2. PICK a, D : Evaluated(D, a)
      BY <2>1 DEF Together, DataInv
    <2>3. \A c \in Bucket : Finished(c)' => Finished(c)
      BY <1>4, <2>1 DEF Begin, CanBegin, Finished
    <2>4. Evaluated(D, a)'
      BY <2>1, <2>2, <2>3 DEF Evaluated, IndexSet
    <2> QED BY <2>4
  <1>5. CASE UNCHANGED vars
    <2>1. UNCHANGED <<pc, run, seed, indices, y, matches, proto, dpf, output>>
      BY <1>5 DEF vars, call
    <2>2. PICK a, D : Evaluated(D, a)
      BY <2>1 DEF Together, DataInv
    <2>3. Evaluated(D, a)'
      BY <2>1, <2>2 DEF Evaluated, IndexSet, Finished
    <2> QED BY <2>3
  <1>6. CASE Listen \/ Connect \/ Refused \/ Wake \/ AssignFails
    BY <1>6 DEF Listen, Connect, Refused, Wake, AssignFails, Together
  <1>7. CASE Assign
    BY <1>7 DEF Assign, EnterYao, Together, Calls, SameCall, Early
  <1>8. ASSUME NEW p \in Party, CreateBuckets(p) \/ NextRun(p) PROVE FALSE
    BY <1>8 DEF CreateBuckets, NextRun, Together
  <1>9. ASSUME NEW n \in Bucket, OutOfStep(n) PROVE FALSE
    BY <1>9 DEF OutOfStep, BothRun, Together
  <1> QED BY <1>1, <1>2, <1>3, <1>4, <1>5, <1>6, <1>7, <1>8, <1>9 DEF Next

\* The two inductive invariants together hold.
THEOREM NewDataInvariant == Spec => [](IInv /\ DataInv)
  <1>1. Init => IInv /\ DataInv
    BY InitInv, InitData
  <1>2. IInv /\ DataInv /\ [Next]_vars => DataInv'
    <2> SUFFICES ASSUME IInv, DataInv, [Next]_vars PROVE DataInv'
      OBVIOUS
    <2>1. (\E d : dpf = [p \in Party |-> [n \in Bucket |-> d[p][n]]])'
      BY DomainStep DEF DataInv
    <2>2. SeedInv'
      BY SeedStep DEF DataInv
    <2>3. pc'[1] = "yao" => IsAssignment(matches', IndexSet', Buckets[seed'[1]])
      BY MatchesStep
    <2>4. Together' => (\E a, D : Evaluated(D, a))'
      BY EvaluatedStep
    <2> QED BY <2>1, <2>2, <2>3, <2>4 DEF DataInv
  <1>3. IInv /\ [Next]_vars => IInv'
    BY TypeStep, ControlStep, ThreadsStep DEF IInv
  <1> QED BY <1>1, <1>2, <1>3, PTL DEF Spec

(***************************************************************************)
(* The vectors that the parties return (mpfss_new_cuckoo.h:344-411) combine*)
(* to the function of the indices and values of this call, whatever the    *)
(* assignment, the threads, the masks and the calls before it.             *)
(***************************************************************************)
THEOREM ResultsAlwaysShareFunction == Spec => []ResultsShareFunction
  <1>1. ASSUME IInv, DataInv, Returned PROVE ResultsShareFunction
    <2> USE DEF IInv, NTypeOK, PcType, Location, Party
    <2>1. Together /\ seed[1] = seed[2] /\ pc[1] = "ok" /\ pc[2] = "ok"
      BY <1>1 DEF Returned, Together
    <2>2. PICK a, D : Evaluated(D, a)
      BY <1>1, <2>1 DEF DataInv
    <2>3. seed[1] \in Seed
      BY <1>1, <2>1 DEF DataInv, SeedInv
    <2> DEFINE B == Buckets[seed[1]]
    <2>4. IsAssignment(a, IndexSet, B) /\ IsBuckets(B) /\ DOMAIN B = Bucket
      BY <2>2, <2>3, BucketsOfSeed DEF Evaluated
    <2>5. Complementary(D, B, a, Betas(y, a))
      BY <2>1, <2>2, <2>4 DEF Evaluated, Finished, Complementary
    <2>6. \A p \in Party : output[p] = [k \in Key |-> XorAt(B, D[p], k)]
      BY <2>1, <2>2 DEF Evaluated
    <2>7. /\ t \in Nat \ {0} /\ Key \subseteq Nat
          /\ indices \in [0 .. t - 1 -> Key] /\ InjectiveOn(indices, DOMAIN indices)
      BY <1>1, BucketAssumption DEF Key, Indices, Injective, InjectiveOn
    <2>8. indices \in [0 .. t - 1 -> Nat]
      BY <2>7
    <2>9. AreBlocks(y, t)
      BY <1>1, NewAssumption DEF AreBlocks, Block
    <2> HIDE DEF B
    <2>10. FunctionShared(B, D, indices, y)
      BY <2>4, <2>5, <2>7, <2>8, <2>9, FunctionOfShares, Zenon DEF IndexSet
    <2>11. ASSUME NEW k \in Key \ {indices[j] : j \in DOMAIN indices} PROVE output[1][k] = output[2][k]
      <3>1. k \in Nat \ ImageOf(indices, DOMAIN indices)
        BY <2>7 DEF ImageOf
      <3>2. XorAt(B, D[1], k) = XorAt(B, D[2], k)
        BY <2>10, <3>1 DEF FunctionShared
      <3> QED BY <2>6, <3>2
    <2>12. ASSUME NEW j \in DOMAIN indices
           PROVE  LET r == Rank(indices, j) IN
                  Xor(output[1][indices[j]], output[2][indices[j]]) =
                    {"bit"} \union Xor(y[1][r], y[2][r])
      <3>1. indices[j] \in Key
        BY <2>7
      <3>2. \A p \in Party : output[p][indices[j]] = XorAt(B, D[p], indices[j])
        BY <2>6, <3>1
      <3> QED BY <2>10, <3>2 DEF FunctionShared
    <2> QED BY <2>11, <2>12 DEF ResultsShareFunction
  <1>2. IInv /\ DataInv => ResultsShareFunction
    BY <1>1 DEF ResultsShareFunction
  <1> QED BY NewDataInvariant, <1>2, PTL

=============================================================================
