-------------------------- MODULE WorkQueueProofs --------------------------
(***************************************************************************)
(* Proofs about WorkQueue for every number of workers and of pushes.  The  *)
(* inductive invariant adds to the checked properties which threads the    *)
(* list _workerThreads holds: permanent workers stay in it, and only a     *)
(* temporary worker that timed out has left it.                            *)
(***************************************************************************)
EXTENDS WorkQueue, FiniteSetTheorems, TLAPS

Listed ==
  /\ \A w \in Workers : w \in workerThreads <=> pc[w] \notin {"unborn", "timedout"}
  /\ Cardinality(workerThreads) <= MaximumThreads

PermanentStay == \A w \in Permanent : pc[w] \notin {"unborn", "timedout"}

ExitOnlyDying == \A w \in Workers : pc[w] = "exited" => dying

IndInv ==
  /\ TypeOK
  /\ CountExact
  /\ Listed
  /\ PermanentStay
  /\ ExitOnlyDying
  /\ NoStrandedWork

\* The workers are finitely many, so every set of them has a cardinality.
LEMMA WorkersFinite == IsFiniteSet(Workers)
  BY WorkersAssumption, FS_Union, Zenon DEF Workers

\* A set of workers that differs from another by one member differs in
\* cardinality by one.
LEMMA OneMore ==
  ASSUME NEW S \in SUBSET Workers, NEW w \in Workers, w \notin S
  PROVE  /\ Cardinality(S) \in Nat
         /\ Cardinality(S \cup {w}) = Cardinality(S) + 1
  <1>1. IsFiniteSet(S)
    BY WorkersFinite, FS_Subset
  <1> QED
    BY <1>1, FS_AddElement, FS_CardinalityType

\* The state the constructor leaves satisfies the invariant.
LEMMA InitInv == Init => IndInv
  <1> SUFFICES ASSUME Init PROVE IndInv
    OBVIOUS
  <1> USE DEF Init
  <1>1. TypeOK
    <2>1. pc \in [Workers -> {"unborn", "start", "waiting", "running", "timedout", "exited"}]
      OBVIOUS
    <2>2. workerThreads \in SUBSET Workers
      BY DEF Workers
    <2>3. item \in [Workers -> Nat]
      BY DEF NoItem
    <2>4. workItems \in Seq(Nat)
      OBVIOUS
    <2>5. dying \in BOOLEAN /\ notified \in SUBSET Workers
      BY Zenon
    <2> QED
      BY <2>1, <2>2, <2>3, <2>4, <2>5 DEF TypeOK
  <1>2. CountExact
    <2>1. Waiting \cup TimedOut = {}
      BY DEF Waiting, TimedOut
    <2> QED
      BY <2>1, FS_EmptySet DEF CountExact
  <1>3. Listed
    BY WorkersAssumption, FS_CardinalityType DEF Listed, Workers
  <1> QED
    BY <1>1, <1>2, <1>3 DEF IndInv, PermanentStay, ExitOnlyDying, NoStrandedWork, Workers

\* A worker that takes an item leaves the count it was in, and is awake.
LEMMA TakeInv ==
  ASSUME IndInv, NEW w \in Workers, NEW available,
         \/ pc[w] = "start" /\ available = threadsAvailable + 1
         \/ pc[w] = "waiting" /\ available = threadsAvailable,
         TakeItem(w, available), notified' \in SUBSET Workers,
         UNCHANGED <<notifies, pushed>>
  PROVE  IndInv'
  <1> USE DEF IndInv, TypeOK, TakeItem
  <1>1. CountExact' /\ threadsAvailable' \in Nat
    <2>1. CASE pc[w] = "start"
      <3>1. (Waiting \cup TimedOut)' = Waiting \cup TimedOut
        BY <2>1 DEF Waiting, TimedOut
      <3>2. available = threadsAvailable + 1
        BY <2>1
      <3>3. threadsAvailable' = threadsAvailable
        BY <3>2
      <3> QED
        BY <3>1, <3>3, Zenon DEF CountExact
    <2>2. CASE pc[w] = "waiting"
      <3> DEFINE S == (Waiting \cup TimedOut)'
      <3>1. Waiting \cup TimedOut = S \cup {w} /\ w \notin S /\ S \in SUBSET Workers
        BY <2>2 DEF Waiting, TimedOut
      <3>2. Cardinality(S) \in Nat /\ Cardinality(S \cup {w}) = Cardinality(S) + 1
        BY <3>1, OneMore, Zenon
      <3>3. threadsAvailable' = threadsAvailable - 1
        BY <2>2
      <3>4. threadsAvailable = Cardinality(S) + 1
        BY <3>1, <3>2, Zenon DEF CountExact
      <3> QED
        BY <3>2, <3>3, <3>4 DEF CountExact
    <2> QED
      BY <2>1, <2>2
  <1>2. item' \in [Workers -> Nat] /\ workItems' \in Seq(Nat)
    OBVIOUS
  <1>3. TypeOK'
    BY <1>1, <1>2, Zenon
  <1>4. Listed'
    BY Zenon DEF Listed
  <1>5. PermanentStay' /\ ExitOnlyDying'
    BY DEF PermanentStay, ExitOnlyDying
  <1>6. NoStrandedWork'
    BY DEF NoStrandedWork, Awake
  <1> QED
    BY <1>1, <1>3, <1>4, <1>5, <1>6, Zenon

\* A worker that exits because the queue is dying leaves the count it was in.
LEMMA ExitInv ==
  ASSUME IndInv, NEW w \in Workers, NEW available,
         \/ pc[w] = "start" /\ available = threadsAvailable + 1
         \/ pc[w] = "waiting" /\ available = threadsAvailable,
         Exit(w, available), notified' \in SUBSET Workers,
         UNCHANGED <<notifies, pushed>>
  PROVE  IndInv'
  <1> USE DEF IndInv, TypeOK, Exit
  <1>1. CountExact' /\ threadsAvailable' \in Nat
    <2>1. CASE pc[w] = "start"
      <3>1. (Waiting \cup TimedOut)' = Waiting \cup TimedOut
        BY <2>1 DEF Waiting, TimedOut
      <3>2. available = threadsAvailable + 1
        BY <2>1
      <3>3. threadsAvailable' = threadsAvailable
        BY <3>2
      <3> QED
        BY <3>1, <3>3, Zenon DEF CountExact
    <2>2. CASE pc[w] = "waiting"
      <3> DEFINE S == (Waiting \cup TimedOut)'
      <3>1. Waiting \cup TimedOut = S \cup {w} /\ w \notin S /\ S \in SUBSET Workers
        BY <2>2 DEF Waiting, TimedOut
      <3>2. Cardinality(S) \in Nat /\ Cardinality(S \cup {w}) = Cardinality(S) + 1
        BY <3>1, OneMore, Zenon
      <3>3. threadsAvailable' = threadsAvailable - 1
        BY <2>2
      <3>4. threadsAvailable = Cardinality(S) + 1
        BY <3>1, <3>2, Zenon DEF CountExact
      <3> QED
        BY <3>2, <3>3, <3>4 DEF CountExact
    <2> QED
      BY <2>1, <2>2
  <1>2. TypeOK'
    BY <1>1
  <1>3. Listed'
    BY Zenon DEF Listed
  <1>4. PermanentStay' /\ ExitOnlyDying' /\ NoStrandedWork'
    BY DEF PermanentStay, ExitOnlyDying, NoStrandedWork
  <1> QED
    BY <1>1, <1>2, <1>3, <1>4, Zenon

\* Each critical section, wake-up and return preserves the invariant.
LEMMA StepInv == IndInv /\ [Next]_vars => IndInv'
  <1> SUFFICES ASSUME IndInv, [Next]_vars PROVE IndInv'
    OBVIOUS
  <1> USE DEF IndInv, TypeOK
  <1>a. Workers = Permanent \cup Temporary
    BY DEF Workers
  <1>b. Waiting \cup TimedOut \in SUBSET Workers
    BY DEF Waiting, TimedOut
  <1>1. CASE PushAndSpawn
    <2>1. PICK w \in Temporary : /\ pc[w] = "unborn"
                                /\ pc' = [pc EXCEPT ![w] = "start"]
                                /\ workerThreads' = workerThreads \cup {w}
      BY <1>1, Zenon DEF PushAndSpawn
    <2> USE <1>a
    <2>2. TypeOK'
      BY <1>1, <2>1 DEF PushAndSpawn, PushItem
    <2>3. CountExact'
      <3>1. (Waiting \cup TimedOut)' = Waiting \cup TimedOut
        BY <2>1 DEF Waiting, TimedOut
      <3> QED
        BY <1>1, <3>1, Zenon DEF CountExact, PushAndSpawn, PushItem
    <2>4. Listed'
      <3>1. Cardinality(workerThreads) < MaximumThreads
        BY <1>1 DEF PushAndSpawn, ShouldSpawn
      <3>2. w \notin workerThreads
        BY <2>1 DEF Listed
      <3>3. Cardinality(workerThreads') <= MaximumThreads
        BY <2>1, <3>1, <3>2, OneMore, WorkersAssumption
      <3> QED
        BY <2>1, <3>3 DEF Listed
    <2>5. PermanentStay' /\ ExitOnlyDying'
      BY <1>1, <2>1 DEF PermanentStay, ExitOnlyDying, PushAndSpawn, PushItem
    <2>6. NoStrandedWork'
      BY <2>1 DEF NoStrandedWork, Awake
    <2> QED
      BY <2>2, <2>3, <2>4, <2>5, <2>6
  <1>2. CASE PushAndUnlock
    <2> USE <1>2 DEF PushAndUnlock, PushItem
    <2>1. (Waiting \cup TimedOut)' = Waiting \cup TimedOut
      BY DEF Waiting, TimedOut
    <2>2. CountExact'
      BY <2>1, Zenon DEF CountExact
    <2>3. Listed' /\ PermanentStay' /\ ExitOnlyDying'
      BY DEF Listed, PermanentStay, ExitOnlyDying
    <2>4. NoStrandedWork'
      BY DEF NoStrandedWork
    <2>5. workItems' \in Seq(Nat) /\ pushed' \in Nat /\ notifies' \in Nat
      OBVIOUS
    <2>6. TypeOK'
      BY <2>5
    <2> QED
      BY <2>2, <2>3, <2>4, <2>6
  <1>3. CASE NotifyOne
    <2> USE <1>3 DEF NotifyOne
    <2>1. (Waiting \cup TimedOut)' = Waiting \cup TimedOut
      BY DEF Waiting, TimedOut
    <2>2. TypeOK'
      <3>1. notifies' \in Nat
        OBVIOUS
      <3>2. notified' \in SUBSET Workers
        BY DEF Waiting
      <3> QED
        BY <3>1, <3>2
    <2>3. CountExact'
      BY <2>1, Zenon DEF CountExact
    <2>4. Listed' /\ PermanentStay' /\ ExitOnlyDying'
      BY DEF Listed, PermanentStay, ExitOnlyDying
    <2>5. NoStrandedWork'
      <3>1. PICK p \in Permanent : TRUE
        BY WorkersAssumption
      <3>2. pc[p] \in {"start", "waiting", "running", "exited"} /\ p \in Workers
        BY <1>a DEF PermanentStay
      <3>3. CASE Waiting \subseteq notified /\ UNCHANGED notified
        BY <3>2, <3>3 DEF NoStrandedWork, Awake, Waiting, ExitOnlyDying
      <3>4. CASE \E w \in Waiting \ notified : notified' = notified \cup {w}
        BY <3>4 DEF NoStrandedWork, Awake, Waiting
      <3> QED
        BY <3>3, <3>4
    <2> QED
      BY <2>2, <2>3, <2>4, <2>5
  <1>4. CASE Destroy
    <2> USE <1>4 DEF Destroy
    <2>1. (Waiting \cup TimedOut)' = Waiting \cup TimedOut
      BY DEF Waiting, TimedOut
    <2>2. TypeOK' /\ CountExact'
      BY <2>1, Zenon DEF CountExact, Waiting
    <2> QED
      BY <2>2 DEF Listed, PermanentStay, ExitOnlyDying, NoStrandedWork
  <1>5. ASSUME NEW w \in Workers, Enter(w) PROVE IndInv'
    <2>1. CASE TakeItem(w, threadsAvailable + 1)
      BY <1>5, <2>1, TakeInv, Zenon DEF Enter
    <2>2. CASE Exit(w, threadsAvailable + 1)
      BY <1>5, <2>2, ExitInv, Zenon DEF Enter
    <2>3. CASE /\ ~dying /\ workItems = <<>>
               /\ threadsAvailable' = threadsAvailable + 1
               /\ pc' = [pc EXCEPT ![w] = "waiting"]
               /\ UNCHANGED <<workItems, workerThreads, dying, item>>
      <3> USE <1>5, <2>3 DEF Enter
      <3>1. (Waiting \cup TimedOut)' = (Waiting \cup TimedOut) \cup {w}
        BY DEF Waiting, TimedOut
      <3>2. w \notin Waiting \cup TimedOut
        BY DEF Waiting, TimedOut
      <3>3. CountExact'
        BY <1>b, <3>1, <3>2, OneMore, Zenon DEF CountExact
      <3>4. TypeOK'
        OBVIOUS
      <3> QED
        BY <3>3, <3>4 DEF Listed, PermanentStay, ExitOnlyDying, NoStrandedWork
    <2> QED
      BY <1>5, <2>1, <2>2, <2>3 DEF Enter
  <1>6. ASSUME NEW w \in Workers, Wake(w) PROVE IndInv'
    <2>1. CASE TakeItem(w, threadsAvailable)
      BY <1>6, <2>1, TakeInv, Zenon DEF Wake
    <2>2. CASE Exit(w, threadsAvailable)
      BY <1>6, <2>2, ExitInv, Zenon DEF Wake
    <2>3. CASE /\ ~dying /\ workItems = <<>>
               /\ UNCHANGED <<workItems, threadsAvailable, workerThreads, dying, pc, item>>
      <3> USE <1>6, <2>3 DEF Wake
      <3>1. (Waiting \cup TimedOut)' = Waiting \cup TimedOut
        BY DEF Waiting, TimedOut
      <3>2. TypeOK' /\ CountExact'
        BY <3>1, Zenon DEF CountExact
      <3> QED
        BY <3>2 DEF Listed, PermanentStay, ExitOnlyDying, NoStrandedWork
    <2> QED
      BY <1>6, <2>1, <2>2, <2>3, Zenon DEF Wake
  <1>7. ASSUME NEW w \in Workers, TimeOut(w) PROVE IndInv'
    <2>1. CASE TakeItem(w, threadsAvailable)
      BY <1>7, <2>1, TakeInv DEF TimeOut
    <2>2. CASE Exit(w, threadsAvailable)
      BY <1>7, <2>2, ExitInv, Zenon DEF TimeOut
    <2>3. CASE /\ ~dying /\ workItems = <<>>
               /\ pc' = [pc EXCEPT ![w] = "timedout"]
               /\ workerThreads' = workerThreads \ {w}
               /\ UNCHANGED <<workItems, threadsAvailable, dying, item>>
      <3> USE <1>7, <2>3 DEF TimeOut
      <3>1. (Waiting \cup TimedOut)' = Waiting \cup TimedOut
        BY Zenon DEF Waiting, TimedOut
      <3>2. TypeOK' /\ CountExact'
        BY <3>1, Zenon DEF CountExact
      <3>3. Cardinality(workerThreads') <= Cardinality(workerThreads)
        BY WorkersFinite, FS_Subset
      <3>4. Cardinality(workerThreads') \in Nat /\ Cardinality(workerThreads) \in Nat
        BY WorkersFinite, FS_Subset, FS_CardinalityType
      <3>5. Listed'
        BY <3>3, <3>4, WorkersAssumption DEF Listed
      <3>6. PermanentStay'
        BY WorkersAssumption, <1>a, Zenon DEF PermanentStay
      <3> QED
        BY <3>2, <3>5, <3>6, Zenon DEF ExitOnlyDying, NoStrandedWork
    <2> QED
      BY <1>7, <2>1, <2>2, <2>3 DEF TimeOut
  <1>8. ASSUME NEW w \in Workers, FinishItem(w) PROVE IndInv'
    <2> USE <1>8 DEF FinishItem
    <2>1. (Waiting \cup TimedOut)' = Waiting \cup TimedOut
      BY DEF Waiting, TimedOut
    <2>2. TypeOK' /\ CountExact'
      BY <2>1, Zenon DEF CountExact, NoItem
    <2>3. NoStrandedWork'
      BY Zenon DEF NoStrandedWork, Awake
    <2> QED
      BY <2>2, <2>3 DEF Listed, PermanentStay, ExitOnlyDying
  <1>9. CASE UNCHANGED vars
    <2> USE <1>9 DEF vars
    <2>1. (Waiting \cup TimedOut)' = Waiting \cup TimedOut
      BY DEF Waiting, TimedOut
    <2>2. TypeOK' /\ CountExact'
      BY <2>1, Zenon DEF CountExact
    <2> QED
      BY <2>2, Zenon DEF Listed, PermanentStay, ExitOnlyDying, NoStrandedWork, Awake
  <1>10. CASE Destroyed
    BY <1>9, <1>10 DEF Destroyed
  <1> QED
    BY <1>1, <1>2, <1>3, <1>4, <1>5, <1>6, <1>7, <1>8, <1>9, <1>10, Zenon DEF Next

\* IndInv is an invariant of the pool.
THEOREM PoolInvariant == Spec => []IndInv
  BY InitInv, StepInv, PTL DEF Spec

\* The fields of the pool keep their types; in particular the unsigned count
\* _threadsAvailable is never decremented below zero.
THEOREM TypeCorrect == Spec => []TypeOK
  <1>1. IndInv => TypeOK
    BY DEF IndInv
  <1> QED
    BY <1>1, PoolInvariant, PTL

\* However many workers and pushes there are, an item in _workItems always has
\* a worker or a notification on its way to it.
THEOREM WorkNeverStranded == Spec => []NoStrandedWork
  <1>1. IndInv => NoStrandedWork
    BY DEF IndInv
  <1> QED
    BY <1>1, PoolInvariant, PTL

\* _threadsAvailable exceeds the number of waiting workers by exactly the
\* number of temporary workers that have timed out.
THEOREM CountIsExact == Spec => []CountExact
  <1>1. IndInv => CountExact
    BY Zenon DEF IndInv
  <1> QED
    BY <1>1, PoolInvariant, PTL

\* The pool never holds more than maximumThreads() live workers.
THEOREM PoolIsBounded == Spec => []PoolBounded
  <1>1. IndInv => PoolBounded
    <2> SUFFICES ASSUME IndInv PROVE PoolBounded
      OBVIOUS
    <2> DEFINE L == {w \in Workers : pc[w] \in {"start", "waiting", "running"}}
    <2>1. L \subseteq workerThreads /\ workerThreads \subseteq Workers
      BY Zenon DEF IndInv, TypeOK, Listed
    <2>2. /\ Cardinality(L) <= Cardinality(workerThreads)
          /\ Cardinality(L) \in Nat /\ Cardinality(workerThreads) \in Nat
      BY <2>1, WorkersFinite, FS_Subset, FS_CardinalityType, Zenon
    <2> QED
      BY <2>2, WorkersAssumption DEF IndInv, Listed, PoolBounded
  <1> QED
    BY <1>1, PoolInvariant, PTL
=============================================================================
