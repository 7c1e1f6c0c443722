------------------------- MODULE KernelAsyncProofs -------------------------
(***************************************************************************)
(* Proofs about the pool of kernel microthreads, for any jobs, runners and *)
(* limits.  The types, the count of available runners and the units of the *)
(* semaphore have to be proved together: that the unsigned count does not  *)
(* wrap below zero follows from its being exact.                           *)
(***************************************************************************)
EXTENDS KernelAsync, FiniteSetTheorems, TLAPS

\* The runners that are, in p, at one of the places S.
Among(p, S) == {r \in Runners : p[r] \in S}

WaitPlaces == {"down", "wait", "take", "lost", "interrupted"}
\* Where a runner has been given a unit and has not taken its job.
UnitPlaces == {"take", "lost"}
Places == {"none", "start", "down", "wait", "take", "lost", "interrupted", "run", "dying"}

\* A runner that runs has a job.
RunHasJob == \A r \in Runners : pc[r] = "run" => job[r] \in AllJobs

\* While the semaphore has units nobody waits for one.
NoneWaits == semaphore > 0 => \A r \in Runners : pc[r] # "wait"

CountInv == TypeOK /\ RunHasJob /\ NoneWaits /\ AvailableExact /\ WakeupPerJob

\* Sets of runners are finite.
LEMMA AmongFinite ==
  ASSUME NEW p, NEW S
  PROVE  IsFiniteSet(Among(p, S)) /\ Cardinality(Among(p, S)) \in Nat
<1>1. IsFiniteSet(Among(p, S))
  BY KernelAsyncAssumption, FS_Subset, Zenon DEF Among
<1> QED
  BY <1>1, FS_CardinalityType

\* From p to q only the runner r moves.
Moves(p, q, r) == \A x \in Runners \ {r} : q[x] = p[x]

\* A step of one runner that neither enters nor leaves S.
LEMMA Aside ==
  ASSUME NEW p, NEW q, NEW S, NEW r \in Runners, Moves(p, q, r), p[r] \in S <=> q[r] \in S
  PROVE  Among(q, S) = Among(p, S)
  BY DEF Among, Moves

\* A runner that enters S adds one.
LEMMA Enters ==
  ASSUME NEW p, NEW q, NEW S, NEW r \in Runners, Moves(p, q, r), p[r] \notin S, q[r] \in S
  PROVE  Cardinality(Among(q, S)) = Cardinality(Among(p, S)) + 1
<1>1. Among(q, S) = Among(p, S) \cup {r} /\ r \notin Among(p, S)
  BY DEF Among, Moves
<1> QED
  BY <1>1, AmongFinite, FS_AddElement, Zenon

\* A runner that leaves S takes one away.
LEMMA Leaves ==
  ASSUME NEW p, NEW q, NEW S, NEW r \in Runners, Moves(p, q, r), p[r] \in S, q[r] \notin S
  PROVE  Cardinality(Among(q, S)) = Cardinality(Among(p, S)) - 1
<1>1. Among(q, S) = Among(p, S) \ {r} /\ r \in Among(p, S)
  BY DEF Among, Moves
<1> QED
  BY <1>1, AmongFinite, FS_RemoveElement, Zenon

\* Where there is a runner the count is not zero.
LEMMA SomeRunner ==
  ASSUME NEW p, NEW S, NEW r \in Runners, p[r] \in S
  PROVE  Cardinality(Among(p, S)) >= 1
<1>1. r \in Among(p, S) /\ IsFiniteSet(Among(p, S)) /\ Cardinality(Among(p, S)) \in Nat
  BY AmongFinite, Zenon DEF Among
<1>2. Cardinality(Among(p, S)) # 0
  BY <1>1, FS_EmptySet
<1> QED
  BY <1>1, <1>2

\* The two counts in terms of Among.
LEMMA Counts ==
  /\ AvailableExact <=> available = Cardinality(Among(pc, WaitPlaces))
  /\ WakeupPerJob <=> Len(queue) = semaphore + ups + Cardinality(Among(pc, UnitPlaces))
  BY DEF AvailableExact, WakeupPerJob, Among, At, WaitPlaces, UnitPlaces

\* Before the first job there is no runner and nothing queued.
LEMMA CountInit == Init => CountInv
<1> SUFFICES ASSUME Init PROVE CountInv OBVIOUS
<1>0. MaxInterrupts \in Nat
  BY KernelAsyncAssumption, Zenon
<1>1. TypeOK /\ RunHasJob /\ NoneWaits
  <2>1. TypeOK
    BY <1>0 DEF Init, TypeOK
  <2>2. RunHasJob /\ NoneWaits
    BY DEF Init, RunHasJob, NoneWaits
  <2> QED BY <2>1, <2>2
<1>2. Among(pc, WaitPlaces) = {} /\ Among(pc, UnitPlaces) = {}
  BY DEF Init, Among, WaitPlaces, UnitPlaces
<1>3. Cardinality(Among(pc, WaitPlaces)) = 0 /\ Cardinality(Among(pc, UnitPlaces)) = 0
  BY <1>2, FS_EmptySet
<1>4. available = 0 /\ semaphore = 0 /\ ups = 0 /\ Len(queue) = 0
  BY DEF Init
<1>5. AvailableExact
  BY <1>3, <1>4, Counts
<1>6. WakeupPerJob
  <2>1. Len(queue) = semaphore + ups + Cardinality(Among(pc, UnitPlaces))
    BY <1>3, <1>4
  <2> QED
    BY <2>1, Counts
<1> QED
  BY <1>1, <1>5, <1>6 DEF CountInv

\* kernelAsync's section: one more job, one more unit to come, and whoever starts does
\* not count yet.
LEMMA SubmitCounts ==
  ASSUME CountInv, NEW j \in AllJobs, NEW p \in [Runners -> Places],
         Among(p, WaitPlaces) = Among(pc, WaitPlaces), Among(p, UnitPlaces) = Among(pc, UnitPlaces),
         Submit(j, p), UNCHANGED <<available, semaphore>>
  PROVE  /\ queue' \in Seq(AllJobs) /\ ups' \in Nat /\ permanent' \subseteq Runners
         /\ pc' \in [Runners -> Places]
         /\ AvailableExact' /\ WakeupPerJob'
<1>1. queue' = Append(queue, j) /\ queue \in Seq(AllJobs) /\ ups' = ups + 1 /\ ups \in Nat
  BY DEF Submit, CountInv, TypeOK
<1>2. queue' \in Seq(AllJobs) /\ Len(queue') = Len(queue) + 1
  BY <1>1
<1>3. \/ pc' = p /\ permanent' = permanent
      \/ \E r \in Runners : /\ p[r] = "none" /\ pc' = [p EXCEPT ![r] = "start"]
                            /\ permanent' \subseteq permanent \cup {r}
  BY DEF Submit
<1>4. /\ pc' \in [Runners -> Places] /\ permanent' \subseteq Runners
      /\ Among(pc', WaitPlaces) = Among(p, WaitPlaces) /\ Among(pc', UnitPlaces) = Among(p, UnitPlaces)
  <2>1. CASE pc' = p /\ permanent' = permanent
    BY <2>1 DEF CountInv, TypeOK
  <2>2. CASE \E r \in Runners : /\ p[r] = "none" /\ pc' = [p EXCEPT ![r] = "start"]
                                /\ permanent' \subseteq permanent \cup {r}
    <3>1. PICK r \in Runners : /\ p[r] = "none" /\ pc' = [p EXCEPT ![r] = "start"]
                               /\ permanent' \subseteq permanent \cup {r}
      BY <2>2, Zenon
    <3>2. Among(pc', WaitPlaces) = Among(p, WaitPlaces)
      BY <3>1 DEF Among, WaitPlaces
    <3>3. Among(pc', UnitPlaces) = Among(p, UnitPlaces)
      BY <3>1 DEF Among, UnitPlaces
    <3>4. pc' \in [Runners -> Places] /\ permanent' \subseteq Runners
      BY <3>1 DEF Places, CountInv, TypeOK
    <3> QED
      BY <3>2, <3>3, <3>4
  <2> QED
    BY <1>3, <2>1, <2>2
<1>5. available = Cardinality(Among(pc, WaitPlaces))
      /\ Len(queue) = semaphore + ups + Cardinality(Among(pc, UnitPlaces))
  BY Counts DEF CountInv
<1>6. Cardinality(Among(pc, UnitPlaces)) \in Nat /\ semaphore \in Nat
  BY AmongFinite DEF CountInv, TypeOK
<1>7. available' = Cardinality(Among(pc', WaitPlaces))
  BY <1>4, <1>5
<1>8. Len(queue') = semaphore' + ups' + Cardinality(Among(pc', UnitPlaces))
  BY <1>1, <1>2, <1>4, <1>5, <1>6
<1>9. AvailableExact' /\ WakeupPerJob'
  BY <1>7, <1>8, Zenon DEF AvailableExact, WakeupPerJob, Among, At, WaitPlaces, UnitPlaces
<1> QED
  BY <1>1, <1>2, <1>4, <1>9

\* A step of one runner from one place to another keeps the counts if available and the
\* semaphore's side of WakeupPerJob follow the runner's membership.
LEMMA MoveCounts ==
  ASSUME CountInv, NEW r \in Runners, NEW v \in Places, pc' = [pc EXCEPT ![r] = v],
         queue' \in Seq(AllJobs), semaphore' \in Nat, ups' \in Nat,
         \/ (pc[r] \in WaitPlaces <=> v \in WaitPlaces) /\ available' = available
         \/ pc[r] \notin WaitPlaces /\ v \in WaitPlaces /\ available' = available + 1
         \/ pc[r] \in WaitPlaces /\ v \notin WaitPlaces /\ available' = available - 1,
         \/ /\ pc[r] \in UnitPlaces <=> v \in UnitPlaces
            /\ Len(queue') = Len(queue) /\ semaphore' = semaphore /\ ups' = ups
         \/ /\ pc[r] \notin UnitPlaces /\ v \in UnitPlaces
            /\ Len(queue') = Len(queue) /\ semaphore' = semaphore - 1 /\ ups' = ups
         \/ /\ pc[r] \notin UnitPlaces /\ v \in UnitPlaces
            /\ Len(queue') = Len(queue) /\ semaphore' = semaphore /\ ups' = ups - 1
         \/ /\ pc[r] \in UnitPlaces /\ v \notin UnitPlaces
            /\ Len(queue') = Len(queue) - 1 /\ semaphore' = semaphore /\ ups' = ups
  PROVE  AvailableExact' /\ WakeupPerJob' /\ available' \in Nat /\ pc' \in [Runners -> Places]
<1>1. pc \in [Runners -> Places] /\ available \in Nat /\ semaphore \in Nat /\ ups \in Nat
  BY DEF CountInv, TypeOK, Places
<1>2. available = Cardinality(Among(pc, WaitPlaces))
      /\ Len(queue) = semaphore + ups + Cardinality(Among(pc, UnitPlaces))
  BY Counts DEF CountInv
<1>3. Moves(pc, pc', r) /\ pc'[r] = v
  BY <1>1 DEF Moves
<1>4. /\ Cardinality(Among(pc, UnitPlaces)) \in Nat /\ Cardinality(Among(pc', UnitPlaces)) \in Nat
      /\ Cardinality(Among(pc', WaitPlaces)) \in Nat
  BY AmongFinite
<1>5. available' = Cardinality(Among(pc', WaitPlaces))
  <2>1. CASE (pc[r] \in WaitPlaces <=> v \in WaitPlaces) /\ available' = available
    <3>1. Among(pc', WaitPlaces) = Among(pc, WaitPlaces)
      BY <2>1, <1>3, Aside, Zenon
    <3> QED
      BY <3>1, <2>1, <1>2
  <2>2. CASE pc[r] \notin WaitPlaces /\ v \in WaitPlaces /\ available' = available + 1
    <3>1. Cardinality(Among(pc', WaitPlaces)) = Cardinality(Among(pc, WaitPlaces)) + 1
      BY <2>2, <1>3, Enters, Zenon
    <3> QED
      BY <3>1, <2>2, <1>2
  <2>3. CASE pc[r] \in WaitPlaces /\ v \notin WaitPlaces /\ available' = available - 1
    <3>1. Cardinality(Among(pc', WaitPlaces)) = Cardinality(Among(pc, WaitPlaces)) - 1
      BY <2>3, <1>3, Leaves, Zenon
    <3> QED
      BY <3>1, <2>3, <1>2
  <2> QED
    BY <2>1, <2>2, <2>3
<1>6. Len(queue') = semaphore' + ups' + Cardinality(Among(pc', UnitPlaces))
  <2>1. CASE /\ pc[r] \in UnitPlaces <=> v \in UnitPlaces
             /\ Len(queue') = Len(queue) /\ semaphore' = semaphore /\ ups' = ups
    <3>1. Among(pc', UnitPlaces) = Among(pc, UnitPlaces)
      BY <2>1, <1>3, Aside, Zenon
    <3> QED
      BY <3>1, <2>1, <1>2
  <2>2. CASE /\ pc[r] \notin UnitPlaces /\ v \in UnitPlaces
             /\ Len(queue') = Len(queue) /\ semaphore' = semaphore - 1 /\ ups' = ups
    <3>1. Cardinality(Among(pc', UnitPlaces)) = Cardinality(Among(pc, UnitPlaces)) + 1
      BY <2>2, <1>3, Enters, Zenon
    <3> QED
      BY <3>1, <2>2, <1>1, <1>2, <1>4
  <2>3. CASE /\ pc[r] \notin UnitPlaces /\ v \in UnitPlaces
             /\ Len(queue') = Len(queue) /\ semaphore' = semaphore /\ ups' = ups - 1
    <3>1. Cardinality(Among(pc', UnitPlaces)) = Cardinality(Among(pc, UnitPlaces)) + 1
      BY <2>3, <1>3, Enters, Zenon
    <3> QED
      BY <3>1, <2>3, <1>1, <1>2, <1>4
  <2>4. CASE /\ pc[r] \in UnitPlaces /\ v \notin UnitPlaces
             /\ Len(queue') = Len(queue) - 1 /\ semaphore' = semaphore /\ ups' = ups
    <3>1. Cardinality(Among(pc', UnitPlaces)) = Cardinality(Among(pc, UnitPlaces)) - 1
      BY <2>4, <1>3, Leaves, Zenon
    <3> QED
      BY <3>1, <2>4, <1>1, <1>2, <1>4
  <2> QED
    BY <2>1, <2>2, <2>3, <2>4
<1>7. AvailableExact' /\ WakeupPerJob'
  BY <1>5, <1>6, Zenon DEF AvailableExact, WakeupPerJob, Among, At, WaitPlaces, UnitPlaces
<1> QED
  BY <1>1, <1>4, <1>5, <1>7

\* A runner that holds a unit of the semaphore finds a job.
LEMMA QueueNotEmpty ==
  ASSUME CountInv, NEW r \in Runners, pc[r] = "take"
  PROVE  queue # <<>>
<1>1. Cardinality(Among(pc, UnitPlaces)) >= 1
  BY SomeRunner DEF UnitPlaces
<1>2. Len(queue) = semaphore + ups + Cardinality(Among(pc, UnitPlaces))
  BY Counts DEF CountInv
<1>3. semaphore \in Nat /\ ups \in Nat /\ Cardinality(Among(pc, UnitPlaces)) \in Nat
  BY AmongFinite DEF CountInv, TypeOK
<1>4. Len(queue) >= 1
  BY <1>1, <1>2, <1>3
<1> QED
  BY <1>4

\* A step that neither raises the semaphore nor adds a runner that waits.
LEMMA NoneWaitsKept ==
  ASSUME NoneWaits, semaphore' = semaphore, \A r \in Runners : pc'[r] = "wait" => pc[r] = "wait"
  PROVE  NoneWaits'
  BY Zenon DEF NoneWaits

\* Every step keeps the invariant.
LEMMA CountStep == CountInv /\ [Next]_vars => CountInv'
<1> SUFFICES ASSUME CountInv, [Next]_vars PROVE CountInv'
  OBVIOUS
<1>t. /\ queue \in Seq(AllJobs) /\ available \in Nat /\ semaphore \in Nat /\ ups \in Nat
      /\ permanent \subseteq Runners /\ pc \in [Runners -> Places]
      /\ job \in [Runners -> AllJobs \cup {NoJob}]
      /\ submitted \subseteq Jobs /\ done \subseteq Jobs /\ interrupts \in 0 .. MaxInterrupts
      /\ RunHasJob /\ NoneWaits /\ AvailableExact /\ WakeupPerJob
  BY DEF CountInv, TypeOK, Places
<1>1. ASSUME NEW j \in Jobs, KernelAsync(j) PROVE CountInv'
  <2>1. /\ queue' \in Seq(AllJobs) /\ ups' \in Nat /\ permanent' \subseteq Runners
        /\ pc' \in [Runners -> Places] /\ AvailableExact' /\ WakeupPerJob'
    BY <1>1, <1>t, SubmitCounts, Zenon DEF KernelAsync, AllJobs
  <2>2. RunHasJob' /\ NoneWaits'
    <3>1. \A r \in Runners : pc'[r] \in {"run", "wait"} => pc[r] = pc'[r]
      BY <1>1, <1>t, Zenon DEF KernelAsync, Submit
    <3>2. semaphore' = semaphore /\ job' = job
      BY <1>1, Zenon DEF KernelAsync
    <3>3. NoneWaits'
      BY <3>1, <3>2, <1>t, NoneWaitsKept, Zenon
    <3> QED
      BY <3>1, <3>2, <3>3, <1>t, Zenon DEF RunHasJob
  <2>3. TypeOK'
    BY <2>1, <1>1, <1>t, Zenon DEF KernelAsync, TypeOK, Places
  <2> QED
    BY <2>1, <2>2, <2>3, Zenon DEF CountInv
<1>2. CASE SemaphoreUp
  <2>0. /\ ups > 0 /\ ups' = ups - 1 /\ ups' \in Nat /\ queue' = queue /\ available' = available
        /\ UNCHANGED <<permanent, job, submitted, done, interrupts>>
    BY <1>2, <1>t DEF SemaphoreUp
  <2>1. CASE /\ \A r \in Runners : pc[r] # "wait"
             /\ semaphore' = semaphore + 1 /\ UNCHANGED pc
    <3>1. TypeOK'
      BY <2>0, <2>1, <1>t DEF TypeOK, Places
    <3>2. RunHasJob' /\ NoneWaits' /\ AvailableExact'
      BY <2>0, <2>1, <1>t, Zenon DEF RunHasJob, NoneWaits, AvailableExact, At
    <3>3. At(UnitPlaces)' = At(UnitPlaces) /\ Cardinality(At(UnitPlaces)) \in Nat
      BY <2>1, AmongFinite, Zenon DEF At, Among
    <3>4. WakeupPerJob'
      BY <2>0, <2>1, <1>t, <3>3 DEF WakeupPerJob, UnitPlaces
    <3> QED
      BY <3>1, <3>2, <3>4, Zenon DEF CountInv
  <2>2. ASSUME NEW r \in Runners, NEW v \in {"take", "lost"}, pc[r] = "wait",
               pc' = [pc EXCEPT ![r] = v], UNCHANGED semaphore
        PROVE  CountInv'
    <3>1. /\ v \in Places /\ v \in WaitPlaces /\ v \in UnitPlaces /\ v # "wait" /\ v # "run"
          /\ "wait" \in WaitPlaces /\ "wait" \notin UnitPlaces
      BY <2>2 DEF Places, WaitPlaces, UnitPlaces
    <3>2. semaphore' = semaphore /\ semaphore' \in Nat
      BY <2>2, <1>t, Zenon
    <3>3. AvailableExact' /\ WakeupPerJob' /\ available' \in Nat /\ pc' \in [Runners -> Places]
      BY <2>0, <2>2, <3>1, <3>2, <1>t, MoveCounts, Zenon
    <3>4. TypeOK'
      BY <2>0, <2>2, <3>3, <1>t, Zenon DEF TypeOK, Places
    <3>5. \A x \in Runners : pc'[x] \in {"run", "wait"} => pc[x] = pc'[x]
      BY <2>2, <3>1, <1>t
    <3>6. NoneWaits'
      BY <2>2, <3>5, <1>t, NoneWaitsKept, Zenon
    <3>7. RunHasJob'
      BY <2>0, <3>5, <1>t, Zenon DEF RunHasJob
    <3> QED
      BY <3>3, <3>4, <3>6, <3>7, Zenon DEF CountInv
  <2> QED
    BY <1>2, <2>1, <2>2, Zenon DEF SemaphoreUp
<1>3. ASSUME NEW r \in Runners, BecomeAvailable(r) PROVE CountInv'
  <2>1. AvailableExact' /\ WakeupPerJob' /\ available' \in Nat /\ pc' \in [Runners -> Places]
    <3>1. /\ pc[r] = "start" /\ pc' = [pc EXCEPT ![r] = "down"]
          /\ queue' = queue /\ semaphore' = semaphore /\ ups' = ups
          /\ available' = available + 1
      BY <1>3 DEF BecomeAvailable
    <3>2. /\ "down" \in Places /\ "start" \notin WaitPlaces /\ "down" \in WaitPlaces
          /\ "start" \notin UnitPlaces /\ "down" \notin UnitPlaces
      BY Zenon DEF Places, WaitPlaces, UnitPlaces
    <3> QED
      BY <3>1, <3>2, <1>t, MoveCounts, Zenon
  <2>2. TypeOK'
    BY <2>1, <1>3, <1>t DEF BecomeAvailable, TypeOK, Places
  <2>3. RunHasJob' /\ NoneWaits'
    BY <1>3, <1>t, NoneWaitsKept, Zenon DEF BecomeAvailable, RunHasJob
  <2> QED
    BY <2>1, <2>2, <2>3 DEF CountInv
<1>4. ASSUME NEW r \in Runners, SemaphoreDown(r) PROVE CountInv'
  <2>0. /\ pc[r] = "down" /\ queue' = queue /\ ups' = ups /\ available' = available
        /\ "down" \in WaitPlaces /\ "down" \notin UnitPlaces
        /\ UNCHANGED <<permanent, job, submitted, done, interrupts>>
    BY <1>4, Zenon DEF SemaphoreDown, WaitPlaces, UnitPlaces
  <2>1. CASE semaphore > 0
    <3>1. /\ pc' = [pc EXCEPT ![r] = "take"] /\ semaphore' = semaphore - 1 /\ semaphore' \in Nat
      BY <1>4, <2>0, <2>1, <1>t DEF SemaphoreDown
    <3>2. "take" \in Places /\ "take" \in WaitPlaces /\ "take" \in UnitPlaces
      BY Zenon DEF Places, WaitPlaces, UnitPlaces
    <3>3. AvailableExact' /\ WakeupPerJob' /\ available' \in Nat /\ pc' \in [Runners -> Places]
      BY <2>0, <3>1, <3>2, <1>t, MoveCounts, Zenon
    <3>4. \A x \in Runners : pc'[x] \in {"run", "wait"} => pc[x] = pc'[x]
      BY <3>1, <1>t
    <3>5. NoneWaits'
      BY <2>1, <3>4, <1>t, Zenon DEF NoneWaits
    <3>6. RunHasJob'
      BY <2>0, <3>4, <1>t, Zenon DEF RunHasJob
    <3>7. TypeOK'
      BY <2>0, <3>1, <3>3, <1>t, Zenon DEF TypeOK, Places
    <3> QED
      BY <3>3, <3>5, <3>6, <3>7, Zenon DEF CountInv
  <2>2. CASE ~(semaphore > 0)
    <3>1. /\ pc' = [pc EXCEPT ![r] = "wait"] /\ semaphore' = semaphore
      BY <1>4, <2>0, <2>2, Zenon DEF SemaphoreDown
    <3>2. "wait" \in Places /\ "wait" \in WaitPlaces /\ "wait" \notin UnitPlaces
      BY Zenon DEF Places, WaitPlaces, UnitPlaces
    <3>3. AvailableExact' /\ WakeupPerJob' /\ available' \in Nat /\ pc' \in [Runners -> Places]
      BY <2>0, <3>1, <3>2, <1>t, MoveCounts, Zenon
    <3>4. RunHasJob' /\ NoneWaits'
      BY <2>0, <2>2, <3>1, <1>t, Zenon DEF RunHasJob, NoneWaits
    <3>5. TypeOK'
      BY <2>0, <3>1, <3>3, <1>t, Zenon DEF TypeOK, Places
    <3> QED
      BY <3>3, <3>4, <3>5, Zenon DEF CountInv
  <2> QED
    BY <2>1, <2>2
<1>5. ASSUME NEW r \in Runners, Interrupt(r) PROVE CountInv'
  <2>1. AvailableExact' /\ WakeupPerJob' /\ available' \in Nat /\ pc' \in [Runners -> Places]
    <3>1. /\ pc[r] = "wait" /\ pc' = [pc EXCEPT ![r] = "interrupted"]
          /\ queue' = queue /\ semaphore' = semaphore /\ ups' = ups
          /\ available' = available
      BY <1>5 DEF Interrupt
    <3>2. /\ "interrupted" \in Places /\ "wait" \in WaitPlaces /\ "interrupted" \in WaitPlaces
          /\ "wait" \notin UnitPlaces /\ "interrupted" \notin UnitPlaces
      BY Zenon DEF Places, WaitPlaces, UnitPlaces
    <3> QED
      BY <3>1, <3>2, <1>t, MoveCounts, Zenon
  <2>2. TypeOK'
    <3>1. MaxInterrupts \in Nat
      BY KernelAsyncAssumption, Zenon
    <3>2. interrupts' \in 0 .. MaxInterrupts
      BY <1>5, <1>t, <3>1 DEF Interrupt
    <3> QED BY <2>1, <3>2, <1>5, <1>t, Zenon DEF Interrupt, TypeOK, Places
  <2>3. RunHasJob' /\ NoneWaits'
    BY <1>5, <1>t, NoneWaitsKept, Zenon DEF Interrupt, RunHasJob
  <2> QED
    BY <2>1, <2>2, <2>3 DEF CountInv
<1>6. ASSUME NEW r \in Runners, Interrupted(r) PROVE CountInv'
  <2>1. AvailableExact' /\ WakeupPerJob' /\ available' \in Nat /\ pc' \in [Runners -> Places]
    <3>1. /\ pc[r] = "interrupted" /\ pc' = [pc EXCEPT ![r] = Again(r)]
          /\ queue' = queue /\ semaphore' = semaphore /\ ups' = ups
          /\ available' = available - 1
      BY <1>6 DEF Interrupted
    <3>2. /\ Again(r) \in Places /\ "interrupted" \in WaitPlaces /\ "interrupted" \notin UnitPlaces
          /\ Again(r) \notin WaitPlaces /\ Again(r) \notin UnitPlaces
      BY Zenon DEF Again, Places, WaitPlaces, UnitPlaces
    <3> QED
      BY <3>1, <3>2, <1>t, MoveCounts, Zenon
  <2>2. TypeOK'
    BY <2>1, <1>6, <1>t, Zenon DEF Interrupted, TypeOK, Places
  <2>3. RunHasJob' /\ NoneWaits'
    BY <1>6, <1>t, NoneWaitsKept, Zenon DEF Interrupted, Again, RunHasJob
  <2> QED
    BY <2>1, <2>2, <2>3 DEF CountInv
<1>7. ASSUME NEW r \in Runners, Take(r) PROVE CountInv'
  <2>1. queue # <<>>
    BY <1>7, QueueNotEmpty, Zenon DEF Take
  <2>2. /\ pc[r] = "take" /\ pc' = [pc EXCEPT ![r] = "run"]
        /\ queue' = Tail(queue) /\ job' = [job EXCEPT ![r] = Head(queue)]
        /\ semaphore' = semaphore /\ ups' = ups /\ available' = available - 1
    BY <1>7, <2>1, Zenon DEF Take
  <2>3. /\ Head(queue) \in AllJobs
        /\ queue' \in Seq(AllJobs) /\ Len(queue') = Len(queue) - 1
    BY <2>1, <2>2, <1>t
  <2>4. AvailableExact' /\ WakeupPerJob' /\ available' \in Nat /\ pc' \in [Runners -> Places]
    <3>1. /\ "run" \in Places /\ "take" \in WaitPlaces /\ "run" \notin WaitPlaces
          /\ "take" \in UnitPlaces /\ "run" \notin UnitPlaces
      BY Zenon DEF Places, WaitPlaces, UnitPlaces
    <3> QED
      BY <3>1, <2>2, <2>3, <1>t, MoveCounts, Zenon
  <2>5. job' \in [Runners -> AllJobs \cup {NoJob}]
    BY <2>2, <2>3, <1>t, Zenon
  <2>6. TypeOK'
    BY <2>3, <2>4, <2>5, <1>7, <1>t, Zenon DEF Take, TypeOK, Places
  <2>7. RunHasJob' /\ NoneWaits'
    BY <2>2, <2>3, <1>t, NoneWaitsKept, Zenon DEF RunHasJob
  <2> QED
    BY <2>4, <2>6, <2>7 DEF CountInv
<1>8. ASSUME NEW r \in Runners, Run(r) PROVE CountInv'
  <2>1. AvailableExact' /\ WakeupPerJob' /\ available' \in Nat /\ pc' \in [Runners -> Places]
    <3>1. /\ pc[r] = "run" /\ pc' = [pc EXCEPT ![r] = Again(r)]
          /\ queue' = queue /\ semaphore' = semaphore /\ ups' = ups
          /\ available' = available
      BY <1>8, Zenon DEF Run
    <3>2. /\ Again(r) \in Places /\ "run" \notin WaitPlaces /\ "run" \notin UnitPlaces
          /\ Again(r) \notin WaitPlaces /\ Again(r) \notin UnitPlaces
      BY Zenon DEF Again, Places, WaitPlaces, UnitPlaces
    <3> QED
      BY <3>1, <3>2, <1>t, MoveCounts, Zenon
  <2>2. done' \subseteq Jobs
    BY <1>8, <1>t, Zenon DEF Run, RunHasJob, AllJobs
  <2>3. job' \in [Runners -> AllJobs \cup {NoJob}]
    BY <1>8, <1>t, Zenon DEF Run
  <2>4. TypeOK'
    BY <2>1, <2>2, <2>3, <1>8, <1>t, Zenon DEF Run, TypeOK, Places
  <2>5. RunHasJob' /\ NoneWaits'
    BY <1>8, <1>t, NoneWaitsKept, Zenon DEF Run, Again, RunHasJob
  <2> QED
    BY <2>1, <2>4, <2>5 DEF CountInv
<1>9. ASSUME NEW r \in Runners, Terminate(r) PROVE CountInv'
  <2> DEFINE p == [pc EXCEPT ![r] = "none"]
  <2>1. p \in [Runners -> Places] /\ "release" \in AllJobs
    BY <1>t, Zenon DEF Places, AllJobs
  <2>2. Among(p, WaitPlaces) = Among(pc, WaitPlaces) /\ Among(p, UnitPlaces) = Among(pc, UnitPlaces)
    BY <1>9, <1>t, Zenon DEF Terminate, Among, WaitPlaces, UnitPlaces
  <2>3. Submit("release", p) /\ UNCHANGED <<available, semaphore>>
    BY <1>9, Zenon DEF Terminate
  <2>4. RunHasJob' /\ NoneWaits'
    <3>1. \A x \in Runners : pc'[x] \in {"run", "wait"} => pc[x] = pc'[x]
      BY <1>9, <1>t, Zenon DEF Terminate, Submit
    <3>2. semaphore' = semaphore /\ job' = job
      BY <1>9, Zenon DEF Terminate
    <3>3. NoneWaits'
      BY <3>1, <3>2, <1>t, NoneWaitsKept, Zenon
    <3> QED
      BY <3>1, <3>2, <3>3, <1>t, Zenon DEF RunHasJob
  <2> HIDE DEF p
  <2>5. /\ queue' \in Seq(AllJobs) /\ ups' \in Nat /\ permanent' \subseteq Runners
        /\ pc' \in [Runners -> Places] /\ AvailableExact' /\ WakeupPerJob'
    BY <2>1, <2>2, <2>3, SubmitCounts, Zenon
  <2>6. TypeOK'
    BY <2>5, <1>9, <1>t, Zenon DEF Terminate, TypeOK, Places
  <2> QED
    BY <2>4, <2>5, <2>6, Zenon DEF CountInv
<1>10. CASE UNCHANGED vars
  BY <1>10, <1>t, Zenon DEF CountInv, TypeOK, Places, RunHasJob, NoneWaits, AvailableExact, WakeupPerJob, At, vars
<1> QED
  BY <1>1, <1>2, <1>3, <1>4, <1>5, <1>6, <1>7, <1>8, <1>9, <1>10, Zenon DEF Next, Idle

\* The invariant holds of every behaviour.
THEOREM CountsHold == Spec => []CountInv
  BY CountInit, CountStep, PTL DEF Spec

\* The types of the pool's state; in particular kernelAsyncRunnersAvailable, which the
\* code keeps unsigned, is never decremented at zero.
THEOREM KernelAsyncTypes == Spec => []TypeOK
<1>1. CountInv => TypeOK
  BY DEF CountInv
<1> QED
  BY <1>1, CountsHold, PTL

\* kernelAsyncRunnersAvailable is the number of runners that wait or are about to take a
\* job: kernelAsync never takes a dying or a busy runner for an available one.
THEOREM AvailableIsExact == Spec => []AvailableExact
<1>1. CountInv => AvailableExact
  BY DEF CountInv
<1> QED
  BY <1>1, CountsHold, PTL

\* Every queued job has its unit of the semaphore, and every unit its job.
THEOREM WakeupsMatchJobs == Spec => []WakeupPerJob
<1>1. CountInv => WakeupPerJob
  BY DEF CountInv
<1> QED
  BY <1>1, CountsHold, PTL

\* A runner that got through the semaphore never finds kernelAsyncRunnerQueue empty: the
\* branch of kernelAsyncRunnerThreadWorker for that case is dead.
THEOREM NoEmptyTake == Spec => [](\A r \in Runners : pc[r] = "take" => queue # <<>>)
<1>1. CountInv => \A r \in Runners : pc[r] = "take" => queue # <<>>
  BY QueueNotEmpty
<1> QED
  BY <1>1, CountsHold, PTL

-----------------------------------------------------------------------------
(* Jobs *)

\* Where a job is.
Queued(j) == \E k \in DOMAIN queue : queue[k] = j
Running(j) == \E r \in Runners : job[r] = j

\* A job is at one place of the queue at most, and with one runner at most.
OneCopy(j) ==
  /\ \A k, l \in DOMAIN queue : queue[k] = j /\ queue[l] = j => k = l
  /\ \A r, q \in Runners : job[r] = j /\ job[q] = j => r = q

\* A job that has been submitted is queued, running or done, and only one of these.
Placed(j) ==
  /\ j \in submitted <=> Queued(j) \/ Running(j) \/ j \in done
  /\ ~(Queued(j) /\ Running(j)) /\ ~(Queued(j) /\ j \in done) /\ ~(Running(j) /\ j \in done)

\* A runner that does not run has no job.
IdleHasNone == \A r \in Runners : pc[r] # "run" => job[r] = NoJob

OnceInv == IdleHasNone /\ \A j \in Jobs : OneCopy(j) /\ Placed(j)

\* Before the first job there is none.
LEMMA OnceInit == Init => OnceInv
<1> SUFFICES ASSUME Init PROVE OnceInv OBVIOUS
<1>1. IdleHasNone
  BY DEF Init, IdleHasNone
<1>2. ASSUME NEW j \in Jobs PROVE OneCopy(j) /\ Placed(j)
  <2>1. j # NoJob
    BY KernelAsyncAssumption, Zenon DEF NoJob
  <2>2. ~Queued(j) /\ ~Running(j) /\ j \notin done /\ j \notin submitted
    BY <2>1 DEF Init, Queued, Running
  <2> QED BY <2>2 DEF OneCopy, Placed, Queued, Running
<1> QED BY <1>1, <1>2 DEF OnceInv

\* kernelAsync puts a job behind the others, and starts a runner without a job if it starts
\* one at all.
LEMMA SubmitOnce ==
  ASSUME TypeOK, IdleHasNone, NEW x \in AllJobs, NEW p \in [Runners -> Places], Submit(x, p),
         \A r \in Runners : pc[r] = "run" => p[r] = "run", UNCHANGED job
  PROVE  /\ IdleHasNone'
         /\ \A j \in Jobs : Running(j)' <=> Running(j)
         /\ \A j \in Jobs : Queued(j)' <=> Queued(j) \/ j = x
         /\ \A j \in Jobs : OneCopy(j) /\ (j = x => ~Queued(j)) => OneCopy(j)'
<1>1. queue \in Seq(AllJobs) /\ queue' = Append(queue, x)
  BY DEF TypeOK, Submit
<1>2. /\ DOMAIN queue = 1 .. Len(queue) /\ Len(queue) \in Nat /\ DOMAIN queue' = 1 .. (Len(queue) + 1)
      /\ queue'[Len(queue) + 1] = x /\ \A k \in DOMAIN queue : queue'[k] = queue[k]
  BY <1>1
<1>3. \A k \in DOMAIN queue' : k \in DOMAIN queue \/ k = Len(queue) + 1
  BY <1>2
<1>4. IdleHasNone'
  <2>1. \A r \in Runners : pc[r] = "run" => pc'[r] = "run"
    BY DEF Submit
  <2> QED BY <2>1 DEF IdleHasNone
<1>5. ASSUME NEW j \in Jobs PROVE Queued(j)' <=> Queued(j) \/ j = x
  <2>1. Queued(j)' => Queued(j) \/ j = x
    BY <1>2, <1>3 DEF Queued
  <2>2. Queued(j) => Queued(j)'
    BY <1>2 DEF Queued
  <2>3. Len(queue) + 1 \in DOMAIN queue'
    BY <1>2
  <2>4. j = x => Queued(j)'
    BY <1>2, <2>3 DEF Queued
  <2> QED BY <2>1, <2>2, <2>4
<1>6. ASSUME NEW j \in Jobs, OneCopy(j), j = x => ~Queued(j) PROVE OneCopy(j)'
  <2>1. ASSUME NEW k \in DOMAIN queue', NEW l \in DOMAIN queue', queue'[k] = j, queue'[l] = j PROVE k = l
    <3>1. CASE k \in DOMAIN queue /\ l \in DOMAIN queue
      BY <1>2, <1>6, <2>1, <3>1 DEF OneCopy
    <3>2. CASE k = Len(queue) + 1 \/ l = Len(queue) + 1
      <4>1. j = x
        BY <1>2, <2>1, <3>2
      <4>2. \A i \in DOMAIN queue : queue'[i] # j
        BY <1>2, <1>6, <4>1 DEF Queued
      <4> QED BY <1>3, <2>1, <4>2
    <3> QED BY <1>3, <3>1, <3>2
  <2> QED BY <1>6, <2>1 DEF OneCopy
<1>7. \A j \in Jobs : Running(j)' <=> Running(j)
  BY DEF Running
<1> QED BY <1>4, <1>5, <1>6, <1>7

\* Every step keeps each job in its one place or takes it to the next.
LEMMA OnceStep == CountInv /\ OnceInv /\ [Next]_vars => OnceInv'
<1> SUFFICES ASSUME CountInv, OnceInv, [Next]_vars PROVE OnceInv' OBVIOUS
<1>t. /\ TypeOK /\ queue \in Seq(AllJobs) /\ pc \in [Runners -> Places]
      /\ job \in [Runners -> AllJobs \cup {NoJob}] /\ RunHasJob /\ IdleHasNone
  BY DEF CountInv, TypeOK, Places, OnceInv
<1>n. \A j \in Jobs : j # NoJob /\ j # "release" /\ j \in AllJobs
  BY KernelAsyncAssumption, Zenon DEF NoJob, AllJobs
<1>1. ASSUME NEW x \in Jobs, KernelAsync(x) PROVE OnceInv'
  <2>1. /\ x \notin submitted /\ submitted' = submitted \cup {x} /\ done' = done
        /\ Submit(x, pc) /\ UNCHANGED job
    BY <1>1 DEF KernelAsync
  <2>2. /\ IdleHasNone'
        /\ \A j \in Jobs : Running(j)' <=> Running(j)
        /\ \A j \in Jobs : Queued(j)' <=> Queued(j) \/ j = x
        /\ \A j \in Jobs : OneCopy(j) /\ (j = x => ~Queued(j)) => OneCopy(j)'
    BY <1>t, <1>n, <2>1, SubmitOnce
  <2>3. ~Queued(x) /\ ~Running(x) /\ x \notin done
    BY <2>1 DEF OnceInv, Placed
  <2>4. ASSUME NEW j \in Jobs PROVE OneCopy(j)' /\ Placed(j)'
    <3>1. OneCopy(j) /\ Placed(j)
      BY DEF OnceInv
    <3> QED BY <2>1, <2>2, <2>3, <3>1 DEF Placed
  <2> QED BY <2>2, <2>4 DEF OnceInv
<1>2. ASSUME NEW r \in Runners, Terminate(r) PROVE OnceInv'
  <2> DEFINE p == [pc EXCEPT ![r] = "none"]
  <2>1. /\ submitted' = submitted /\ done' = done /\ Submit("release", p) /\ UNCHANGED job
        /\ p \in [Runners -> Places] /\ "release" \in AllJobs
        /\ \A q \in Runners : pc[q] = "run" => p[q] = "run"
    BY <1>2, <1>t DEF Terminate, Places, AllJobs
  <2> HIDE DEF p
  <2>2. /\ IdleHasNone'
        /\ \A j \in Jobs : Running(j)' <=> Running(j)
        /\ \A j \in Jobs : Queued(j)' <=> Queued(j) \/ j = "release"
        /\ \A j \in Jobs : OneCopy(j) /\ (j = "release" => ~Queued(j)) => OneCopy(j)'
    BY <1>t, <2>1, SubmitOnce
  <2>3. ASSUME NEW j \in Jobs PROVE OneCopy(j)' /\ Placed(j)'
    <3>1. OneCopy(j) /\ Placed(j) /\ j # "release"
      BY <1>n DEF OnceInv
    <3> QED BY <2>1, <2>2, <3>1 DEF Placed
  <2> QED BY <2>2, <2>3 DEF OnceInv
<1>3. ASSUME NEW r \in Runners, Take(r) PROVE OnceInv'
  <2>1. queue # <<>>
    BY <1>3, QueueNotEmpty DEF Take
  <2>2. /\ pc[r] = "take" /\ pc' = [pc EXCEPT ![r] = "run"]
        /\ queue' = Tail(queue) /\ job' = [job EXCEPT ![r] = Head(queue)]
        /\ submitted' = submitted /\ done' = done
    BY <1>3, <2>1 DEF Take
  <2>3. /\ 1 \in DOMAIN queue /\ Head(queue) = queue[1] /\ DOMAIN queue \subseteq Int
        /\ \A k \in DOMAIN queue' : k + 1 \in DOMAIN queue /\ k + 1 # 1 /\ queue'[k] = queue[k + 1]
        /\ \A k \in DOMAIN queue : k = 1 \/ (k - 1 \in DOMAIN queue' /\ queue'[k - 1] = queue[k])
    BY <1>t, <2>1, <2>2
  <2>4. /\ job[r] = NoJob /\ job'[r] = queue[1]
        /\ \A q \in Runners \ {r} : job'[q] = job[q]
    BY <1>t, <2>2, <2>3 DEF IdleHasNone
  <2>5. IdleHasNone'
    BY <1>t, <2>2 DEF IdleHasNone
  <2>6. ASSUME NEW j \in Jobs PROVE OneCopy(j)' /\ Placed(j)'
    <3>1. OneCopy(j) /\ Placed(j) /\ j # NoJob
      BY <1>n DEF OnceInv
    <3>2. CASE queue[1] = j
      <4>1. Queued(j) /\ ~Running(j) /\ j \notin done /\ j \in submitted
        BY <2>3, <3>1, <3>2 DEF Queued, Placed
      <4>2. ~Queued(j)'
        BY <2>3, <3>1, <3>2 DEF Queued, OneCopy
      <4>3. Running(j)' /\ \A q \in Runners : job'[q] = j => q = r
        BY <2>4, <3>2, <4>1 DEF Running
      <4> QED BY <2>2, <4>1, <4>2, <4>3 DEF Placed, OneCopy, Queued
    <3>3. CASE queue[1] # j
      <4>1. Queued(j)' <=> Queued(j)
        <5>1. Queued(j)' => Queued(j)
          BY <2>3 DEF Queued
        <5>2. Queued(j) => Queued(j)'
          BY <2>3, <3>3 DEF Queued
        <5> QED BY <5>1, <5>2
      <4>2. Running(j)' <=> Running(j)
        BY <2>4, <3>1, <3>3 DEF Running
      <4>3. \A k, l \in DOMAIN queue' : queue'[k] = j /\ queue'[l] = j => k = l
        <5>1. SUFFICES ASSUME NEW k \in DOMAIN queue', NEW l \in DOMAIN queue', queue'[k] = j, queue'[l] = j
                       PROVE  k = l
          OBVIOUS
        <5>2. k + 1 = l + 1
          BY <2>3, <3>1, <5>1 DEF OneCopy
        <5>3. k \in Int /\ l \in Int
          BY <1>t, <2>1, <2>2, <5>1
        <5> QED BY <5>2, <5>3
      <4>4. \A a, b \in Runners : job'[a] = j /\ job'[b] = j => a = b
        BY <2>4, <3>1, <3>3 DEF OneCopy
      <4> QED BY <2>2, <3>1, <4>1, <4>2, <4>3, <4>4 DEF OneCopy, Placed
    <3> QED BY <3>2, <3>3
  <2> QED BY <2>5, <2>6 DEF OnceInv
<1>4. ASSUME NEW r \in Runners, Run(r) PROVE OnceInv'
  <2>1. /\ pc[r] = "run" /\ pc' = [pc EXCEPT ![r] = Again(r)] /\ job' = [job EXCEPT ![r] = NoJob]
        /\ done' = done \cup ({job[r]} \ {"release"}) /\ queue' = queue /\ submitted' = submitted
    BY <1>4 DEF Run
  <2>2. job'[r] = NoJob /\ \A q \in Runners \ {r} : job'[q] = job[q]
    BY <1>t, <2>1
  <2>3. IdleHasNone'
    BY <1>t, <2>1, <2>2 DEF IdleHasNone
  <2>4. ASSUME NEW j \in Jobs PROVE OneCopy(j)' /\ Placed(j)'
    <3>1. OneCopy(j) /\ Placed(j) /\ j # NoJob /\ j # "release" /\ (Queued(j)' <=> Queued(j))
      BY <1>n, <2>1 DEF OnceInv, Queued
    <3>2. OneCopy(j)'
      BY <2>1, <2>2, <3>1 DEF OneCopy
    <3>3. CASE job[r] = j
      <4>1. Running(j) /\ ~Queued(j) /\ j \in submitted /\ j \in done'
        BY <2>1, <3>1, <3>3 DEF Running, Placed
      <4>2. ~Running(j)'
        BY <2>2, <3>1, <3>3 DEF Running, OneCopy
      <4> QED BY <2>1, <3>1, <3>2, <4>1, <4>2 DEF Placed
    <3>4. CASE job[r] # j
      <4>1. (Running(j)' <=> Running(j)) /\ (j \in done' <=> j \in done)
        BY <2>1, <2>2, <3>1, <3>4 DEF Running
      <4> QED BY <2>1, <3>1, <3>2, <4>1 DEF Placed
    <3> QED BY <3>3, <3>4
  <2> QED BY <2>3, <2>4 DEF OnceInv
<1>5. ASSUME UNCHANGED <<queue, job, submitted, done>>, \A r \in Runners : pc[r] = "run" => pc'[r] = "run"
      PROVE  OnceInv'
  <2>1. IdleHasNone'
    BY <1>5, <1>t DEF IdleHasNone
  <2> QED BY <1>5, <2>1 DEF OnceInv, OneCopy, Placed, Queued, Running
<1>6. CASE SemaphoreUp \/ UNCHANGED vars
  <2>1. UNCHANGED <<queue, job, submitted, done>>
    BY <1>6, Zenon DEF SemaphoreUp, vars
  <2>2. \A r \in Runners : pc[r] = "run" => pc'[r] = "run"
    BY <1>6, <1>t, Zenon DEF SemaphoreUp, vars
  <2> QED BY <1>5, <2>1, <2>2, Zenon
<1>7. ASSUME NEW r \in Runners, BecomeAvailable(r) \/ SemaphoreDown(r) \/ Interrupt(r) \/ Interrupted(r)
      PROVE  OnceInv'
  BY <1>5, <1>7, <1>t DEF BecomeAvailable, SemaphoreDown, Interrupt, Interrupted
<1> QED
  BY <1>1, <1>2, <1>3, <1>4, <1>6, <1>7 DEF Next, Idle

\* Unique places are counted as one.
LEMMA OnceCounts == OnceInv => JobsOnce
<1> SUFFICES ASSUME OnceInv, NEW j \in Jobs
             PROVE  Cardinality({k \in DOMAIN queue : queue[k] = j}) + Cardinality({r \in Runners : job[r] = j})
                      + Cardinality({j} \cap done) = Cardinality({j} \cap submitted)
  BY Zenon DEF JobsOnce
<1> DEFINE Q == {k \in DOMAIN queue : queue[k] = j}
           R == {r \in Runners : job[r] = j}
<1>0. OneCopy(j) /\ Placed(j)
  BY DEF OnceInv
<1>1. Cardinality(Q) = IF Queued(j) THEN 1 ELSE 0
  <2>1. CASE Queued(j)
    <3>0. PICK k \in DOMAIN queue : queue[k] = j
      BY <2>1 DEF Queued
    <3>1. Q = {k}
      BY <1>0, <3>0 DEF OneCopy
    <3> HIDE DEF Q
    <3> QED BY <2>1, <3>1, FS_Singleton
  <2>2. CASE ~Queued(j)
    <3>1. Q = {}
      BY <2>2 DEF Queued
    <3> HIDE DEF Q
    <3> QED BY <2>2, <3>1, FS_EmptySet
  <2> QED BY <2>1, <2>2
<1>2. Cardinality(R) = IF Running(j) THEN 1 ELSE 0
  <2>1. CASE Running(j)
    <3>0. PICK r \in Runners : job[r] = j
      BY <2>1 DEF Running
    <3>1. R = {r}
      BY <1>0, <3>0 DEF OneCopy
    <3> HIDE DEF R
    <3> QED BY <2>1, <3>1, FS_Singleton
  <2>2. CASE ~Running(j)
    <3>1. R = {}
      BY <2>2 DEF Running
    <3> HIDE DEF R
    <3> QED BY <2>2, <3>1, FS_EmptySet
  <2> QED BY <2>1, <2>2
<1>3. \A S : Cardinality({j} \cap S) = IF j \in S THEN 1 ELSE 0
  <2> SUFFICES ASSUME NEW S PROVE Cardinality({j} \cap S) = IF j \in S THEN 1 ELSE 0
    OBVIOUS
  <2>1. {j} \cap S = IF j \in S THEN {j} ELSE {}
    OBVIOUS
  <2> QED BY <2>1, FS_Singleton, FS_EmptySet, Zenon
<1> HIDE DEF Q, R
<1>4. Cardinality(Q) + Cardinality(R) + Cardinality({j} \cap done) = Cardinality({j} \cap submitted)
  BY <1>0, <1>1, <1>2, <1>3 DEF Placed
<1> QED BY <1>4 DEF Q, R

\* Each job given to kernelAsync is queued once, then taken by one runner, then run, and
\* never again: no job is lost between the queue and the runners and none runs twice.
THEOREM JobsRunOnce == Spec => []JobsOnce
<1>1. Init => OnceInv
  BY OnceInit
<1>2. CountInv /\ OnceInv /\ [Next]_vars => OnceInv'
  BY OnceStep
<1>3. OnceInv => JobsOnce
  BY OnceCounts
<1> QED
  BY <1>1, <1>2, <1>3, CountsHold, PTL DEF Spec

-----------------------------------------------------------------------------
(* The pool lasts *)

\* The first runner is permanent, and a permanent runner never dies.
Lasting(perm, p) == \A r \in perm : p[r] \notin {"none", "dying"}
PoolInv ==
  /\ Lasting(permanent, pc)
  /\ permanent = {} => queue = <<>> /\ \A r \in Runners : pc[r] = "none"

\* A limit that is not zero is not reached by an empty pool.
LEMMA AboveZero == \A n \in Nat : n # 0 => 0 < n
OBVIOUS

\* A pool that has a permanent runner, or that starts its first runner now, has one
\* after a job is submitted.
LEMMA SubmitLasting ==
  ASSUME permanent \subseteq Runners, NEW p \in [Runners -> Places], NEW j, Submit(j, p),
         Lasting(permanent, p), permanent # {} \/ available = 0
  PROVE  PoolInv'
<1>1. CASE available = 0
  <2>1. PICK r \in Runners :
          /\ p[r] = "none" /\ pc' = [p EXCEPT ![r] = "start"]
          /\ permanent' = IF Cardinality(permanent) < MaxPermanent
                          THEN permanent \cup {r} ELSE permanent
    BY <1>1, Zenon DEF Submit
  <2>2. permanent' # {}
    <3>1. CASE permanent = {}
      <4>1. Cardinality(permanent) = 0
        BY <3>1, FS_EmptySet, Zenon
      <4>2. MaxPermanent \in Nat /\ MaxPermanent # 0
        BY KernelAsyncAssumption, Zenon
      <4>3. Cardinality(permanent) < MaxPermanent
        BY <4>1, <4>2, AboveZero, Zenon
      <4> QED BY <2>1, <4>3, Zenon
    <3> QED BY <2>1, <3>1
  <2>3. Lasting(permanent', pc')
    <3>1. \A q \in Runners : pc'[q] = IF q = r THEN "start" ELSE p[q]
      BY <2>1
    <3>2. permanent' \subseteq permanent \cup {r}
      BY <2>1
    <3> QED BY <3>1, <3>2 DEF Lasting
  <2> QED BY <2>2, <2>3 DEF PoolInv
<1>2. CASE available # 0
  BY <1>2, Zenon DEF Submit, PoolInv
<1> QED BY <1>1, <1>2

\* A runner goes where its sort lets it.
LEMMA MoveLasting ==
  ASSUME TypeOK, PoolInv, NEW r \in Runners, pc[r] # "none", NEW v,
         pc' = [pc EXCEPT ![r] = v], v \in {"down", "wait", "take", "lost", "interrupted", "run", Again(r)},
         UNCHANGED permanent
  PROVE  PoolInv'
<1>1. r \in permanent => v \notin {"none", "dying"}
  BY DEF Again
<1>2. \A q \in permanent : q # r => pc'[q] = pc[q]
  BY DEF TypeOK
<1>3. pc'[r] = v
  BY DEF TypeOK
<1>4. permanent # {}
  BY Zenon DEF PoolInv
<1> QED BY <1>1, <1>2, <1>3, <1>4, Zenon DEF PoolInv, Lasting

\* Every step keeps a permanent runner in the pool.
LEMMA PoolStep == CountInv /\ PoolInv /\ [Next]_vars => PoolInv'
<1> SUFFICES ASSUME CountInv, PoolInv, [Next]_vars PROVE PoolInv' OBVIOUS
<1>0. /\ TypeOK /\ pc \in [Runners -> Places] /\ permanent \subseteq Runners
      /\ AvailableExact
  BY Zenon DEF CountInv, TypeOK, Places
<1>1. ASSUME NEW j \in Jobs, KernelAsync(j) PROVE PoolInv'
  <2>1. Submit(j, pc) /\ Lasting(permanent, pc)
    BY <1>1, Zenon DEF KernelAsync, PoolInv
  <2>2. permanent # {} \/ available = 0
    <3> SUFFICES ASSUME permanent = {} PROVE available = 0 OBVIOUS
    <3>1. At({"down", "wait", "take", "lost", "interrupted"}) = {}
      BY DEF At, PoolInv
    <3> QED BY <1>0, <3>1, FS_EmptySet, Zenon DEF AvailableExact
  <2> QED BY <1>0, <2>1, <2>2, SubmitLasting
<1>2. ASSUME NEW r \in Runners, Terminate(r) PROVE PoolInv'
  <2> DEFINE p == [pc EXCEPT ![r] = "none"]
  <2>1. pc[r] = "dying" /\ Submit("release", p)
    BY <1>2, Zenon DEF Terminate
  <2>2. p \in [Runners -> Places]
    BY <1>0 DEF Places
  <2>3. permanent # {} /\ r \notin permanent
    BY <2>1, Zenon DEF PoolInv, Lasting
  <2>4. Lasting(permanent, p)
    BY <1>0, <2>3 DEF PoolInv, Lasting
  <2> HIDE DEF p
  <2> QED BY <1>0, <2>1, <2>2, <2>3, <2>4, SubmitLasting
<1>3. ASSUME NEW r \in Runners,
             BecomeAvailable(r) \/ SemaphoreDown(r) \/ Interrupt(r) \/ Interrupted(r) \/ Take(r) \/ Run(r)
      PROVE  PoolInv'
  <2>1. pc[r] # "none" /\ UNCHANGED permanent
    BY <1>3, Zenon DEF BecomeAvailable, SemaphoreDown, Interrupt, Interrupted, Take, Run
  <2>2. PICK v \in {"down", "wait", "take", "lost", "interrupted", "run", Again(r)} : pc' = [pc EXCEPT ![r] = v]
    BY <1>3, Zenon DEF BecomeAvailable, SemaphoreDown, Interrupt, Interrupted, Take, Run
  <2> QED BY <1>0, <2>1, <2>2, MoveLasting, Zenon
<1>4. CASE SemaphoreUp
  <2>1. UNCHANGED <<queue, permanent>>
    BY <1>4, Zenon DEF SemaphoreUp
  <2>2. CASE UNCHANGED pc
    BY <2>1, <2>2, Zenon DEF PoolInv
  <2>3. ASSUME NEW r \in Runners, NEW v \in {"take", "lost"}, pc[r] = "wait", pc' = [pc EXCEPT ![r] = v]
        PROVE  PoolInv'
    <3>1. v \in {"down", "wait", "take", "lost", "interrupted", "run", Again(r)} /\ pc[r] # "none"
      BY <2>3, Zenon
    <3> QED BY <1>0, <2>1, <2>3, <3>1, MoveLasting, Zenon
  <2> QED BY <1>4, <2>2, <2>3, Zenon DEF SemaphoreUp
<1>5. CASE Idle \/ UNCHANGED vars
  <2>1. UNCHANGED <<queue, permanent, pc>>
    BY <1>5, Zenon DEF Idle, vars
  <2> QED BY <2>1, Zenon DEF PoolInv
<1> QED
  BY <1>1, <1>2, <1>3, <1>4, <1>5, Zenon DEF Next

\* For any jobs, runners and limits: a job that stays in kernelAsyncRunnerQueue with nobody to
\* take it stays there because a wake-up of the semaphore was lost, whichever runners die or
\* are interrupted.  It rests on the first runner's being permanent
\* (MAX_PERMANENT_KERNEL_RUNNERS is not zero) and on a unit of the semaphore for each job.
THEOREM JobsHaveRunners == Spec => []JobHasRunner
<1>1. Init => PoolInv
  BY DEF Init, PoolInv, Lasting
<1>2. CountInv /\ PoolInv => JobHasRunner
  <2> SUFFICES ASSUME CountInv, PoolInv, Len(queue) > Cardinality(Lost), ~(ups > 0),
                      ~\E r \in Runners : pc[r] = "take", ~(permanent \subseteq Lost)
               PROVE  \E r \in permanent : pc[r] \in {"start", "down", "interrupted", "run"}
    BY Zenon DEF JobHasRunner
  <2>0. /\ queue \in Seq(AllJobs) /\ semaphore \in Nat /\ ups \in Nat /\ permanent \subseteq Runners
        /\ pc \in [Runners -> Places] /\ Len(queue) = semaphore + ups + Cardinality(At({"take", "lost"}))
        /\ NoneWaits
    BY Zenon DEF CountInv, TypeOK, Places, WakeupPerJob
  <2>1. At({"take", "lost"}) = Lost
    BY DEF At, Lost
  <2>2. Cardinality(Lost) \in Nat
    BY AmongFinite, Zenon DEF Lost, At, Among
  <2>3. semaphore > 0
    BY <2>0, <2>1, <2>2
  <2>4. \A r \in Runners : pc[r] # "wait"
    BY <2>0, <2>3, Zenon DEF NoneWaits
  <2>5. PICK r \in permanent : r \notin Lost
    OBVIOUS
  <2>6. r \in Runners /\ pc[r] \notin {"none", "dying", "wait", "take", "lost"}
    BY <2>0, <2>4, <2>5 DEF PoolInv, Lasting, Lost, At
  <2>7. pc[r] \in {"start", "down", "interrupted", "run"}
    BY <2>0, <2>6 DEF Places
  <2> QED BY <2>7
<1> QED
  BY <1>1, <1>2, PoolStep, CountsHold, PTL DEF Spec
=============================================================================
