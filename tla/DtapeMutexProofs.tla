-------------------------- MODULE DtapeMutexProofs --------------------------
(***************************************************************************)
(* dtape_mutex and dtape_condvar are a monitor for any number of           *)
(* microthreads and native threads.                                        *)
(***************************************************************************)
EXTENDS DtapeMutex, SequenceTheorems, TLAPS

Actors == Threads \cup Natives
PcType(f) ==
  f \in [Actors -> {"idle", "lock", "suspending", "suspended", "held", "condvar", "parking", "waiting"}]

-----------------------------------------------------------------------------
(* Types *)

\* Initially the types hold.
LEMMA InitType == Init => TypeOK
<1> SUFFICES ASSUME Init PROVE TypeOK OBVIOUS
<1>1. PcType(pc)
  BY DEF Init, PcType, Actors
<1>2. queue \in Seq(Threads) /\ condvarQueue \in Seq(Threads)
  BY DEF Init
<1> QED
  BY <1>1, <1>2 DEF Init, TypeOK, PcType, Actors

\* Leaving the mutex, in unlock or in wait, keeps the types.
LEMMA GiveUpType ==
  ASSUME TypeOK, GiveUp
  PROVE  owner' = Free /\ queueLock' = Free /\ queue' \in Seq(Threads) /\ scheduled' \subseteq Threads
<1>1. queue # <<>> => Head(queue) \in Threads /\ Tail(queue) \in Seq(Threads)
  BY DEF TypeOK
<1> QED
  BY <1>1 DEF GiveUp, ThreadResume, TypeOK

\* Every step keeps the types.
LEMMA StepType == TypeOK /\ [Next]_vars => TypeOK'
<1> SUFFICES ASSUME TypeOK, [Next]_vars PROVE TypeOK' OBVIOUS
<1>0. PcType(pc) /\ queue \in Seq(Threads) /\ condvarQueue \in Seq(Threads)
  BY DEF TypeOK, PcType, Actors
<1>1. ASSUME NEW t \in Threads, MutexLock(t) \/ CondvarWait(t) \/ Step(t) PROVE TypeOK'
  <2>1. PcType(pc')
    BY <1>0, <1>1 DEF MutexLock, MutexOwn, MutexEnqueue, MutexSuspended, MutexUnlock, Resumed, Step,
       CondvarWait, CondvarEnqueue, CondvarSuspended, PcType, Actors
  <2>2. CASE MutexLock(t) \/ MutexOwn(t) \/ MutexSuspended(t) \/ Resumed(t) \/ CondvarWait(t) \/ CondvarSuspended(t)
    BY <2>1, <2>2 DEF MutexLock, MutexOwn, MutexSuspended, Resumed, CondvarWait, CondvarSuspended,
       TypeOK, PcType, Actors
  <2>3. CASE MutexEnqueue(t)
    <3>1. queue' \in Seq(Threads)
      BY <1>0, <2>3 DEF MutexEnqueue
    <3> QED
      BY <2>1, <2>3, <3>1 DEF MutexEnqueue, TypeOK, PcType, Actors
  <2>4. CASE MutexUnlock(t)
    BY <2>1, <2>4, GiveUpType DEF MutexUnlock, TypeOK, PcType, Actors
  <2>5. CASE CondvarEnqueue(t)
    <3>1. condvarQueue' \in Seq(Threads)
      BY <1>0, <2>5 DEF CondvarEnqueue
    <3> QED
      BY <2>1, <2>5, <3>1, GiveUpType DEF CondvarEnqueue, TypeOK, PcType, Actors
  <2> QED
    BY <1>1, <2>2, <2>3, <2>4, <2>5 DEF Step
<1>2. ASSUME NEW n \in Natives, NativeLock(n) \/ NativeUnlock(n) PROVE TypeOK'
  <2>1. PcType(pc')
    BY <1>0, <1>2 DEF NativeLock, NativeUnlock, PcType, Actors
  <2> QED
    BY <1>2, <2>1 DEF NativeLock, NativeUnlock, TypeOK, PcType, Actors
<1>3. ASSUME NEW count \in {1, Len(condvarQueue)}, CondvarSignal(count) PROVE TypeOK'
  <2> DEFINE k == IF count < Len(condvarQueue) THEN count ELSE Len(condvarQueue)
  <2>1. k \in 0 .. Len(condvarQueue)
    BY <1>0
  <2>2. condvarQueue' = SubSeq(condvarQueue, k + 1, Len(condvarQueue))
        /\ scheduled' = ThreadResume({condvarQueue[j] : j \in 1 .. k})
    BY <1>3 DEF CondvarSignal
  <2> HIDE DEF k
  <2>3. \A j \in 1 .. Len(condvarQueue) : condvarQueue[j] \in Threads
    BY <1>0
  <2>4. condvarQueue' \in Seq(Threads)
    BY <1>0, <2>1, <2>2, <2>3, SubSeqProperties
  <2>5. scheduled' \subseteq Threads
    BY <2>1, <2>2, <2>3 DEF ThreadResume, TypeOK
  <2> QED
    BY <1>3, <2>4, <2>5 DEF CondvarSignal, TypeOK
<1>4. ASSUME UNCHANGED vars PROVE TypeOK'
  BY <1>4 DEF vars, TypeOK
<1> QED
  BY <1>1, <1>2, <1>3, <1>4 DEF Next

\* The fields of the mutex and the condition variable keep their types.
THEOREM TypeCorrect == Spec => []TypeOK
  BY InitType, StepType, PTL DEF Spec

-----------------------------------------------------------------------------
(* Who has which lock *)

\* The mutex, its queue lock and the condvar's queue lock are each held by the actor
\* whose program counter says so.  A native thread gets the queue lock only while
\* the mutex has no owner, and while it has it nobody can become the owner.
LockInv ==
  /\ \A t \in Threads : Holds(t) <=> owner = t
  /\ \A t \in Threads : pc[t] = "suspending" <=> queueLock = t
  /\ \A t \in Threads : pc[t] \in {"condvar", "parking"} <=> condvarLock = t
  /\ \A n \in Natives : pc[n] \in {"idle", "held"}
  /\ \A n \in Natives : pc[n] = "held" <=> queueLock = n
  /\ queueLock \in Natives => owner = Free

\* Initially nobody holds a lock.
LEMMA LockInit == Init => LockInv
  BY MutexAssumption DEF Init, LockInv, Holds

\* Every step keeps the locks with the actors whose control points say so.
LEMMA LockStep == TypeOK /\ LockInv /\ [Next]_vars => LockInv'
<1> SUFFICES ASSUME TypeOK, LockInv, [Next]_vars PROVE LockInv' OBVIOUS
<1> USE MutexAssumption
<1>1. ASSUME NEW t \in Threads, MutexLock(t) \/ CondvarWait(t) \/ Step(t) PROVE LockInv'
  <2>1. CASE MutexLock(t)
    BY <2>1 DEF MutexLock, LockInv, Holds, TypeOK
  <2>2. CASE MutexOwn(t)
    BY <2>2 DEF MutexOwn, LockInv, Holds, TypeOK
  <2>3. CASE MutexEnqueue(t)
    BY <2>3 DEF MutexEnqueue, LockInv, Holds, TypeOK
  <2>4. CASE MutexSuspended(t)
    BY <2>4 DEF MutexSuspended, LockInv, Holds, TypeOK
  <2>5. CASE MutexUnlock(t)
    <3>1. owner' = Free /\ queueLock = Free /\ queueLock' = Free
      BY <2>5 DEF MutexUnlock, GiveUp
    <3> QED
      BY <2>5, <3>1 DEF MutexUnlock, LockInv, Holds, TypeOK
  <2>6. CASE Resumed(t)
    BY <2>6 DEF Resumed, Stopped, LockInv, Holds, TypeOK
  <2>7. CASE CondvarWait(t)
    BY <2>7 DEF CondvarWait, LockInv, Holds, TypeOK
  <2>8. CASE CondvarEnqueue(t)
    <3>1. owner' = Free /\ queueLock = Free /\ queueLock' = Free
      BY <2>8 DEF CondvarEnqueue, GiveUp
    <3> QED
      BY <2>8, <3>1 DEF CondvarEnqueue, LockInv, Holds, TypeOK
  <2>9. CASE CondvarSuspended(t)
    BY <2>9 DEF CondvarSuspended, LockInv, Holds, TypeOK
  <2> QED
    BY <1>1, <2>1, <2>2, <2>3, <2>4, <2>5, <2>6, <2>7, <2>8, <2>9 DEF Step
<1>2. ASSUME NEW n \in Natives, NativeLock(n) \/ NativeUnlock(n) PROVE LockInv'
  <2>1. CASE NativeLock(n)
    BY <2>1 DEF NativeLock, LockInv, Holds, TypeOK
  <2>2. CASE NativeUnlock(n)
    BY <2>2 DEF NativeUnlock, LockInv, Holds, TypeOK
  <2> QED
    BY <1>2, <2>1, <2>2
<1>3. ASSUME NEW count \in {1, Len(condvarQueue)}, CondvarSignal(count) PROVE LockInv'
  BY <1>3 DEF CondvarSignal, LockInv, Holds
<1>4. ASSUME UNCHANGED vars PROVE LockInv'
  BY <1>4 DEF vars, LockInv, Holds
<1> QED
  BY <1>1, <1>2, <1>3, <1>4 DEF Next

\* The locks are so held in every behaviour.
LEMMA LocksHeld == Spec => []LockInv
  BY LockInit, LockStep, TypeCorrect, PTL DEF Spec

\* dtape_mutex excludes: no two microthreads or native threads are between lock and
\* unlock at once, and dtape_mutex_assert never panics.
THEOREM Exclusion == Spec => []MutualExclusion
<1>1. TypeOK /\ LockInv => MutualExclusion
  <2> SUFFICES ASSUME TypeOK, LockInv, NEW a \in Threads \cup Natives, NEW b \in Threads \cup Natives,
                      Holds(a), Holds(b)
               PROVE  a = b
    BY DEF MutualExclusion, LockInv
  <2>1. CASE a \in Threads /\ b \in Threads
    BY <2>1 DEF LockInv
  <2>2. \A n \in Natives : Holds(n) => queueLock = n /\ owner = Free
    BY DEF LockInv, Holds
  <2>3. \A t \in Threads : Holds(t) => owner # Free
    BY MutexAssumption DEF LockInv
  <2> QED
    BY <2>1, <2>2, <2>3
<1> QED
  BY <1>1, LocksHeld, TypeCorrect, PTL

-----------------------------------------------------------------------------
(* Queues *)

In(q, t) == \E k \in 1 .. Len(q) : q[k] = t
Distinct(q) == \A j, k \in 1 .. Len(q) : q[j] = q[k] => j = k

\* Appending a microthread that is not queued adds it, once.
LEMMA AppendQueue ==
  ASSUME NEW q \in Seq(Threads), NEW t \in Threads, ~In(q, t), Distinct(q)
  PROVE  Distinct(Append(q, t)) /\ \A x : In(Append(q, t), x) <=> In(q, x) \/ x = t
<1> DEFINE r == Append(q, t)
<1>1. /\ Len(r) = Len(q) + 1 /\ r[Len(q) + 1] = t /\ Len(q) \in Nat
      /\ \A k \in 1 .. Len(q) : r[k] = q[k]
  OBVIOUS
<1> HIDE DEF r
<1>2. Distinct(r)
  BY <1>1 DEF Distinct, In
<1>3. \A x : In(r, x) <=> In(q, x) \/ x = t
  BY <1>1 DEF In
<1> QED
  BY <1>2, <1>3 DEF r

\* Taking the first k members off a queue.
LEMMA DropQueue ==
  ASSUME NEW q \in Seq(Threads), Distinct(q), NEW k \in 0 .. Len(q)
  PROVE  /\ Distinct(SubSeq(q, k + 1, Len(q)))
         /\ \A x : In(SubSeq(q, k + 1, Len(q)), x) <=> In(q, x) /\ x \notin {q[j] : j \in 1 .. k}
<1> DEFINE r == SubSeq(q, k + 1, Len(q))
<1>0. Len(q) \in Nat /\ k \in Nat /\ k <= Len(q) /\ \A j \in 1 .. Len(q) : q[j] \in Threads
  OBVIOUS
<1>1. Len(r) = Len(q) - k /\ \A j \in 1 .. Len(q) - k : r[j] = q[k + j]
  <2>1. /\ Len(r) = IF k + 1 <= Len(q) THEN Len(q) - (k + 1) + 1 ELSE 0
        /\ \A j \in 1 .. Len(q) - (k + 1) + 1 : r[j] = q[k + 1 + j - 1]
    BY <1>0, SubSeqProperties
  <2> HIDE DEF r
  <2> QED
    BY <1>0, <2>1
<1> HIDE DEF r
<1>2. Distinct(r)
  BY <1>0, <1>1 DEF Distinct
<1>3. ASSUME NEW x PROVE In(r, x) => In(q, x) /\ x \notin {q[j] : j \in 1 .. k}
  <2> SUFFICES ASSUME NEW j \in 1 .. Len(r), r[j] = x PROVE In(q, x) /\ \A i \in 1 .. k : q[i] # x
    BY DEF In
  <2>1. k + j \in 1 .. Len(q) /\ q[k + j] = x
    BY <1>0, <1>1
  <2> QED
    BY <1>0, <2>1 DEF In, Distinct
<1>4. ASSUME NEW x PROVE In(q, x) /\ x \notin {q[j] : j \in 1 .. k} => In(r, x)
  <2> SUFFICES ASSUME NEW j \in 1 .. Len(q), q[j] = x, \A i \in 1 .. k : q[i] # x PROVE In(r, x)
    BY DEF In
  <2>1. j - k \in 1 .. Len(r) /\ r[j - k] = x
    BY <1>0, <1>1
  <2> QED
    BY <2>1 DEF In
<1> QED
  BY <1>2, <1>3, <1>4 DEF r

\* Taking the head out of a queue removes that microthread and no other.
LEMMA TailQueue ==
  ASSUME NEW q \in Seq(Threads), q # <<>>, Distinct(q)
  PROVE  Distinct(Tail(q)) /\ (\A x : In(Tail(q), x) <=> In(q, x) /\ x # Head(q)) /\ In(q, Head(q))
<1>1. Len(q) \in Nat /\ Len(q) >= 1 /\ Head(q) = q[1]
  OBVIOUS
<1>2. Tail(q) = SubSeq(q, 1 + 1, Len(q))
  BY TailIsSubSeq
<1>3. {q[j] : j \in 1 .. 1} = {Head(q)}
  BY <1>1
<1>4. In(q, Head(q))
  BY <1>1 DEF In
<1>5. 1 \in 0 .. Len(q)
  BY <1>1
<1>6. /\ Distinct(SubSeq(q, 1 + 1, Len(q)))
      /\ \A x : In(SubSeq(q, 1 + 1, Len(q)), x) <=> In(q, x) /\ x \notin {q[j] : j \in 1 .. 1}
  BY <1>5, DropQueue
<1> QED
  BY <1>2, <1>3, <1>4, <1>6, Zenon

-----------------------------------------------------------------------------
(* Waiting and waking *)

\* Each queue holds exactly the microthreads that are about to suspend or are
\* suspended on it and have not been resumed, each once; and a free mutex with
\* waiters has a contender.
QueueInv ==
  /\ Distinct(queue) /\ Distinct(condvarQueue)
  /\ \A t \in scheduled : Stopped(t)
  /\ \A t \in Threads : In(queue, t) <=> pc[t] \in {"suspending", "suspended"} /\ t \notin scheduled
  /\ \A t \in Threads : In(condvarQueue, t) <=> pc[t] \in {"parking", "waiting"} /\ t \notin scheduled
  /\ FreeMutexHasContender

\* Initially both queues are empty.
LEMMA QueueInit == Init => QueueInv
<1> SUFFICES ASSUME Init PROVE QueueInv OBVIOUS
<1>1. Len(queue) = 0 /\ Len(condvarQueue) = 0
  BY DEF Init
<1>2. Distinct(queue) /\ Distinct(condvarQueue)
      /\ \A t \in Threads : ~In(queue, t) /\ ~In(condvarQueue, t)
  BY <1>1 DEF Distinct, In
<1> QED
  BY <1>2 DEF Init, QueueInv, FreeMutexHasContender

\* What dtape_mutex_unlock's section does to the queue: the microthread taken from it
\* is scheduled, and while others remain in it some scheduled one will contend.
GaveUp ==
  /\ Distinct(queue')
  /\ scheduled \subseteq scheduled' /\ \A x \in scheduled' : Stopped(x)
  /\ \A x \in scheduled' \ scheduled : pc[x] = "suspended"
  /\ \A x \in Threads : In(queue', x) <=> pc[x] = "suspended" /\ x \notin scheduled'
  /\ queue' # <<>> => \E x \in Threads : x \in scheduled' /\ pc[x] = "suspended"

\* Leaving the mutex resumes the first waiter, if there is one.
LEMMA GiveUpQueue == ASSUME TypeOK, LockInv, QueueInv, GiveUp PROVE GaveUp
<1>0. \A x \in Threads : pc[x] # "suspending"
  BY MutexAssumption DEF GiveUp, LockInv
<1>1. CASE queue = <<>>
  BY <1>0, <1>1 DEF GiveUp, QueueInv, GaveUp
<1>2. CASE queue # <<>>
  <2>1. /\ Distinct(queue') /\ In(queue, Head(queue))
        /\ \A x : In(queue', x) <=> In(queue, x) /\ x # Head(queue)
    BY <1>2, TailQueue DEF GiveUp, QueueInv, TypeOK
  <2>2. Head(queue) \in Threads
    BY <1>2 DEF TypeOK
  <2>3. pc[Head(queue)] = "suspended"
    BY <1>0, <2>1, <2>2 DEF QueueInv
  <2>4. scheduled' = scheduled \cup {Head(queue)}
    BY <1>2, <2>3 DEF GiveUp, ThreadResume, Stopped
  <2> QED
    BY <1>0, <2>1, <2>2, <2>3, <2>4 DEF QueueInv, Stopped, GaveUp
<1> QED
  BY <1>1, <1>2

\* Every step keeps the queues exact.
LEMMA QueueStep == TypeOK /\ LockInv /\ QueueInv /\ [Next]_vars => QueueInv'
<1> SUFFICES ASSUME TypeOK, LockInv, QueueInv, [Next]_vars PROVE QueueInv' OBVIOUS
<1>1. ASSUME NEW t \in Threads, MutexLock(t) PROVE QueueInv'
  BY <1>1 DEF MutexLock, QueueInv, Stopped, FreeMutexHasContender, TypeOK
<1>2. ASSUME NEW t \in Threads, MutexOwn(t) PROVE QueueInv'
  BY <1>2, MutexAssumption DEF MutexOwn, QueueInv, Stopped, FreeMutexHasContender, TypeOK
<1>3. ASSUME NEW t \in Threads, MutexEnqueue(t) PROVE QueueInv'
  <2>1. ~In(queue, t) /\ t \notin scheduled
    BY <1>3 DEF MutexEnqueue, QueueInv, Stopped
  <2>2. Distinct(queue') /\ \A x : In(queue', x) <=> In(queue, x) \/ x = t
    BY <1>3, <2>1, AppendQueue DEF MutexEnqueue, QueueInv, TypeOK
  <2>3. \A x \in Threads : pc'[x] = IF x = t THEN "suspending" ELSE pc[x]
    BY <1>3 DEF MutexEnqueue, TypeOK
  <2>4. UNCHANGED <<owner, condvarQueue, scheduled>> /\ owner # Free /\ pc[t] = "lock"
    BY <1>3 DEF MutexEnqueue
  <2>5. \A x \in scheduled' : Stopped(x)'
    BY <2>1, <2>3, <2>4 DEF QueueInv, Stopped, TypeOK
  <2>6. \A x \in Threads : In(queue', x) <=> pc'[x] \in {"suspending", "suspended"} /\ x \notin scheduled'
    BY <2>1, <2>2, <2>3, <2>4 DEF QueueInv
  <2> QED
    BY <2>2, <2>3, <2>4, <2>5, <2>6 DEF QueueInv, FreeMutexHasContender
<1>4. ASSUME NEW t \in Threads, MutexSuspended(t) PROVE QueueInv'
  BY <1>4 DEF MutexSuspended, QueueInv, Stopped, FreeMutexHasContender, TypeOK
<1>5. ASSUME NEW t \in Threads, MutexUnlock(t) PROVE QueueInv'
  <2>1. /\ pc[t] = "held" /\ condvarQueue' = condvarQueue
        /\ \A x \in Threads : pc'[x] = IF x = t THEN "idle" ELSE pc[x]
    BY <1>5 DEF MutexUnlock, TypeOK
  <2>2. scheduled' \subseteq Threads
    BY <1>5, GiveUpType DEF MutexUnlock
  <2>5. GaveUp
    BY <1>5, GiveUpQueue DEF MutexUnlock
  <2>6. \A x \in scheduled' : Stopped(x)'
    BY <2>1, <2>2, <2>5 DEF Stopped, GaveUp
  <2>7. \A x \in Threads : In(queue', x) <=> pc'[x] \in {"suspending", "suspended"} /\ x \notin scheduled'
    <3>1. \A x \in Threads : pc[x] # "suspending"
      BY <1>5, MutexAssumption DEF MutexUnlock, GiveUp, LockInv
    <3> QED
      BY <2>1, <2>5, <3>1 DEF GaveUp
  <2>8. \A x \in Threads : In(condvarQueue', x) <=> pc'[x] \in {"parking", "waiting"} /\ x \notin scheduled'
    <3>1. \A x \in Threads : pc[x] \in {"parking", "waiting"} => (x \in scheduled' <=> x \in scheduled)
      BY <2>5 DEF GaveUp
    <3> QED
      BY <2>1, <2>2, <2>5, <3>1 DEF QueueInv, Stopped, GaveUp
  <2>9. FreeMutexHasContender'
    BY <2>1, <2>5 DEF FreeMutexHasContender, GaveUp
  <2>10. Distinct(condvarQueue')
    BY <2>1 DEF QueueInv
  <2> QED
    BY <2>5, <2>6, <2>7, <2>8, <2>9, <2>10 DEF QueueInv, GaveUp
<1>6. ASSUME NEW t \in Threads, Resumed(t) PROVE QueueInv'
  BY <1>6 DEF Resumed, QueueInv, Stopped, FreeMutexHasContender, TypeOK
<1>7. ASSUME NEW t \in Threads, CondvarWait(t) PROVE QueueInv'
  BY <1>7 DEF CondvarWait, QueueInv, Stopped, FreeMutexHasContender, TypeOK
<1>8. ASSUME NEW t \in Threads, CondvarEnqueue(t) PROVE QueueInv'
  <2>1. /\ pc[t] = "condvar" /\ \A x \in Threads : pc'[x] = IF x = t THEN "parking" ELSE pc[x]
    BY <1>8 DEF CondvarEnqueue, TypeOK
  <2>2. scheduled' \subseteq Threads
    BY <1>8, GiveUpType DEF CondvarEnqueue
  <2>3. ~In(condvarQueue, t)
    BY <2>1 DEF QueueInv
  <2>4. Distinct(condvarQueue') /\ \A x : In(condvarQueue', x) <=> In(condvarQueue, x) \/ x = t
    BY <1>8, <2>3, AppendQueue DEF CondvarEnqueue, QueueInv, TypeOK
  <2>5. GaveUp
    BY <1>8, GiveUpQueue DEF CondvarEnqueue
  <2>6. \A x \in scheduled' : Stopped(x)'
    BY <2>1, <2>2, <2>5 DEF Stopped, GaveUp
  <2>7. \A x \in Threads : In(queue', x) <=> pc'[x] \in {"suspending", "suspended"} /\ x \notin scheduled'
    <3>1. \A x \in Threads : pc[x] # "suspending"
      BY <1>8, MutexAssumption DEF CondvarEnqueue, GiveUp, LockInv
    <3> QED
      BY <2>1, <2>5, <3>1 DEF GaveUp
  <2>8. \A x \in Threads : In(condvarQueue', x) <=> pc'[x] \in {"parking", "waiting"} /\ x \notin scheduled'
    <3>1. \A x \in Threads : pc[x] \in {"parking", "waiting"} => (x \in scheduled' <=> x \in scheduled)
      BY <2>5 DEF GaveUp
    <3> QED
      BY <2>1, <2>4, <2>2, <2>5, <3>1 DEF QueueInv, Stopped, GaveUp
  <2>9. FreeMutexHasContender'
    BY <2>1, <2>5 DEF FreeMutexHasContender, GaveUp
  <2>10. Distinct(condvarQueue')
    BY <2>1, <2>4 DEF QueueInv
  <2> QED
    BY <2>5, <2>6, <2>7, <2>8, <2>9, <2>10 DEF QueueInv, GaveUp
<1>9. ASSUME NEW t \in Threads, CondvarSuspended(t) PROVE QueueInv'
  BY <1>9 DEF CondvarSuspended, QueueInv, Stopped, FreeMutexHasContender, TypeOK
<1>10. ASSUME NEW n \in Natives, NativeLock(n) \/ NativeUnlock(n) PROVE QueueInv'
  <2>1. /\ UNCHANGED <<owner, queue, condvarQueue, scheduled>>
        /\ \A x \in Threads : pc'[x] = pc[x]
    BY <1>10, MutexAssumption DEF NativeLock, NativeUnlock, TypeOK
  <2> QED
    BY <2>1 DEF QueueInv, Stopped, FreeMutexHasContender, TypeOK
<1>11. ASSUME NEW count \in {1, Len(condvarQueue)}, CondvarSignal(count) PROVE QueueInv'
  <2> DEFINE k == IF count < Len(condvarQueue) THEN count ELSE Len(condvarQueue)
  <2> DEFINE S == {condvarQueue[j] : j \in 1 .. k}
  <2>1. k \in 0 .. Len(condvarQueue)
    BY DEF TypeOK
  <2>2. /\ condvarQueue' = SubSeq(condvarQueue, k + 1, Len(condvarQueue))
        /\ scheduled' = ThreadResume(S) /\ condvarLock = Free
        /\ UNCHANGED <<owner, queue, pc>>
    BY <1>11 DEF CondvarSignal
  <2> HIDE DEF k
  <2>3. /\ Distinct(condvarQueue')
        /\ \A x : In(condvarQueue', x) <=> In(condvarQueue, x) /\ x \notin S
    BY <2>1, <2>2, DropQueue DEF QueueInv, TypeOK
  <2>4. \A x \in S : x \in Threads /\ In(condvarQueue, x)
    BY <2>1 DEF In, TypeOK
  <2>5. \A x \in S : pc[x] = "waiting"
    BY <2>2, <2>4, MutexAssumption DEF LockInv, QueueInv
  <2> HIDE DEF S
  <2>6. scheduled' = scheduled \cup S
    BY <2>2, <2>5 DEF ThreadResume, Stopped
  <2> QED
    BY <2>2, <2>3, <2>5, <2>6 DEF QueueInv, Stopped, FreeMutexHasContender
<1>12. ASSUME UNCHANGED vars PROVE QueueInv'
  BY <1>12 DEF vars, QueueInv, Stopped, FreeMutexHasContender
<1> QED
  BY <1>1, <1>2, <1>3, <1>4, <1>5, <1>6, <1>7, <1>8, <1>9, <1>10, <1>11, <1>12 DEF Next, Step

\* The queues are exact in every behaviour.
LEMMA QueuesKept == Spec => []QueueInv
  BY QueueInit, QueueStep, LocksHeld, TypeCorrect, PTL DEF Spec

\* No wake-up of a queued microthread is dropped: when its queue can be reached it
\* is suspended and not yet resumed.
THEOREM WakeupsReachWaiters == Spec => []QueuedAreSuspended
<1>1. TypeOK /\ LockInv /\ QueueInv => QueuedAreSuspended
  <2> SUFFICES ASSUME TypeOK, LockInv, QueueInv PROVE QueuedAreSuspended OBVIOUS
  <2>1. ASSUME queueLock = Free, NEW j \in DOMAIN queue
        PROVE  pc[queue[j]] = "suspended" /\ queue[j] \notin scheduled
    <3>1. queue[j] \in Threads /\ In(queue, queue[j])
      BY DEF In, TypeOK
    <3> QED
      BY <2>1, <3>1, MutexAssumption DEF LockInv, QueueInv
  <2>2. ASSUME condvarLock = Free, NEW j \in DOMAIN condvarQueue
        PROVE  pc[condvarQueue[j]] = "waiting" /\ condvarQueue[j] \notin scheduled
    <3>1. condvarQueue[j] \in Threads /\ In(condvarQueue, condvarQueue[j])
      BY DEF In, TypeOK
    <3> QED
      BY <2>2, <3>1, MutexAssumption DEF LockInv, QueueInv
  <2> QED
    BY <2>1, <2>2 DEF QueuedAreSuspended
<1> QED
  BY <1>1, QueuesKept, LocksHeld, TypeCorrect, PTL

\* One wake-up per unlock is enough: a free mutex with waiters has a contender.
THEOREM ContenderExists == Spec => []FreeMutexHasContender
<1>1. QueueInv => FreeMutexHasContender
  BY DEF QueueInv
<1> QED
  BY <1>1, QueuesKept, PTL

\* A suspended microthread stays accounted for: it is in its queue once or scheduled.
THEOREM NoWaiterForgotten == Spec => []WaitersAccounted
<1>1. TypeOK /\ QueueInv => WaitersAccounted
  <2> SUFFICES ASSUME TypeOK, QueueInv, NEW t \in Threads
               PROVE  /\ pc[t] = "suspended" => t \in scheduled \/ \E k \in DOMAIN queue : queue[k] = t
                      /\ pc[t] = "waiting" => t \in scheduled \/ \E k \in DOMAIN condvarQueue : condvarQueue[k] = t
                      /\ \A j, k \in DOMAIN queue : queue[j] = t /\ queue[k] = t => j = k
    BY Zenon DEF WaitersAccounted
  <2>1. DOMAIN queue = 1 .. Len(queue) /\ DOMAIN condvarQueue = 1 .. Len(condvarQueue)
    BY DEF TypeOK
  <2> QED
    BY <2>1 DEF QueueInv, In, Distinct
<1> QED
  BY <1>1, QueuesKept, TypeCorrect, PTL

-----------------------------------------------------------------------------
(* The mutex and the condition variable implement the monitor *)

\* Initial states map to initial states of the monitor.
LEMMA MonitorInit == Init => M!Init
  BY MutexAssumption DEF Init, M!Init, holder, Free, M!Free

\* Every step maps to a step of the monitor or to none.
LEMMA MonitorStep == TypeOK /\ LockInv /\ QueueInv /\ MutualExclusion /\ [Next]_vars
                     => [M!Next]_<<holder, condvarQueue>>
<1> SUFFICES ASSUME TypeOK, LockInv, QueueInv, MutualExclusion, [Next]_vars
             PROVE  M!Next \/ UNCHANGED <<holder, condvarQueue>>
  OBVIOUS
<1> USE MutexAssumption DEF M!Free
<1>1. ASSUME NEW t \in Threads, MutexOwn(t) PROVE M!Next
  <2>1. pc[t] = "lock" /\ queueLock = Free /\ owner' = t /\ UNCHANGED <<queueLock, condvarQueue>>
    BY <1>1 DEF MutexOwn
  <2>2. owner = Free
    BY <1>1, <2>1 DEF MutexOwn, MutualExclusion, Holds
  <2>3. holder = Free /\ holder' = t
    BY <2>1, <2>2 DEF holder, Free
  <2>4. \A k \in DOMAIN condvarQueue : condvarQueue[k] # t
    BY <2>1 DEF QueueInv, In, TypeOK
  <2> QED
    BY <2>1, <2>3, <2>4 DEF M!Next, M!Acquire, Free
<1>2. ASSUME NEW t \in Threads, MutexUnlock(t) \/ CondvarEnqueue(t) PROVE holder = t /\ holder' = Free
  <2>1. owner = t
    BY <1>2 DEF MutexUnlock, CondvarEnqueue, MutualExclusion, Holds
  <2>2. owner' = Free /\ queueLock' = Free
    BY <1>2 DEF MutexUnlock, CondvarEnqueue, GiveUp
  <2> QED
    BY <2>1, <2>2 DEF holder, Free
<1>3. ASSUME NEW t \in Threads, MutexUnlock(t) PROVE M!Next
  BY <1>2, <1>3, Zenon DEF MutexUnlock, M!Next, M!Release, Free
<1>4. ASSUME NEW t \in Threads, CondvarEnqueue(t) PROVE M!Next
  BY <1>2, <1>4, Zenon DEF CondvarEnqueue, M!Next, M!Wait, Free
<1>5. ASSUME NEW n \in Natives, NativeLock(n) PROVE M!Next
  <2>1. holder = Free /\ holder' = n /\ condvarQueue' = condvarQueue
    BY <1>5 DEF NativeLock, holder, Free
  <2>2. \A k \in DOMAIN condvarQueue : condvarQueue[k] # n
    BY DEF TypeOK
  <2> QED
    BY <2>1, <2>2 DEF M!Next, M!Acquire, Free
<1>6. ASSUME NEW n \in Natives, NativeUnlock(n) PROVE M!Next
  <2>1. queueLock = n /\ owner = Free
    BY <1>6 DEF NativeUnlock, LockInv, MutualExclusion, Holds, TypeOK
  <2>2. holder = n /\ holder' = Free /\ condvarQueue' = condvarQueue
    BY <1>6, <2>1 DEF NativeUnlock, holder, Free
  <2> QED
    BY <2>2 DEF M!Next, M!Release, Free
<1>7. ASSUME NEW count \in {1, Len(condvarQueue)}, CondvarSignal(count) PROVE M!Next
  <2> DEFINE k == IF count < Len(condvarQueue) THEN count ELSE Len(condvarQueue)
  <2>1. k \in 0 .. Len(condvarQueue)
    BY DEF TypeOK
  <2>2. holder' = holder /\ condvarQueue' = SubSeq(condvarQueue, k + 1, Len(condvarQueue))
    BY <1>7 DEF CondvarSignal, holder
  <2> HIDE DEF k
  <2> QED
    BY <2>1, <2>2 DEF M!Next, M!Signal
<1>8. ASSUME NEW t \in Threads,
             \/ MutexLock(t) \/ CondvarWait(t) \/ Resumed(t) \/ CondvarSuspended(t)
             \/ MutexEnqueue(t) \/ MutexSuspended(t)
      PROVE  UNCHANGED <<holder, condvarQueue>>
  <2>1. UNCHANGED <<owner, condvarQueue>>
    BY <1>8 DEF MutexLock, CondvarWait, Resumed, CondvarSuspended, MutexEnqueue, MutexSuspended
  <2>2. queueLock' \in Natives <=> queueLock \in Natives
    BY <1>8 DEF MutexLock, CondvarWait, Resumed, CondvarSuspended, MutexEnqueue, MutexSuspended, LockInv, Free
  <2>3. queueLock \in Natives => queueLock' = queueLock
    BY <1>8 DEF MutexLock, CondvarWait, Resumed, CondvarSuspended, MutexEnqueue, MutexSuspended, LockInv, Free
  <2> QED
    BY <2>1, <2>2, <2>3 DEF holder
<1>9. ASSUME UNCHANGED vars PROVE UNCHANGED <<holder, condvarQueue>>
  BY <1>9 DEF vars, holder
<1> QED
  BY <1>1, <1>3, <1>4, <1>5, <1>6, <1>7, <1>8, <1>9 DEF Next, Step

\* dtape_mutex and dtape_condvar together implement the monitor: releasing the mutex
\* and starting to wait look like one step to every signal.
THEOREM ImplementsMonitor == Spec => MonitorSpec
<1>1. Spec => [](TypeOK /\ LockInv /\ QueueInv /\ MutualExclusion)
  BY TypeCorrect, LocksHeld, QueuesKept, Exclusion, PTL
<1> QED
  BY <1>1, MonitorInit, MonitorStep, PTL DEF Spec, MonitorSpec, M!Spec
=============================================================================
