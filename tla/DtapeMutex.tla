----------------------------- MODULE DtapeMutex -----------------------------
(***************************************************************************)
(* The mutex (duct-tape/src/locks.c) on which every lock of the duct-taped *)
(* XNU code is built, and the condition variable (condvar.c) that is used  *)
(* with it.  Both guard a queue of waiting microthreads by a native lock   *)
(* that a microthread about to suspend passes to the thread_suspend hook,  *)
(* which releases it when the microthread has stopped (Microthread.tla).   *)
(*                                                                         *)
(* A section of a native lock is one action; only a section that ends in   *)
(* the thread_suspend hook is cut in two, and the lock is held between.    *)
(***************************************************************************)
EXTENDS Naturals, Sequences

CONSTANTS Threads,  \* microthreads
          Natives   \* OS threads that run no microthread

Free == "free"

ASSUME MutexAssumption == Free \notin Threads \cup Natives /\ Threads \cap Natives = {}

VARIABLES
  owner,           \* dtape_owner, Free for 0
  queueLock,       \* who holds dtape_queue_lock
  queue,           \* dtape_queue_head
  condvarLock, condvarQueue,
  scheduled,       \* the microthreads whose resumption is in the work queue
  pc

vars == <<owner, queueLock, queue, condvarLock, condvarQueue, scheduled, pc>>

Init ==
  /\ owner = Free
  /\ queueLock = Free /\ queue = <<>>
  /\ condvarLock = Free /\ condvarQueue = <<>>
  /\ scheduled = {}
  /\ pc = [a \in Threads \cup Natives |-> "idle"]

Stopped(t) == pc[t] \in {"suspended", "waiting"}

\* The thread_resume hook schedules those of S that are suspended.
ThreadResume(S) == scheduled \cup {t \in S : Stopped(t)}

-----------------------------------------------------------------------------
(* dtape_mutex *)

\* A microthread calls dtape_mutex_lock, from outside or from dtape_condvar_wait.
MutexLock(t) ==
  /\ pc[t] = "idle"
  /\ pc' = [pc EXCEPT ![t] = "lock"]
  /\ UNCHANGED <<owner, queueLock, queue, condvarLock, condvarQueue, scheduled>>

\* The loop of dtape_mutex_lock: own the mutex, or queue up and suspend.
MutexOwn(t) ==
  /\ pc[t] = "lock"
  /\ queueLock = Free
  /\ owner \in {Free, t}
  /\ owner' = t
  /\ pc' = [pc EXCEPT ![t] = "held"]
  /\ UNCHANGED <<queueLock, queue, condvarLock, condvarQueue, scheduled>>

\* Mutant: the queue lock is dropped before the microthread has stopped.
MutexEnqueueUnlocked(t) ==
  /\ pc[t] = "lock"
  /\ queueLock = Free
  /\ owner \notin {Free, t}
  /\ queue' = Append(queue, t)
  /\ pc' = [pc EXCEPT ![t] = "suspending"]
  /\ UNCHANGED <<owner, queueLock, condvarLock, condvarQueue, scheduled>>

MutexEnqueue(t) ==
  /\ pc[t] = "lock"
  /\ queueLock = Free
  /\ owner \notin {Free, t}
  /\ queueLock' = t
  /\ queue' = Append(queue, t)
  /\ pc' = [pc EXCEPT ![t] = "suspending"]
  /\ UNCHANGED <<owner, condvarLock, condvarQueue, scheduled>>

\* doWork has marked the microthread as not running and releases the lock.
MutexSuspended(t) ==
  /\ pc[t] = "suspending"
  /\ queueLock' = Free
  /\ pc' = [pc EXCEPT ![t] = "suspended"]
  /\ UNCHANGED <<owner, queue, condvarLock, condvarQueue, scheduled>>

\* Mutant: the waiter is taken from the queue but not resumed.
GiveUpAsleep ==
  /\ queueLock = Free
  /\ owner' = Free
  /\ queue' = IF queue = <<>> THEN queue ELSE Tail(queue)
  /\ UNCHANGED <<queueLock, scheduled>>

\* Mutant: the contended case is left out.
GiveUpUncontended ==
  /\ queueLock = Free
  /\ owner' = Free
  /\ UNCHANGED <<queueLock, queue, scheduled>>

\* dtape_mutex_unlock's section: give the mutex up and wake the oldest waiter.
GiveUp ==
  /\ queueLock = Free
  /\ owner' = Free
  /\ queue' = IF queue = <<>> THEN queue ELSE Tail(queue)
  /\ scheduled' = IF queue = <<>> THEN scheduled ELSE ThreadResume({Head(queue)})
  /\ UNCHANGED queueLock

MutexUnlock(t) ==
  /\ pc[t] = "held"
  /\ GiveUp
  /\ pc' = [pc EXCEPT ![t] = "idle"]
  /\ UNCHANGED <<condvarLock, condvarQueue>>

\* A worker takes a scheduled microthread from the work queue and runs it again.
Resumed(t) ==
  /\ t \in scheduled
  /\ Stopped(t)
  /\ scheduled' = scheduled \ {t}
  /\ pc' = [pc EXCEPT ![t] = "lock"]
  /\ UNCHANGED <<owner, queueLock, queue, condvarLock, condvarQueue>>

\* Mutant: the native path does not wait until there is no owner.
NativeLockOwned(n) ==
  /\ pc[n] = "idle"
  /\ queueLock = Free
  /\ queueLock' = n
  /\ pc' = [pc EXCEPT ![n] = "held"]
  /\ UNCHANGED <<owner, queue, condvarLock, condvarQueue, scheduled>>

\* Without a microthread the queue lock itself is the mutex; dtape_mutex_lock spins
\* until there is no owner.
NativeLock(n) ==
  /\ pc[n] = "idle"
  /\ queueLock = Free
  /\ owner = Free
  /\ queueLock' = n
  /\ pc' = [pc EXCEPT ![n] = "held"]
  /\ UNCHANGED <<owner, queue, condvarLock, condvarQueue, scheduled>>

NativeUnlock(n) ==
  /\ pc[n] = "held"
  /\ queueLock' = Free
  /\ pc' = [pc EXCEPT ![n] = "idle"]
  /\ UNCHANGED <<owner, queue, condvarLock, condvarQueue, scheduled>>

-----------------------------------------------------------------------------
(* dtape_condvar *)

CondvarWait(t) ==
  /\ pc[t] = "held"
  /\ condvarLock = Free
  /\ condvarLock' = t
  /\ pc' = [pc EXCEPT ![t] = "condvar"]
  /\ UNCHANGED <<owner, queueLock, queue, condvarQueue, scheduled>>

\* Mutant: the waiter is inserted at the head of the queue.
CondvarEnqueueFirst(t) ==
  /\ pc[t] = "condvar"
  /\ GiveUp
  /\ condvarQueue' = <<t>> \o condvarQueue
  /\ pc' = [pc EXCEPT ![t] = "parking"]
  /\ UNCHANGED condvarLock

\* dtape_mutex_unlock, then the insertion, all under the condvar's queue lock.
CondvarEnqueue(t) ==
  /\ pc[t] = "condvar"
  /\ GiveUp
  /\ condvarQueue' = Append(condvarQueue, t)
  /\ pc' = [pc EXCEPT ![t] = "parking"]
  /\ UNCHANGED condvarLock

CondvarSuspended(t) ==
  /\ pc[t] = "parking"
  /\ condvarLock' = Free
  /\ pc' = [pc EXCEPT ![t] = "waiting"]
  /\ UNCHANGED <<owner, queueLock, queue, condvarQueue, scheduled>>

\* dtape_condvar_signal with a count, by anyone, holding the mutex or not.
CondvarSignal(count) ==
  LET k == IF count < Len(condvarQueue) THEN count ELSE Len(condvarQueue) IN
  /\ condvarLock = Free
  /\ scheduled' = ThreadResume({condvarQueue[j] : j \in 1 .. k})
  /\ condvarQueue' = SubSeq(condvarQueue, k + 1, Len(condvarQueue))
  /\ UNCHANGED <<owner, queueLock, queue, condvarLock, pc>>

-----------------------------------------------------------------------------
Step(t) ==
  \/ MutexOwn(t) \/ MutexEnqueue(t) \/ MutexSuspended(t) \/ MutexUnlock(t) \/ Resumed(t)
  \/ CondvarEnqueue(t) \/ CondvarSuspended(t)

\* The callers signal one waiter or, with SIZE_MAX, all of them.
Next ==
  \/ \E t \in Threads : MutexLock(t) \/ CondvarWait(t) \/ Step(t)
  \/ \E n \in Natives : NativeLock(n) \/ NativeUnlock(n)
  \/ \E count \in {1, Len(condvarQueue)} : CondvarSignal(count)

\* Workers run what is scheduled, and holders let go in the end; nobody has to lock,
\* wait or signal.
Fairness ==
  /\ \A t \in Threads : WF_vars(Step(t))
  /\ \A n \in Natives : WF_vars(NativeUnlock(n))

Spec == Init /\ [][Next]_vars
FairSpec == Spec /\ Fairness

-----------------------------------------------------------------------------
(* Properties *)

\* The variables keep the types of the fields of locks.h and condvar.h.
TypeOK ==
  /\ owner \in Threads \cup {Free}
  /\ queueLock \in Threads \cup Natives \cup {Free}
  /\ queue \in Seq(Threads)
  /\ condvarLock \in Threads \cup {Free}
  /\ condvarQueue \in Seq(Threads)
  /\ scheduled \subseteq Threads
  /\ pc \in [Threads \cup Natives ->
               {"idle", "lock", "suspending", "suspended", "held", "condvar", "parking", "waiting"}]

Holds(a) == pc[a] \in {"held", "condvar"}

\* Between lock and unlock (dtape_mutex_assert) a microthread owns the mutex and a
\* native thread its queue lock, and no two of them are there together.
MutualExclusion ==
  /\ \A t \in Threads : Holds(t) <=> owner = t
  /\ \A a, b \in Threads \cup Natives : Holds(a) /\ Holds(b) => a = b

\* "we can be certain that we won't miss any wakeups": whoever gets at a queue finds
\* all its members suspended and not yet resumed, so that a resume is never dropped.
QueuedAreSuspended ==
  /\ queueLock = Free => \A k \in DOMAIN queue : pc[queue[k]] = "suspended" /\ queue[k] \notin scheduled
  /\ condvarLock = Free =>
       \A k \in DOMAIN condvarQueue : pc[condvarQueue[k]] = "waiting" /\ condvarQueue[k] \notin scheduled

\* A suspended microthread is waiting in its queue, exactly once, or is scheduled.
WaitersAccounted ==
  \A t \in Threads :
    /\ pc[t] = "suspended" => t \in scheduled \/ \E k \in DOMAIN queue : queue[k] = t
    /\ pc[t] = "waiting" => t \in scheduled \/ \E k \in DOMAIN condvarQueue : condvarQueue[k] = t
    /\ \A j, k \in DOMAIN queue : queue[j] = t /\ queue[k] = t => j = k

\* A free mutex with waiters has somebody on the way to it, whose unlock will wake
\* the next one: one wake-up per unlock is enough.
FreeMutexHasContender ==
  (owner = Free /\ queue # <<>>) =>
    \E t \in Threads : pc[t] = "lock" \/ (pc[t] = "suspended" /\ t \in scheduled)

Contended == owner = Free /\ \E t \in Threads : pc[t] \in {"lock", "suspending", "suspended"}

\* A mutex that is free and wanted is held again, by someone, in the end.
LockProgress == Contended ~> \E a \in Threads \cup Natives : Holds(a)

\* Mutex and condition variable together behave as a monitor with atomic wait.
holder ==
  IF owner # Free THEN owner
  ELSE IF queueLock \in Natives THEN queueLock ELSE Free

M == INSTANCE Monitor WITH holder <- holder, waiters <- condvarQueue

MonitorSpec == M!Spec
=============================================================================
