----------------------------- MODULE WorkQueue -----------------------------
(***************************************************************************)
(* DarlingServer::WorkQueue (internal-include/darlingserver/workers.hpp):  *)
(* the pool of OS threads that run microthreads.  Permanent workers wait   *)
(* on the condition variable for ever; a push that finds no available      *)
(* thread starts a temporary worker, which dies after waiting 15 seconds   *)
(* in vain.                                                                *)
(*                                                                         *)
(* One action is one critical section of _queueMutex.  Work items are      *)
(* numbered in the order they are pushed.                                  *)
(***************************************************************************)
EXTENDS Integers, Sequences, FiniteSets

CONSTANTS Permanent,       \* the workers the constructor starts
          Temporary,       \* the identities temporary workers may take
          MaximumThreads,  \* maximumThreads()
          MaxPushes        \* bound: how many items are pushed

ASSUME WorkersAssumption ==
  /\ IsFiniteSet(Permanent) /\ IsFiniteSet(Temporary)
  /\ Permanent # {} /\ Permanent \cap Temporary = {}
  /\ MaximumThreads \in Nat /\ MaximumThreads >= Cardinality(Permanent)
  /\ MaxPushes \in Nat

VARIABLES workItems,         \* _workItems
          threadsAvailable,  \* _threadsAvailable
          workerThreads,     \* the keys of _workerThreads
          dying,             \* _dying
          pc,                \* where each worker thread is
          notified,          \* waiters the condition variable has woken
          notifies,          \* notify_one calls still to be made by pushers
          item,              \* the workItem each running worker holds
          pushed             \* how many items have been pushed

vars == <<workItems, threadsAvailable, workerThreads, dying, pc, notified,
          notifies, item, pushed>>

Workers == Permanent \cup Temporary
Items == 1 .. MaxPushes
NoItem == 0

Waiting == {w \in Workers : pc[w] = "waiting"}
TimedOut == {w \in Workers : pc[w] = "timedout"}

Init ==
  /\ workItems = <<>>
  /\ threadsAvailable = 0
  /\ workerThreads = Permanent
  /\ dying = FALSE
  /\ pc = [w \in Workers |-> IF w \in Permanent THEN "start" ELSE "unborn"]
  /\ notified = {}
  /\ notifies = 0
  /\ item = [w \in Workers |-> NoItem]
  /\ pushed = 0

-----------------------------------------------------------------------------
(* push *)

\* Mutant: the size of the pool is not looked at.
SpawnUnbounded == threadsAvailable = 0

ShouldSpawn == threadsAvailable = 0 /\ Cardinality(workerThreads) < MaximumThreads

PushItem ==
  /\ ~dying
  /\ pushed < MaxPushes
  /\ pushed' = pushed + 1
  /\ workItems' = Append(workItems, pushed + 1)
  /\ UNCHANGED <<threadsAvailable, dying, notified, item>>

PushAndSpawn ==
  /\ ShouldSpawn
  /\ PushItem
  /\ \E w \in Temporary :
       /\ pc[w] = "unborn"
       /\ pc' = [pc EXCEPT ![w] = "start"]
       /\ workerThreads' = workerThreads \cup {w}
  /\ UNCHANGED notifies

\* Mutant: the notification is forgotten.
PushUnnotified ==
  /\ ~ShouldSpawn
  /\ PushItem
  /\ UNCHANGED <<workerThreads, pc, notifies>>

PushAndUnlock ==
  /\ ~ShouldSpawn
  /\ PushItem
  /\ notifies' = notifies + 1
  /\ UNCHANGED <<workerThreads, pc>>

\* The notify_one that follows the unlock of PushAndUnlock.
NotifyOne ==
  /\ notifies > 0
  /\ notifies' = notifies - 1
  /\ \/ \E w \in Waiting \ notified : notified' = notified \cup {w}
     \/ Waiting \subseteq notified /\ UNCHANGED notified
  /\ UNCHANGED <<workItems, threadsAvailable, workerThreads, dying, pc, item, pushed>>

-----------------------------------------------------------------------------
(* worker *)

\* Mutant: the taker still counts as available.
TakeUncounted(w, available) ==
  /\ ~dying
  /\ workItems # <<>>
  /\ item' = [item EXCEPT ![w] = Head(workItems)]
  /\ workItems' = Tail(workItems)
  /\ threadsAvailable' = available
  /\ pc' = [pc EXCEPT ![w] = "running"]
  /\ UNCHANGED <<workerThreads, dying>>

\* The predicate takes the front item; available is the count the taker is in.
TakeItem(w, available) ==
  /\ ~dying
  /\ workItems # <<>>
  /\ item' = [item EXCEPT ![w] = Head(workItems)]
  /\ workItems' = Tail(workItems)
  /\ threadsAvailable' = available - 1
  /\ pc' = [pc EXCEPT ![w] = "running"]
  /\ UNCHANGED <<workerThreads, dying>>

\* The predicate finds _dying and the worker returns.
Exit(w, available) ==
  /\ dying
  /\ threadsAvailable' = available - 1
  /\ pc' = [pc EXCEPT ![w] = "exited"]
  /\ UNCHANGED <<workItems, workerThreads, dying, item>>

\* Mutant: the worker waits without looking at the queue first.
EnterBlindly(w) ==
  /\ pc[w] = "start"
  /\ threadsAvailable' = threadsAvailable + 1
  /\ pc' = [pc EXCEPT ![w] = "waiting"]
  /\ UNCHANGED <<workItems, workerThreads, dying, item, notified, notifies, pushed>>

\* The top of the loop: count the worker as available, evaluate the predicate,
\* and wait on the condition variable when it is false.
Enter(w) ==
  /\ pc[w] = "start"
  /\ \/ TakeItem(w, threadsAvailable + 1)
     \/ Exit(w, threadsAvailable + 1)
     \/ /\ ~dying /\ workItems = <<>>
        /\ threadsAvailable' = threadsAvailable + 1
        /\ pc' = [pc EXCEPT ![w] = "waiting"]
        /\ UNCHANGED <<workItems, workerThreads, dying, item>>
  /\ UNCHANGED <<notified, notifies, pushed>>

\* A woken waiter takes the lock again and re-evaluates the predicate.
Wake(w) ==
  /\ pc[w] = "waiting"
  /\ w \in notified
  /\ notified' = notified \ {w}
  /\ \/ TakeItem(w, threadsAvailable)
     \/ Exit(w, threadsAvailable)
     \/ /\ ~dying /\ workItems = <<>>
        /\ UNCHANGED <<workItems, threadsAvailable, workerThreads, dying, pc, item>>
  /\ UNCHANGED <<notifies, pushed>>

\* wait_for gives up after 15 seconds and evaluates the predicate a last time;
\* a temporary worker that finds no work removes itself and returns.
TimeOut(w) ==
  /\ w \in Temporary
  /\ pc[w] = "waiting"
  /\ notified' = notified \ {w}
  /\ \/ TakeItem(w, threadsAvailable)
     \/ Exit(w, threadsAvailable)
     \/ /\ ~dying /\ workItems = <<>>
        /\ pc' = [pc EXCEPT ![w] = "timedout"]
        /\ workerThreads' = workerThreads \ {w}
        /\ UNCHANGED <<workItems, threadsAvailable, dying, item>>
  /\ UNCHANGED <<notifies, pushed>>

\* _workerFunction returns; the worker goes round its loop.
FinishItem(w) ==
  /\ pc[w] = "running"
  /\ pc' = [pc EXCEPT ![w] = "start"]
  /\ item' = [item EXCEPT ![w] = NoItem]
  /\ UNCHANGED <<workItems, threadsAvailable, workerThreads, dying, notified,
                 notifies, pushed>>

\* Mutant: the destructor wakes nobody.
DestroySilently ==
  /\ ~dying
  /\ notifies = 0
  /\ dying' = TRUE
  /\ UNCHANGED <<workItems, threadsAvailable, workerThreads, pc, notified, notifies, item, pushed>>

\* ~WorkQueue: set _dying and wake every waiter, then join the threads.  No
\* push is in progress: the destructor's caller has stopped using the queue.
Destroy ==
  /\ ~dying
  /\ notifies = 0
  /\ dying' = TRUE
  /\ notified' = Waiting
  /\ UNCHANGED <<workItems, threadsAvailable, workerThreads, pc, notifies, item, pushed>>

\* The destructor's joins have returned.
Destroyed ==
  /\ dying
  /\ \A w \in workerThreads : pc[w] = "exited"
  /\ UNCHANGED vars

Next ==
  \/ PushAndSpawn \/ PushAndUnlock \/ NotifyOne \/ Destroy \/ Destroyed
  \/ \E w \in Workers : Enter(w) \/ Wake(w) \/ TimeOut(w) \/ FinishItem(w)

\* The OS runs every worker and every pusher, and a work item always returns.
\* Nothing is assumed of time-outs, nor that the queue is destroyed.
Fairness ==
  /\ WF_vars(NotifyOne)
  /\ \A w \in Workers : WF_vars(Enter(w)) /\ WF_vars(Wake(w)) /\ WF_vars(FinishItem(w))

Spec == Init /\ [][Next]_vars /\ Fairness

-----------------------------------------------------------------------------
(* Properties *)

\* The variables keep the types of workers.hpp's fields.
TypeOK ==
  /\ workItems \in Seq(Nat)
  /\ threadsAvailable \in Nat
  /\ workerThreads \in SUBSET Workers
  /\ dying \in BOOLEAN
  /\ pc \in [Workers -> {"unborn", "start", "waiting", "running", "timedout", "exited"}]
  /\ notified \in SUBSET Workers
  /\ notifies \in Nat
  /\ item \in [Workers -> Nat]
  /\ pushed \in Nat

\* A worker that will evaluate the predicate again without another push.
Awake(w) == pc[w] \in {"start", "running"} \/ (pc[w] = "waiting" /\ w \in notified)

\* Queued work is never stranded: while _workItems is not empty, some worker
\* is awake or a push still has its notify_one to make (the unlock before
\* notify_one in push, and a notification that reaches a worker late, lose
\* nothing).
NoStrandedWork ==
  (workItems # <<>> /\ ~dying) => notifies > 0 \/ \E w \in Workers : Awake(w)

\* _threadsAvailable counts the waiting workers and, for ever, the temporary
\* workers that timed out: that exit path of worker() does not decrement it.
\* So the unsigned count never wraps below zero in the predicate, and it is
\* too high by the number of temporary workers that have come and gone.
CountExact == threadsAvailable = Cardinality(Waiting \cup TimedOut)

\* The pool never grows past maximumThreads(), however many pushes race with
\* temporary workers that come and go.
PoolBounded == Cardinality({w \in Workers : pc[w] \in {"start", "waiting", "running"}})
                 <= MaximumThreads

Queued(i) == \E k \in DOMAIN workItems : workItems[k] = i
Started(i) == \E w \in Workers : item[w] = i

\* Every item pushed is run, or the queue is destroyed first.
EveryItemRuns == \A i \in Items : Queued(i) ~> (Started(i) \/ dying)

\* The destructor's joins return: each listed worker notices _dying and exits.
DestructorReturns == dying ~> \A w \in workerThreads : pc[w] = "exited"
=============================================================================
