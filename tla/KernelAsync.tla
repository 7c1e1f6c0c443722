---------------------------- MODULE KernelAsync ----------------------------
(***************************************************************************)
(* The pool of kernel microthreads that runs what Thread::kernelAsync is   *)
(* given (src/thread.cpp): a queue, a semaphore that counts what is in it, *)
(* a count of the runners that wait, and runners of two sorts.  Permanent  *)
(* ones run jobs forever; temporary ones run one job and die, and the      *)
(* death of a microthread submits a job of its own, which releases it.     *)
(*                                                                         *)
(* One action is one section of kernelAsyncRunnerQueueLock, or one section *)
(* of the semaphore's lock.  A down that finds no unit is two steps: the   *)
(* runner enters the semaphore's wait queue under that lock, and suspends  *)
(* itself after leaving it.  An up in between finds a runner that is not   *)
(* suspended (or one that still runs, whose work item the worker drops):   *)
(* the unit is spent and the wake-up is lost.                              *)
(***************************************************************************)
EXTENDS Integers, Sequences, FiniteSets

CONSTANTS Jobs,           \* what the rest of the server submits, each once
          Runners,        \* identities of runners, used again after a death
          MaxPermanent,   \* MAX_PERMANENT_KERNEL_RUNNERS
          MaxInterrupts   \* bound: interrupted waits

ASSUME KernelAsyncAssumption ==
  /\ MaxPermanent \in Nat \ {0} /\ MaxInterrupts \in Nat
  /\ IsFiniteSet(Jobs) /\ "release" \notin Jobs /\ "no job" \notin Jobs
  /\ IsFiniteSet(Runners) /\ Cardinality(Runners) >= MaxPermanent + Cardinality(Jobs)

VARIABLES
  queue,       \* kernelAsyncRunnerQueue
  available,   \* kernelAsyncRunnersAvailable
  semaphore,   \* the count of kernelAsyncRunnerQueueSempahore
  ups,         \* submitters that have yet to raise it
  permanent,   \* permanentKernelAsyncRunners
  pc,          \* where each runner is
  job,         \* what each runner runs
  submitted, done, interrupts

vars == <<queue, available, semaphore, ups, permanent, pc, job, submitted, done, interrupts>>

AllJobs == Jobs \cup {"release"}
NoJob == "no job"

Init ==
  /\ queue = <<>> /\ available = 0 /\ semaphore = 0 /\ ups = 0
  /\ permanent = {}
  /\ pc = [r \in Runners |-> "none"] /\ job = [r \in Runners |-> NoJob]
  /\ submitted = {} /\ done = {} /\ interrupts = 0

-----------------------------------------------------------------------------
(* Submitting *)

\* Mutant: the runners that are started are all temporary.
SubmitTemporary(j, p) ==
  /\ queue' = Append(queue, j)
  /\ ups' = ups + 1
  /\ IF available = 0
     THEN \E r \in Runners : p[r] = "none" /\ pc' = [p EXCEPT ![r] = "start"]
     ELSE pc' = p
  /\ UNCHANGED permanent

\* kernelAsync up to its unlock, by a caller after whose step the runners are at p: with
\* no runner available, one is started.
Submit(j, p) ==
  /\ queue' = Append(queue, j)
  /\ ups' = ups + 1
  /\ IF available = 0
     THEN \E r \in Runners :
            /\ p[r] = "none"
            /\ pc' = [p EXCEPT ![r] = "start"]
            /\ permanent' = IF Cardinality(permanent) < MaxPermanent
                            THEN permanent \cup {r} ELSE permanent
     ELSE /\ pc' = p
          /\ UNCHANGED permanent

\* A call, a timer, a kqchannel or a death elsewhere submits a job.
KernelAsync(j) ==
  /\ j \notin submitted
  /\ submitted' = submitted \cup {j}
  /\ Submit(j, pc)
  /\ UNCHANGED <<available, semaphore, job, done, interrupts>>

\* The end of kernelAsync, dtape_semaphore_up: the unit goes to a runner that waits, which
\* is resumed, or not if it has yet to suspend itself; the count is raised if none waits.
SemaphoreUp ==
  /\ ups > 0
  /\ ups' = ups - 1
  /\ \/ /\ \A r \in Runners : pc[r] # "wait"
        /\ semaphore' = semaphore + 1
        /\ UNCHANGED pc
     \/ /\ \E r \in Runners, s \in {"take", "lost"} :
             pc[r] = "wait" /\ pc' = [pc EXCEPT ![r] = s]
        /\ UNCHANGED semaphore
  /\ UNCHANGED <<queue, available, permanent, job, submitted, done, interrupts>>

-----------------------------------------------------------------------------
(* The runners: kernelAsyncRunnerThreadWorker *)

\* Where a runner goes from the end of its loop's body.
Again(r) == IF r \in permanent THEN "start" ELSE "dying"

BecomeAvailable(r) ==
  /\ pc[r] = "start"
  /\ pc' = [pc EXCEPT ![r] = "down"]
  /\ available' = available + 1
  /\ UNCHANGED <<queue, semaphore, ups, permanent, job, submitted, done, interrupts>>

\* dtape_semaphore_down_simple up to the semaphore's unlock: a unit, or a place in the
\* wait queue.
SemaphoreDown(r) ==
  /\ pc[r] = "down"
  /\ IF semaphore > 0
     THEN /\ pc' = [pc EXCEPT ![r] = "take"]
          /\ semaphore' = semaphore - 1
     ELSE /\ pc' = [pc EXCEPT ![r] = "wait"]
          /\ UNCHANGED semaphore
  /\ UNCHANGED <<queue, available, ups, permanent, job, submitted, done, interrupts>>

\* dtape_semaphore_down_simple returns false: the branch that the worker has for it, although
\* nothing in the server interrupts a kernel microthread.
Interrupt(r) ==
  /\ pc[r] = "wait" /\ interrupts < MaxInterrupts
  /\ interrupts' = interrupts + 1
  /\ pc' = [pc EXCEPT ![r] = "interrupted"]
  /\ UNCHANGED <<queue, available, semaphore, ups, permanent, job, submitted, done>>

\* Mutant: an interrupted runner still counts as available.
InterruptedCounted(r) ==
  /\ pc[r] = "interrupted"
  /\ pc' = [pc EXCEPT ![r] = Again(r)]
  /\ UNCHANGED <<queue, available, semaphore, ups, permanent, job, submitted, done, interrupts>>

\* Mutant: an interrupted runner looks for work all the same.
InterruptedTakes(r) ==
  /\ pc[r] = "interrupted"
  /\ pc' = [pc EXCEPT ![r] = "take"]
  /\ UNCHANGED <<queue, available, semaphore, ups, permanent, job, submitted, done, interrupts>>

Interrupted(r) ==
  /\ pc[r] = "interrupted"
  /\ available' = available - 1
  /\ pc' = [pc EXCEPT ![r] = Again(r)]
  /\ UNCHANGED <<queue, semaphore, ups, permanent, job, submitted, done, interrupts>>

\* Mutant: the job is left in the queue.
TakeCopies(r) ==
  /\ pc[r] = "take" /\ queue # <<>>
  /\ available' = available - 1
  /\ job' = [job EXCEPT ![r] = Head(queue)]
  /\ pc' = [pc EXCEPT ![r] = "run"]
  /\ UNCHANGED <<queue, semaphore, ups, permanent, submitted, done, interrupts>>

\* With the lock again: take a job, or go on without one.
Take(r) ==
  /\ pc[r] = "take"
  /\ available' = available - 1
  /\ IF queue = <<>>
     THEN /\ pc' = [pc EXCEPT ![r] = Again(r)]
          /\ UNCHANGED <<queue, job>>
     ELSE /\ job' = [job EXCEPT ![r] = Head(queue)]
          /\ queue' = Tail(queue)
          /\ pc' = [pc EXCEPT ![r] = "run"]
  /\ UNCHANGED <<semaphore, ups, permanent, submitted, done, interrupts>>

Run(r) ==
  /\ pc[r] = "run"
  /\ done' = done \cup ({job[r]} \ {"release"})
  /\ job' = [job EXCEPT ![r] = NoJob]
  /\ pc' = [pc EXCEPT ![r] = Again(r)]
  /\ UNCHANGED <<queue, available, semaphore, ups, permanent, submitted, interrupts>>

\* terminate() of a temporary runner: doWork calls notifyDead, and _scheduleRelease
\* submits the release of the duct-taped thread.
Terminate(r) ==
  /\ pc[r] = "dying"
  /\ Submit("release", [pc EXCEPT ![r] = "none"])
  /\ UNCHANGED <<available, semaphore, job, submitted, done, interrupts>>

-----------------------------------------------------------------------------
\* All submitted jobs are done and the runners wait.
AtRest ==
  /\ queue = <<>> /\ ups = 0
  /\ \A r \in Runners : pc[r] \in {"none", "wait"}

At(S) == {r \in Runners : pc[r] \in S}

\* The runners whose wake-up is lost.
Lost == At({"lost"})

\* Nothing more happens: the pool rests, or what is left to do is left by lost wake-ups.
Idle ==
  /\ submitted = Jobs /\ ups = 0
  /\ \A r \in Runners : pc[r] \in {"none", "wait", "lost"}
  /\ UNCHANGED vars

Next ==
  \/ \E j \in Jobs : KernelAsync(j)
  \/ SemaphoreUp
  \/ \E r \in Runners :
       \/ BecomeAvailable(r) \/ SemaphoreDown(r) \/ Interrupt(r) \/ Interrupted(r)
       \/ Take(r) \/ Run(r) \/ Terminate(r)
  \/ Idle

\* The worker threads run every microthread that can run, and each job ends.
Fairness ==
  /\ WF_vars(SemaphoreUp)
  /\ \A r \in Runners :
       /\ WF_vars(BecomeAvailable(r)) /\ WF_vars(SemaphoreDown(r)) /\ WF_vars(Interrupted(r))
       /\ WF_vars(Take(r)) /\ WF_vars(Run(r)) /\ WF_vars(Terminate(r))

Spec == Init /\ [][Next]_vars
FairSpec == Spec /\ Fairness

-----------------------------------------------------------------------------
(* Properties *)

\* The types; available, a uint64_t, does not go below zero.
TypeOK ==
  /\ queue \in Seq(AllJobs)
  /\ available \in Nat /\ semaphore \in Nat /\ ups \in Nat
  /\ permanent \subseteq Runners
  /\ pc \in [Runners -> {"none", "start", "down", "wait", "take", "lost", "interrupted", "run", "dying"}]
  /\ job \in [Runners -> AllJobs \cup {NoJob}]
  /\ submitted \subseteq Jobs /\ done \subseteq Jobs
  /\ interrupts \in 0 .. MaxInterrupts

\* kernelAsyncRunnersAvailable is the number of runners between its increment and the
\* decrement that matches it, on every way through the loop, those that sleep for good
\* after a lost wake-up included: kernelAsync starts no other runner in their place.
AvailableExact == available = Cardinality(At({"down", "wait", "take", "lost", "interrupted"}))

\* There are as many jobs queued as the semaphore has or will have units, and as
\* runners that were given one: nobody finds the queue empty, and no job lacks a unit.
WakeupPerJob == Len(queue) = semaphore + ups + Cardinality(At({"take", "lost"}))

\* A submitted job is in one place: once in the queue, with one runner, or done.
JobsOnce ==
  \A j \in Jobs :
    Cardinality({k \in DOMAIN queue : queue[k] = j}) + Cardinality({r \in Runners : job[r] = j})
      + Cardinality({j} \cap done) = Cardinality({j} \cap submitted)

\* While more jobs are queued than wake-ups are lost, a submitter has yet to raise the
\* semaphore, a runner is about to take a job, or a permanent runner can take its next step
\* towards one, although temporary runners die and an interrupted one dies without having
\* run the job it was started for: a job without a runner is owed to a lost wake-up, and only
\* the loss of all permanent runners leaves more than one job behind for each.
JobHasRunner ==
  Len(queue) > Cardinality(Lost) =>
    \/ ups > 0
    \/ \E r \in Runners : pc[r] = "take"
    \/ \E r \in permanent : pc[r] \in {"start", "down", "interrupted", "run"}
    \/ permanent \subseteq Lost

\* Unless a wake-up is lost, every job is run although it may be queued while the only
\* available runner is about to take another, and the releases that dying runners submit,
\* each of which may start a runner that dies in turn, come to an end.
ComesToRest == (submitted = Jobs) ~> (Lost # {} \/ [](AtRest /\ done = Jobs))
=============================================================================
