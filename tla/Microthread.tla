---------------------------- MODULE Microthread ----------------------------
(***************************************************************************)
(* One client thread of darlingserver (src/thread.cpp): the microthread    *)
(* that serves its calls, the OS workers that run it (Thread::doWork), the *)
(* main loop that hands it calls (Call::callFromMessage), and the client,  *)
(* whose side of the protocol is the C code that                           *)
(* scripts/generate-rpc-wrappers.py writes.                                *)
(*                                                                         *)
(* One action is one critical section of Thread::_rwlock together with the *)
(* lock-free code around it that only its own actor can observe.  Calls    *)
(* are told apart by what the protocol tells apart: an interruptible call, *)
(* a call made inside a signal handler, interrupt_enter, interrupt_exit.   *)
(***************************************************************************)
EXTENDS Integers, Sequences, FiniteSets

CONSTANTS Workers,        \* the OS threads of the work queue
          Impersonators,  \* kernel microthreads that impersonate this thread once
          WaitKind,       \* how calls block: "locked" or "unlocked"
          MaxBlocks,      \* bound: how often one call blocks
          MaxCalls,       \* bound: ordinary calls the client makes
          MaxSignals,     \* bound: signals the client handles, one at a time
          MaxS2C,         \* bound: S2C calls another thread performs on this one
          MayDie          \* whether the client may be killed

Nobody == "nobody"

ASSUME MicrothreadAssumption ==
  /\ Nobody \notin Workers
  /\ WaitKind \in {"locked", "unlocked"}
  /\ MaxBlocks \in Nat /\ MaxCalls \in Nat /\ MaxSignals \in Nat /\ MaxS2C \in Nat
  /\ MayDie \in BOOLEAN

VARIABLES
  pendingCall, activeCall,
  pendingInterrupts,           \* how many interrupt_enter calls _pendingInterrupts holds
  suspended, running, terminating, deferral,
  continuation,                \* _continuationCallback is set
  stack,                       \* _stack.isValid()
  interrupts,                  \* _interrupts: interruptedCall, savedReply, savedStack
  pendingSavedReply, interruptedContinuation, interruptedForSignal,
  handlingInterruptedCall, pendingCallOverride,
  deferReplyForS2C, deferredReply,
  dead, releases, dtapeLive,
  dying,                       \* how far notifyDead has come
  ctl,                         \* where the microthread's code is
  wait,                        \* its registration with whoever will wake it; "stale": it
                               \* goes on, and a mutex or condvar still has it in its queue
  blocks,                      \* how often the current call has blocked
  queued,                      \* how often the thread is in the work queue
  pc,                          \* where each worker is in doWork
  unlockMe,                    \* the worker that still holds the queue lock of this wait
  imp,                         \* where each impersonator is
  crashed,                     \* which throw or assertion ended the server
  requests, replies,           \* the two directions of the RPC socket
  phase, outer, pushing,       \* the client
  sent, signals, s2cs          \* how much of each bound is used

callVars == <<pendingCall, activeCall, pendingInterrupts>>
runVars == <<suspended, running, terminating, deferral, continuation, stack>>
intrVars == <<interrupts, pendingSavedReply, interruptedContinuation,
              interruptedForSignal, handlingInterruptedCall, pendingCallOverride>>
s2cVars == <<deferReplyForS2C, deferredReply, s2cs>>
deathVars == <<dead, releases, dtapeLive, dying>>
microVars == <<ctl, wait, blocks>>
workVars == <<queued, pc, unlockMe, imp>>
clientVars == <<phase, outer, pushing, sent, signals>>
chanVars == <<requests, replies>>
vars == <<callVars, runVars, intrVars, s2cVars, deathVars, microVars, workVars,
          clientVars, chanVars, crashed>>

None == "none"
Ordinary == {"call", "hcall"}
Kinds == Ordinary \cup {"ie", "ix"}

Depth == Len(interrupts)
Top == interrupts[Depth]

Init ==
  /\ pendingCall = None /\ activeCall = None /\ pendingInterrupts = 0
  /\ suspended = FALSE /\ running = FALSE /\ terminating = FALSE
  /\ deferral = "no" /\ continuation = FALSE /\ stack = FALSE
  /\ interrupts = <<>> /\ pendingSavedReply = None
  /\ interruptedContinuation = FALSE /\ interruptedForSignal = FALSE
  /\ handlingInterruptedCall = FALSE /\ pendingCallOverride = FALSE
  /\ deferReplyForS2C = FALSE /\ deferredReply = None /\ s2cs = 0
  /\ dead = FALSE /\ releases = 0 /\ dtapeLive = TRUE /\ dying = "alive"
  /\ ctl = "activate" /\ wait = "none" /\ blocks = 0
  /\ queued = 0 /\ pc = [w \in Workers |-> "idle"] /\ unlockMe = Nobody
  /\ imp = [i \in Impersonators |-> "idle"]
  /\ crashed = "no"
  /\ requests = <<>> /\ replies = <<>>
  /\ phase = "run" /\ outer = "run" /\ pushing = None /\ sent = 0 /\ signals = 0

\* An uncaught exception or a failed assertion ends the server; so does, for this model, a
\* queue whose links are broken.
Throw(reason) ==
  /\ crashed' = reason
  /\ UNCHANGED <<callVars, runVars, intrVars, s2cVars, deathVars, microVars,
                 workVars, clientVars, chanVars>>

-----------------------------------------------------------------------------
(* The client: the generated RPC wrappers *)

SendCall ==
  /\ phase = "run"
  /\ sent < MaxCalls
  /\ sent' = sent + 1
  /\ phase' = "wait"
  /\ requests' = Append(requests, "call")
  /\ UNCHANGED <<outer, pushing, signals, replies>>

\* A signal arrives outside a call or during an interruptible one; its handler
\* starts with interrupt_enter.
Signal ==
  /\ phase \in {"run", "wait"}
  /\ signals < MaxSignals
  /\ signals' = signals + 1
  /\ outer' = phase
  /\ phase' = "enter"
  /\ requests' = Append(requests, "ie")
  /\ UNCHANGED <<pushing, sent, replies>>

\* The handler makes a call of its own or ends with interrupt_exit.
Handler ==
  /\ phase = "handler"
  /\ \/ /\ sent < MaxCalls
        /\ sent' = sent + 1
        /\ phase' = "hcall"
        /\ requests' = Append(requests, "hcall")
     \/ /\ phase' = "exit"
        /\ requests' = Append(requests, "ix")
        /\ UNCHANGED sent
  /\ UNCHANGED <<outer, pushing, signals, replies>>

Awaited == CASE phase = "wait" -> "call" [] phase = "enter" -> "ie"
             [] phase = "hcall" -> "hcall" [] phase = "exit" -> "ix" [] OTHER -> None

\* A reply arrives.  interrupt_enter pushes a reply it did not ask for back to
\* the server and waits on the pipe; any other call fails on one.
ClientReceive ==
  /\ Awaited # None
  /\ replies # <<>>
  /\ replies' = Tail(replies)
  /\ \/ /\ Head(replies) = Awaited
        /\ phase' = CASE phase = "wait" -> "run" [] phase = "exit" -> outer
                      [] OTHER -> "handler"
        /\ UNCHANGED <<requests, pushing>>
     \/ /\ Head(replies) # Awaited /\ phase = "enter"
        /\ phase' = "push"
        /\ pushing' = Head(replies)
        /\ requests' = Append(requests, "push")
     \/ /\ Head(replies) # Awaited /\ phase # "enter"
        /\ phase' = "failed"
        /\ UNCHANGED <<requests, pushing>>
  /\ UNCHANGED <<outer, sent, signals>>

Client ==
  /\ crashed = "no"
  /\ SendCall \/ Signal \/ Handler \/ ClientReceive
  /\ UNCHANGED <<callVars, runVars, intrVars, s2cVars, deathVars, microVars,
                 workVars, crashed>>

-----------------------------------------------------------------------------
(* The main loop: callFromMessage, then the push onto the work queue *)

\* Thread::setPendingCall and the push of the call's thread.
ReceiveCall(c) ==
  /\ \/ /\ pendingCall = None
        /\ pendingCall' = c
        /\ UNCHANGED pendingInterrupts
     \/ /\ pendingCall # None /\ c = "ie"
        /\ pendingInterrupts' = pendingInterrupts + 1
        /\ UNCHANGED pendingCall
  /\ queued' = queued + 1
  /\ UNCHANGED <<activeCall, runVars, intrVars, deathVars, microVars, pc, unlockMe,
                 imp, clientVars, crashed>>

\* push_reply: keep the reply for after the interrupt and release the client.
ReceivePush ==
  /\ \/ /\ pendingCall = "ie"
        /\ pendingSavedReply' = pushing
        /\ UNCHANGED interrupts
     \/ /\ pendingCall # "ie"
        /\ interrupts # <<>> /\ Top.saved = None
        /\ interrupts' = [interrupts EXCEPT ![Depth].saved = pushing]
        /\ UNCHANGED pendingSavedReply
  /\ phase' = "enter"
  /\ pushing' = None
  /\ UNCHANGED <<callVars, runVars, interruptedContinuation, interruptedForSignal,
                 handlingInterruptedCall, pendingCallOverride, deathVars, microVars,
                 workVars, outer, sent, signals, crashed>>

\* The throws of setPendingCall and of the push_reply branch.
BadRequest(c) ==
  \/ c \in Kinds \ {"ie"} /\ pendingCall # None
  \/ c = "push" /\ pendingCall # "ie" /\ (interrupts # <<>> => Top.saved # None)

Receive ==
  /\ crashed = "no"
  /\ dying = "alive"
  /\ requests # <<>>
  /\ LET c == Head(requests) IN
       \/ BadRequest(c) /\ Throw(c)
       \/ /\ c \in Kinds /\ ~BadRequest(c) /\ ReceiveCall(c)
          /\ requests' = Tail(requests)
          /\ UNCHANGED <<replies, s2cVars>>
       \/ /\ c = "push" /\ ~BadRequest(c) /\ ReceivePush
          /\ requests' = Tail(requests)
          /\ UNCHANGED <<replies, s2cVars>>

-----------------------------------------------------------------------------
(* Waking and dying *)

\* Thread::resume: schedule the thread if it is suspended.
Resumed == IF suspended THEN 1 ELSE 0

\* Whoever the thread waits for wakes it: an unlock, a signal, a thread_unblock.
\* A "locked" registration is behind the lock that doWork releases last.  A stale one is
\* found in the queue and resumed like any other.
Wake ==
  /\ crashed = "no"
  /\ wait \in {"armed", "stale"}
  /\ unlockMe = Nobody
  /\ wait' = IF wait = "armed" THEN "woken" ELSE "none"
  /\ queued' = queued + Resumed
  /\ UNCHANGED <<callVars, runVars, intrVars, s2cVars, deathVars, ctl, blocks, pc,
                 unlockMe, imp, clientVars, chanVars, crashed>>

\* Mutant: _terminating is not set when there is no active call.
NotifyDeadRunnable ==
  /\ crashed = "no"
  /\ MayDie
  /\ dying = "alive"
  /\ dead' = TRUE
  /\ \/ /\ activeCall = None
        /\ dying' = "release"
        /\ UNCHANGED terminating
     \/ /\ activeCall # None
        /\ dying' = "resume"
        /\ UNCHANGED terminating
  /\ phase' = "gone"
  /\ UNCHANGED <<callVars, suspended, running, deferral, continuation, stack, intrVars,
                 s2cVars, releases, dtapeLive, microVars, workVars, outer, pushing,
                 sent, signals, chanVars, crashed>>

\* The client is killed and the main loop calls notifyDead: its first section.
NotifyDead ==
  /\ crashed = "no"
  /\ MayDie
  /\ dying = "alive"
  /\ dead' = TRUE
  /\ \/ /\ activeCall = None
        /\ terminating' = TRUE
        /\ dying' = "release"
     \/ /\ activeCall # None
        /\ dying' = "resume"
        /\ UNCHANGED terminating
  /\ phase' = "gone"
  /\ UNCHANGED <<callVars, suspended, running, deferral, continuation, stack, intrVars,
                 s2cVars, releases, dtapeLive, microVars, workVars, outer, pushing,
                 sent, signals, chanVars, crashed>>

\* The rest of notifyDead: dtape_thread_dying ends a wait on a wait queue without
\* resuming the thread, unless thread_block has read TH_WAIT and is about to suspend, and
\* leaves the queues of mutexes and condvars alone; then comes the release or the resume.
FinishNotifyDead ==
  /\ crashed = "no"
  /\ dying \in {"release", "resume"}
  /\ \/ WaitKind = "locked" /\ wait' = wait
     \/ WaitKind = "unlocked" /\ wait' = "none"
     \/ WaitKind = "unlocked" /\ wait # "none" /\ ~suspended /\ wait' = "woken"
  /\ \/ /\ dying = "release"
        /\ releases' = releases + 1
        /\ UNCHANGED queued
     \/ /\ dying = "resume"
        /\ queued' = queued + Resumed
        /\ UNCHANGED releases
  /\ dying' = "unregistered"
  /\ UNCHANGED <<callVars, runVars, intrVars, s2cVars, dead, dtapeLive, ctl, blocks, pc,
                 unlockMe, imp, clientVars, chanVars, crashed>>

\* The kernel microthread of _scheduleRelease drops the duct-taped thread.
Release ==
  /\ crashed = "no"
  /\ releases > 0
  /\ dtapeLive
  /\ dtapeLive' = FALSE
  /\ UNCHANGED <<callVars, runVars, intrVars, s2cVars, dead, releases, dying, microVars,
                 workVars, clientVars, chanVars, crashed>>

-----------------------------------------------------------------------------
(* Impersonation and S2C calls by other threads *)

\* _deferLocked, the wait for ~_running that follows it, and the end.
ImpersonateDefer(i) ==
  /\ imp[i] = "idle" /\ dying = "alive"
  /\ deferral' = IF deferral = "no" THEN "deferred" ELSE deferral
  /\ imp' = [imp EXCEPT ![i] = "deferring"]
  /\ UNCHANGED <<running, queued>>

ImpersonateEnter(i) ==
  /\ imp[i] = "deferring" /\ ~running
  /\ running' = TRUE
  /\ imp' = [imp EXCEPT ![i] = "impersonating"]
  /\ UNCHANGED <<deferral, queued>>

\* Mutant: _undeferLocked forgets the work that was deferred.
ImpersonateForgets(i) ==
  /\ imp[i] = "impersonating"
  /\ running' = FALSE
  /\ deferral' = "no"
  /\ queued' = queued
  /\ imp' = [imp EXCEPT ![i] = "left"]

ImpersonateLeave(i) ==
  /\ imp[i] = "impersonating"
  /\ running' = FALSE
  /\ deferral' = "no"
  /\ queued' = queued + (IF deferral = "pending" THEN 1 ELSE 0)
  /\ imp' = [imp EXCEPT ![i] = "left"]

Impersonate(i) ==
  /\ crashed = "no"
  /\ ImpersonateDefer(i) \/ ImpersonateEnter(i) \/ ImpersonateLeave(i)
  /\ UNCHANGED <<callVars, suspended, terminating, continuation, stack, intrVars, s2cVars,
                 deathVars, microVars, pc, unlockMe, clientVars, chanVars, crashed>>

\* _s2cPerform on a thread with an active call: replies are held back until the
\* client has answered the S2C call.
S2CDefer ==
  /\ s2cs < MaxS2C /\ ~deferReplyForS2C /\ activeCall # None
  /\ deferReplyForS2C' = TRUE
  /\ s2cs' = s2cs + 1
  /\ UNCHANGED <<deferredReply, replies>>

\* Mutant: the deferred reply is dropped.
S2CFinishDrops ==
  /\ deferReplyForS2C
  /\ deferReplyForS2C' = FALSE
  /\ deferredReply' = None
  /\ replies' = replies
  /\ UNCHANGED s2cs

S2CFinish ==
  /\ deferReplyForS2C
  /\ deferReplyForS2C' = FALSE
  /\ deferredReply' = None
  /\ replies' = IF deferredReply = None THEN replies ELSE Append(replies, deferredReply)
  /\ UNCHANGED s2cs

S2C ==
  /\ crashed = "no"
  /\ S2CDefer \/ S2CFinish
  /\ UNCHANGED <<callVars, runVars, intrVars, deathVars, microVars, workVars, clientVars,
                 requests, crashed>>

-----------------------------------------------------------------------------
(* doWork *)

\* Mutant: the pending interrupt becomes the pending call, but nobody is scheduled.
DoneWorkingUnscheduled(w, term, q) ==
  LET finished == dead /\ activeCall = None /\ ~term
      interrupt == ~term /\ ~dead /\ pendingInterrupts > 0
  IN
  /\ running' = FALSE
  /\ terminating' = (term \/ finished)
  /\ pc' = [pc EXCEPT ![w] = IF finished THEN "release" ELSE "done"]
  /\ crashed' = IF interrupt /\ pendingCall # None THEN "doneWorking" ELSE crashed
  /\ pendingCall' = IF interrupt THEN "ie" ELSE pendingCall
  /\ pendingInterrupts' = IF interrupt THEN pendingInterrupts - 1 ELSE pendingInterrupts
  /\ queued' = q

\* Mutant: a thread that notifyDead already released is released again.
DoneWorkingReleasesAgain(w, term, q) ==
  LET finished == dead /\ activeCall = None
      interrupt == ~term /\ ~dead /\ pendingInterrupts > 0
  IN
  /\ running' = FALSE
  /\ terminating' = (term \/ finished)
  /\ pc' = [pc EXCEPT ![w] = IF finished THEN "release" ELSE "done"]
  /\ crashed' = IF interrupt /\ pendingCall # None THEN "doneWorking" ELSE crashed
  /\ pendingCall' = IF interrupt THEN "ie" ELSE pendingCall
  /\ pendingInterrupts' = IF interrupt THEN pendingInterrupts - 1 ELSE pendingInterrupts
  /\ queued' = IF interrupt THEN q + 1 ELSE q

\* The label doneWorking, still inside the critical section; term is _terminating
\* on the way there and q the work queue's count of this thread.  (A kernel
\* thread that terminated itself calls notifyDead here instead.)
DoneWorking(w, term, q) ==
  LET finished == dead /\ activeCall = None /\ ~term
      interrupt == ~term /\ ~dead /\ pendingInterrupts > 0
  IN
  /\ running' = FALSE
  /\ terminating' = (term \/ finished)
  /\ pc' = [pc EXCEPT ![w] = IF finished THEN "release" ELSE "done"]
  /\ crashed' = IF interrupt /\ pendingCall # None THEN "doneWorking" ELSE crashed
  /\ pendingCall' = IF interrupt THEN "ie" ELSE pendingCall
  /\ pendingInterrupts' = IF interrupt THEN pendingInterrupts - 1 ELSE pendingInterrupts
  /\ queued' = IF interrupt THEN q + 1 ELSE q

\* A worker takes the thread from the queue: the first critical section.
DoWorkDeferred(w) ==
  /\ deferral # "no"
  /\ deferral' = "pending"
  /\ queued' = queued - 1
  /\ UNCHANGED <<callVars, running, terminating, pc, crashed>>

DoWorkRunning(w) ==
  /\ deferral = "no" /\ running
  /\ queued' = queued - 1
  /\ UNCHANGED <<callVars, running, terminating, deferral, pc, crashed>>

DoWorkTerminated(w) ==
  /\ deferral = "no" /\ ~running
  /\ terminating \/ (dead /\ activeCall = None)
  /\ DoneWorking(w, TRUE, queued - 1)
  /\ UNCHANGED <<activeCall, deferral>>

\* Mutant: the check of _running is dropped.
StartRunning(w) ==
  /\ deferral = "no"
  /\ ~terminating /\ ~(dead /\ activeCall = None)
  /\ running' = TRUE
  /\ queued' = queued - 1
  /\ pc' = [pc EXCEPT ![w] = "dispatch"]
  /\ UNCHANGED <<callVars, terminating, deferral, crashed>>

DoWorkStart(w) ==
  /\ deferral = "no" /\ ~running
  /\ ~terminating /\ ~(dead /\ activeCall = None)
  /\ running' = TRUE
  /\ queued' = queued - 1
  /\ pc' = [pc EXCEPT ![w] = "dispatch"]
  /\ UNCHANGED <<callVars, terminating, deferral, crashed>>

DoWork(w) ==
  /\ crashed = "no"
  /\ pc[w] = "idle"
  /\ queued > 0
  /\ \/ DoWorkDeferred(w) \/ DoWorkRunning(w)
     \/ DoWorkTerminated(w) \/ DoWorkStart(w)
  /\ UNCHANGED <<suspended, continuation, stack, intrVars, s2cVars, deathVars, microVars,
                 unlockMe, imp, clientVars, chanVars>>

\* The second critical section chooses what to run.
DispatchInterrupt == ~pendingCallOverride /\ pendingCall = "ie"
DispatchResume == suspended /\ (pendingCallOverride \/ pendingCall = None)

\* interrupt_enter sets the interrupted call and its stack aside and starts afresh.
StartInterrupt(w) ==
  /\ DispatchInterrupt
  /\ interrupts' = Append(interrupts, [call |-> activeCall, saved |-> None, stack |-> stack])
  /\ interruptedContinuation' = continuation
  /\ continuation' = FALSE
  /\ activeCall' = None
  /\ suspended' = FALSE
  /\ stack' = TRUE
  /\ ctl' = "activate"
  /\ pc' = [pc EXCEPT ![w] = "micro"]
  /\ UNCHANGED <<pendingCall, pendingInterrupts, running, terminating, wait, queued, crashed,
                 pendingSavedReply>>

\* What becomes of a registration when the microthread goes on, whoever resumed it: only
\* the one that wakes it takes it out of the queue of a mutex or condvar.
GoesOn == IF WaitKind = "locked" /\ wait \in {"armed", "stale"} THEN "stale" ELSE "none"

\* The microthread goes on where it suspended, or on a new stack with its
\* continuation (which microthreadContinuation clears first).
ResumeMicrothread(w) ==
  /\ ~DispatchInterrupt /\ DispatchResume
  /\ ~(continuation /\ pendingCall # None)
  /\ continuation # stack
  /\ suspended' = FALSE
  /\ continuation' = FALSE
  /\ stack' = TRUE
  /\ wait' = GoesOn
  /\ pc' = [pc EXCEPT ![w] = "micro"]
  /\ UNCHANGED <<callVars, running, terminating, interrupts, pendingSavedReply,
                 interruptedContinuation, ctl, queued, crashed>>

\* A pending call starts on a new stack, in place of whatever was suspended.
StartCall(w) ==
  /\ ~DispatchInterrupt /\ ~DispatchResume
  /\ ~continuation /\ pendingCall # None
  /\ suspended' = FALSE
  /\ stack' = TRUE
  /\ ctl' = "activate"
  /\ pc' = [pc EXCEPT ![w] = "micro"]
  /\ UNCHANGED <<callVars, running, terminating, continuation, interrupts,
                 pendingSavedReply, interruptedContinuation, wait, queued, crashed>>

NothingToDo(w) ==
  /\ ~DispatchResume /\ pendingCall = None
  /\ DoneWorking(w, terminating, queued)
  /\ UNCHANGED <<activeCall, suspended, continuation, stack, interrupts, pendingSavedReply,
                 interruptedContinuation, ctl, wait>>

\* The exception for a pending call and a continuation, and the two assertions
\* about the stack of a microthread that resumes: the guards above leave a worker
\* stuck in such a state.
DispatchFails ==
  /\ ~DispatchInterrupt
  /\ \/ continuation /\ pendingCall # None
     \/ DispatchResume /\ continuation = stack

Dispatch(w) ==
  /\ crashed = "no"
  /\ pc[w] = "dispatch"
  /\ StartInterrupt(w) \/ ResumeMicrothread(w) \/ StartCall(w) \/ NothingToDo(w)
  /\ UNCHANGED <<deferral, interruptedForSignal, handlingInterruptedCall,
                 pendingCallOverride, s2cVars, deathVars, blocks, unlockMe, imp,
                 clientVars, chanVars>>

\* The microthread came back: free its stack unless it is to be resumed on it.
BackToTop(w) ==
  /\ crashed = "no"
  /\ pc[w] = "top"
  /\ stack' = (stack /\ suspended /\ ~continuation)
  /\ DoneWorking(w, terminating, queued)
  /\ UNCHANGED <<activeCall, suspended, deferral, continuation, intrVars, s2cVars, deathVars,
                 microVars, unlockMe, imp, clientVars, chanVars>>

\* Mutant: canRelease is ignored.
FinishUnreleased(w) ==
  /\ crashed = "no"
  /\ pc[w] \in {"done", "release"}
  /\ pc' = [pc EXCEPT ![w] = "idle"]
  /\ unlockMe' = IF unlockMe = w THEN Nobody ELSE unlockMe
  /\ releases' = releases
  /\ UNCHANGED <<callVars, runVars, intrVars, s2cVars, dead, dtapeLive, dying, microVars,
                 queued, imp, clientVars, chanVars, crashed>>

\* After the critical section: unlock unlockMeWhenSuspending, schedule the release.
FinishDoWork(w) ==
  /\ crashed = "no"
  /\ pc[w] \in {"done", "release"}
  /\ pc' = [pc EXCEPT ![w] = "idle"]
  /\ unlockMe' = IF unlockMe = w THEN Nobody ELSE unlockMe
  /\ releases' = IF pc[w] = "release" THEN releases + 1 ELSE releases
  /\ UNCHANGED <<callVars, runVars, intrVars, s2cVars, dead, dtapeLive, dying, microVars,
                 queued, imp, clientVars, chanVars, crashed>>

-----------------------------------------------------------------------------
(* The microthread: microthreadWorker and the calls it processes *)

\* makePendingCallActive, and processCall starts.
MakePendingCallActive(w) ==
  /\ ctl = "activate"
  /\ activeCall' = pendingCall
  /\ pendingCall' = None
  /\ ctl' = CASE pendingCall = "ie" -> "enter1" [] pendingCall = "ix" -> "exit1"
              [] OTHER -> "call"
  /\ blocks' = 0
  /\ UNCHANGED <<pendingInterrupts, suspended, continuation, intrVars, deferredReply, wait,
                 pc, unlockMe, replies>>

\* assert_wait: the thread is registered before it suspends.
AssertWait(w) ==
  /\ WaitKind = "unlocked"
  /\ ctl \in {"call", "icall"} /\ wait = "none" /\ blocks < MaxBlocks
  /\ wait' = "armed"
  /\ blocks' = blocks + 1
  /\ UNCHANGED <<callVars, suspended, continuation, intrVars, deferredReply, ctl, pc,
                 unlockMe, replies>>

\* Thread::suspend from thread_block, with no lock and possibly a continuation:
\* TH_WAIT is still set, whether or not the thread has been woken meanwhile.
SuspendUnlocked(w) ==
  /\ WaitKind = "unlocked"
  /\ ctl \in {"call", "icall"} /\ wait # "none"
  /\ suspended' = TRUE
  /\ continuation' \in IF ctl = "call" THEN BOOLEAN ELSE {FALSE}
  /\ pc' = [pc EXCEPT ![w] = "top"]
  /\ UNCHANGED <<callVars, intrVars, deferredReply, microVars, unlockMe, replies>>

\* Mutant: the queue lock is released before the thread has stopped.
SuspendUnlocking(w) ==
  /\ WaitKind = "locked"
  /\ ctl \in {"call", "icall"} /\ wait = "none" /\ blocks < MaxBlocks
  /\ wait' = "armed"
  /\ blocks' = blocks + 1
  /\ suspended' = TRUE
  /\ pc' = [pc EXCEPT ![w] = "top"]
  /\ UNCHANGED <<callVars, continuation, intrVars, deferredReply, ctl, unlockMe, replies>>

\* Thread::suspend from a dtape_mutex or dtape_condvar, whose queue lock is
\* released once the thread has stopped running.
SuspendLocked(w) ==
  /\ WaitKind = "locked"
  /\ ctl \in {"call", "icall"} /\ wait = "none" /\ blocks < MaxBlocks
  /\ wait' = "armed"
  /\ blocks' = blocks + 1
  /\ suspended' = TRUE
  /\ unlockMe' = w
  /\ pc' = [pc EXCEPT ![w] = "top"]
  /\ UNCHANGED <<callVars, continuation, intrVars, deferredReply, ctl, replies>>

\* The same with the thread's link still in a queue: it is inserted a second time, which
\* breaks the list (the FIXME about mutexes in _handleInterruptEnterForCurrentThread).
SuspendTwice(w) ==
  /\ crashed = "no"
  /\ pc[w] = "micro"
  /\ WaitKind = "locked"
  /\ ctl \in {"call", "icall"} /\ wait = "stale" /\ blocks < MaxBlocks
  /\ Throw("queue")

\* The call's code runs on.
Awake == wait \in {"none", "stale"}

\* pushCallReply outside an interrupt: the call must be the active one.
PushCallReply(w, expected, next) ==
  /\ ~interruptedForSignal /\ activeCall \in expected
  /\ activeCall' = None
  /\ deferredReply' = IF deferReplyForS2C THEN activeCall ELSE deferredReply
  /\ replies' = IF deferReplyForS2C \/ dead THEN replies ELSE Append(replies, activeCall)
  /\ ctl' = next
  /\ UNCHANGED <<pendingCall, pendingInterrupts, suspended, continuation, intrVars, wait,
                 blocks, pc, unlockMe>>

Reply(w) == ctl = "call" /\ Awake /\ PushCallReply(w, Ordinary, "replied")

\* The call is the checkout with which the client's thread ends, made with signals blocked.
\* notifyDead finds this very call active and leaves the release to its end; the thread runs,
\* so resume does nothing.  The reply then goes straight into the socket: nobody clears
\* _activeCall, and the release never comes.  (What the client does with the reply is left out.)
Checkout(w) ==
  /\ crashed = "no"
  /\ pc[w] = "micro"
  /\ MayDie
  /\ ctl = "call" /\ activeCall = "call" /\ Awake /\ blocks = 0
  /\ interrupts = <<>> /\ pendingCall = None /\ pendingInterrupts = 0 /\ requests = <<>>
  /\ phase \in {"wait", "gone"}
  /\ dead' = TRUE
  /\ dying' = IF dead THEN dying ELSE "unregistered"
  /\ replies' = Append(replies, "call")
  /\ phase' = "gone"
  /\ ctl' = "replied"
  /\ UNCHANGED <<callVars, runVars, intrVars, s2cVars, releases, dtapeLive, wait, blocks,
                 workVars, outer, pushing, sent, signals, requests, crashed>>

\* processCall returns (or syscallReturn was called): back to the top of doWork.
ReturnToTop(w) ==
  /\ ctl = "replied"
  /\ pc' = [pc EXCEPT ![w] = "top"]
  /\ UNCHANGED <<callVars, suspended, continuation, intrVars, deferredReply, microVars,
                 unlockMe, replies>>

\* _handleInterruptEnterForCurrentThread, first critical section.
InterruptEnter1(w) ==
  /\ ctl = "enter1"
  /\ pendingSavedReply = None \/ Top.saved = None
  /\ interrupts' = IF pendingSavedReply = None THEN interrupts
                   ELSE [interrupts EXCEPT ![Depth].saved = pendingSavedReply]
  /\ pendingSavedReply' = None
  /\ interruptedForSignal' = TRUE
  /\ ctl' = "enter2"
  /\ UNCHANGED <<callVars, suspended, continuation, interruptedContinuation,
                 handlingInterruptedCall, pendingCallOverride, deferredReply, wait, blocks,
                 pc, unlockMe, replies>>

\* dtape_thread_sigexc_enter ends the interrupted call's wait, on a wait queue only; its
\* continuation is called, or its stack is resumed, to let it finish with an interrupted
\* result.
InterruptEnter2(w) ==
  /\ ctl = "enter2"
  /\ wait' = GoesOn
  /\ interruptedContinuation' = FALSE
  /\ LET jump == ~interruptedContinuation /\ Top.call # None IN
       /\ handlingInterruptedCall' = jump
       /\ pendingCallOverride' = jump
       /\ ctl' = IF interruptedContinuation \/ jump THEN "icall" ELSE "enter3"
  /\ UNCHANGED <<callVars, suspended, continuation, interrupts, pendingSavedReply,
                 interruptedForSignal, deferredReply, blocks, pc, unlockMe, replies>>

\* The interrupted call replies: pushCallReply saves the reply, and the call's
\* end jumps to _syscallReturnHereDuringInterrupt.
ReplyInterrupted(w) ==
  /\ ctl = "icall" /\ Awake
  /\ Top.call \in Ordinary /\ Top.saved = None
  /\ interrupts' = [interrupts EXCEPT ![Depth].call = None, ![Depth].saved = Top.call]
  /\ ctl' = "enter3"
  /\ UNCHANGED <<callVars, suspended, continuation, pendingSavedReply,
                 interruptedContinuation, interruptedForSignal, handlingInterruptedCall,
                 pendingCallOverride, deferredReply, wait, blocks, pc, unlockMe, replies>>

\* Mutant: _interruptedForSignal stays set.
Enter3KeepsFlag(w) ==
  /\ ctl = "enter3"
  /\ handlingInterruptedCall' = FALSE
  /\ pendingCallOverride' = FALSE
  /\ interrupts' = [interrupts EXCEPT ![Depth].call = None, ![Depth].stack = FALSE]
  /\ interruptedForSignal' = interruptedForSignal
  /\ ctl' = "enter4"
  /\ UNCHANGED <<callVars, suspended, continuation, pendingSavedReply,
                 interruptedContinuation, deferredReply, wait, blocks, pc, unlockMe, replies>>

\* The second critical section: the interrupted call is over, its stack is freed.
InterruptEnter3(w) ==
  /\ ctl = "enter3"
  /\ handlingInterruptedCall' = FALSE
  /\ pendingCallOverride' = FALSE
  /\ interrupts' = [interrupts EXCEPT ![Depth].call = None, ![Depth].stack = FALSE]
  /\ interruptedForSignal' = FALSE
  /\ ctl' = "enter4"
  /\ UNCHANGED <<callVars, suspended, continuation, pendingSavedReply,
                 interruptedContinuation, deferredReply, wait, blocks, pc, unlockMe, replies>>

InterruptEnter4(w) == ctl = "enter4" /\ PushCallReply(w, {"ie"}, "replied")

\* Mutant: the saved reply is sent ahead of interrupt_exit's own.
ExitRepliesLast(w) ==
  /\ ctl = "exit1" /\ activeCall = "ix" /\ interrupts # <<>>
  /\ activeCall' = None
  /\ replies' = (IF Top.saved = None THEN replies ELSE Append(replies, Top.saved)) \o <<"ix">>
  /\ interrupts' = [interrupts EXCEPT ![Depth].saved = None]
  /\ ctl' = "exit2"
  /\ UNCHANGED <<pendingCall, pendingInterrupts, suspended, continuation, pendingSavedReply,
                 interruptedContinuation, interruptedForSignal, handlingInterruptedCall,
                 pendingCallOverride, deferredReply, wait, blocks, pc, unlockMe>>

\* interrupt_exit replies, then leaves the interrupt and sends the saved reply.
InterruptExit1(w) == ctl = "exit1" /\ PushCallReply(w, {"ix"}, "exit2")

\* Mutant: the saved reply is dropped with the interrupt.
ExitDropsSaved(w) ==
  /\ ctl = "exit2" /\ interrupts # <<>>
  /\ interrupts' = SubSeq(interrupts, 1, Depth - 1)
  /\ replies' = replies
  /\ ctl' = "replied"
  /\ UNCHANGED <<callVars, suspended, continuation, pendingSavedReply,
                 interruptedContinuation, interruptedForSignal, handlingInterruptedCall,
                 pendingCallOverride, deferredReply, wait, blocks, pc, unlockMe>>

InterruptExit2(w) ==
  /\ ctl = "exit2" /\ interrupts # <<>>
  /\ interrupts' = SubSeq(interrupts, 1, Depth - 1)
  /\ replies' = IF Top.saved = None THEN replies ELSE Append(replies, Top.saved)
  /\ ctl' = "replied"
  /\ UNCHANGED <<callVars, suspended, continuation, pendingSavedReply,
                 interruptedContinuation, interruptedForSignal, handlingInterruptedCall,
                 pendingCallOverride, deferredReply, wait, blocks, pc, unlockMe>>

\* The throws of pushCallReply and of _handleInterruptEnterForCurrentThread, and a
\* pop of an empty _interrupts; as in dispatch, no step leaves such a state.
MicrothreadFails ==
  \/ ctl \in {"call", "enter4", "exit1"} /\ interruptedForSignal
  \/ ctl = "call" /\ activeCall \notin Ordinary
  \/ ctl = "enter4" /\ activeCall # "ie"
  \/ ctl = "exit1" /\ activeCall # "ix"
  \/ ctl = "icall" /\ (Top.call \notin Ordinary \/ Top.saved # None)
  \/ ctl = "enter1" /\ pendingSavedReply # None /\ Top.saved # None
  \/ ctl = "exit2" /\ interrupts = <<>>

Microthread(w) ==
  /\ crashed = "no"
  /\ pc[w] = "micro"
  /\ \/ MakePendingCallActive(w) \/ Reply(w) \/ ReturnToTop(w)
     \/ AssertWait(w) \/ SuspendUnlocked(w) \/ SuspendLocked(w)
     \/ InterruptEnter1(w) \/ InterruptEnter2(w) \/ ReplyInterrupted(w)
     \/ InterruptEnter3(w) \/ InterruptEnter4(w)
     \/ InterruptExit1(w) \/ InterruptExit2(w)
  /\ UNCHANGED <<running, terminating, deferral, stack, deferReplyForS2C, s2cs,
                 deathVars, queued, imp, clientVars, requests, crashed>>

-----------------------------------------------------------------------------
Worker(w) ==
  \/ DoWork(w) \/ Dispatch(w) \/ BackToTop(w) \/ FinishDoWork(w)
  \/ Microthread(w) \/ Checkout(w) \/ SuspendTwice(w)

\* The server has ended, or the client has made its calls and has nothing to wait for.
Quiet ==
  /\ crashed # "no" \/ phase \in {"run", "gone", "failed"}
  /\ UNCHANGED vars

Next ==
  \/ Client \/ Receive \/ Wake \/ NotifyDead \/ FinishNotifyDead \/ Release \/ S2C
  \/ \E i \in Impersonators : Impersonate(i)
  \/ \E w \in Workers : DoWork(w) \/ Dispatch(w) \/ BackToTop(w) \/ FinishDoWork(w)
  \/ \E w \in Workers : Microthread(w) \/ Checkout(w) \/ SuspendTwice(w)
  \/ Quiet

\* The OS schedules the main loop, the workers and the client, which reads its
\* socket and leaves its signal handler; a call that blocks is woken sooner or
\* later and replies in the end; an impersonation or an S2C call, once begun, ends.
Fairness ==
  /\ WF_vars(Receive)
  /\ WF_vars(phase # "run" /\ Client)
  /\ WF_vars(Wake)
  /\ WF_vars(FinishNotifyDead)
  /\ WF_vars(Release)
  /\ WF_vars(deferReplyForS2C /\ S2C)
  /\ \A i \in Impersonators : WF_vars(imp[i] # "idle" /\ Impersonate(i))
  /\ \A w \in Workers : WF_vars(Worker(w))

Spec == Init /\ [][Next]_vars
FairSpec == Spec /\ Fairness

-----------------------------------------------------------------------------
(* Properties *)

\* The variables keep the types of thread.hpp's fields.
TypeOK ==
  /\ pendingCall \in Kinds \cup {None} /\ activeCall \in Kinds \cup {None}
  /\ pendingInterrupts \in Nat
  /\ suspended \in BOOLEAN /\ running \in BOOLEAN /\ terminating \in BOOLEAN
  /\ deferral \in {"no", "deferred", "pending"}
  /\ continuation \in BOOLEAN /\ stack \in BOOLEAN
  /\ interrupts \in Seq([call : Kinds \cup {None}, saved : Kinds \cup {None}, stack : BOOLEAN])
  /\ pendingSavedReply \in Kinds \cup {None}
  /\ interruptedContinuation \in BOOLEAN /\ interruptedForSignal \in BOOLEAN
  /\ handlingInterruptedCall \in BOOLEAN /\ pendingCallOverride \in BOOLEAN
  /\ deferReplyForS2C \in BOOLEAN /\ deferredReply \in Kinds \cup {None}
  /\ dead \in BOOLEAN /\ releases \in Nat /\ dtapeLive \in BOOLEAN
  /\ dying \in {"alive", "release", "resume", "unregistered"}
  /\ ctl \in {"activate", "call", "replied", "enter1", "enter2", "icall", "enter3",
               "enter4", "exit1", "exit2"}
  /\ wait \in {"none", "armed", "woken", "stale"} /\ blocks \in Nat
  /\ queued \in Nat
  /\ pc \in [Workers -> {"idle", "dispatch", "micro", "top", "done", "release"}]
  /\ unlockMe \in Workers \cup {Nobody}
  /\ imp \in [Impersonators -> {"idle", "deferring", "impersonating", "left"}]
  /\ requests \in Seq(Kinds \cup {"push"}) /\ replies \in Seq(Kinds)
  /\ phase \in {"run", "wait", "enter", "push", "handler", "hcall", "exit", "failed", "gone"}
  /\ outer \in {"run", "wait"} /\ pushing \in Kinds \cup {None}
  /\ sent \in Nat /\ signals \in Nat /\ s2cs \in Nat

Runs(w) == pc[w] \in {"dispatch", "micro", "top"}
Impersonates(i) == imp[i] = "impersonating"

\* _running is an exclusive claim: it is set exactly while one worker runs the
\* microthread or one kernel microthread impersonates it, never two of them.
OneRunner ==
  /\ running <=> (\E w \in Workers : Runs(w)) \/ (\E i \in Impersonators : Impersonates(i))
  /\ \A v, w \in Workers : Runs(v) /\ Runs(w) => v = w
  /\ \A i, j \in Impersonators : Impersonates(i) /\ Impersonates(j) => i = j
  /\ \A w \in Workers, i \in Impersonators : ~(Runs(w) /\ Impersonates(i))

Scheduled == queued > 0 \/ deferral = "pending"

\* A wake-up is never lost: a suspended thread that has been woken and is not
\* running is in the work queue, or will be when its deferral ends.
NoLostWakeup ==
  (wait = "woken" /\ suspended /\ ~running /\ ~terminating) => Scheduled

\* A call handed to an idle thread is never forgotten: the thread is scheduled.
PendingCallScheduled ==
  (pendingCall # None /\ ~running /\ ~dead /\ crashed = "no") => Scheduled

\* "should be impossible" in doWork: a dead thread at rest without an active call
\* is already marked _terminating.
DeadIsTerminating == (dead /\ activeCall = None /\ ~running) => terminating

\* The duct-taped thread is released at most once, whichever of notifyDead and
\* doWork finds the last call over.
ReleasedOnce == releases <= 1

\* The throws and assertions inside the server's own bookkeeping are unreachable:
\* only push_reply and doneWorking can throw on a client that keeps to its wrappers, apart
\* from the queues of mutexes and condvars, which an interrupted or dead waiter breaks.
BookkeepingSound ==
  /\ crashed \in {"no", "push", "doneWorking", "queue"}
  /\ \A w \in Workers : /\ pc[w] = "dispatch" => ~DispatchFails
                        /\ pc[w] = "micro" => ~MicrothreadFails

Outstanding ==
  phase = "wait" \/ (outer = "wait" /\ phase \in {"enter", "push", "handler", "hcall", "exit"})

Count(b) == IF b THEN 1 ELSE 0
CountIn(s) == Cardinality({k \in DOMAIN s : s[k] = "call"})

\* The interruptible call or its reply is in exactly one place from the moment the
\* client sends it until it has its reply: in the socket, pending, active,
\* interrupted, saved, pushed back or deferred; it is never lost nor answered twice.
CallConserved ==
  (~dead /\ crashed = "no" /\ phase # "failed") =>
    Count(Outstanding) =
      CountIn(requests) + CountIn(replies)
        + Count(pendingCall = "call") + Count(activeCall = "call")
        + Count(pendingSavedReply = "call") + Count(deferredReply = "call")
        + Count(pushing = "call")
        + Cardinality({k \in 1 .. Depth : interrupts[k].call = "call"})
        + Cardinality({k \in 1 .. Depth : interrupts[k].saved = "call"})

\* A client never gets a reply it is not waiting for, except in interrupt_enter,
\* which pushes it back; in particular a saved reply follows interrupt_exit's.
ClientSynchronised == phase # "failed"

\* Every call, and every signal handler, comes to its end, unless one of the throws that
\* BookkeepingSound leaves ends the server, or a waiter that a signal interrupted enters the
\* queue of a mutex or condvar a second time.
EveryCallAnswered == (phase # "run") ~> (phase \in {"run", "gone"} \/ crashed # "no")

\* The thread has ended with a checkout, whose call stays the active one.
CheckedOut == dead /\ ctl = "replied" /\ activeCall # None

\* The duct-taped half of a thread whose client was killed is released in the end, whatever
\* the thread was doing, unless it was about to end by itself: the call of a thread that
\* checks out stays active, and doWork never finds it over.
DeadReleased == dead ~> (~dtapeLive \/ CheckedOut \/ crashed # "no")
=============================================================================
