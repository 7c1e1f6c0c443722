------------------------------- MODULE Timer -------------------------------
(***************************************************************************)
(* Timer calls (XNU's timer_call.c over duct-tape/src/timer.c) and the one *)
(* timerfd behind them (dtape_hook_timer_arm and the event loop,           *)
(* src/server.cpp).  Microthreads on different workers enter and cancel    *)
(* calls; each expiration of the timerfd makes the event loop submit       *)
(* dtape_timer_fired with kernelAsync, so that runs on a worker too.       *)
(*                                                                         *)
(* One action is one section of the queue's lock or of _timerLock; the     *)
(* section in which timer_call_cancel arms the timer holds both.  Leeway   *)
(* and coalescing are left out: a soft deadline is the deadline.           *)
(***************************************************************************)
EXTENDS Integers, FiniteSets, FiniteSetsExt

CONSTANTS Calls,     \* timer calls
          Threads,   \* microthreads that are on a worker at the same time
          MaxTime,   \* bound: the clock
          MaxEnters  \* bound: calls entered

VARIABLES
  now,       \* the monotonic clock
  deadline,  \* deadline of each call in timer_queue
  current,   \* _currentTimerDeadline; 0 when there is none
  timerfd,   \* what the timerfd is set to; 0 when it is disarmed or was read
  jobs,      \* dtape_timer_fired submitted and not yet started
  pc, call, value,   \* of each microthread: where it is, its call, its deadline
  enters

threadVars == <<pc, call, value>>
vars == <<now, deadline, current, timerfd, jobs, threadVars, enters>>

NotQueued == 0
Never == MaxTime + 1   \* UINT64_MAX
NoCall == "no call"
Queued(c) == deadline[c] # NotQueued

Init ==
  /\ now = 1
  /\ deadline = [c \in Calls |-> NotQueued]
  /\ current = 0 /\ timerfd = 0 /\ jobs = 0
  /\ pc = [t \in Threads |-> "idle"] /\ call = [t \in Threads |-> NoCall]
  /\ value = [t \in Threads |-> 0]
  /\ enters = 0

Goto(t, label, c, v) ==
  /\ pc' = [pc EXCEPT ![t] = label]
  /\ call' = [call EXCEPT ![t] = c] /\ value' = [value EXCEPT ![t] = v]

\* The deadline of the first call that would be in the queue, or Never.
Earliest(d) == Min({Never} \cup {d[c] : c \in {e \in Calls : d[e] # NotQueued}})

\* dtape_hook_timer_arm, in _timerLock.
Arm(d, override) ==
  LET ns == IF d = Never THEN 0 ELSE d
  IN IF ~override /\ current # 0 /\ ns >= current
     THEN UNCHANGED <<current, timerfd>>
     ELSE current' = ns /\ timerfd' = ns

-----------------------------------------------------------------------------

Tick ==
  /\ now < MaxTime /\ now' = now + 1
  /\ UNCHANGED <<deadline, current, timerfd, jobs, threadVars, enters>>

\* The event loop reads the expired timerfd and submits dtape_timer_fired.
TimerEvent ==
  /\ timerfd # 0 /\ timerfd <= now
  /\ timerfd' = 0 /\ jobs' = jobs + 1
  /\ UNCHANGED <<now, deadline, current, threadVars, enters>>

\* timer_call_enter_internal up to timer_queue_assign, which arms the timer.
EnterAssign(t, c, d) ==
  /\ pc[t] = "idle" /\ enters < MaxEnters
  /\ \A u \in Threads : call[u] # c
  /\ Arm(d, FALSE)
  /\ Goto(t, "enqueue", c, d)
  /\ enters' = enters + 1
  /\ UNCHANGED <<now, deadline, jobs>>

\* timer_call_enqueue_deadline_unlocked.
EnterEnqueue(t) ==
  /\ pc[t] = "enqueue"
  /\ deadline' = [deadline EXCEPT ![call[t]] = value[t]]
  /\ Goto(t, "idle", NoCall, 0)
  /\ UNCHANGED <<now, current, timerfd, jobs, enters>>

\* timer_call_cancel: the call leaves the queue ...
CancelDequeue(t, c) ==
  /\ pc[t] = "idle" /\ Queued(c)
  /\ \A u \in Threads : call[u] # c
  /\ deadline' = [deadline EXCEPT ![c] = NotQueued]
  /\ Goto(t, "cancel", c, 0)
  /\ UNCHANGED <<now, current, timerfd, jobs, enters>>

\* ... and the timer is armed for the first call left, with the queue locked again.
CancelArm(t) ==
  /\ pc[t] = "cancel"
  /\ Arm(Earliest(deadline), TRUE)
  /\ Goto(t, "idle", NoCall, 0)
  /\ UNCHANGED <<now, deadline, jobs, enters>>

\* A kernel runner starts dtape_timer_fired, with the time of the clock.
FiredStart(t) ==
  /\ pc[t] = "idle" /\ jobs > 0
  /\ jobs' = jobs - 1
  /\ Goto(t, "expire", NoCall, now)
  /\ UNCHANGED <<now, deadline, current, timerfd, enters>>

\* timer_queue_expire takes a call whose time has come out of the queue and runs it; it
\* looks at the clock again before the next.
ExpireCall(t, c) ==
  /\ pc[t] = "expire" /\ Queued(c)
  /\ deadline[c] = Earliest(deadline) /\ deadline[c] <= value[t]
  /\ deadline' = [deadline EXCEPT ![c] = NotQueued]
  /\ Goto(t, "expire", NoCall, now)
  /\ UNCHANGED <<now, current, timerfd, jobs, enters>>

\* It returns the deadline of the first call left ...
ExpireReturns(t) ==
  /\ pc[t] = "expire" /\ Earliest(deadline) > value[t]
  /\ Goto(t, "arm", NoCall, Earliest(deadline))
  /\ UNCHANGED <<now, deadline, current, timerfd, jobs, enters>>

\* ... for which dtape_timer_fired arms the timer, whatever it was set to.
FiredArm(t) ==
  /\ pc[t] = "arm"
  /\ Arm(value[t], TRUE)
  /\ Goto(t, "idle", NoCall, 0)
  /\ UNCHANGED <<now, deadline, jobs, enters>>

Next ==
  \/ Tick \/ TimerEvent
  \/ \E t \in Threads :
       \/ EnterEnqueue(t) \/ CancelArm(t) \/ FiredStart(t) \/ ExpireReturns(t) \/ FiredArm(t)
       \/ \E c \in Calls : CancelDequeue(t, c) \/ ExpireCall(t, c)
       \/ \E c \in Calls, d \in now .. MaxTime : EnterAssign(t, c, d)

Spec == Init /\ [][Next]_vars

-----------------------------------------------------------------------------
(* Properties *)

\* Once no microthread is inside the timer code and no expiration is being handled, the
\* timerfd is set for every call in the queue, at its deadline or before: a thread that
\* waits with a timeout has something to wake it.
NoStrandedCall ==
  jobs = 0 /\ (\A t \in Threads : pc[t] = "idle") =>
    \A c \in Calls : Queued(c) => timerfd # 0 /\ timerfd <= deadline[c]

=============================================================================
