# A TLA+ model of darlingserver

darlingserver is the userspace kernel of Darling. Clients send it calls as datagrams;
it runs each call in a microthread on a pool of OS threads, and behind the calls lies a
Mach kernel built from XNU sources ("duct tape") whose threads, locks and wait queues are
mapped onto those microthreads. Most of what is hard about the server is in that mapping:
who may run a thread, when a sleeping one is woken, what happens to a call when a signal,
a death or another call arrives in the middle of it.

This directory models those parts, checks them on small instances with TLC, and proves
the central invariants for every instance with TLAPS. Line numbers below and in
`PROJECT.json` refer to the repository's files.

## 1. The system

| Part | Files | State | Operations | Model |
|---|---|---|---|---|
| Work queue | `workers.hpp` | items, workers, `_threadsAvailable`, `_dying` | push, worker loop, time-out, destruction | `WorkQueue` |
| Microthreads | `thread.cpp` | pending and active call, interrupts, `_running`, `_suspended`, deferral, death | `setPendingCall`, `doWork`, `suspend`, `resume`, `impersonate`, `notifyDead`, replies, signals | `Microthread` |
| Calls | `call.cpp`, generated wrappers | a call's thread and reply address | `callFromMessage`, pushed replies, `interrupt_enter`, `interrupt_exit`, check-in and check-out, forwarding calls | `Microthread`, `S2C`, `ProcessLife` (in part) |
| Mutexes, condition variables | `duct-tape/src/locks.c`, `condvar.c` | owner, queue of waiters, queue lock | lock, unlock, wait, signal, from microthreads and OS threads | `DtapeMutex`, `Monitor` |
| Kqueue channels | `kqchan.cpp`, `duct-tape/src/kqchan.c` | `_canSendNotification`, deferral, events, outbox, waiter thread | set-up, notify, read, modify, check, hang-up | `Kqchan` |
| Runner pool | `thread.cpp` 783-897 | queue, semaphore, `kernelAsyncRunnersAvailable`, permanent runners | `kernelAsync`, runner loop, death of a runner | `KernelAsync` |
| Event loop, monitors | `server.cpp` | epoll set, monitors, inbox, outbox, eventfd | receive, send, wait, dispatch, add and remove monitors | `EventLoop`, `Mailbox` |
| Messages | `message.cpp` | queues, descriptors, credentials | push, pop, sendMany, receiveMany, descriptors | the queues in `EventLoop`, `Kqchan` |
| Server-to-client calls | `thread.cpp` 990-1116 | four semaphores, `_s2cReply`, `_deferredReply` | `_s2cPerform`, `s2c_perform` | `S2C`; deferral also in `Microthread` |
| Processes, registries | `process.cpp`, `registry.hpp` | threads, pending replacement, registration | first call, checkout, exec, check-in, death | `ProcessLife` |
| Timers | `duct-tape/src/timer.c`, `timer_call.c`, `server.cpp` | queue of calls, armed deadline, timerfd | enter, cancel, expire, arm | `Timer` |
| Stack pool, writer, user suspension, tasks, memory, psynch, host, start-up, logging, tools | see `PROJECT.json` | | | not modelled |

How they interact: the main loop (one OS thread) receives datagrams and makes each the
pending call of a `Thread`, which it pushes on the work queue. A worker runs the thread
until its microthread suspends or finishes. Microthreads suspend in mutexes, condition
variables and XNU wait queues, and are resumed by being pushed on the work queue again.
Kernel microthreads run what `kernelAsync` is given; to act for a client thread one
*impersonates* it, which keeps workers away from it meanwhile. Kqchannels have sockets of
their own, served by the main loop and by kernel microthreads. All replies leave through one
outbox, which the main loop empties. While it serves a call the server may in turn call the
client (S2C), which executes the request where it waits for its reply. The main loop also
hears of expired timers, of execs and of deaths, and hands the timers to kernel microthreads.

The behaviours that are hard to test, and that the models are about: two workers meeting on
one thread; a wake-up at each point of a thread's way to sleep; a signal at each point of a
call's life; death at any time; a condition checked, a lock released, and the result used;
notifications and check-ins that overtake what should come first; counters of waiting threads
that drift; work that is queued while everybody is about to stop looking. `PROJECT.json` lists
them by line as `hazards`.

## 2. Conventions

*Atomicity.* An action is one critical section of the lock that protects the state
(`_rwlock`, the work queue's mutex, a duct-tape queue lock, `_notificationMutex`, a registry's
lock), one operation on a semaphore, or one system call of the main loop. What the
code does after it unlocks is another action. Pushing a thread on the work queue, which
commutes with everything up to the next lock, is part of the action before it.
*Faithfulness.* Where the code throws or asserts, the model has a failed state
(`crashed` in `Microthread`, which names the throw, and in `S2C`; `fault` in `ProcessLife`; the
aborted or failed client of `Kqchan` and `S2C`), and the properties say which of them are not
reached.
*Environment.* Clients are modelled from the generated wrappers in
`scripts/generate-rpc-wrappers.py`, and for kqchannels from `rpc-supplement.h` and the
comments of `kqchan.cpp`; libkqueue itself is not in the repository.
*Mutants.* An operator under a comment `Mutant:` is the neighbouring action with one
plausible mistake. It is not part of any specification; replacing the action by it makes
TLC report the property that `PROJECT.json` pairs it with.
*Proofs.* `XProofs.tla` extends `X.tla` and holds its theorems.

## 3. Modules, runs and proofs

### WorkQueue

State: `workItems`, `threadsAvailable`, `workerThreads`, `dying` as in the class, `pc` of
each worker, and `notifies`, the `notify_one` calls that follow push's unlock. Actions:
`PushAndSpawn`, `PushAndUnlock` and `NotifyOne` (push), `Enter`, `Wake`, `TimeOut`,
`FinishItem` (worker), `Destroy`, `Destroyed`. A wake-up may be spurious.

Run `work_queue` (four pushes, two permanent workers, four identities for temporary ones, a
pool of at most three): queued work always has an awake worker or a notification on its way
(`NoStrandedWork`), `_threadsAvailable` is exact up to the workers that timed out
(`CountExact`), the pool stays within `maximumThreads()`, every item runs, the destructor
returns. With four pushes a push can find all workers busy and spawn, the temporary worker
can time out, and later pushes meet the count it leaves behind. Four identities are enough
because each push spawns at most one worker. Fairness: a `notify_one` is delivered, and a
worker that can go on does; pushes and time-outs are not fair.

`CountExact` states a leak rather than its absence: the exit by time-out (lines 115-120)
does not decrement `_threadsAvailable`. After as many time-outs as there are workers the
test at line 167 never succeeds again and the pool stays at its permanent size.

Proved (`WorkQueueProofs`): type correctness, `NoStrandedWork`, `CountExact`, `PoolBounded`,
for any numbers of workers, items and temporary threads. The invariant (`IndInv`)
adds to these that `_workerThreads` lists the workers that were started and did not time out
and is no larger than the maximum (`Listed`), that permanent workers never time out
(`PermanentStay`) and that a worker exits otherwise only when the queue is dying
(`ExitOnlyDying`). `NoStrandedWork` needs the last two where a `notify_one` finds nobody
waiting: a permanent worker is there, and it is awake.

### Microthread

The life of one client thread: the fields of `Thread`, the workers inside `doWork`
(`pc`), the place inside the microthread (`ctl`), the wait it is in (`wait`), kernel
microthreads that impersonate it (`imp`), and its client (`phase`, `requests`, `replies`).
`WaitKind` says how the thread blocks: "locked" waits give `suspend` a lock to release once
the thread is off its stack, as mutexes and condition variables do; "unlocked" ones are
`assert_wait` followed by `thread_block`, as in all XNU code, semaphores included. A signal or
a death resumes a thread out of a locked wait without taking it out of the queue it is in
(`wait` is then "stale"): its later wake-up changes nothing, but if it blocks again before that,
it is inserted a second time, which breaks the list (`SuspendTwice`, `crashed` = "queue"). A
thread dies because its client is killed (`NotifyDead`) or by its own `checkout` (`Checkout`).

The client sends calls, and handles a signal at any point: its wrapper sends
`interrupt_enter`, pushes back a reply that was not for it, runs the handler (which may
make a call), sends `interrupt_exit` and goes on waiting.

* `microthread_workers`: two workers, one impersonator, an S2C call and a death or checkout,
  without signals (27,284 states). `OneRunner`: `_running` is an exclusive claim. `NoLostWakeup`.
  `DeadIsTerminating`: the branch of `doWork` marked "should be impossible" is. `ReleasedOnce`.
  `CallConserved`: the client's call or its reply is always in exactly one place.
* `microthread_single`: one worker, as with `singleThreadedWorkQueue`, with signals,
  impersonation, death and checkout, under fairness (123,751 states): a pending call is always
  scheduled, the client stays in step, calls are conserved through signals, every call is answered
  unless the server threw or queued a thread twice, a dead thread is released unless it checked
  out.
* `microthread_lost_call` (violated): a second worker drops a thread whose new call is pending
  because the first has not left `doWork` yet (line 409); nobody schedules it again.

Three other instances of the module are of interest; they are not among the runs.
*Wake-ups without a lock.* With `WaitKind = "unlocked"`, two workers, one call that blocks
once, no impersonator, signal, S2C call or death, TLC finds `NoLostWakeup` violated: a wake-up
between `assert_wait` and `thread_block` is lost (duct-tape/src/thread.c:549).
*Release.* With one worker, locked waits, one call and a death, the state predicate
`~dtapeLive => ~running` is violated: a death between a worker's taking the thread and the
call's becoming active releases the duct-taped thread under the running microthread
(thread.cpp:1462).
*Signals with two workers.* With unlocked waits, three calls, one signal and a death,
`BookkeepingSound` and `CallConserved` hold.

Met while modelling, and visible in `BookkeepingSound`, which leaves them reachable: the queue
that holds a thread twice (the FIXME at thread.cpp:1523 says so of signals; a death, line 1478,
does the same), and two throws: with a signal, `doneWorking` throws when an interrupt and a call
are both waiting (line 567), and `callFromMessage` throws when a reply is pushed back before
`interrupt_enter` is pending (call.cpp:178). And with a signal *during an S2C call*, the deferred
reply of `interrupt_enter` overwrites that of the interrupted call (lines 1374-1375), so
`CallConserved` is checked with signals and with S2C calls but not with both.

A thread that ends with `checkout` is never released (`CheckedOut`). `Checkout` calls
`notifyDead` inside the thread's own call, which leaves the release to the end of that call,
and then sends its reply past the thread (call.cpp:385), so that `_activeCall` stays set and
`doneWorking` (thread.cpp:552) never finds the call over: the object, which keeps a reference to
itself, and its duct-taped thread stay. (A checkout before an `execve` leaves `_activeCall` set
too, on a thread that lives on, until its next call; that one is not modelled.)

Bounds: two or three calls, two signals and two blockings per call reach every
action, blocking again with a stale entry among them; one thread is enough because threads
share only the work queue, which has its own model and is a bag (`queued`) here, and what they
wait for, which has its own too. One effect falls between the two: a stale entry absorbs a
wake-up that was meant for the waiter behind it in the queue, which fairness of `Wake` hides.

Fairness (`FairSpec`), all weak: workers and the main loop run (the OS schedules them), a
client inside a wrapper goes on, the event a blocked thread waits for happens, a death that
has begun is carried through to the release, an S2C call ends, an impersonator leaves. New
calls, signals and deaths are not fair.

Proved (`MicrothreadProofs`): type correctness, `OneRunner`, `ReleasedOnce`,
`DeadIsTerminating` for any workers and impersonators; `NoLostWakeup` for locked waits and
at most one impersonator (both are hypotheses of the theorem; the first instance above shows
what happens without the locks). The invariant for releases (`DeathInv`): a release is
promised at most once, in one of three places (`notifyDead` has yet to schedule it, a worker
leaving `doWork` has, or it is scheduled), and a promise implies `_terminating`, which only
one of the two critical sections sets first. That for wake-ups (`WakeInv`): a worker about to
leave `doWork` with the thread suspended still holds the lock the waker needs, so a waker
finds the thread at rest; during an impersonation the deferral keeps the wake-up.

Proved (`MicrothreadProtocolProofs`, on the first module's lemmas), for any numbers of workers,
impersonators, calls and blockings, both sorts of wait, and any number of signals *or* of S2C
calls: `BookkeepingSound`, `ClientSynchronised` and `CallConserved`. With both signals and S2C calls
`CallConserved` is false, as said above, so `MaxSignals = 0 \/ MaxS2C = 0` is a hypothesis of the
theorems. None of the three is inductive, and none can be proved without the others: that
`interrupt_exit` finds a saved reply, say, depends on where the client is, and where the client
is on what it was sent. The invariant (`ProtocolInv`) has two halves. The server's says what the
microthread finds at each point of its code, for the one worker that may be inside
(`OneRunner`): whether it has a stack or a continuation (`StackInv`), which call is active and
what the interrupt holds (`ServeInv`), what may be pending beside it (`PendingInv`). The client's
lists, for each place of the client's wrapper, every distribution of its calls and replies over
the request socket, the pending and the active call, the saved reply and the reply socket
(`PhaseInv`; `interrupt_enter` during a call has three forms: both are on their way to their
replies, `interrupt_enter` waits in `_pendingInterrupts`, or it goes over a call that is
interrupted or whose reply was pushed back), and when replies may be deferred
(`DeferInv`). The client's half is dropped once the process is dead or the server has thrown. A
checkout leaves the call active although its reply is sent, which contradicts `ServeInv`; from
then on `GoneInv` holds instead, which says that nothing is left of the client for the server to
act on, and the theorems are about the disjunction (`WholeInv`). The proof
has one lemma per step of the code. `MicrothreadProofs` has the invariant and the steps of the
client, the main loop, S2C calls and impersonators, `MicrothreadProtocolProofs` those of the
workers and of the microthread. The two throws and the broken queue that `BookkeepingSound`
leaves open are values of `crashed` in `ProtocolInv`; every other one is excluded.

`PendingCallScheduled` is proved for one worker and at most one impersonator (hypotheses of
the theorem, with the one above): run `microthread_lost_call` shows that it fails with two
workers. The invariant (`SchedInv`): a pending call has an entry in the work queue or in the
deferral, or the worker that has the thread has yet to look for one (`Taken`); and a deferral
lasts as long as an impersonator.

### DtapeMutex, Monitor

`DtapeMutex` has microthreads and one native thread that lock, unlock, wait and signal;
queue locks are explicit, and a microthread is "stopped" only when its worker has left
`doWork`. `Monitor` is what users rely on: a mutex and a condition variable whose wait is
one step.

Run `dtape_mutex` (three microthreads, one native thread): mutual exclusion with ownership;
a queued microthread is suspended once the queue lock is free, so that its wake-up is not
dropped (`QueuedAreSuspended`); no waiter is forgotten; a free mutex with waiters has
somebody on the way to it; a mutex that is free and wanted is held again, by someone
(`LockProgress`); and the refinement `MonitorSpec`. Three
microthreads are needed for a woken waiter to lose to a newcomer while a third still waits.
Fairness: weak, for each microthread's steps and for the native unlock. Nothing is claimed
about each thread's getting its turn: the lock is not fair, a newcomer may overtake a waiter.

`dtape_mutex_try_lock` is left out. It tests and sets the owner outside the queue lock
(locks.c:114), so that two microthreads can both find the mutex free and take it; the first
`unlock` after that fails its assertion (line 136). None of the properties above would survive
it; they are about users that do not call it.

Proved (`DtapeMutexProofs`): all five invariants and `Spec => MonitorSpec`, for any threads.
The
inductive invariant has two layers. `LockInv`: the mutex, its queue lock and the condition
variable's are held by the actor whose control point says so. `QueueInv`: each queue holds,
once each, exactly the microthreads that are about to suspend or suspended on it and have
not been resumed. The refinement maps to the holder the owner, or else the native thread that
keeps the queue lock, and to the waiters the condition variable's queue.

### Kqchan

One channel, on a port, a port set or a process (`kind`, chosen by Init). Events arrive from any
thread (`Notify`; on a port only the first message of a queue posts the knote, as
`ipc_mqueue_post` does); `Vanish` is the death of the port; `ReceivedElsewhere` a `mach_msg` of
the client. `Read`, `ReadFill`, `ReadReply`, `SendDeferredNotification` are the four sections of
`_read`. `SendMany` moves one message into a socket that holds `SocketRoom`, and runs the reply's
callback. `SetupSocket` and `SetupCheck` let events come before and during set-up. The test for
events that follows a reply and the notification it leads to, two sections in the code
(kqchan.cpp:417-418), are one step. The client reads when it has been notified and aborts on a
notification during a read, as the comment at kqchan.cpp:355-369 says.

Run `kqchan` (three events, one modification, a socket of one message): `KeptInOrder`,
`OneUnacknowledged` (the flag is exact), `NoMissedNotification`, and under fairness
`EventsDelivered`. Three events let one arrive before, during and after a read; a socket of
one message makes every send meet a full one. Fairness: main loop, workers and client run.

`NoMissedNotification` and `EventsDelivered` leave out the messages of port sets, for which
they fail: the waiter thread of a set waits for a read although it has not notified anybody
(kqchan.c:195-202), when the message that woke it was received by another thread first. From
then on messages to the set are not announced, until a modification makes the server look.

Proved (`KqchanProofs`), for any numbers of events and modifications and any room in the socket:
the types, `OneUnacknowledged`, `KeptInOrder` and `NoMissedNotification`. `OneUnacknowledged` is
inductive with the types. `KeptInOrder` needs to know of messages that have not reached the client:
that there is one request or reply for what the client waits for (`OneReply`), that during a read
every notification is deferred (`Deferral`), and that in outbox and socket no notification is ahead of
a read's reply (`ReplyAhead`). `NoMissedNotification` needs besides these that the end of a port has
been announced (`EndAnnounced`). Messages are counted by the places they have in a sequence,
so the lemmas on counting are about `Append`, `Tail` and the cardinality of sets of places.

### KernelAsync

The runners of `kernelAsync` with queue, semaphore and counts. A temporary runner's death submits
the job that releases it, so that one submission may cause many. `SemaphoreDown` takes a unit or
enters the semaphore's wait queue; `SemaphoreUp` gives its unit to a waiter, if there is one. The
waiter may not have suspended yet, because XNU's semaphores unlock before they block
(sync_sema.c:714, then `thread_block`): `thread_unblock` then resumes nobody
(duct-tape/src/thread.c:549), the unit is spent, and the runner suspends for good (`pc` = "lost").
Whoever runs between the unlock and the suspension decides, so `SemaphoreUp` chooses.

Run `kernel_async` (three jobs, one permanent runner, four identities for runners, one
interrupted wait; 1,040,137 states): the count of available runners is exact, there is a unit of
the semaphore for each job (so nobody finds the queue empty, and the branch for that is dead
code), each job is run once, and the pool comes to rest unless a wake-up is lost. One lost
wake-up strands one job; a permanent runner that is lost is not replaced, and still counts as
available, so that `kernelAsync` starts no runner for later jobs. Limits of one permanent runner
and three jobs give a temporary runner that dies while the permanent one is busy, twice over.
Fairness: runners run and jobs end (what a job does is not part of this model).

Proved (`KernelAsyncProofs`), for any jobs, runners and limits: the types, `AvailableExact`,
`WakeupPerJob`, and from the last that the queue is not empty when a runner takes from it. The
three are proved together (`CountInv`, which adds that a runner that runs has a job): that
the unsigned count never wraps is a consequence of its being exact. `JobsOnce` is proved job by
job (`OnceInv`): a job has at most one copy in the queue and with the runners, and is submitted exactly
if it has one or is done; a runner that does not run has none. `JobHasRunner`, the safety half of
"every job is run", says that beyond one job for each lost wake-up no queued job is left with
temporary runners that die, as long as a permanent runner is not lost. It rests on `PoolInv` (the
first runner started is permanent, as `MAX_PERMANENT_KERNEL_RUNNERS` is not zero, and a permanent
runner never dies), on `NoneWaits` (nobody waits while the semaphore has units) and on
`WakeupPerJob`, which gives each job a unit, raised, promised or spent. That runners then run is
fairness, and `ComesToRest` is checked by TLC only.

### EventLoop, Mailbox

The main loop (`pc`, `canRead`, `canWrite`), the outbox and the listening socket, the sockets
of the peers (`queued`, at most `Room` messages), the eventfd (`wakeup`, `armed`, and `writes`,
the writes that follow an unlock), the pending edges of the edge-triggered socket, and the
monitors with the addresses the allocator gave them. Actions follow `Server::start` from top to
bottom: `Receive`, `Drain`, one step per message of `sendMany` (`Send`, `SendBlocked`,
`SendDropped`, `SendDone`), `Arm`, `Wait` (or `Interrupted`), for each event of the batch
`Lookup` and a callback, and `Reap`. Other threads push, add and remove meanwhile. A peer's
reading makes an edge for writing, its death lets `sendMany` drop its messages. `Mailbox` is
what the callers of `sendMessage` rely on: for each peer, messages in order, each once, given
up only if the peer is dead.

Run `event_loop` (one peer with room for one message, two posts, two arrivals, two monitors
that may be given the same address, one event; 350,811 states): while the loop sleeps, a
message in the outbox or in the socket has something that will wake it (`NothingStranded`);
the callback that runs belongs to the monitor whose event was reported (`RightMonitor`), which
is what the list of monitors waiting to die is for; the refinement `MailboxSpec`; under
fairness, every message leaves the outbox and every event is handled. Two posts let one be
pushed at each point of the other's way out, with the socket full or not; one address for two
monitors makes the reuse happen. Fairness, weak: the loop and threads that have a write to do
run, and a live peer reads. The last is needed: the outbox is one queue, and `sendMany` stops
at the first message whose peer is full (message.cpp:533-538), so a client that does not read
holds up the replies to all others.

Proved (`EventLoopProofs`), for any peers, monitors, addresses and bounds: the types,
`NothingStranded` and `RightMonitor`. `NothingStranded` follows from three facts about the loop's
position: what the eventfd promises once the loop has read it (`Sending`), that a loop which
cannot send has its first peer full or an edge to come (`Blocked`), and that unread datagrams
have an edge or a flag (`Hearing`). `RightMonitor` needs that a
monitor in the batch is still allocated (`Kept`) and that two allocated monitors have different
addresses. The refinement `MailboxSpec` maps the mail of a peer to the set of numbers of the
messages in the outbox that are for it; since messages are numbered as they are posted,
the only invariant it needs is that the numbers in the outbox increase (`Ordered`): then the
message `sendMany` sends is the first of its peer's.

### S2C

One thread, the target; performers, which are microthreads of other clients or the target's own
(`Self`, in a call such as `mach_vm_allocate`); the client. State: the four semaphores,
`_s2cReply`, `_deferReplyForS2C` and `_deferredReply`, the active call, the messages both ways.
`_s2cPerform` is cut at each semaphore and each section of `_rwlock`: `Begin`, `DownPerform`,
`Check`, `SendSignal` and `DownEnter` if no call is active, `SendRequest`, `DownReply`,
`TakeReply` (with `SendDeferred`), `UpPerform`, `UpExit`; `Interrupt` is a wait that ends with
the interruption of the performer. The semaphores are XNU's, so each wait can miss its wake-up
as in `KernelAsync`: the unit is taken and the performer (`lost`), or the microthread of
`s2c_perform` (`asleep`, `S2CPerformLost`), sleeps on. The choice is left open whenever a unit is
taken, also by one who need not have waited. The client follows the generated wrapper: it executes a
request where it waits for a reply, takes the S2C signal between calls, and treats any other
message as an error. Interruptible calls of the target are not in this module (`Microthread`
has them).

Run `s2c` (two performers and the target's own microthread, three calls, four S2C calls, one
interruption; 54,332 states): the client listens when a request is on its way and no reply is
ahead of it (`ClientListens`); its call is in exactly one place (`CallInOnePlace`); a performer
takes the reply to its own request and nothing throws (`OwnReply`); whoever waits, somebody can
move (`NeverStuck`, with the guards of all actions but those that begin something or interrupt);
everyone returns (`EveryoneReturns`). A performer that is interrupted while it waits for the green
light or the reply returns and leaves its request, and its signal, behind. One that is interrupted
after it was given a unit and before it runs has the result of its wait overwritten
(`dtape_thread_sigexc_enter`, duct-tape/src/thread.c:435): the unit is gone, and if it was the
turn (thread.cpp:1015), nobody performs on this thread again. From then on (`abandoned`) the next
performer can take the wrong reply, the server can throw, and the client can be left in
`s2c_perform`; only `CallInOnePlace` is claimed. After a lost wake-up, `NeverStuck` and
`EveryoneReturns` claim nothing: a performer that sleeps on keeps its turn for ever, and
`s2c_perform` keeps its client; the other three properties hold all the same. A lost performer is
freed only by an interruption, which makes it return as above. Fairness: a waiting client
receives; a signal that is pending whenever the client is between calls is taken in the end
(strong, because the client may start another call first); the server's threads run; the semaphore
for turns is handed out in turn (strong), as the wait queue behind it is.

Run `s2c_embrace` (violated): a performer finds no active call, signals the client and keeps its
turn; the client has just sent an uninterruptible call; that call's microthread performs an S2C
call of its own and waits for the turn. The performer waits for the client, the client for its
call, the call for the performer. `NeverStuck` and `EveryoneReturns` also except this state, and it is
proved that nothing but an interruption of the performer ends it (`EmbraceLasts`): it is a deadlock,
and no delay.

Proved (`S2CProofs`), for any performers and bounds: `CallInOnePlace`, `OwnReply`,
`ClientListens`, `NeverStuck` and `EmbraceLasts`. `CallInOnePlace` follows from `OnePlace`, which
lists the five places; with it goes `Turn`: at most one performer has its turn, and the semaphore
says so if none has. The others need `Orderly`, which holds until a request or a turn is
abandoned: a request, or its reply, is in one place and belongs to the performer with the turn
(`OneRequestAtMost`); signal, `s2c_perform` and the two handshake semaphores count one round
between them (`Handshake`), or the round's end was missed (`Handed`); and while a request without
a handshake is outstanding, the call it found active is still unanswered (`HeldBack`).
`NeverStuck` needs two more facts, about who is waited for: somebody has the turn while the
semaphore is down (`TurnTaken`), and a deferred reply belongs to a performer that is under way
(`Deferral`). If no wake-up was lost, then nobody can be waiting for a reply, so the client runs
or its call is being served, and what is left is the embrace.

### Timer

The queue of timer calls, the deadline the server believes armed (`current`) and the timerfd.
`EnterAssign` and `EnterEnqueue` are `timer_call_enter`: the timer is armed, then the call is
put into the queue. `CancelDequeue` and `CancelArm` are `timer_call_cancel`. `TimerEvent` is the
main loop's reading of the timerfd; `FiredStart`, `ExpireCall`, `ExpireReturns` and `FiredArm`
are `dtape_timer_fired` on a worker. Leeway is left out.

Run `timer` (violated; two calls, two microthreads, three ticks): a microthread that enters a call
arms the timer for it; the timer fires before the call is in the queue; the expiration scans the
queue without it and unlocks; the call is put into the queue; and the expiration arms the timer
for what it saw, that is, disarms it. (It overrides in the same way what is armed after its scan.)
The call is in the queue and nothing fires for it. With one microthread at a time (`Threads` of
one element, `MaxTime = 5`, `MaxEnters = 4`; 36,395 states) `NoStrandedCall` holds: the defect is
in the interleaving only.

### ProcessLife

One process and its threads, in the client (`client`, `alive`, `silent`), in the server
(`registered`, `dead`, `threads`, `thread`, `orphaned`) and in between (the exec pipe, the batch
of the main loop). A thread is registered with its first call (`FindProcess`, `RegisterThread`);
`Checkout` ends it, and leaves its object for good (see `Microthread`); `ClientExecs` hangs up the
exec pipe, which the main loop hears of in its next batch (`Wake`, `PipeHangsUp`); the check-in of
the new image runs `notifyCheckin` on a worker, with its loop over the threads cut where it drops
the lock (`ExecNext`, `ExecNotify`, `ExecErase`, `ExecEnd`); `ProcessExits`, `NotifyThread` and
`Unregister` are the death of the process, `DropThread` and `DestroyThread` the end of a thread
object on a kernel runner.

Run `process_exec` (violated; three threads, two architectures): the main loop receives all
datagrams there are, so a check-in sent after `epoll_wait` returned is received before the
hang-up is reported. `notifyCheckin` takes it for the check-in after a fork. If the new image
has another architecture the server throws what it calls impossible; otherwise the replacement
stays pending and befalls the next check-in.

The whole state space (308,324 states) has been explored, and shows what follows; no document
states the contrary, so no run does. `ExecErase` can use an iterator to an entry that a
destructor has erased (fault "iterator"), and a destructor can find its thread gone from the
registered ones ("not registered"). The throw "main thread" is not reached. Since a thread that
checks out is never destroyed, the destructor of the last registered thread, which would declare
the process dead (thread.cpp:234), is not what ends a process: its pidfd or an exec is.

## 4. What is only model-checked

Liveness (`EveryItemRuns`, `DestructorReturns`, `EveryCallAnswered`, `DeadReleased`,
`LockProgress`, `EventsDelivered`, `ComesToRest`, `EveryMessageLeaves`, `EveryEventHandled`,
`EveryoneReturns`), which the prover does not treat. All the invariants and both refinements
that the passing runs check are theorems, some under the hypotheses named above.
`Timer` and `ProcessLife` only have properties that fail.

## 5. What is not modelled

Nearly all of the repository's lines are vendored XNU and pthread code, which the models enter
only where the server's own protocols need it: effects of message queues, wait queues and
semaphores, and the part of the timer queue that arms the server's timer. For that reason the
lines that have a model are a small share of all lines (about one in three hundred); of the
server's own code, under `src/src`, `src/internal-include` and `src/duct-tape/src`, all parts
that synchronise have a model except those listed here.

* `dtape_mutex_try_lock`, for the reason given above.
* User suspension (`duct-tape/src/thread.c` 405): the counts are kept by vendored code.
* Destruction and hang-up of kqchannels, and `NOTE_TRACK`: the lifetimes of knotes are vendored
  code's.
* `Monitor::enable` and `disable`, and the asynchronous writer that uses them.
* Fork wait: a semaphore raised by any check-in that is not an exec (process.cpp:372).
* Compositions of `Microthread` with `DtapeMutex` under signals (the FIXME at thread.cpp:1523) and
  deaths, beyond the stale entry and its second insertion, and of two impersonators of one thread:
  the products are past what TLC explores in minutes.
* Stack pool, message descriptors, tasks, memory, psynch, host, start-up, logging and the
  debugging tool: sequential code, data layout, forwarding or pure I/O.

The contents of messages, registers and memory are left out everywhere. `PROJECT.json` gives the
reason for each part.
