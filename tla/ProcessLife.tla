---------------------------- MODULE ProcessLife ----------------------------
(***************************************************************************)
(* The life of one client process and its threads in the server: the       *)
(* registration of whoever calls (Call::callFromMessage, src/call.cpp),    *)
(* checkout, execve and the check-in after it (Process::notifyCheckin,     *)
(* src/process.cpp), death (Process::notifyDead, Thread::notifyDead) and   *)
(* the destructor of a thread (Thread::~Thread, src/thread.cpp).           *)
(*                                                                         *)
(* The event loop registers callers and hears of deaths; check-ins and     *)
(* checkouts run on workers; the last reference to a thread is dropped by  *)
(* a kernel runner, which runs its destructor.  One action is one section  *)
(* of Process::_rwlock or of a registry's lock.                            *)
(***************************************************************************)
CONSTANTS Tids,          \* threads the client has in its life
          Main,          \* the one whose id is the process's
          Architectures  \* of its images

VARIABLES
  client,      \* "running", "execs" (a new image, not checked in yet), "exited"
  image,       \* its architecture
  alive,       \* threads of the client
  silent,      \* those that have yet to make a call
  pipe,        \* what the exec pipe, once hung up, has to say
  registered,  \* the Process is in the registry
  dead,        \* Process::_dead
  dying,       \* who is in Process::notifyDead
  notify,      \* threads it has yet to notify
  replacing,   \* _pendingReplacement
  arch,        \* _architecture
  threads,     \* keys of Process::_threads
  thread,      \* state of each Thread object
  orphaned,    \* threads whose _process was cleared, or is not this one any more
  loop,        \* where the event loop is: "wait", "batch", "receive", "register"
  hungup,      \* the pipe's event is in its batch
  caller,      \* the thread it is registering, the process being found
  exec,        \* where the check-in of the new image is
  it,          \* the iterator of its loop
  held,        \* thread objects it holds a reference to
  fault        \* the first exception, or use of an invalid iterator

clientVars == <<client, image, alive, silent>>
procVars == <<registered, dead, dying, notify, replacing, arch>>
threadVars == <<threads, thread, orphaned>>
loopVars == <<pipe, loop, hungup, caller>>
execVars == <<exec, it, held>>
vars == <<clientVars, procVars, threadVars, loopVars, execVars, fault>>

None == "none"
Locked == exec \in {"next", "end"}   \* the check-in holds Process::_rwlock

Throws(condition, what) == fault' = IF fault = None /\ condition THEN what ELSE fault

Init ==
  /\ client = "running" /\ image \in Architectures /\ alive = {Main} /\ silent = {}
  /\ registered = TRUE /\ dead = FALSE /\ dying = None /\ notify = {}
  /\ replacing = FALSE /\ arch = image
  /\ threads = {Main} /\ thread = [t \in Tids |-> IF t = Main THEN "live" ELSE None]
  /\ orphaned = {}
  /\ pipe = None /\ loop = "wait" /\ hungup = FALSE /\ caller = None
  /\ exec = "idle" /\ it = None /\ held = {}
  /\ fault = None

-----------------------------------------------------------------------------
(* The client *)

ClientCreatesThread(t) ==
  /\ client = "running" /\ alive \ silent # {} /\ t \notin alive /\ thread[t] = None
  /\ alive' = alive \cup {t} /\ silent' = silent \cup {t}
  /\ UNCHANGED <<client, image, procVars, threadVars, loopVars, execVars, fault>>

\* The process ends: by exit or by a signal.
ClientExits ==
  /\ client # "exited"
  /\ client' = "exited" /\ alive' = {} /\ silent' = {}
  /\ UNCHANGED <<image, procVars, threadVars, loopVars, execVars, fault>>

\* After a checkout with a pipe, execve fails (the pipe says so), or leaves the main thread
\* alone with a new image, which may be of another architecture, or not a Darling one.
ClientExecs(how) ==
  /\ client = "running" /\ Main \in alive \ silent /\ pipe = None /\ exec = "idle"
  /\ pipe' = how
  /\ CASE how = "failed" -> UNCHANGED clientVars
       [] how = "macho" -> /\ client' = "execs" /\ image' \in Architectures
                           /\ alive' = {Main} /\ silent' = {}
       [] how = "foreign" -> client' = "exited" /\ alive' = {} /\ silent' = {} /\ UNCHANGED image
  /\ UNCHANGED <<procVars, threadVars, loop, hungup, caller, execVars, fault>>

-----------------------------------------------------------------------------
(* The event loop *)

\* Process::notifyDead up to its unlock.
NotifyDead(who, keys) ==
  IF dead THEN UNCHANGED <<dead, dying, notify>>
  ELSE dead' = TRUE /\ dying' = who /\ notify' = keys

LoopAt(here) == loop = here /\ dying # "loop"

\* epoll_wait returns; other clients' messages may be what woke it.
Wake ==
  /\ LoopAt("wait")
  /\ loop' = "batch" /\ hungup' = (pipe # None)
  /\ UNCHANGED <<clientVars, procVars, threadVars, pipe, caller, execVars, fault>>

\* The exec pipe hung up: the callback of Checkout's monitor.
PipeHangsUp ==
  /\ LoopAt("batch") /\ hungup /\ ~Locked
  /\ hungup' = FALSE /\ pipe' = None
  /\ CASE pipe = "failed" -> UNCHANGED <<replacing, dead, dying, notify>>
       [] pipe = "macho" -> replacing' = TRUE /\ UNCHANGED <<dead, dying, notify>>
       [] pipe = "foreign" -> NotifyDead("loop", threads) /\ UNCHANGED replacing
  /\ UNCHANGED <<clientVars, registered, arch, threadVars, loop, caller, execVars, fault>>

\* The pidfd reports the exit: the callback of monitorProcess's monitor.
ProcessExits ==
  /\ LoopAt("batch") /\ client = "exited" /\ registered /\ ~dead /\ ~Locked
  /\ NotifyDead("loop", threads)
  /\ UNCHANGED <<clientVars, registered, replacing, arch, threadVars, loopVars, execVars, fault>>

\* The batch is done; the loop receives whatever has arrived since it was returned.
BatchDone ==
  /\ LoopAt("batch") /\ ~hungup
  /\ loop' = "receive"
  /\ UNCHANGED <<clientVars, procVars, threadVars, pipe, hungup, caller, execVars, fault>>

\* The first call of a thread: its process is found in the registry, or created ...
FindProcess(t) ==
  /\ LoopAt("receive") /\ t \in silent
  /\ loop' = "register" /\ caller' = t
  /\ IF registered THEN UNCHANGED <<procVars, threadVars>>
     ELSE /\ registered' = TRUE /\ dead' = FALSE /\ replacing' = FALSE /\ arch' = image
          /\ threads' = {} /\ orphaned' = {u \in Tids : thread[u] # None}
          /\ UNCHANGED <<dying, notify, thread>>
  /\ UNCHANGED <<clientVars, pipe, hungup, execVars, fault>>

\* ... and the thread is created and put into _threads.
RegisterThread ==
  /\ LoopAt("register") /\ ~Locked
  /\ thread' = [thread EXCEPT ![caller] = "live"]
  /\ threads' = threads \cup {caller}
  /\ silent' = silent \ {caller}
  /\ loop' = "receive" /\ caller' = None
  /\ UNCHANGED <<client, image, alive, procVars, orphaned, pipe, hungup, execVars, fault>>

\* The check-in of a new image goes to a worker.
ReceiveCheckin ==
  /\ LoopAt("receive") /\ client = "execs" /\ exec = "idle" /\ thread[Main] = "live"
  /\ exec' = "checkin"
  /\ UNCHANGED <<clientVars, procVars, threadVars, loopVars, it, held, fault>>

ReceiveDone ==
  /\ LoopAt("receive")
  /\ loop' = "wait"
  /\ UNCHANGED <<clientVars, procVars, threadVars, pipe, hungup, caller, execVars, fault>>

-----------------------------------------------------------------------------
(* Death *)

\* Thread::notifyDead: the thread leaves its registry and its release is scheduled.
Dies(th, t) == IF th[t] = "live" THEN [th EXCEPT ![t] = "dead"] ELSE th

\* A thread of the client ends with a checkout: notifyDead runs inside the thread's own call
\* and leaves the release to the end of that call, but the call's reply bypasses the thread,
\* the call stays its active one, and the release never comes.  The object, which refers to
\* itself, is never destroyed, and stays in _threads.
Checkout(t) ==
  /\ client = "running" /\ t \in alive \ silent /\ thread[t] = "live"
  /\ alive' = alive \ {t}
  /\ thread' = [thread EXCEPT ![t] = "kept"]
  /\ UNCHANGED <<client, image, silent, procVars, threads, orphaned, loopVars, execVars, fault>>

\* The rest of Process::notifyDead: every thread it had is told, then the registry.
NotifyThread(t) ==
  /\ t \in notify /\ notify' = notify \ {t}
  /\ thread' = Dies(thread, t)
  /\ UNCHANGED <<clientVars, registered, dead, dying, replacing, arch, threads, orphaned, loopVars, execVars, fault>>

\* The end of Process::notifyDead.
Unregister ==
  /\ dying # None /\ notify = {}
  /\ dying' = None /\ registered' = FALSE
  /\ UNCHANGED <<clientVars, dead, notify, replacing, arch, threadVars, loopVars, execVars, fault>>

\* The kernel runner that released a dead thread drops the last reference to it; a check-in
\* under way holds one to its own thread ...
DropThread(t) ==
  /\ thread[t] = "dead" /\ t \notin held /\ (t = Main => exec = "idle")
  /\ thread' = [thread EXCEPT ![t] = "destroying"]
  /\ UNCHANGED <<clientVars, procVars, threads, orphaned, loopVars, execVars, fault>>

\* ... and runs its destructor: it leaves _threads, and the last one out declares the
\* process dead.
DestroyThread(t) ==
  /\ thread[t] = "destroying"
  /\ thread' = [thread EXCEPT ![t] = "destroyed"]
  /\ IF t \in orphaned THEN UNCHANGED <<threads, dead, dying, notify, fault>>
     ELSE /\ ~Locked
          /\ Throws(t \notin threads, "not registered")
          /\ threads' = threads \ {t}
          /\ IF t \in threads /\ threads = {t} THEN NotifyDead("runner", {})
             ELSE UNCHANGED <<dead, dying, notify>>
  /\ UNCHANGED <<clientVars, registered, replacing, arch, orphaned, loopVars, execVars>>

-----------------------------------------------------------------------------
(* The check-in of a new image, on a worker *)

\* notifyCheckin takes the lock; without a pending replacement it takes the check-in for one
\* after a fork, and throws if the architecture differs.
Checkin ==
  /\ exec = "checkin"
  /\ IF replacing THEN exec' = "next" /\ UNCHANGED <<client, fault>>
     ELSE /\ exec' = "idle" /\ Throws(image # arch, "architecture")
          /\ client' = IF client = "execs" THEN "running" ELSE client
  /\ UNCHANGED <<image, alive, silent, procVars, threadVars, loopVars, it, held>>

\* The loop takes the next entry, and a reference if the object still has one, and unlocks.
ExecNext(t) ==
  /\ exec = "next" /\ t \in threads
  /\ exec' = "notify" /\ it' = t
  /\ held' = IF thread[t] \in {"live", "dead", "kept"} THEN held \cup {t} ELSE held
  /\ UNCHANGED <<clientVars, procVars, threadVars, loopVars, fault>>

\* Every thread but the main one is cut off from the process and dies.
ExecNotify ==
  /\ exec = "notify" /\ exec' = "erase"
  /\ IF it \in held /\ it # Main
     THEN orphaned' = orphaned \cup {it} /\ thread' = Dies(thread, it) /\ held' = held \ {it}
     ELSE UNCHANGED <<orphaned, thread, held>>
  /\ UNCHANGED <<clientVars, procVars, threads, loopVars, it, fault>>

\* The lock is taken again and the entry erased through the iterator.
ExecErase ==
  /\ exec = "erase" /\ exec' = IF threads \ {it} = {} THEN "end" ELSE "next"
  /\ Throws(it \notin threads, "iterator")
  /\ threads' = threads \ {it} /\ it' = None
  /\ UNCHANGED <<clientVars, procVars, thread, orphaned, loopVars, held>>

\* The main thread is put back; without it the server throws.
ExecEnd ==
  /\ exec = "end" /\ exec' = "idle"
  /\ Throws(Main \notin held, "main thread")
  /\ threads' = {Main} /\ held' = {}
  /\ replacing' = FALSE /\ arch' = image
  /\ client' = IF client = "execs" THEN "running" ELSE client
  /\ UNCHANGED <<image, alive, silent, registered, dead, dying, notify, thread, orphaned, loopVars, it>>

Next ==
  \/ ClientExits \/ (\E how \in {"macho", "foreign", "failed"} : ClientExecs(how))
  \/ Wake \/ PipeHangsUp \/ ProcessExits \/ BatchDone \/ RegisterThread \/ ReceiveCheckin \/ ReceiveDone
  \/ Unregister
  \/ Checkin \/ ExecNotify \/ ExecErase \/ ExecEnd
  \/ \E t \in Tids :
       \/ ClientCreatesThread(t) \/ FindProcess(t) \/ Checkout(t) \/ NotifyThread(t)
       \/ DropThread(t) \/ DestroyThread(t) \/ ExecNext(t)

Spec == Init /\ [][Next]_vars

-----------------------------------------------------------------------------
(* Properties *)

\* A check-in that notifyCheckin takes for one after a fork has the architecture the process
\* has: the code calls anything else impossible.
ForkKeepsArchitecture == fault # "architecture"

=============================================================================
