-------------------------------- MODULE S2C --------------------------------
(***************************************************************************)
(* Server-to-client calls on one thread (Thread::_s2cPerform and           *)
(* Thread::pushCallReply, src/thread.cpp; S2CPerform and the receipt of    *)
(* S2C replies, src/call.cpp).  Performers are microthreads of other       *)
(* clients, or the thread's own, which performs during a call of its       *)
(* client (mach_vm_allocate).                                              *)
(*                                                                         *)
(* The client executes a request while it waits for a reply.  Calls here   *)
(* are of the uninterruptible sort, during which it takes no signals; the  *)
(* handler of the S2C signal makes the calls interrupt_enter, s2c_perform  *)
(* and interrupt_exit.  One action is one section of Thread::_rwlock or    *)
(* one operation on a semaphore: the unit that an up hands to a waiter and *)
(* the waiter's return are one step, unless something comes in between.    *)
(***************************************************************************)
EXTENDS Integers, Sequences, FiniteSets

CONSTANTS Performers,     \* microthreads that perform; Self is the target's own
          MaxCalls,       \* bound: ordinary calls of the client
          MaxPerforms,    \* bound: S2C calls
          MaxInterrupts   \* bound: interrupted waits of performers

Self == "self"
None == "none"

ASSUME S2CAssumption ==
  /\ IsFiniteSet(Performers) /\ None \notin Performers
  /\ MaxCalls \in Nat /\ MaxPerforms \in Nat /\ MaxInterrupts \in Nat

VARIABLES
  phase,      \* what the client waits for; "run" when it waits for nothing
  signals,    \* S2C signals pending for the client
  requested,  \* its request is on its way
  toClient,   \* messages on their way to it
  toServer,   \* its S2C replies on their way
  active,     \* kind of _activeCall
  green,      \* the s2c_perform call has raised the enter semaphore
  perform, enter, exit, reply,   \* the four semaphores
  s2cReply,   \* _s2cReply: the performer whose request it answers
  defer,      \* _deferReplyForS2C
  deferred,   \* _deferredReply: the kind of call it answers
  pc,         \* where each performer is
  using,      \* performers with usingInterrupt
  crashed,    \* the server has thrown; steps after that are of no account
  abandoned,  \* a performer returned with its request outstanding, or with the turn
  lost,       \* performers that were given a unit and sleep on: their wake-up was lost
  asleep,     \* so does the microthread of the s2c_perform call
  calls, performs, interrupts

clientVars == <<phase, signals, requested, toClient, toServer, calls>>
semVars == <<perform, enter, exit, reply>>
callVars == <<active, green, defer, deferred>>
doneVars == <<crashed, abandoned, lost, asleep, performs, interrupts>>
vars == <<clientVars, semVars, callVars, s2cReply, pc, using, doneVars>>

Reply(kind) == <<"reply", kind>>
Request(p) == <<"s2c", p>>

Init ==
  /\ phase = "run" /\ signals = 0 /\ requested = FALSE
  /\ toClient = <<>> /\ toServer = <<>>
  /\ active = None /\ green = FALSE
  /\ perform = 1 /\ enter = 0 /\ exit = 0 /\ reply = 0
  /\ s2cReply = None /\ defer = FALSE /\ deferred = None
  /\ pc = [p \in Performers |-> "idle"] /\ using = {}
  /\ crashed = FALSE /\ abandoned = FALSE /\ lost = {} /\ asleep = FALSE
  /\ calls = 0 /\ performs = 0 /\ interrupts = 0

-----------------------------------------------------------------------------
(* The client *)

\* It makes a request and waits for the reply.
Calls(kind) == phase' = kind /\ requested' = TRUE

ClientCall ==
  /\ phase = "run" /\ calls < MaxCalls
  /\ calls' = calls + 1
  /\ Calls("call")
  /\ UNCHANGED <<signals, toClient, toServer, semVars, callVars, s2cReply, pc, using, doneVars>>

\* The S2C signal is taken between calls.
ClientTakesSignal ==
  /\ phase = "run" /\ signals > 0
  /\ signals' = signals - 1
  /\ Calls("enter")
  /\ UNCHANGED <<toClient, toServer, calls, semVars, callVars, s2cReply, pc, using, doneVars>>

\* It receives a message: an S2C request is executed and answered, the awaited reply ends
\* the call, and any other message is an RPC error.
ClientReceives ==
  /\ phase \notin {"run", "failed"} /\ toClient # <<>>
  /\ toClient' = Tail(toClient)
  /\ LET m == Head(toClient)
     IN CASE m[1] = "s2c" -> toServer' = Append(toServer, m[2]) /\ UNCHANGED <<phase, requested>>
          [] m = Reply("enter") /\ phase = "enter" -> Calls("perform") /\ UNCHANGED toServer
          [] m = Reply("perform") /\ phase = "perform" -> Calls("exit") /\ UNCHANGED toServer
          [] m = Reply(phase) /\ phase \in {"call", "exit"} ->
               phase' = "run" /\ UNCHANGED <<requested, toServer>>
          [] OTHER -> phase' = "failed" /\ UNCHANGED <<requested, toServer>>
  /\ UNCHANGED <<signals, calls, semVars, callVars, s2cReply, pc, using, doneVars>>

-----------------------------------------------------------------------------
(* The target thread and the event loop *)

\* The request arrives and becomes the active call.
Activate ==
  /\ requested /\ active = None
  /\ requested' = FALSE /\ active' = phase
  /\ UNCHANGED <<phase, signals, toClient, toServer, calls, semVars, green, defer, deferred,
                 s2cReply, pc, using, doneVars>>

\* Mutant: replies are sent whether or not they should be deferred.
PushCallReplyNow(kind) ==
  /\ active' = None
  /\ toClient' = Append(toClient, Reply(kind)) /\ UNCHANGED deferred

\* pushCallReply for the active call.
PushCallReply(kind) ==
  /\ active' = None
  /\ IF defer
     THEN deferred' = kind /\ UNCHANGED toClient
     ELSE toClient' = Append(toClient, Reply(kind)) /\ UNCHANGED deferred

\* Other calls reply at once, an ordinary one after what its own microthread performs.
ReplyToCall ==
  /\ active \in {"call", "enter", "exit"}
  /\ Self \in Performers => pc[Self] = "idle"
  /\ PushCallReply(active)
  /\ UNCHANGED <<phase, signals, requested, toServer, calls, semVars, green, defer, s2cReply,
                 pc, using, doneVars>>

\* S2CPerform::processCall gives the green light ...
S2CPerformEnter ==
  /\ active = "perform" /\ ~green
  /\ green' = TRUE /\ enter' = enter + 1
  /\ UNCHANGED <<clientVars, active, defer, deferred, perform, exit, reply, s2cReply, pc, using, doneVars>>

\* ... and replies once the performer is done ...
S2CPerformExit ==
  /\ active = "perform" /\ green /\ ~asleep /\ exit > 0
  /\ exit' = exit - 1 /\ green' = FALSE
  /\ PushCallReply("perform")
  /\ UNCHANGED <<phase, signals, requested, toServer, calls, defer, perform, enter, reply,
                 s2cReply, pc, using, doneVars>>

\* ... or never, if the performer raises the semaphore while its microthread, already
\* queued there, has yet to suspend: thread_unblock resumes nobody, and thread_block, which
\* has seen TH_WAIT, suspends.
S2CPerformLost ==
  /\ active = "perform" /\ green /\ ~asleep /\ exit > 0
  /\ exit' = exit - 1 /\ asleep' = TRUE
  /\ UNCHANGED <<clientVars, callVars, perform, enter, reply, s2cReply, pc, using, crashed,
                 abandoned, lost, performs, interrupts>>

\* callFromMessage with an S2C reply: it is stored and the reply semaphore raised, unless
\* there is one already.
ReceiveS2CReply ==
  /\ toServer # <<>> /\ toServer' = Tail(toServer)
  /\ IF s2cReply # None
     THEN crashed' = TRUE /\ UNCHANGED <<s2cReply, reply>>
     ELSE s2cReply' = Head(toServer) /\ reply' = reply + 1 /\ UNCHANGED crashed
  /\ UNCHANGED <<phase, signals, requested, toClient, calls, callVars, perform, enter, exit,
                 pc, using, abandoned, lost, asleep, performs, interrupts>>

-----------------------------------------------------------------------------
(* A performer in _s2cPerform *)

Goto(p, label) == pc' = [pc EXCEPT ![p] = label]

\* The semaphore gives p a unit and p goes on, or its wake-up is lost in the same way.
Granted(p, label) ==
  /\ Goto(p, label)
  /\ lost' = lost \/ lost' = lost \cup {p}

\* The thread's own microthread performs only while it serves a call.
Begin(p) ==
  /\ pc[p] = "idle" /\ performs < MaxPerforms
  /\ p = Self => active = "call"
  /\ performs' = performs + 1
  /\ Goto(p, "perform")
  /\ UNCHANGED <<clientVars, semVars, callVars, s2cReply, using, crashed, abandoned, lost, asleep,
                 interrupts>>

\* Mutant: performers do not exclude one another.
DownPerformShared(p) ==
  /\ pc[p] = "perform"
  /\ Granted(p, "check")
  /\ UNCHANGED <<clientVars, semVars, callVars, s2cReply, using, crashed,
                 abandoned, asleep, performs, interrupts>>

DownPerform(p) ==
  /\ pc[p] = "perform" /\ perform > 0
  /\ perform' = perform - 1
  /\ Granted(p, "check")
  /\ UNCHANGED <<clientVars, enter, exit, reply, callVars, s2cReply, using, crashed,
                 abandoned, asleep, performs, interrupts>>

\* With no active call the client must be signalled; otherwise replies are deferred, unless
\* this is the microthread that will reply.
Check(p) ==
  /\ pc[p] = "check"
  /\ IF active = None
     THEN using' = using \cup {p} /\ Goto(p, "signal") /\ UNCHANGED defer
     ELSE /\ defer' = (defer \/ p # Self)
          /\ Goto(p, "send") /\ UNCHANGED using
  /\ UNCHANGED <<clientVars, semVars, active, green, deferred, s2cReply, doneVars>>

SendSignal(p) ==
  /\ pc[p] = "signal"
  /\ signals' = signals + 1
  /\ Goto(p, "green")
  /\ UNCHANGED <<phase, requested, toClient, toServer, calls, semVars, callVars, s2cReply, using, doneVars>>

DownEnter(p) ==
  /\ pc[p] = "green" /\ enter > 0
  /\ enter' = enter - 1
  /\ Granted(p, "send")
  /\ UNCHANGED <<clientVars, perform, exit, reply, callVars, s2cReply, using, crashed,
                 abandoned, asleep, performs, interrupts>>

SendRequest(p) ==
  /\ pc[p] = "send"
  /\ toClient' = Append(toClient, Request(p))
  /\ Goto(p, "reply")
  /\ UNCHANGED <<phase, signals, requested, toServer, calls, semVars, callVars, s2cReply, using, doneVars>>

DownReply(p) ==
  /\ pc[p] = "reply" /\ reply > 0
  /\ reply' = reply - 1
  /\ Granted(p, "take")
  /\ UNCHANGED <<clientVars, perform, enter, exit, callVars, s2cReply, using, crashed,
                 abandoned, asleep, performs, interrupts>>

\* Mutant: the deferred reply is dropped.
SendDeferredNot ==
  /\ defer' = FALSE /\ deferred' = None
  /\ UNCHANGED toClient

\* The deferred reply, if any, is sent now.
SendDeferred ==
  /\ defer' = FALSE /\ deferred' = IF defer THEN None ELSE deferred
  /\ toClient' = IF defer /\ deferred # None THEN Append(toClient, Reply(deferred)) ELSE toClient

\* The reply is taken; the server throws when there is none or it answers another request.
TakeReply(p) ==
  /\ pc[p] = "take"
  /\ s2cReply' = None
  /\ crashed' = (crashed \/ s2cReply # p)
  /\ SendDeferred
  /\ Goto(p, "release")
  /\ UNCHANGED <<phase, signals, requested, toServer, calls, semVars, active, green, using,
                 abandoned, lost, asleep, performs, interrupts>>

UpPerform(p) ==
  /\ pc[p] = "release"
  /\ perform' = perform + 1
  /\ Goto(p, IF p \in using THEN "exit" ELSE "idle")
  /\ UNCHANGED <<clientVars, enter, exit, reply, callVars, s2cReply, using, doneVars>>

\* Mutant: the exit semaphore is not raised.
UpExitNot(p) ==
  /\ pc[p] = "exit"
  /\ using' = using \ {p}
  /\ Goto(p, "idle")
  /\ UNCHANGED <<clientVars, semVars, callVars, s2cReply, doneVars>>

UpExit(p) ==
  /\ pc[p] = "exit"
  /\ exit' = exit + 1 /\ using' = using \ {p}
  /\ Goto(p, "idle")
  /\ UNCHANGED <<clientVars, perform, enter, reply, callVars, s2cReply, doneVars>>

\* A signal to the performer's client interrupts one of its waits: it gives up its turn,
\* if it knows that it has it, and returns, whatever it has set in motion.
\* dtape_thread_sigexc_enter says so to a performer that has been given its unit, too, if it
\* has yet to run: the unit is gone.
Interrupt(p) ==
  /\ p # Self /\ interrupts < MaxInterrupts
  /\ interrupts' = interrupts + 1
  /\ \/ /\ pc[p] = "perform" /\ perform = 0
        /\ UNCHANGED <<perform, enter, reply, abandoned>>
     \/ /\ pc[p] = "perform" /\ perform > 0
        /\ perform' = perform - 1 /\ abandoned' = TRUE
        /\ UNCHANGED <<enter, reply>>
     \/ /\ pc[p] = "check" /\ p \in lost
        /\ abandoned' = TRUE
        /\ UNCHANGED <<perform, enter, reply>>
     \/ /\ pc[p] = "green" \/ pc[p] = "reply" \/ (pc[p] \in {"send", "take"} /\ p \in lost)
        /\ perform' = perform + 1 /\ abandoned' = TRUE
        /\ enter' = IF pc[p] = "green" /\ enter > 0 THEN enter - 1 ELSE enter
        /\ reply' = IF pc[p] = "reply" /\ reply > 0 THEN reply - 1 ELSE reply
  /\ using' = using \ {p} /\ lost' = lost \ {p}
  /\ Goto(p, "idle")
  /\ UNCHANGED <<clientVars, exit, callVars, s2cReply, crashed, asleep, performs>>

Target ==
  \/ Activate \/ ReplyToCall \/ S2CPerformEnter \/ S2CPerformExit \/ S2CPerformLost
  \/ ReceiveS2CReply

Perform(p) ==
  /\ p \notin lost
  /\ \/ DownPerform(p) \/ Check(p) \/ SendSignal(p) \/ DownEnter(p) \/ SendRequest(p)
     \/ DownReply(p) \/ TakeReply(p) \/ UpPerform(p) \/ UpExit(p)

Next ==
  \/ ClientCall \/ ClientTakesSignal \/ ClientReceives \/ Target
  \/ \E p \in Performers : Begin(p) \/ Perform(p) \/ Interrupt(p)

Spec == Init /\ [][Next]_vars

\* A client that waits receives, and takes a pending signal when it runs; the server's
\* threads keep running, and semaphores are granted in turn.
Fairness ==
  /\ WF_vars(ClientReceives) /\ SF_vars(ClientTakesSignal)
  /\ WF_vars(Target)
  /\ \A p \in Performers : WF_vars(Perform(p)) /\ SF_vars(DownPerform(p))

FairSpec == Spec /\ Fairness

-----------------------------------------------------------------------------
(* Properties *)

TypeOK ==
  /\ phase \in {"run", "call", "enter", "perform", "exit", "failed"}
  /\ signals \in Nat /\ requested \in BOOLEAN
  /\ active \in {None, "call", "enter", "perform", "exit"} /\ green \in BOOLEAN
  /\ perform \in Nat /\ enter \in Nat /\ exit \in Nat /\ reply \in Nat
  /\ s2cReply \in Performers \cup {None} /\ toServer \in Seq(Performers)
  /\ defer \in BOOLEAN /\ deferred \in {None, "call", "enter", "perform", "exit"}
  /\ pc \in [Performers -> {"idle", "perform", "check", "signal", "green", "send", "reply",
                            "take", "release", "exit"}]
  /\ using \subseteq Performers /\ lost \subseteq Performers /\ asleep \in BOOLEAN
  /\ crashed \in BOOLEAN /\ abandoned \in BOOLEAN

Sent(m) == {i \in DOMAIN toClient : toClient[i] = m}
Count(b) == IF b THEN 1 ELSE 0

\* The target is waiting for a message whenever an S2C request is on its way, and the reply
\* that would end the wait does not arrive before the request: what the deferral of replies
\* and the handshake through the signal handler are for.
ClientListens ==
  ~abandoned => \A p \in Performers : \A i \in Sent(Request(p)) :
    phase # "run" /\ \A j \in DOMAIN toClient : toClient[j][1] = "reply" => i < j

\* The client's call is in exactly one place until it is answered: on its way, active,
\* deferred, or answered by a message on its way.  No reply is overwritten in the one slot
\* for deferred replies and none is sent twice, whoever is interrupted.
CallInOnePlace ==
  phase # "failed" /\
  LET places(kind) == Count(requested /\ kind = phase) + Count(active = kind) + Count(deferred = kind)
                      + Cardinality(Sent(Reply(kind)))
  IN \A kind \in {"call", "enter", "perform", "exit"} : places(kind) = Count(kind = phase)

\* A performer takes the reply to its own request, and the branches that throw are dead, so
\* long as nobody has returned with a request outstanding.
OwnReply ==
  ~abandoned => ~crashed /\ \A p \in Performers : pc[p] = "take" => s2cReply = p

\* A performer waits for the green light of a client that cannot give it: the client is in
\* a call whose microthread waits for its turn to perform.
Embrace ==
  /\ Self \in Performers /\ pc[Self] = "perform"
  /\ \E p \in Performers : p # Self /\ pc[p] \in {"signal", "green"}

\* Somebody can take a step other than beginning a call of its own or being interrupted:
\* the guards of ClientTakesSignal, ClientReceives, Target and Perform.
CanMove ==
  \/ phase = "run" /\ signals > 0
  \/ phase \notin {"run", "failed"} /\ toClient # <<>>
  \/ requested /\ active = None
  \/ active \in {"call", "enter", "exit"} /\ (Self \in Performers => pc[Self] = "idle")
  \/ active = "perform" /\ (green => exit > 0 /\ ~asleep)
  \/ toServer # <<>>
  \/ \E p \in Performers \ lost :
       \/ pc[p] \in {"check", "signal", "send", "take", "release", "exit"}
       \/ pc[p] = "perform" /\ perform > 0
       \/ pc[p] = "green" /\ enter > 0
       \/ pc[p] = "reply" /\ reply > 0

\* A wake-up was lost between a wait's registration and its suspension.
WakeUpLost == lost # {} \/ asleep

\* Nobody waits in vain: so long as a call or an S2C call is under way, nobody has returned
\* with a request or the turn outstanding, no wake-up was lost and nobody embraces, somebody
\* can move.  The four semaphores, the deferred reply and the client's wait never form a
\* cycle of waits other than an embrace.
NeverStuck ==
  (phase # "run" \/ \E p \in Performers : pc[p] # "idle") =>
    CanMove \/ abandoned \/ WakeUpLost \/ Embrace

\* Every performer returns and the client gets on, with nobody interrupted with a request
\* or the turn outstanding and every wake-up in time, unless they embrace.
EveryoneReturns ==
  /\ \A p \in Performers :
       pc[p] # "idle" ~> (pc[p] = "idle" \/ abandoned \/ WakeUpLost \/ Embrace)
  /\ phase # "run" ~> (phase = "run" \/ abandoned \/ WakeUpLost \/ Embrace)

\* Nothing but the interruption of the performer that has the turn ends an embrace.
EmbraceLasts == [][Embrace => Embrace' \/ abandoned']_vars

\* The race between the signal and a call that the client is just making is harmless, as
\* the comment above _s2cPerform has it.
NoEmbrace == ~Embrace

=============================================================================
