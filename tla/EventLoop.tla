----------------------------- MODULE EventLoop -----------------------------
(***************************************************************************)
(* The main loop of the server (Server::start, src/server.cpp), the two    *)
(* message queues it serves (MessageQueue, src/message.cpp) and the        *)
(* descriptors it monitors (addMonitor, removeMonitor).                    *)
(*                                                                         *)
(* The loop is one thread.  Other threads push messages into the outbox    *)
(* and add and remove monitors; both end with a write to an eventfd, after *)
(* the lock is released.  The listening socket is edge triggered, the      *)
(* eventfd is armed for one event at a time and only while sending is      *)
(* possible.  One action is one section of a queue's or of the monitors'   *)
(* lock, or one system call; sendMany, which holds the outbox's lock       *)
(* throughout, is one action per message.                                  *)
(***************************************************************************)
EXTENDS Integers, Sequences

CONSTANTS Peers,       \* clients with a socket of their own
          Monitors,    \* monitors, each created at most once
          Addresses,   \* where the allocator may put one
          Room,        \* messages a peer's socket holds
          MaxPosts,    \* bound: messages pushed into the outbox
          MaxArrivals, \* bound: messages that clients send
          MaxRaises    \* bound: events on monitored descriptors

ASSUME EventLoopAssumption ==
  /\ Room \in Nat \ {0} /\ MaxPosts \in Nat /\ MaxArrivals \in Nat
  /\ MaxRaises \in Nat

VARIABLES
  pc,          \* where the loop is
  canRead,     \* _canRead
  canWrite,    \* _canWrite
  outbox,      \* _outbox._messages
  posted,      \* messages pushed so far
  wakeup,      \* the eventfd _wakeupFD is not zero
  writes,      \* pushes and removals that have yet to write to it
  armed,       \* epoll reports the eventfd
  edges,       \* edges of the listening socket that epoll has yet to report
  socket,      \* messages in the listening socket
  arrived,     \* messages that clients sent so far
  queued,      \* messages in each peer's socket
  delivered,   \* what was ever put there, in order
  dead,        \* peers that closed their socket
  where,       \* which of the server's lists a monitor is in
  address,     \* where each monitor was allocated
  raised,      \* monitors whose descriptor epoll reports
  raises,      \* events on monitored descriptors so far
  batch,       \* monitors epoll_wait has reported and the loop has yet to look up
  event,       \* the monitor whose event is being handled
  target       \* aliveMonitor

loopVars == <<pc, canRead, canWrite>>
wakeVars == <<wakeup, writes, armed>>
outVars == <<outbox, posted, queued, delivered, dead>>
inVars == <<socket, arrived>>
monVars == <<where, address, raised, raises>>
batchVars == <<batch, event, target>>
vars == <<loopVars, wakeVars, outVars, edges, inVars, monVars, batchVars>>

NoMonitor == "no monitor"
NoAddress == "no address"
In(m, list) == where[m] = list
MessageTo(p, n) == [to |-> p, number |-> n]

Init ==
  /\ pc = "receive" /\ canRead = FALSE /\ canWrite = TRUE
  /\ wakeup = FALSE /\ writes = 0 /\ armed = TRUE
  /\ outbox = <<>> /\ posted = 0 /\ dead = {}
  /\ queued = [p \in Peers |-> 0] /\ delivered = [p \in Peers |-> <<>>]
  /\ edges = {"out"}
  /\ socket = 0 /\ arrived = 0
  /\ where = [m \in Monitors |-> "none"] /\ address = [m \in Monitors |-> NoAddress]
  /\ raised = {} /\ raises = 0
  /\ batch = {} /\ event = NoMonitor /\ target = NoMonitor

-----------------------------------------------------------------------------
(* Clients, the kernel and other threads of the server *)

\* A client sends a message to the server.
ClientSends ==
  /\ arrived < MaxArrivals
  /\ arrived' = arrived + 1 /\ socket' = socket + 1
  /\ edges' = edges \cup {"in"}
  /\ UNCHANGED <<loopVars, wakeVars, outVars, monVars, batchVars>>

\* A peer takes a message out of its socket, which frees space the server may write to.
PeerReads(p) ==
  /\ queued[p] > 0
  /\ queued' = [queued EXCEPT ![p] = @ - 1]
  /\ edges' = edges \cup {"out"}
  /\ UNCHANGED <<loopVars, wakeVars, outbox, posted, delivered, dead, inVars, monVars, batchVars>>

\* A peer closes its socket; what it had not read is freed.
PeerDies(p) ==
  /\ p \notin dead
  /\ dead' = dead \cup {p}
  /\ queued' = [queued EXCEPT ![p] = 0]
  /\ edges' = IF queued[p] > 0 THEN edges \cup {"out"} ELSE edges
  /\ UNCHANGED <<loopVars, wakeVars, outbox, posted, delivered, inVars, monVars, batchVars>>

\* MessageQueue::push up to its unlock, by any thread, for a peer.
Push(p) ==
  /\ pc # "send" /\ posted < MaxPosts
  /\ posted' = posted + 1
  /\ outbox' = Append(outbox, MessageTo(p, posted + 1))
  /\ writes' = writes + 1
  /\ UNCHANGED <<loopVars, wakeup, armed, queued, delivered, dead, edges, inVars, monVars, batchVars>>

\* The write to the eventfd with which push and removeMonitor end.
WriteWakeup ==
  /\ writes > 0
  /\ writes' = writes - 1 /\ wakeup' = TRUE
  /\ UNCHANGED <<loopVars, armed, outVars, edges, inVars, monVars, batchVars>>

\* A monitor is allocated at a free address and given to addMonitor.
AddMonitor(m, a) ==
  /\ In(m, "none")
  /\ \A n \in Monitors : where[n] \in {"monitors", "dying"} => address[n] # a
  /\ where' = [where EXCEPT ![m] = "monitors"]
  /\ address' = [address EXCEPT ![m] = a]
  /\ UNCHANGED <<loopVars, wakeVars, outVars, edges, inVars, raised, raises, batchVars>>

\* A monitored descriptor has an event (they are all level triggered here: an edge
\* triggered one only differs in being reported once).
Raise(m) ==
  /\ In(m, "monitors") /\ m \notin raised /\ raises < MaxRaises
  /\ raised' = raised \cup {m} /\ raises' = raises + 1
  /\ UNCHANGED <<loopVars, wakeVars, outVars, edges, inVars, where, address, batchVars>>

\* Mutant: a removed monitor is destroyed at once.
RemoveAtOnce(m) ==
  /\ where' = [where EXCEPT ![m] = "freed"]
  /\ raised' = raised \ {m}
  /\ writes' = writes + 1

\* removeMonitor up to its unlock, for a monitor that is in _monitors: it is kept in
\* _monitorsWaitingToDie and its descriptor leaves the epoll context.
Remove(m) ==
  /\ where' = [where EXCEPT ![m] = "dying"]
  /\ raised' = raised \ {m}
  /\ writes' = writes + 1

\* Another thread removes a monitor.
RemoveMonitor(m) ==
  /\ In(m, "monitors")
  /\ Remove(m)
  /\ UNCHANGED <<loopVars, wakeup, armed, outVars, edges, inVars, address, raises, batchVars>>

-----------------------------------------------------------------------------
(* The loop *)

\* Mutant: the socket is not drained, one message is taken per iteration.
ReceiveOne ==
  /\ pc = "receive" /\ pc' = "drain"
  /\ socket' = IF canRead /\ socket > 0 THEN socket - 1 ELSE socket
  /\ canRead' = FALSE
  /\ UNCHANGED <<canWrite, wakeVars, outVars, edges, arrived, monVars, batchVars>>

\* receiveMany up to the read that fails with EAGAIN, and the calls made of the messages.
Receive ==
  /\ pc = "receive" /\ pc' = "drain"
  /\ socket' = IF canRead THEN 0 ELSE socket
  /\ canRead' = FALSE
  /\ UNCHANGED <<canWrite, wakeVars, outVars, edges, arrived, monVars, batchVars>>

\* eventfd_read, and the start of sendMany, which takes the lock of the outbox.
Drain ==
  /\ pc = "drain" /\ pc' = IF canWrite THEN "send" ELSE "arm"
  /\ wakeup' = FALSE
  /\ UNCHANGED <<canRead, canWrite, writes, armed, outVars, edges, inVars, monVars, batchVars>>

\* sendmmsg to this peer fails with EAGAIN.
Full(p) == p \notin dead /\ queued[p] = Room

\* Mutant: the message that could not be sent is lost.
SendBlockedLost ==
  /\ pc = "send" /\ outbox # <<>> /\ Full(Head(outbox).to)
  /\ outbox' = Tail(outbox)
  /\ canWrite' = FALSE /\ pc' = "arm"
  /\ UNCHANGED <<canRead, wakeVars, posted, queued, delivered, dead, edges, inVars, monVars, batchVars>>

\* The peer of the first message is full: the loop gives up sending.
SendBlocked ==
  /\ pc = "send" /\ outbox # <<>> /\ Full(Head(outbox).to)
  /\ canWrite' = FALSE /\ pc' = "arm"
  /\ UNCHANGED <<canRead, wakeVars, outVars, edges, inVars, monVars, batchVars>>

\* The first message is sent.
Send ==
  /\ pc = "send" /\ outbox # <<>>
  /\ LET msg == Head(outbox)
     IN /\ msg.to \notin dead /\ queued[msg.to] < Room
        /\ queued' = [queued EXCEPT ![msg.to] = @ + 1]
        /\ delivered' = [delivered EXCEPT ![msg.to] = Append(@, msg.number)]
  /\ outbox' = Tail(outbox)
  /\ UNCHANGED <<loopVars, wakeVars, posted, dead, edges, inVars, monVars, batchVars>>

\* The peer of the first message is dead (ECONNREFUSED): the message is dropped.
SendDropped ==
  /\ pc = "send" /\ outbox # <<>> /\ Head(outbox).to \in dead
  /\ outbox' = Tail(outbox)
  /\ UNCHANGED <<loopVars, wakeVars, posted, queued, delivered, dead, edges, inVars, monVars, batchVars>>

\* The outbox is empty: sendMany returns true and releases its lock.
SendDone ==
  /\ pc = "send" /\ outbox = <<>>
  /\ pc' = "arm"
  /\ UNCHANGED <<canRead, canWrite, wakeVars, outVars, edges, inVars, monVars, batchVars>>

\* Mutant: the eventfd is read after sending.
ArmAndDrain ==
  /\ pc = "arm" /\ pc' = "wait"
  /\ armed' = canWrite /\ wakeup' = FALSE
  /\ UNCHANGED <<canRead, canWrite, writes, outVars, edges, inVars, monVars, batchVars>>

\* Mutant: the eventfd, once reported, is not armed again.
ArmNotAgain ==
  /\ pc = "arm" /\ pc' = "wait"
  /\ UNCHANGED <<canRead, canWrite, wakeVars, outVars, edges, inVars, monVars, batchVars>>

\* The eventfd is armed for one event if sending is possible, else disarmed.
Arm ==
  /\ pc = "arm" /\ pc' = "wait"
  /\ armed' = canWrite
  /\ UNCHANGED <<canRead, canWrite, wakeup, writes, outVars, edges, inVars, monVars, batchVars>>

\* What epoll reports of the listening socket once an edge is pending: it polls the
\* socket again, so a stale edge is not reported and room to write may come along.
Reports ==
  IF edges = {} THEN {{}}
  ELSE LET read == IF socket > 0 THEN {"in"} ELSE {}
       IN {read \cup {"out"}} \cup (IF "out" \in edges THEN {} ELSE {read})

\* epoll_wait has something to return, the listening socket's events being r.
Ready(r) == r # {} \/ (armed /\ wakeup) \/ raised # {}

\* epoll_wait returns, with all that is ready; the events of the listening socket and
\* of the eventfd are handled here, those of monitors one at a time.
Wait ==
  /\ pc = "wait" /\ pc' = "dispatch"
  /\ \E r \in Reports :
       /\ Ready(r)
       /\ canRead' = ("in" \in r)
       /\ canWrite' = (canWrite \/ "out" \in r)
  /\ edges' = {}
  /\ armed' = (armed /\ ~wakeup)
  /\ batch' = raised
  /\ UNCHANGED <<wakeup, writes, outVars, inVars, monVars, event, target>>

\* A signal interrupts a wait that has nothing to return: back to the top, past the end
\* of the iteration.
Interrupted ==
  /\ pc = "wait" /\ pc' = "receive"
  /\ \E r \in Reports : ~Ready(r)
  /\ UNCHANGED <<canRead, canWrite, wakeVars, outVars, edges, inVars, monVars, batchVars>>

\* The event of monitor m: its address is looked up in _monitors under the lock.
Lookup(m) ==
  /\ pc = "dispatch" /\ m \in batch
  /\ batch' = batch \ {m}
  /\ \/ \E alive \in Monitors :
          /\ In(alive, "monitors") /\ address[alive] = address[m]
          /\ target' = alive /\ event' = m /\ pc' = "callback"
     \/ /\ \A n \in Monitors : In(n, "monitors") => address[n] # address[m]
        /\ UNCHANGED <<pc, event, target>>
  /\ UNCHANGED <<canRead, canWrite, wakeVars, outVars, edges, inVars, monVars>>

\* The callback reads what the descriptor has.
CallbackHandles ==
  /\ pc = "callback" /\ pc' = "dispatch"
  /\ raised' = raised \ {target}
  /\ event' = NoMonitor /\ target' = NoMonitor
  /\ UNCHANGED <<canRead, canWrite, wakeVars, outVars, edges, inVars, where, address, raises, batch>>

\* The callback removes its own monitor, which another thread may have done before.
CallbackRemoves ==
  /\ pc = "callback" /\ pc' = "dispatch"
  /\ IF In(target, "monitors") THEN Remove(target) ELSE UNCHANGED <<where, raised, writes>>
  /\ event' = NoMonitor /\ target' = NoMonitor
  /\ UNCHANGED <<canRead, canWrite, wakeup, armed, outVars, edges, inVars, address, raises, batch>>

\* The end of an iteration: _monitorsWaitingToDie is cleared.
Reap ==
  /\ pc = "dispatch" /\ batch = {} /\ pc' = "receive"
  /\ where' = [m \in Monitors |-> IF In(m, "dying") THEN "freed" ELSE where[m]]
  /\ UNCHANGED <<canRead, canWrite, wakeVars, outVars, edges, inVars, address, raised, raises, batchVars>>

Loop ==
  \/ Receive \/ Drain \/ SendBlocked \/ Send \/ SendDropped \/ SendDone \/ Arm
  \/ Wait \/ CallbackHandles \/ CallbackRemoves \/ Reap
  \/ \E m \in Monitors : Lookup(m)

Next ==
  \/ Loop \/ Interrupted \/ ClientSends \/ WriteWakeup
  \/ \E p \in Peers : PeerReads(p) \/ PeerDies(p) \/ Push(p)
  \/ \E m \in Monitors : Raise(m) \/ RemoveMonitor(m) \/ \E a \in Addresses : AddMonitor(m, a)

Spec == Init /\ [][Next]_vars

\* The loop and the threads that have a write to do keep running, and a peer that lives
\* reads what it is sent: a client that does not blocks the outbox for everyone.
Fairness ==
  /\ WF_vars(Loop) /\ WF_vars(WriteWakeup)
  /\ \A p \in Peers : WF_vars(PeerReads(p))

FairSpec == Spec /\ Fairness

-----------------------------------------------------------------------------
(* Properties *)

TypeOK ==
  /\ pc \in {"receive", "drain", "send", "arm", "wait", "dispatch", "callback"}
  /\ canRead \in BOOLEAN /\ canWrite \in BOOLEAN
  /\ wakeup \in BOOLEAN /\ armed \in BOOLEAN /\ writes \in Nat
  /\ posted \in 0 .. MaxPosts
  /\ outbox \in Seq([to : Peers, number : 1 .. MaxPosts])
  /\ queued \in [Peers -> 0 .. Room]
  /\ delivered \in [Peers -> Seq(1 .. MaxPosts)]
  /\ dead \subseteq Peers
  /\ edges \subseteq {"in", "out"}
  /\ socket \in Nat /\ arrived \in Nat
  /\ where \in [Monitors -> {"none", "monitors", "dying", "freed"}]
  /\ address \in [Monitors -> Addresses \cup {NoAddress}]
  /\ raised \subseteq Monitors /\ raises \in Nat
  /\ batch \subseteq Monitors
  /\ event \in Monitors \cup {NoMonitor} /\ target \in Monitors \cup {NoMonitor}

\* The loop never sleeps on work: while it is in epoll_wait, a message in the outbox has a
\* write to the armed eventfd made or promised, or is behind a peer that is full, or an
\* edge for writing is pending; a message in the listening socket has its edge pending.
\* The eventfd is read before the outbox, and the edges are the only notice of the socket.
NothingStranded ==
  pc = "wait" =>
    /\ outbox # <<>> =>
         \/ canWrite /\ armed /\ (wakeup \/ writes > 0)
         \/ ~canWrite /\ (Full(Head(outbox).to) \/ "out" \in edges)
    /\ socket > 0 => "in" \in edges

\* The callback that runs belongs to the monitor whose event was reported, whatever is
\* removed, destroyed and allocated anew while the batch is worked through: what the
\* comment above _monitorsWaitingToDie.clear() claims.
RightMonitor == pc = "callback" => target = event

\* The messages for p in the outbox, by number.
Pending(p) == {outbox[i].number : i \in {k \in DOMAIN outbox : outbox[k].to = p}}

\* Between them, push, the loop and sendMany implement Mailbox.
Posts == INSTANCE Mailbox WITH mail <- [p \in Peers |-> Pending(p)]
MailboxSpec == Posts!Spec

\* Every message pushed leaves the outbox, delivered or dropped with its dead peer: no
\* push is lost between the unlock and the eventfd, however the loop's steps fall.
EveryMessageLeaves ==
  \A n \in 1 .. MaxPosts :
    (\E i \in DOMAIN outbox : outbox[i].number = n) ~> (\A i \in DOMAIN outbox : outbox[i].number # n)

\* Every message of a client is received, and every event of a monitored descriptor is
\* handled or its monitor removed.
EveryEventHandled ==
  /\ (socket > 0) ~> (socket = 0)
  /\ \A m \in Monitors : (m \in raised) ~> (m \notin raised)

=============================================================================
