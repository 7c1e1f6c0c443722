------------------------------- MODULE Kqchan -------------------------------
(***************************************************************************)
(* The notification protocol of kqchannels (src/kqchan.cpp): the socket    *)
(* over which the server tells a client's kqueue that a Mach port has      *)
(* messages or a process has events, and over which the client reads them. *)
(*                                                                         *)
(* One action is one section of _notificationMutex or of the lock of the   *)
(* events, or a push to the outbox, which has a lock of its own.  Events   *)
(* arrive from any thread, checks run in kernel microthreads, and a read   *)
(* runs in a kernel microthread ("machport") or on the main loop           *)
(* ("process").                                                            *)
(***************************************************************************)
EXTENDS Integers, Sequences, FiniteSets

CONSTANTS MaxEvents,    \* bound: events that arrive
          MaxModifies,  \* bound: modifications the client asks for
          SocketRoom    \* bound: messages the socket takes before EAGAIN

ASSUME KqchanAssumption == MaxEvents \in Nat /\ MaxModifies \in Nat /\ SocketRoom \in Nat \ {0}

VARIABLES
  kind,                  \* what is listened to: "machport", "portset" or "process"
  phase,                 \* how far setup() has come
  events,                \* the messages of the port or the set, or _events
  vanished,              \* whether the port is gone, and the client has been told so
  waiter, readSemaphore, \* the waiter thread of a port set and its waiter_read_semaphore
  flags,                 \* the kinds of events the client wants: _flags
  canSendNotification, deferNotification,
  deferredNotification,  \* _deferredNotification holds a message
  notifiers,             \* threads that have yet to push the notification they decided on
  reader, answer,        \* the read in progress and the code of its reply
  modifier,              \* whether a modification is in progress
  checks,                \* _checkForEventsAsync microthreads scheduled
  outbox, socket, inbox, \* _outbox, and the two directions of the socket pair
  client, notified,      \* what the client waits for, and whether it has a notification
  arrived, modified

eventVars == <<events, arrived, vanished, waiter, readSemaphore>>
noteVars == <<canSendNotification, deferNotification, deferredNotification, notifiers>>
clientVars == <<inbox, client, notified, modified>>
vars == <<kind, phase, eventVars, flags, noteVars, reader, answer, modifier, checks, outbox,
          socket, clientVars>>

Kinds == {"machport", "portset", "process"}
EventKinds == {"exec", "exit"}

Init ==
  /\ kind \in Kinds
  /\ phase = "new"
  /\ events = <<>> /\ arrived = 0 /\ flags = EventKinds
  /\ vanished = "no" /\ waiter = "waiting" /\ readSemaphore = 0
  /\ canSendNotification = TRUE /\ deferNotification = FALSE
  /\ deferredNotification = FALSE /\ notifiers = 0
  /\ reader = "idle" /\ answer = "dead" /\ modifier = FALSE
  /\ checks = 0
  /\ outbox = <<>> /\ socket = <<>> /\ inbox = <<>>
  /\ client = "idle" /\ notified = FALSE /\ modified = 0

-----------------------------------------------------------------------------
(* Notifications *)

\* Mutant: an unacknowledged notification does not keep a second one back.
SendNotificationAlways ==
  /\ canSendNotification' = FALSE
  /\ deferredNotification' = (deferredNotification \/ deferNotification)
  /\ notifiers' = IF ~deferNotification THEN notifiers + 1 ELSE notifiers
  /\ UNCHANGED deferNotification

\* _sendNotification, up to the push that follows its section.
SendNotification ==
  /\ canSendNotification' = FALSE
  /\ deferredNotification' =
       (deferredNotification \/ (canSendNotification /\ deferNotification))
  /\ notifiers' = IF canSendNotification /\ ~deferNotification THEN notifiers + 1 ELSE notifiers
  /\ UNCHANGED deferNotification

PushNotification ==
  /\ notifiers > 0
  /\ notifiers' = notifiers - 1
  /\ outbox' = Append(outbox, "notification")
  /\ UNCHANGED <<kind, phase, eventVars, flags, canSendNotification, deferNotification,
                 deferredNotification, reader, answer, modifier, checks, socket, clientVars>>

\* sendMany moves a message to the socket, for a push or when epoll reports that the
\* socket is writable again; a reply's callback schedules a check for events.
SendMany ==
  /\ phase # "new"
  /\ outbox # <<>> /\ Len(socket) < SocketRoom
  /\ socket' = Append(socket, Head(outbox))
  /\ outbox' = Tail(outbox)
  /\ checks' = IF Head(outbox) = "notification" THEN checks ELSE checks + 1
  /\ UNCHANGED <<kind, phase, eventVars, flags, noteVars, reader, answer, modifier, clientVars>>

\* The microthread of _checkForEventsAsync.
CheckForEvents ==
  /\ checks > 0
  /\ checks' = checks - 1
  /\ IF events # <<>> THEN SendNotification ELSE UNCHANGED noteVars
  /\ UNCHANGED <<kind, phase, eventVars, flags, reader, answer, modifier, outbox, socket,
                 clientVars>>

-----------------------------------------------------------------------------
(* setup *)

\* Kqchan::setup: the socket, the outbox's callback and the monitor.
SetupSocket ==
  /\ phase = "new"
  /\ phase' = "open"
  /\ UNCHANGED <<kind, eventVars, flags, noteVars, reader, answer, modifier, checks, outbox,
                 socket, clientVars>>

\* Mutant: events that came before the socket are not looked at.
SetupUnchecked ==
  /\ phase = "open"
  /\ phase' = "ready"
  /\ UNCHANGED <<kind, eventVars, flags, noteVars, reader, answer, modifier, checks, outbox,
                 socket, clientVars>>

\* The end of MachPort::setup and Process::setup: notify of what is there already.
SetupCheck ==
  /\ phase = "open"
  /\ phase' = "ready"
  /\ IF events # <<>> THEN SendNotification ELSE UNCHANGED noteVars
  /\ UNCHANGED <<kind, eventVars, flags, reader, answer, modifier, checks, outbox, socket,
                 clientVars>>

-----------------------------------------------------------------------------
(* Events *)

\* Whether an event is announced where it arrives: the first message of a port posts the
\* knote, and Process::_notify sends a notification if there is a socket.
Announced ==
  CASE kind = "machport" -> events = <<>>
    [] kind = "process" -> phase # "new"
    [] kind = "portset" -> FALSE

\* A message is queued on the port or in the set, or Process::_notify is called.
Notify(e) ==
  /\ arrived < MaxEvents /\ vanished = "no"
  /\ arrived' = arrived + 1
  /\ events' = Append(events, e)
  /\ waiter' = IF kind = "portset" /\ waiter = "waiting" THEN "woken" ELSE waiter
  /\ IF Announced THEN SendNotification ELSE UNCHANGED noteVars
  /\ UNCHANGED <<kind, phase, vanished, readSemaphore, flags, reader, answer, modifier, checks,
                 outbox, socket, clientVars>>

\* knote_vanish: the port dies and its messages with it.
Vanish ==
  /\ kind # "process" /\ vanished = "no"
  /\ vanished' = "yes"
  /\ events' = <<>>
  /\ SendNotification
  /\ UNCHANGED <<kind, phase, arrived, waiter, readSemaphore, flags, reader, answer, modifier,
                 checks, outbox, socket, clientVars>>

\* A thread of the client receives the message itself, with mach_msg.
ReceivedElsewhere ==
  /\ kind # "process"
  /\ events # <<>>
  /\ events' = Tail(events)
  /\ UNCHANGED <<kind, phase, arrived, vanished, waiter, readSemaphore, flags, noteVars, reader,
                 answer, modifier, checks, outbox, socket, clientVars>>

\* The waiter of a port set has been woken: it notifies if there still is a message, and
\* in either case then waits for a read.
WaiterPeek ==
  /\ waiter = "woken"
  /\ waiter' = "reading"
  /\ IF events # <<>> THEN SendNotification ELSE UNCHANGED noteVars
  /\ UNCHANGED <<kind, phase, events, arrived, vanished, readSemaphore, flags, reader, answer,
                 modifier, checks, outbox, socket, clientVars>>

\* A read lets the waiter wait on the set again, or go on at once if it has messages.
WaiterResume ==
  /\ waiter = "reading" /\ readSemaphore > 0
  /\ readSemaphore' = readSemaphore - 1
  /\ waiter' = IF events # <<>> THEN "woken" ELSE "waiting"
  /\ UNCHANGED <<kind, phase, events, arrived, vanished, flags, noteVars, reader, answer,
                 modifier, checks, outbox, socket, clientVars>>

-----------------------------------------------------------------------------
(* Requests *)

\* Mutant: notifications are not deferred until the reply has been sent.
ReadUndeferred ==
  /\ inbox # <<>> /\ Head(inbox) = "read" /\ reader = "idle"
  /\ inbox' = Tail(inbox)
  /\ canSendNotification' = TRUE
  /\ reader' = "fill"
  /\ UNCHANGED <<kind, phase, eventVars, flags, deferNotification, deferredNotification,
                 notifiers, answer, modifier, checks, outbox, socket, client, notified, modified>>

\* _read: the request acknowledges the notification and defers the next one.
Read ==
  /\ inbox # <<>> /\ Head(inbox) = "read" /\ reader = "idle"
  /\ inbox' = Tail(inbox)
  /\ canSendNotification' = TRUE
  /\ deferNotification' = TRUE
  /\ reader' = "fill"
  /\ UNCHANGED <<kind, phase, eventVars, flags, deferredNotification, notifiers, answer,
                 modifier, checks, outbox, socket, client, notified, modified>>

\* How many events at the front a process kqchan drops as uninteresting.
Dropped ==
  IF kind # "process" THEN 0
  ELSE Cardinality({k \in DOMAIN events : \A j \in 1 .. k : events[j] \notin flags})

\* dtape_kqchan_mach_port_fill, or the loop of Process::_read.
ReadFill ==
  /\ reader = "fill"
  /\ reader' = "reply"
  /\ IF vanished # "no"
     THEN /\ vanished' = "told"
          /\ answer' = "event"
          /\ UNCHANGED <<events, readSemaphore>>
     ELSE LET rest == SubSeq(events, Dropped + 1, Len(events)) IN
          /\ events' = IF rest = <<>> THEN <<>> ELSE Tail(rest)
          /\ answer' = IF rest = <<>> THEN "dead" ELSE "event"
          /\ readSemaphore' = IF kind = "portset" THEN readSemaphore + 1 ELSE readSemaphore
          /\ UNCHANGED vanished
  /\ UNCHANGED <<kind, phase, arrived, waiter, flags, noteVars, modifier, checks, outbox, socket,
                 clientVars>>

\* The reply is pushed to the outbox.
ReadReply ==
  /\ reader = "reply"
  /\ outbox' = Append(outbox, answer)
  /\ reader' = "deferred"
  /\ UNCHANGED <<kind, phase, eventVars, flags, noteVars, answer, modifier, checks, socket,
                 clientVars>>

\* Mutant: the deferred notification is dropped.
DeferredDropped ==
  /\ reader = "deferred"
  /\ deferNotification' = FALSE
  /\ deferredNotification' = FALSE
  /\ reader' = "idle"
  /\ UNCHANGED <<kind, phase, eventVars, flags, canSendNotification, notifiers, answer, modifier,
                 checks, outbox, socket, clientVars>>

\* _sendDeferredNotification, up to the push that follows its section.
SendDeferredNotification ==
  /\ reader = "deferred"
  /\ deferNotification' = FALSE
  /\ deferredNotification' = FALSE
  /\ notifiers' = IF deferredNotification THEN notifiers + 1 ELSE notifiers
  /\ reader' = "idle"
  /\ UNCHANGED <<kind, phase, eventVars, flags, canSendNotification, answer, modifier, checks,
                 outbox, socket, clientVars>>

\* _modify takes the request, and in its microthread or on the main loop replies.
Modify ==
  /\ inbox # <<>> /\ Head(inbox) = "modify"
  /\ inbox' = Tail(inbox)
  /\ flags' \in IF kind = "process" THEN SUBSET EventKinds ELSE {flags}
  /\ modifier' = TRUE
  /\ UNCHANGED <<kind, phase, eventVars, noteVars, reader, answer, checks, outbox, socket,
                 client, notified, modified>>

ModifyReply ==
  /\ modifier
  /\ modifier' = FALSE
  /\ outbox' = Append(outbox, "modified")
  /\ UNCHANGED <<kind, phase, eventVars, flags, noteVars, reader, answer, checks, socket,
                 clientVars>>

-----------------------------------------------------------------------------
(* The client's end, in libkqueue *)

ClientRead ==
  /\ client = "idle" /\ notified
  /\ client' = "read"
  /\ notified' = FALSE
  /\ inbox' = Append(inbox, "read")
  /\ UNCHANGED <<kind, phase, eventVars, flags, noteVars, reader, answer, modifier, checks,
                 outbox, socket, modified>>

ClientModify ==
  /\ phase = "ready"
  /\ client = "idle" /\ modified < MaxModifies
  /\ client' = "modify"
  /\ modified' = modified + 1
  /\ inbox' = Append(inbox, "modify")
  /\ UNCHANGED <<kind, phase, eventVars, flags, noteVars, reader, answer, modifier, checks,
                 outbox, socket, notified>>

Expected ==
  CASE client = "read" -> {"event", "dead"} [] client = "modify" -> {"modified"} [] OTHER -> {}

\* A notification during a read, or a reply out of turn, makes the client abort.
ClientReceive ==
  /\ phase = "ready" /\ client # "aborted"
  /\ socket # <<>>
  /\ socket' = Tail(socket)
  /\ IF Head(socket) = "notification"
     THEN /\ notified' = TRUE
          /\ client' = IF client = "read" THEN "aborted" ELSE client
     ELSE /\ client' = IF Head(socket) \in Expected THEN "idle" ELSE "aborted"
          /\ UNCHANGED notified
  /\ UNCHANGED <<kind, phase, eventVars, flags, noteVars, reader, answer, modifier, checks,
                 outbox, inbox, modified>>

\* Nothing is left to do; more events may still come.
Quiet ==
  /\ phase = "ready" /\ client = "idle" /\ ~notified
  /\ socket = <<>>
  /\ UNCHANGED vars

Next ==
  \/ PushNotification \/ SendMany \/ CheckForEvents \/ SetupSocket \/ SetupCheck
  \/ Read \/ ReadFill \/ ReadReply \/ SendDeferredNotification \/ Modify \/ ModifyReply
  \/ \E e \in EventKinds : Notify(e)
  \/ Vanish \/ ReceivedElsewhere \/ WaiterPeek \/ WaiterResume
  \/ ClientRead \/ ClientModify \/ ClientReceive
  \/ Quiet

\* The OS runs the main loop, the workers and the client, which reads when it has been
\* notified; events and modifications need not come.
Fairness ==
  /\ WF_vars(PushNotification) /\ WF_vars(SendMany) /\ WF_vars(CheckForEvents)
  /\ WF_vars(SetupSocket) /\ WF_vars(SetupCheck)
  /\ WF_vars(Read) /\ WF_vars(ReadFill) /\ WF_vars(ReadReply) /\ WF_vars(SendDeferredNotification)
  /\ WF_vars(Modify) /\ WF_vars(ModifyReply)
  /\ WF_vars(WaiterPeek) /\ WF_vars(WaiterResume)
  /\ WF_vars(ClientRead) /\ WF_vars(ClientReceive)

Spec == Init /\ [][Next]_vars
FairSpec == Spec /\ Fairness

-----------------------------------------------------------------------------
(* Properties *)

\* The variables keep the types of kqchan.hpp's fields.
TypeOK ==
  /\ kind \in Kinds /\ phase \in {"new", "open", "ready"}
  /\ vanished \in {"no", "yes", "told"} /\ waiter \in {"waiting", "woken", "reading"}
  /\ readSemaphore \in Nat
  /\ events \in Seq(EventKinds) /\ arrived \in Nat /\ flags \subseteq EventKinds
  /\ canSendNotification \in BOOLEAN /\ deferNotification \in BOOLEAN
  /\ deferredNotification \in BOOLEAN /\ notifiers \in Nat
  /\ reader \in {"idle", "fill", "reply", "deferred"} /\ answer \in {"dead", "event"}
  /\ modifier \in BOOLEAN /\ checks \in Nat
  /\ outbox \in Seq({"notification", "event", "dead", "modified"})
  /\ socket \in Seq({"notification", "event", "dead", "modified"})
  /\ inbox \in Seq({"read", "modify"})
  /\ client \in {"idle", "read", "modify", "aborted"} /\ notified \in BOOLEAN
  /\ modified \in Nat

Count(b) == IF b THEN 1 ELSE 0
CountIn(s, m) == Cardinality({k \in DOMAIN s : s[k] = m})

\* The notifications between _sendNotification and the client's next read request.
InFlight ==
  notifiers + Count(deferredNotification) + CountIn(outbox, "notification")
    + CountIn(socket, "notification") + Count(notified) + CountIn(inbox, "read")

\* "let's not send another and needlessly clog up the socket": at most one notification
\* is unacknowledged, and _canSendNotification is false exactly while one is.
OneUnacknowledged == InFlight = Count(~canSendNotification)

\* "channel messages are kept in-order": the client never gets a notification while it
\* waits for a read reply, which would make it abort, nor a reply out of turn.
KeptInOrder == client # "aborted"

\* Some step to come sees the events there are: a notification is on its way, or a read
\* or a check has yet to look.
Covered ==
  \/ ~canSendNotification
  \/ reader = "fill" \/ reader = "reply"
  \/ \E k \in DOMAIN outbox : outbox[k] # "notification"
  \/ checks > 0

\* "and we don't miss any notifications": while a port or a process has events, or the
\* end of the port has not been told, some step to come sees it.
NoMissedNotification ==
  (phase = "ready" /\ kind # "portset" /\ (events # <<>> \/ vanished = "yes")) => Covered

\* Every event of a port or process is read by the client, received elsewhere, or dropped
\* as unwanted, and the end of a port or a set is told.
EventsDelivered ==
  ((events # <<>> /\ kind # "portset") \/ vanished = "yes")
    ~> (events = <<>> /\ vanished # "yes")
=============================================================================
