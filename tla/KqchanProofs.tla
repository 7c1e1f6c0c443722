---------------------------- MODULE KqchanProofs ----------------------------
(***************************************************************************)
(* Proofs about the notification protocol of kqchannels, for any numbers   *)
(* of events and modifications and any socket.  The counts come first:     *)
(* where the one notification is and where the one reply is.  The order of *)
(* messages rests on them, and on what the deferral keeps out of the       *)
(* channel while a read is answered.                                       *)
(***************************************************************************)
EXTENDS Kqchan, FiniteSetTheorems, SequenceTheorems, TLAPS

Messages == {"notification", "event", "dead", "modified"}
ReadReplies == {"event", "dead"}

-----------------------------------------------------------------------------
(* The inductive invariant *)

\* What a queue holds: notifications, replies to reads, replies to modifications, and the
\* two kinds of requests.
Notes(s) == CountIn(s, "notification")
Replies(s) == CountIn(s, "event") + CountIn(s, "dead")
Answers(s) == CountIn(s, "modified")
Reads(s) == CountIn(s, "read")
Modifies(s) == CountIn(s, "modify")

\* The places of the notification, of the read and of the modification outside the queues.
Deferred == Count(deferredNotification)
Held == Count(notified)
Filling == Count(reader \in {"fill", "reply"})
Modifying == Count(modifier)
Reading == Count(client = "read")
Waiting == Count(client = "modify")

\* While the client waits for a reply, its request or the reply is in one place.
OneReply ==
  /\ Reading = Reads(inbox) + Filling + Replies(outbox) + Replies(socket)
  /\ Waiting = Modifies(inbox) + Modifying + Answers(outbox) + Answers(socket)

\* Notifications are deferred during a read, and then there is no other than the deferred.
Deferral ==
  /\ deferNotification <=> reader # "idle"
  /\ deferredNotification => deferNotification
  /\ deferNotification => InFlight = Deferred

\* In the channel, which is the outbox behind the socket, no notification is ahead of the
\* reply to a read.
Ahead(s) == \A i, j \in DOMAIN s : s[i] = "notification" /\ s[j] \in ReadReplies => j < i
ReplyAhead ==
  /\ Ahead(outbox) /\ Ahead(socket)
  /\ \A i \in DOMAIN socket, j \in DOMAIN outbox : ~(socket[i] = "notification" /\ outbox[j] \in ReadReplies)

\* The end of a port has been announced, and the read that will tell of it is still to come.
EndAnnounced == vanished = "yes" => kind # "process" /\ (~canSendNotification \/ reader = "fill")

ChannelInv ==
  /\ TypeOK /\ OneUnacknowledged /\ OneReply /\ Deferral /\ ReplyAhead /\ KeptInOrder
IndInv == ChannelInv /\ EndAnnounced /\ NoMissedNotification

-----------------------------------------------------------------------------
(* Counting messages *)

\* The places of m in s are finitely many, and none exactly when m is not in s.
LEMMA CountType ==
  ASSUME NEW S, NEW s \in Seq(S), NEW m
  PROVE  /\ IsFiniteSet({k \in DOMAIN s : s[k] = m})
         /\ CountIn(s, m) \in Nat
         /\ CountIn(s, m) = 0 <=> \A k \in DOMAIN s : s[k] # m
<1>1. DOMAIN s = 1 .. Len(s) /\ Len(s) \in Nat
  OBVIOUS
<1>2. IsFiniteSet({k \in DOMAIN s : s[k] = m})
  <2>1. IsFiniteSet(1 .. Len(s))
    BY <1>1, FS_Interval
  <2>2. {k \in DOMAIN s : s[k] = m} \in SUBSET (1 .. Len(s))
    BY <1>1
  <2> QED BY <2>1, <2>2, FS_Subset
<1> QED
  BY <1>2, FS_CardinalityType, FS_EmptySet, Zenon DEF CountIn

\* A message put behind the others.
LEMMA CountAppend ==
  ASSUME NEW S, NEW s \in Seq(S), NEW x \in S, NEW m
  PROVE  CountIn(Append(s, x), m) = CountIn(s, m) + Count(x = m)
<1> DEFINE A == {k \in DOMAIN s : s[k] = m}
           B == {k \in DOMAIN Append(s, x) : Append(s, x)[k] = m}
<1>1. /\ DOMAIN s = 1 .. Len(s) /\ Len(s) \in Nat /\ DOMAIN Append(s, x) = 1 .. (Len(s) + 1)
      /\ Append(s, x)[Len(s) + 1] = x /\ \A k \in DOMAIN s : Append(s, x)[k] = s[k]
  OBVIOUS
<1>2. IsFiniteSet(A) /\ Cardinality(A) \in Nat
  BY CountType, FS_CardinalityType, Zenon
<1>0. CountIn(s, m) = Cardinality(A) /\ CountIn(Append(s, x), m) = Cardinality(B)
  BY DEF CountIn
<1>3. CASE x = m
  <2>1. B = A \cup {Len(s) + 1} /\ Len(s) + 1 \notin A
    BY <1>1, <1>3
  <2>2. Cardinality(B) = Cardinality(A) + 1
    BY <1>2, <2>1, FS_AddElement, Zenon
  <2> HIDE DEF A, B
  <2> QED BY <1>0, <1>3, <2>2 DEF Count
<1>4. CASE x # m
  <2>1. B = A
    BY <1>1, <1>4
  <2> HIDE DEF A, B
  <2> QED BY <1>0, <1>2, <1>4, <2>1 DEF Count
<1> QED BY <1>3, <1>4

\* The first message is taken.
LEMMA CountTail ==
  ASSUME NEW S, NEW s \in Seq(S), s # <<>>, NEW m
  PROVE  CountIn(Tail(s), m) = CountIn(s, m) - Count(Head(s) = m)
<1> DEFINE A == {k \in DOMAIN s : s[k] = m}
           B == {k \in DOMAIN Tail(s) : Tail(s)[k] = m}
           f == [k \in B |-> k + 1]
<1>1. /\ DOMAIN s = 1 .. Len(s) /\ Len(s) \in Nat \ {0} /\ DOMAIN Tail(s) = 1 .. (Len(s) - 1)
      /\ Head(s) = s[1] /\ \A k \in DOMAIN Tail(s) : Tail(s)[k] = s[k + 1]
      /\ Tail(s) \in Seq(S)
  BY HeadTailProperties, EmptySeq, LenProperties
<1>2. IsFiniteSet(A) /\ IsFiniteSet(B) /\ Cardinality(A) \in Nat
  <2>1. IsFiniteSet(A)
    BY CountType, Zenon
  <2>2. IsFiniteSet(B)
    <3>1. \A t \in Seq(S) : IsFiniteSet({k \in DOMAIN t : t[k] = m})
      BY CountType, Zenon
    <3> QED BY <1>1, <3>1, Zenon
  <2> HIDE DEF A, B
  <2> QED BY <2>1, <2>2, FS_CardinalityType
<1>3. f \in Bijection(B, A \ {1})
  <2>1. \A k \in B : k \in Int /\ k + 1 \in A \ {1}
    BY <1>1
  <2>2. f \in [B -> A \ {1}]
    BY <2>1
  <2>3. \A a, b \in B : f[a] = f[b] => a = b
    BY <2>1
  <2>4. \A t \in A \ {1} : \E k \in B : f[k] = t
    <3>1. SUFFICES ASSUME NEW t \in A \ {1} PROVE \E k \in B : f[k] = t
      OBVIOUS
    <3>2. t \in 2 .. Len(s) /\ s[t] = m
      BY <1>1
    <3>3. t - 1 \in DOMAIN Tail(s) /\ (t - 1) + 1 = t
      BY <1>1, <3>2
    <3>4. t - 1 \in B
      BY <1>1, <3>2, <3>3
    <3> QED BY <3>3, <3>4
  <2> HIDE DEF A, B, f
  <2> QED BY <2>2, <2>3, <2>4 DEF Bijection, Injection, IsInjective, Surjection
<1>4. Cardinality(A \ {1}) = Cardinality(B)
  <2> HIDE DEF A, B, f
  <2> QED BY <1>2, <1>3, FS_Bijection DEF ExistsBijection
<1>5. Cardinality(A \ {1}) = IF 1 \in A THEN Cardinality(A) - 1 ELSE Cardinality(A)
  BY <1>2, FS_RemoveElement, Zenon
<1>6. 1 \in A <=> Head(s) = m
  BY <1>1
<1>7. CountIn(s, m) = Cardinality(A) /\ CountIn(Tail(s), m) = Cardinality(B)
  BY DEF CountIn
<1> HIDE DEF A, B, f
<1> QED BY <1>2, <1>4, <1>5, <1>6, <1>7 DEF Count

-----------------------------------------------------------------------------
(* Types *)

\* What is left of a sequence of events when the front is dropped.
LEMMA RestType ==
  ASSUME TypeOK
  PROVE  SubSeq(events, Dropped + 1, Len(events)) \in Seq(EventKinds)
<1> DEFINE D == {k \in DOMAIN events : \A j \in 1 .. k : events[j] \notin flags}
<1>1. events \in Seq(EventKinds) /\ DOMAIN events = 1 .. Len(events) /\ Len(events) \in Nat
  BY DEF TypeOK
<1>2. IsFiniteSet(D)
  <2>1. IsFiniteSet(1 .. Len(events)) /\ D \in SUBSET (1 .. Len(events))
    BY <1>1, FS_Interval
  <2> QED BY <2>1, FS_Subset
<1>3. Dropped \in Nat
  <2>1. Cardinality(D) \in Nat
    BY <1>2, FS_CardinalityType, Zenon
  <2> QED BY <2>1 DEF Dropped
<1>4. \A i \in (Dropped + 1) .. Len(events) : events[i] \in EventKinds
  BY <1>1, <1>3
<1> QED
  BY <1>1, <1>3, <1>4, SubSeqProperties

\* The types of the queues, of the flags, and of the rest.
QueueType ==
  /\ events \in Seq(EventKinds) /\ outbox \in Seq(Messages) /\ socket \in Seq(Messages)
  /\ inbox \in Seq({"read", "modify"})
FlagType ==
  /\ canSendNotification \in BOOLEAN /\ deferNotification \in BOOLEAN
  /\ deferredNotification \in BOOLEAN /\ modifier \in BOOLEAN /\ notified \in BOOLEAN
PlaceType ==
  /\ kind \in Kinds /\ phase \in {"new", "open", "ready"}
  /\ vanished \in {"no", "yes", "told"} /\ waiter \in {"waiting", "woken", "reading"}
  /\ flags \subseteq EventKinds
  /\ reader \in {"idle", "fill", "reply", "deferred"} /\ answer \in {"dead", "event"}
  /\ client \in {"idle", "read", "modify", "aborted"}
CounterType ==
  /\ readSemaphore \in Nat /\ arrived \in Nat /\ notifiers \in Nat /\ checks \in Nat /\ modified \in Nat

\* The four parts make up TypeOK.
LEMMA TypeParts == TypeOK <=> QueueType /\ FlagType /\ PlaceType /\ CounterType
  BY Zenon DEF TypeOK, QueueType, FlagType, PlaceType, CounterType, Messages

\* The channel starts out empty.
LEMMA TypeInit == Init => TypeOK
<1> SUFFICES ASSUME Init PROVE TypeOK OBVIOUS
<1>1. QueueType
  BY DEF Init, QueueType
<1>2. FlagType
  BY Zenon DEF Init, FlagType
<1>3. PlaceType /\ CounterType
  BY DEF Init, PlaceType, CounterType
<1> QED BY <1>1, <1>2, <1>3, TypeParts

\* The queues: every message that is put in is one of the protocol's.
LEMMA QueueStep == TypeOK /\ [Next]_vars => QueueType'
<1> SUFFICES ASSUME TypeOK, [Next]_vars PROVE QueueType' OBVIOUS
<1> USE DEF eventVars, noteVars, clientVars
<1>0. /\ outbox \in Seq(Messages) /\ socket \in Seq(Messages)
      /\ inbox \in Seq({"read", "modify"}) /\ events \in Seq(EventKinds)
      /\ outbox # <<>> => Head(outbox) \in Messages /\ Tail(outbox) \in Seq(Messages)
      /\ socket # <<>> => Tail(socket) \in Seq(Messages)
      /\ inbox # <<>> => Tail(inbox) \in Seq({"read", "modify"})
      /\ events # <<>> => Tail(events) \in Seq(EventKinds)
      /\ \A m \in Messages : Append(outbox, m) \in Seq(Messages) /\ Append(socket, m) \in Seq(Messages)
  BY TypeParts DEF QueueType
<1>i. Append(inbox, "read") \in Seq({"read", "modify"}) /\ Append(inbox, "modify") \in Seq({"read", "modify"})
  BY TypeParts DEF QueueType
<1>e. \A e \in EventKinds : Append(events, e) \in Seq(EventKinds)
  BY TypeParts DEF QueueType
<1>n. <<>> \in Seq(EventKinds)
  OBVIOUS
<1>1. CASE PushNotification
  BY <1>0, <1>1, Zenon DEF PushNotification, QueueType, Messages
<1>2. CASE SendMany
  BY <1>0, <1>2, Zenon DEF SendMany, QueueType
<1>3. CASE Read \/ Modify
  BY <1>0, <1>3, Zenon DEF Read, Modify, QueueType
<1>4. CASE ReadFill
  <2> DEFINE rest == SubSeq(events, Dropped + 1, Len(events))
  <2>1. rest \in Seq(EventKinds)
    BY RestType
  <2>2. events' = events \/ events' = <<>> \/ (rest # <<>> /\ events' = Tail(rest))
    BY <1>4, Zenon DEF ReadFill
  <2> HIDE DEF rest
  <2>3. rest # <<>> => Tail(rest) \in Seq(EventKinds)
    BY <2>1
  <2>4. events' \in Seq(EventKinds)
    BY <1>0, <1>n, <2>2, <2>3, Zenon
  <2> QED BY <1>0, <1>4, <2>4 DEF ReadFill, QueueType
<1>5. CASE ReadReply
  <2>1. answer \in Messages
    BY Zenon DEF TypeOK, Messages
  <2> QED BY <1>0, <1>5, <2>1, Zenon DEF ReadReply, QueueType
<1>6. CASE ModifyReply
  BY <1>0, <1>6, Zenon DEF ModifyReply, QueueType, Messages
<1>7. ASSUME NEW e \in EventKinds, Notify(e) PROVE QueueType'
  BY <1>0, <1>e, <1>7, Zenon DEF Notify, QueueType
<1>8. CASE Vanish \/ ReceivedElsewhere
  BY <1>0, <1>n, <1>8, Zenon DEF Vanish, ReceivedElsewhere, QueueType
<1>9. CASE ClientRead \/ ClientModify
  <2>1. inbox' = Append(inbox, "read") \/ inbox' = Append(inbox, "modify")
    BY <1>9 DEF ClientRead, ClientModify
  <2>2. inbox' \in Seq({"read", "modify"})
    BY <1>i, <2>1, Zenon
  <2> QED BY <1>0, <1>9, <2>2 DEF ClientRead, ClientModify, QueueType
<1>10. CASE ClientReceive
  BY <1>0, <1>10, Zenon DEF ClientReceive, QueueType
<1>11. CASE UNCHANGED <<events, outbox, socket, inbox>>
  BY <1>0, <1>11, Zenon DEF QueueType
<1> QED
  BY <1>1, <1>2, <1>3, <1>4, <1>5, <1>6, <1>7, <1>8, <1>9, <1>10, <1>11 DEF Next, vars, Quiet,
     CheckForEvents, SetupSocket, SetupCheck, SendDeferredNotification, WaiterPeek, WaiterResume

\* The flags stay Boolean.
LEMMA FlagStep == TypeOK /\ [Next]_vars => FlagType'
<1> SUFFICES ASSUME TypeOK, [Next]_vars PROVE FlagType' OBVIOUS
<1>0. FlagType
  BY TypeParts, Zenon
<1>1. canSendNotification' \in BOOLEAN
  <2>1. canSendNotification' \in {TRUE, FALSE, canSendNotification}
    BY Zenon DEF Next, vars, Quiet, noteVars, SendNotification, PushNotification, SendMany, CheckForEvents,
       SetupSocket, SetupCheck, Read, ReadFill, ReadReply, SendDeferredNotification, Modify, ModifyReply,
       Notify, Vanish, ReceivedElsewhere, WaiterPeek, WaiterResume, ClientRead, ClientModify, ClientReceive
  <2> QED BY <1>0, <2>1, Zenon DEF FlagType
<1>2. deferNotification' \in BOOLEAN
  <2>1. deferNotification' \in {TRUE, FALSE, deferNotification}
    BY Zenon DEF Next, vars, Quiet, noteVars, SendNotification, PushNotification, SendMany, CheckForEvents,
       SetupSocket, SetupCheck, Read, ReadFill, ReadReply, SendDeferredNotification, Modify, ModifyReply,
       Notify, Vanish, ReceivedElsewhere, WaiterPeek, WaiterResume, ClientRead, ClientModify, ClientReceive
  <2> QED BY <1>0, <2>1, Zenon DEF FlagType
<1>3. deferredNotification' \in BOOLEAN
  <2>1. \/ deferredNotification' \in {FALSE, deferredNotification}
        \/ deferredNotification' = (deferredNotification \/ (canSendNotification /\ deferNotification))
    BY Zenon DEF Next, vars, Quiet, noteVars, SendNotification, PushNotification, SendMany, CheckForEvents,
       SetupSocket, SetupCheck, Read, ReadFill, ReadReply, SendDeferredNotification, Modify, ModifyReply,
       Notify, Vanish, ReceivedElsewhere, WaiterPeek, WaiterResume, ClientRead, ClientModify, ClientReceive
  <2> QED BY <1>0, <2>1, Zenon DEF FlagType
<1>4. modifier' \in BOOLEAN /\ notified' \in BOOLEAN
  <2>1. modifier' \in {TRUE, FALSE, modifier} /\ notified' \in {TRUE, FALSE, notified}
    BY Zenon DEF Next, vars, Quiet, clientVars, PushNotification, SendMany, CheckForEvents,
       SetupSocket, SetupCheck, Read, ReadFill, ReadReply, SendDeferredNotification, Modify, ModifyReply,
       Notify, Vanish, ReceivedElsewhere, WaiterPeek, WaiterResume, ClientRead, ClientModify, ClientReceive
  <2> QED BY <1>0, <2>1, Zenon DEF FlagType
<1> QED BY <1>1, <1>2, <1>3, <1>4, Zenon DEF FlagType

\* The states of the channel, of its threads and of the client.
LEMMA PlaceStep == TypeOK /\ [Next]_vars => PlaceType'
<1> SUFFICES ASSUME TypeOK, [Next]_vars PROVE PlaceType' OBVIOUS
<1>0. PlaceType
  BY TypeParts, Zenon
<1>1. kind' \in Kinds /\ phase' \in {"new", "open", "ready"}
  BY <1>0, Zenon DEF PlaceType, Next, vars, Quiet, PushNotification, SendMany, CheckForEvents,
     SetupSocket, SetupCheck, Read, ReadFill, ReadReply, SendDeferredNotification, Modify, ModifyReply,
     Notify, Vanish, ReceivedElsewhere, WaiterPeek, WaiterResume, ClientRead, ClientModify, ClientReceive
<1>2. vanished' \in {"no", "yes", "told"} /\ waiter' \in {"waiting", "woken", "reading"}
  BY <1>0, Zenon DEF PlaceType, Next, vars, eventVars, Quiet, PushNotification, SendMany, CheckForEvents,
     SetupSocket, SetupCheck, Read, ReadFill, ReadReply, SendDeferredNotification, Modify, ModifyReply,
     Notify, Vanish, ReceivedElsewhere, WaiterPeek, WaiterResume, ClientRead, ClientModify, ClientReceive
<1>3. flags' \subseteq EventKinds
  <2>1. flags' = flags \/ flags' \in SUBSET EventKinds
    BY Zenon DEF Next, vars, Quiet, PushNotification, SendMany, CheckForEvents,
       SetupSocket, SetupCheck, Read, ReadFill, ReadReply, SendDeferredNotification, Modify, ModifyReply,
       Notify, Vanish, ReceivedElsewhere, WaiterPeek, WaiterResume, ClientRead, ClientModify, ClientReceive
  <2> QED BY <1>0, <2>1, Zenon DEF PlaceType
<1>4. reader' \in {"idle", "fill", "reply", "deferred"} /\ answer' \in {"dead", "event"}
  BY <1>0, Zenon DEF PlaceType, Next, vars, Quiet, PushNotification, SendMany, CheckForEvents,
     SetupSocket, SetupCheck, Read, ReadFill, ReadReply, SendDeferredNotification, Modify, ModifyReply,
     Notify, Vanish, ReceivedElsewhere, WaiterPeek, WaiterResume, ClientRead, ClientModify, ClientReceive
<1>5. client' \in {"idle", "read", "modify", "aborted"}
  BY <1>0, Zenon DEF PlaceType, Next, vars, clientVars, Quiet, PushNotification, SendMany, CheckForEvents,
     SetupSocket, SetupCheck, Read, ReadFill, ReadReply, SendDeferredNotification, Modify, ModifyReply,
     Notify, Vanish, ReceivedElsewhere, WaiterPeek, WaiterResume, ClientRead, ClientModify, ClientReceive
<1> QED BY <1>1, <1>2, <1>3, <1>4, <1>5, Zenon DEF PlaceType

\* The counters: nothing is taken from one that is zero.
LEMMA CounterStep == TypeOK /\ [Next]_vars => CounterType'
<1> SUFFICES ASSUME TypeOK, [Next]_vars PROVE CounterType' OBVIOUS
<1>0. CounterType
  BY TypeParts
<1>1. notifiers' \in Nat
  <2>1. notifiers' \in {notifiers, notifiers + 1} \/ (notifiers > 0 /\ notifiers' = notifiers - 1)
    BY Zenon DEF Next, vars, noteVars, Quiet, SendNotification, PushNotification, SendMany,
       CheckForEvents, SetupSocket, SetupCheck, Read, ReadFill, ReadReply, SendDeferredNotification,
       Modify, ModifyReply, Notify, Vanish, ReceivedElsewhere, WaiterPeek, WaiterResume, ClientRead,
       ClientModify, ClientReceive
  <2> QED BY <1>0, <2>1 DEF CounterType
<1>2. checks' \in Nat
  <2>1. checks' \in {checks, checks + 1} \/ (checks > 0 /\ checks' = checks - 1)
    BY Zenon DEF Next, vars, Quiet, PushNotification, SendMany,
       CheckForEvents, SetupSocket, SetupCheck, Read, ReadFill, ReadReply, SendDeferredNotification,
       Modify, ModifyReply, Notify, Vanish, ReceivedElsewhere, WaiterPeek, WaiterResume, ClientRead,
       ClientModify, ClientReceive
  <2> QED BY <1>0, <2>1 DEF CounterType
<1>3. readSemaphore' \in Nat
  <2>1. \/ readSemaphore' \in {readSemaphore, readSemaphore + 1}
        \/ readSemaphore > 0 /\ readSemaphore' = readSemaphore - 1
    BY Zenon DEF Next, vars, eventVars, Quiet, PushNotification, SendMany,
       CheckForEvents, SetupSocket, SetupCheck, Read, ReadFill, ReadReply, SendDeferredNotification,
       Modify, ModifyReply, Notify, Vanish, ReceivedElsewhere, WaiterPeek, WaiterResume, ClientRead,
       ClientModify, ClientReceive
  <2> QED BY <1>0, <2>1 DEF CounterType
<1>4. arrived' \in Nat
  <2>1. arrived' \in {arrived, arrived + 1}
    BY Zenon DEF Next, vars, eventVars, Quiet, PushNotification, SendMany,
       CheckForEvents, SetupSocket, SetupCheck, Read, ReadFill, ReadReply, SendDeferredNotification,
       Modify, ModifyReply, Notify, Vanish, ReceivedElsewhere, WaiterPeek, WaiterResume, ClientRead,
       ClientModify, ClientReceive
  <2> QED BY <1>0, <2>1 DEF CounterType
<1>5. modified' \in Nat
  <2>1. modified' \in {modified, modified + 1}
    BY Zenon DEF Next, vars, clientVars, Quiet, PushNotification, SendMany,
       CheckForEvents, SetupSocket, SetupCheck, Read, ReadFill, ReadReply, SendDeferredNotification,
       Modify, ModifyReply, Notify, Vanish, ReceivedElsewhere, WaiterPeek, WaiterResume, ClientRead,
       ClientModify, ClientReceive
  <2> QED BY <1>0, <2>1 DEF CounterType
<1> QED BY <1>1, <1>2, <1>3, <1>4, <1>5, Zenon DEF CounterType

\* Every section of the channel and of the client keeps the types.
LEMMA TypeStep == TypeOK /\ [Next]_vars => TypeOK'
<1> SUFFICES ASSUME TypeOK, [Next]_vars PROVE TypeOK' OBVIOUS
<1>1. QueueType' /\ FlagType' /\ PlaceType' /\ CounterType'
  BY QueueStep, FlagStep, PlaceStep, CounterStep, Zenon
<1>2. (QueueType' /\ FlagType' /\ PlaceType' /\ CounterType') => TypeOK'
  BY DEF TypeOK, QueueType, FlagType, PlaceType, CounterType, Messages
<1> QED BY <1>1, <1>2, Zenon

\* kqchan.cpp keeps the types of kqchan.hpp's fields, and the semaphore of a port set's
\* waiter is never taken below zero.
THEOREM TypeCorrect == Spec => []TypeOK
<1>1. Init => TypeOK
  BY TypeInit, Zenon
<1>2. TypeOK /\ [Next]_vars => TypeOK'
  BY TypeStep, Zenon
<1> QED BY <1>1, <1>2, PTL DEF Spec

-----------------------------------------------------------------------------
(* The one notification *)

\* What is in a queue is counted by a natural number.
LEMMA QueueNat ==
  /\ \A s \in Seq(Messages) : Notes(s) \in Nat /\ Replies(s) \in Nat /\ Answers(s) \in Nat
  /\ \A s \in Seq({"read", "modify"}) : Reads(s) \in Nat /\ Modifies(s) \in Nat
<1>1. \A s \in Seq(Messages) : /\ CountIn(s, "notification") \in Nat /\ CountIn(s, "event") \in Nat
                               /\ CountIn(s, "dead") \in Nat /\ CountIn(s, "modified") \in Nat
  BY CountType, Zenon
<1>2. \A s \in Seq({"read", "modify"}) : CountIn(s, "read") \in Nat /\ CountIn(s, "modify") \in Nat
  BY CountType, Zenon
<1> QED BY <1>1, <1>2 DEF Notes, Replies, Answers, Reads, Modifies

\* An empty queue.
LEMMA QueueEmpty ==
  Notes(<<>>) = 0 /\ Replies(<<>>) = 0 /\ Answers(<<>>) = 0 /\ Reads(<<>>) = 0 /\ Modifies(<<>>) = 0
<1>1. <<>> \in Seq(Messages) /\ \A m : \A k \in DOMAIN <<>> : <<>>[k] # m
  OBVIOUS
<1>2. \A m : CountIn(<<>>, m) = 0
  BY <1>1, CountType, Zenon
<1> QED BY <1>2 DEF Notes, Replies, Answers, Reads, Modifies

\* A message is pushed.
LEMMA QueueAppend ==
  ASSUME NEW s \in Seq(Messages), NEW x \in Messages
  PROVE  /\ Notes(Append(s, x)) = Notes(s) + (IF x = "notification" THEN 1 ELSE 0)
         /\ Replies(Append(s, x)) = Replies(s) + (IF x \in ReadReplies THEN 1 ELSE 0)
         /\ Answers(Append(s, x)) = Answers(s) + (IF x = "modified" THEN 1 ELSE 0)
<1>1. \A m : CountIn(Append(s, x), m) = CountIn(s, m) + (IF x = m THEN 1 ELSE 0)
  BY CountAppend, Zenon DEF Count
<1>2. \A m : CountIn(s, m) \in Nat
  BY CountType, Zenon
<1> QED BY <1>1, <1>2 DEF Notes, Replies, Answers, ReadReplies, Messages

\* A message is taken.
LEMMA QueueTail ==
  ASSUME NEW s \in Seq(Messages), s # <<>>
  PROVE  /\ Head(s) \in Messages
         /\ Notes(Tail(s)) = Notes(s) - (IF Head(s) = "notification" THEN 1 ELSE 0)
         /\ Replies(Tail(s)) = Replies(s) - (IF Head(s) \in ReadReplies THEN 1 ELSE 0)
         /\ Answers(Tail(s)) = Answers(s) - (IF Head(s) = "modified" THEN 1 ELSE 0)
<1>1. \A m : CountIn(Tail(s), m) = CountIn(s, m) - (IF Head(s) = m THEN 1 ELSE 0)
  BY CountTail, Zenon DEF Count
<1>2. \A m : CountIn(s, m) \in Nat
  BY CountType, Zenon
<1>3. Head(s) \in Messages
  OBVIOUS
<1> QED BY <1>1, <1>2, <1>3 DEF Notes, Replies, Answers, ReadReplies, Messages

\* A request is sent, or taken.
LEMMA RequestMoves ==
  ASSUME NEW s \in Seq({"read", "modify"})
  PROVE  /\ Reads(Append(s, "read")) = Reads(s) + 1 /\ Modifies(Append(s, "read")) = Modifies(s)
         /\ Reads(Append(s, "modify")) = Reads(s) /\ Modifies(Append(s, "modify")) = Modifies(s) + 1
         /\ s # <<>> /\ Head(s) = "read" =>
              Reads(Tail(s)) = Reads(s) - 1 /\ Modifies(Tail(s)) = Modifies(s)
         /\ s # <<>> /\ Head(s) = "modify" =>
              Reads(Tail(s)) = Reads(s) /\ Modifies(Tail(s)) = Modifies(s) - 1
<1>1. \A m, x \in {"read", "modify"} : CountIn(Append(s, x), m) = CountIn(s, m) + (IF x = m THEN 1 ELSE 0)
  BY CountAppend DEF Count
<1>2. s # <<>> => \A m : CountIn(Tail(s), m) = CountIn(s, m) - (IF Head(s) = m THEN 1 ELSE 0)
  BY CountTail, Zenon DEF Count
<1>3. \A m : CountIn(s, m) \in Nat
  BY CountType, Zenon
<1> QED BY <1>1, <1>2, <1>3 DEF Reads, Modifies

\* The queues are sequences of their messages.
LEMMA QueuesSeq ==
  ASSUME TypeOK
  PROVE  outbox \in Seq(Messages) /\ socket \in Seq(Messages) /\ inbox \in Seq({"read", "modify"})
  BY TypeParts DEF QueueType

\* Everything that is counted is a number.
LEMMA CountsNat ==
  ASSUME TypeOK
  PROVE  /\ notifiers \in Nat /\ Deferred \in Nat /\ Held \in Nat /\ Filling \in Nat /\ Modifying \in Nat
         /\ Notes(outbox) \in Nat /\ Notes(socket) \in Nat /\ Reads(inbox) \in Nat
         /\ Replies(outbox) \in Nat /\ Replies(socket) \in Nat
         /\ Modifies(inbox) \in Nat /\ Answers(outbox) \in Nat /\ Answers(socket) \in Nat
<1>1. outbox \in Seq(Messages) /\ socket \in Seq(Messages) /\ inbox \in Seq({"read", "modify"})
  BY TypeParts DEF QueueType
<1>2. notifiers \in Nat
  BY DEF TypeOK
<1>3. Deferred \in Nat /\ Held \in Nat /\ Filling \in Nat /\ Modifying \in Nat
  BY Zenon DEF Deferred, Held, Filling, Modifying, Count
<1> QED BY <1>1, <1>2, <1>3, QueueNat

\* The number of notifications in flight, by place.
LEMMA InFlightSum ==
  InFlight = notifiers + Deferred + Notes(outbox) + Notes(socket) + Held + Reads(inbox)
  BY Zenon DEF InFlight, Deferred, Notes, Held, Reads

\* _sendNotification adds a notification when the last one has been acknowledged, either to
\* the deferred one or to the threads with a push to do, and none otherwise.
LEMMA SendNotificationCounts ==
  ASSUME TypeOK, OneUnacknowledged, SendNotification
  PROVE  /\ ~canSendNotification'
         /\ notifiers' \in Nat /\ Deferred' \in {0, 1}
         /\ notifiers' + Deferred' = notifiers + Deferred + (IF canSendNotification THEN 1 ELSE 0)
<1>0. notifiers' \in Nat /\ Deferred' \in {0, 1} /\ ~canSendNotification'
  BY DEF TypeOK, SendNotification, Deferred, Count
<1>2. canSendNotification \in BOOLEAN /\ deferNotification \in BOOLEAN /\ deferredNotification \in BOOLEAN
  BY TypeParts DEF FlagType
<1>3. deferredNotification => ~canSendNotification
  <2>1. deferredNotification => Deferred = 1
    BY Zenon DEF Deferred, Count
  <2>2. deferredNotification => InFlight > 0
    BY <2>1, CountsNat, InFlightSum
  <2> QED BY <2>2 DEF OneUnacknowledged, Count
<1>4. CASE ~canSendNotification
  <2>1. (deferredNotification' <=> deferredNotification) /\ notifiers' = notifiers
    BY <1>2, <1>4, Zenon DEF SendNotification
  <2>2. Deferred' = Deferred
    BY <2>1, Zenon DEF Deferred, Count
  <2> QED BY <1>0, <1>4, <2>1, <2>2, CountsNat
<1>5. CASE canSendNotification /\ deferNotification
  <2>1. deferredNotification' /\ ~deferredNotification /\ notifiers' = notifiers
    BY <1>3, <1>5, Zenon DEF SendNotification
  <2>2. Deferred' = 1 /\ Deferred = 0
    BY <2>1 DEF Deferred, Count
  <2> QED BY <1>0, <1>5, <2>1, <2>2, CountsNat
<1>6. CASE canSendNotification /\ ~deferNotification
  <2>1. ~deferredNotification' /\ ~deferredNotification /\ notifiers' = notifiers + 1
    BY <1>3, <1>6, Zenon DEF SendNotification
  <2>2. Deferred' = 0 /\ Deferred = 0
    BY <2>1 DEF Deferred, Count
  <2> QED BY <1>0, <1>6, <2>1, <2>2, CountsNat
<1> QED BY <1>2, <1>4, <1>5, <1>6, Zenon

\* Only _sendNotification, which acts when the last notification has been acknowledged, adds
\* a notification, and only the read request takes one away.
LEMMA InFlightStep ==
  ASSUME TypeOK, OneUnacknowledged, [Next]_vars
  PROVE  \/ Read /\ InFlight' = InFlight - 1
         \/ /\ SendNotification /\ UNCHANGED reader
            /\ InFlight' = InFlight + (IF canSendNotification THEN 1 ELSE 0)
         \/ SendDeferredNotification /\ InFlight' = InFlight
         \/ /\ UNCHANGED <<canSendNotification, deferNotification, deferredNotification>>
            /\ (reader' = "idle") <=> (reader = "idle")
            /\ InFlight' = InFlight
<1> DEFINE Goal ==
      \/ Read /\ InFlight' = InFlight - 1
      \/ /\ SendNotification /\ UNCHANGED reader
         /\ InFlight' = InFlight + (IF canSendNotification THEN 1 ELSE 0)
      \/ SendDeferredNotification /\ InFlight' = InFlight
      \/ /\ UNCHANGED <<canSendNotification, deferNotification, deferredNotification>>
         /\ (reader' = "idle") <=> (reader = "idle")
         /\ InFlight' = InFlight
<1> SUFFICES Goal BY Zenon
<1> USE DEF eventVars, noteVars, clientVars
<1>0. /\ InFlight = notifiers + Deferred + Notes(outbox) + Notes(socket) + Held + Reads(inbox)
      /\ InFlight' = notifiers' + Deferred' + Notes(outbox') + Notes(socket') + Held' + Reads(inbox')
  BY DEF InFlight, Deferred, Notes, Held, Reads
<1>d. (deferredNotification' = deferredNotification) => Deferred' = Deferred
  BY DEF Deferred
<1>h. (notified' = notified) => Held' = Held
  BY Zenon DEF Held
<1>1. ASSUME SendNotification, UNCHANGED <<reader, outbox, socket, clientVars>> PROVE Goal
  <2>s. Notes(outbox') = Notes(outbox) /\ Notes(socket') = Notes(socket) /\ Held' = Held /\ Reads(inbox') = Reads(inbox)
    BY <1>d, <1>h, <1>1, Zenon DEF noteVars
  <2>1. InFlight' = InFlight + (IF canSendNotification THEN 1 ELSE 0)
    BY <1>0, <1>1, <2>s, CountsNat, SendNotificationCounts
  <2> QED BY <1>1, <2>1, Zenon
<1>2. ASSUME UNCHANGED <<noteVars, outbox, socket, clientVars>>, (reader' = "idle") <=> (reader = "idle")
      PROVE  Goal
  <2>1. InFlight' = InFlight
    BY <1>0, <1>d, <1>h, <1>2, Zenon
  <2> QED BY <1>2, <2>1, Zenon
<1>3. CASE PushNotification
  <2>1. notifiers' = notifiers - 1 /\ Notes(outbox') = Notes(outbox) + 1
    BY <1>3, QueuesSeq, QueueAppend, Zenon DEF PushNotification, Messages
  <2>s. Deferred' = Deferred /\ Notes(socket') = Notes(socket) /\ Held' = Held /\ Reads(inbox') = Reads(inbox)
    BY <1>d, <1>h, <1>3, Zenon DEF PushNotification
  <2>2. InFlight' = InFlight
    BY <1>0, <2>s, <2>1, CountsNat
  <2> QED BY <1>3, <2>2, Zenon DEF PushNotification
<1>4. CASE SendMany
  <2>1. /\ Head(outbox) \in Messages
        /\ Notes(outbox') = Notes(outbox) - (IF Head(outbox) = "notification" THEN 1 ELSE 0)
    BY <1>4, QueuesSeq, QueueTail, Zenon DEF SendMany
  <2>2. Notes(socket') = Notes(socket) + (IF Head(outbox) = "notification" THEN 1 ELSE 0)
    BY <1>4, <2>1, QueuesSeq, QueueAppend, Zenon DEF SendMany
  <2>s. notifiers' = notifiers /\ Deferred' = Deferred /\ Held' = Held /\ Reads(inbox') = Reads(inbox)
    BY <1>d, <1>h, <1>4, Zenon DEF SendMany
  <2>3. InFlight' = InFlight
    BY <1>0, <2>s, <2>1, <2>2, CountsNat
  <2> QED BY <1>4, <2>3, Zenon DEF SendMany
<1>5. CASE Read
  <2>1. Reads(inbox') = Reads(inbox) - 1
    BY <1>5, QueuesSeq, RequestMoves, Zenon DEF Read
  <2>s. notifiers' = notifiers /\ Deferred' = Deferred /\ Notes(outbox') = Notes(outbox) /\ Notes(socket') = Notes(socket) /\ Held' = Held
    BY <1>d, <1>h, <1>5, Zenon DEF Read
  <2>2. InFlight' = InFlight - 1
    BY <1>0, <2>s, <2>1, CountsNat
  <2> QED BY <1>5, <2>2, Zenon
<1>6. CASE ReadReply \/ ModifyReply
  <2>1. Notes(outbox') = Notes(outbox)
    <3>1. answer \in Messages /\ answer # "notification" /\ "modified" \in Messages /\ "modified" # "notification"
      BY DEF TypeOK, Messages
    <3>2. \A x \in Messages : x # "notification" => Notes(Append(outbox, x)) = Notes(outbox)
      BY QueuesSeq, CountsNat, QueueAppend
    <3>3. outbox' = Append(outbox, answer) \/ outbox' = Append(outbox, "modified")
      BY <1>6 DEF ReadReply, ModifyReply
    <3>4. Notes(Append(outbox, answer)) = Notes(outbox) /\ Notes(Append(outbox, "modified")) = Notes(outbox)
      BY <3>1, <3>2
    <3> QED BY <3>3, <3>4, Zenon
  <2>s. notifiers' = notifiers /\ Deferred' = Deferred /\ Notes(socket') = Notes(socket) /\ Held' = Held /\ Reads(inbox') = Reads(inbox)
    BY <1>d, <1>h, <1>6 DEF ReadReply, ModifyReply
  <2>2. InFlight' = InFlight
    BY <1>0, <2>s, <2>1, Zenon
  <2> QED BY <1>6, <2>2, Zenon DEF ReadReply, ModifyReply
<1>7. CASE SendDeferredNotification
  <2>1. notifiers' = notifiers + Deferred /\ Deferred' = 0
    BY <1>7, CountsNat DEF SendDeferredNotification, Deferred, Count
  <2>s. Notes(outbox') = Notes(outbox) /\ Notes(socket') = Notes(socket) /\ Held' = Held /\ Reads(inbox') = Reads(inbox)
    BY <1>d, <1>h, <1>7, Zenon DEF SendDeferredNotification
  <2>2. InFlight' = InFlight
    BY <1>0, <2>s, <2>1, CountsNat
  <2> QED BY <1>7, <2>2, Zenon
<1>8. CASE Modify \/ ClientModify
  <2>1. Reads(inbox') = Reads(inbox)
    BY <1>8, QueuesSeq, RequestMoves, Zenon DEF Modify, ClientModify
  <2>s. notifiers' = notifiers /\ Deferred' = Deferred /\ Notes(outbox') = Notes(outbox) /\ Notes(socket') = Notes(socket) /\ Held' = Held
    BY <1>d, <1>h, <1>8 DEF Modify, ClientModify
  <2>2. InFlight' = InFlight
    BY <1>0, <2>s, <2>1, Zenon
  <2> QED BY <1>8, <2>2, Zenon DEF Modify, ClientModify
<1>9. CASE ClientRead
  <2>1. Reads(inbox') = Reads(inbox) + 1
    BY <1>9, QueuesSeq, RequestMoves, Zenon DEF ClientRead
  <2>2. Held = 1 /\ Held' = 0
    BY <1>9, Zenon DEF ClientRead, Held, Count
  <2>s. notifiers' = notifiers /\ Deferred' = Deferred /\ Notes(outbox') = Notes(outbox) /\ Notes(socket') = Notes(socket)
    BY <1>d, <1>h, <1>9, Zenon DEF ClientRead
  <2>3. InFlight' = InFlight
    BY <1>0, <2>s, <2>1, <2>2, CountsNat
  <2> QED BY <1>9, <2>3, Zenon DEF ClientRead
<1>10. CASE ClientReceive
  <2>1. Notes(socket') = Notes(socket) - (IF Head(socket) = "notification" THEN 1 ELSE 0)
    BY <1>10, QueuesSeq, QueueTail, Zenon DEF ClientReceive
  <2>2. Held' = Held + (IF Head(socket) = "notification" THEN 1 ELSE 0)
    <3>1. CASE Head(socket) = "notification"
      <4>1. Notes(socket') \in Nat
        BY TypeStep, QueueNat, Zenon DEF TypeOK, Messages
      <4>2. InFlight <= 1
        BY DEF OneUnacknowledged, Count
      <4>3. Held = 0
        BY <1>0, <2>1, <3>1, <4>1, <4>2, CountsNat
      <4>4. Held' = 1
        BY <1>10, <3>1, Zenon DEF ClientReceive, Held, Count
      <4> QED BY <3>1, <4>3, <4>4
    <3>2. CASE Head(socket) # "notification"
      <4>1. Held' = Held
        BY <1>h, <1>10, <3>2, Zenon DEF ClientReceive
      <4> QED BY <3>2, <4>1, CountsNat
    <3> QED BY <3>1, <3>2, Zenon
  <2>s. notifiers' = notifiers /\ Deferred' = Deferred /\ Notes(outbox') = Notes(outbox) /\ Reads(inbox') = Reads(inbox)
    BY <1>d, <1>h, <1>10, Zenon DEF ClientReceive
  <2>3. InFlight' = InFlight
    BY <1>0, <2>s, <2>1, <2>2, CountsNat
  <2> QED BY <1>10, <2>3, Zenon DEF ClientReceive
<1>11. CASE CheckForEvents \/ SetupCheck \/ WaiterPeek
  BY <1>1, <1>2, <1>11, Zenon DEF CheckForEvents, SetupCheck, WaiterPeek
<1>12. CASE \E e \in EventKinds : Notify(e)
  BY <1>1, <1>2, <1>12, Zenon DEF Notify
<1>13. CASE Vanish
  BY <1>1, <1>13, Zenon DEF Vanish
<1>14. CASE SetupSocket \/ ReadFill \/ ReceivedElsewhere \/ WaiterResume \/ UNCHANGED vars
  BY <1>2, <1>14, Zenon DEF SetupSocket, ReadFill, ReceivedElsewhere, WaiterResume, vars
<1> HIDE DEF Goal
<1> QED
  BY <1>3, <1>4, <1>5, <1>6, <1>7, <1>8, <1>9, <1>10, <1>11, <1>12, <1>13, <1>14, Zenon DEF Next, Quiet

\* Nothing is in flight in a new channel.
LEMMA UnackInit == Init => OneUnacknowledged
<1> SUFFICES ASSUME Init PROVE OneUnacknowledged OBVIOUS
<1>1. Notes(outbox) = 0 /\ Notes(socket) = 0 /\ Reads(inbox) = 0 /\ notifiers = 0 /\ canSendNotification
  BY QueueEmpty, Zenon DEF Init
<1>2. Deferred = 0 /\ Held = 0
  BY Zenon DEF Init, Deferred, Held, Count
<1> QED BY <1>1, <1>2, InFlightSum DEF OneUnacknowledged, Count

\* A notification is decided on only when there is none, and acknowledged by the request
\* that takes it away.
LEMMA UnackStep == TypeOK /\ OneUnacknowledged /\ [Next]_vars => OneUnacknowledged'
<1> SUFFICES ASSUME TypeOK, OneUnacknowledged, [Next]_vars PROVE OneUnacknowledged' BY Zenon
<1>0. canSendNotification \in BOOLEAN
  BY DEF TypeOK
<1>1. InFlight = IF canSendNotification THEN 0 ELSE 1
  BY <1>0, Zenon DEF OneUnacknowledged, Count
<1> SUFFICES InFlight' = IF canSendNotification' THEN 0 ELSE 1
  BY Zenon DEF OneUnacknowledged, Count
<1>2. CASE Read /\ InFlight' = InFlight - 1
  <2>1. Reads(inbox) - 1 \in Nat
    <3>1. Reads(inbox') = Reads(inbox) - 1
      BY <1>2, QueuesSeq, RequestMoves, Zenon DEF Read
    <3>2. Reads(inbox') \in Nat
      BY TypeStep, QueueNat, Zenon DEF TypeOK
    <3> QED BY <3>1, <3>2, Zenon
  <2>2. InFlight > 0
    BY <2>1, CountsNat, InFlightSum
  <2> QED BY <1>1, <1>2, <2>2 DEF Read
<1>3. CASE SendNotification /\ InFlight' = InFlight + (IF canSendNotification THEN 1 ELSE 0)
  BY <1>0, <1>1, <1>3 DEF SendNotification
<1>4. CASE canSendNotification' = canSendNotification /\ InFlight' = InFlight
  BY <1>1, <1>4, Zenon
<1>5. CASE SendDeferredNotification /\ InFlight' = InFlight
  BY <1>4, <1>5, Zenon DEF SendDeferredNotification
<1> QED BY <1>2, <1>3, <1>4, <1>5, InFlightStep, Zenon

\* At most one notification is unacknowledged, counted over the threads that have yet to
\* push one, the deferred one, the outbox, the socket, the client and its read request; and
\* _canSendNotification is false exactly while there is one.
THEOREM UnackCorrect == Spec => []OneUnacknowledged
<1>1. Init => OneUnacknowledged
  BY UnackInit
<1>2. TypeOK /\ OneUnacknowledged /\ [Next]_vars => OneUnacknowledged'
  BY UnackStep, Zenon
<1> QED BY <1>1, <1>2, TypeCorrect, PTL DEF Spec

-----------------------------------------------------------------------------
(* The deferral *)

\* No read is in progress in a new channel.
LEMMA DeferralInit == Init => Deferral
  BY Zenon DEF Init, Deferral

\* The section of _read finds the acknowledged notification and no other; until the reply has
\* been pushed a notification can only be deferred.
LEMMA DeferralStep == TypeOK /\ OneUnacknowledged /\ Deferral /\ [Next]_vars => Deferral'
<1> SUFFICES ASSUME TypeOK, OneUnacknowledged, Deferral, [Next]_vars PROVE Deferral' BY Zenon
<1>0. canSendNotification \in BOOLEAN /\ deferNotification \in BOOLEAN /\ deferredNotification \in BOOLEAN
  BY TypeParts, Zenon DEF FlagType
<1>1. CASE Read /\ InFlight' = InFlight - 1
  <2>1. InFlight' = 0
    <3>1. OneUnacknowledged'
      BY UnackStep, Zenon
    <3> QED BY <1>1, <3>1, Zenon DEF OneUnacknowledged, Count, Read
  <2>2. Deferred' = 0
    <3>1. InFlight' = notifiers' + Deferred' + Notes(outbox') + Notes(socket') + Held' + Reads(inbox')
      BY Zenon DEF InFlight, Deferred, Notes, Held, Reads
    <3>2. TypeOK'
      BY TypeStep, Zenon
    <3>3. /\ notifiers' \in Nat /\ Notes(outbox') \in Nat /\ Notes(socket') \in Nat
          /\ Reads(inbox') \in Nat
      BY <3>2, QueueNat, Zenon DEF TypeOK, Messages
    <3>4. Deferred' \in Nat /\ Held' \in Nat
      BY Zenon DEF Deferred, Held, Count
    <3> QED BY <2>1, <3>1, <3>3, <3>4
  <2>3. deferNotification' /\ reader' # "idle"
    BY <1>1, Zenon DEF Read
  <2> QED BY <2>1, <2>2, <2>3, Zenon DEF Deferral
<1>2. CASE /\ SendNotification /\ UNCHANGED reader
           /\ InFlight' = InFlight + (IF canSendNotification THEN 1 ELSE 0)
  <2>1. (deferNotification' <=> reader' # "idle") /\ (deferredNotification' => deferNotification')
    BY <1>0, <1>2, Zenon DEF Deferral, SendNotification
  <2>2. ASSUME deferNotification' PROVE InFlight' = Deferred'
    <3>1. deferNotification /\ InFlight = Deferred
      BY <1>2, <2>2, Zenon DEF SendNotification, Deferral
    <3>2. notifiers = 0 /\ notifiers' = notifiers
      BY <1>2, <3>1, CountsNat, InFlightSum DEF SendNotification
    <3>3. /\ notifiers' + Deferred' = notifiers + Deferred + (IF canSendNotification THEN 1 ELSE 0)
          /\ Deferred' \in {0, 1}
      BY <1>2, SendNotificationCounts, Zenon
    <3> QED BY <1>2, <3>1, <3>2, <3>3, CountsNat
  <2> QED BY <2>1, <2>2, Zenon DEF Deferral
<1>3. CASE SendDeferredNotification
  <2>1. ~deferNotification' /\ ~deferredNotification' /\ reader' = "idle"
    BY <1>3, Zenon DEF SendDeferredNotification
  <2> QED BY <2>1, Zenon DEF Deferral
<1>4. CASE /\ UNCHANGED <<canSendNotification, deferNotification, deferredNotification>>
           /\ (reader' = "idle") <=> (reader = "idle")
           /\ InFlight' = InFlight
  <2>1. Deferred' = Deferred
    BY <1>4, Zenon DEF Deferred
  <2> QED BY <1>4, <2>1, Zenon DEF Deferral
<1> QED BY <1>1, <1>2, <1>3, <1>4, InFlightStep, Zenon

-----------------------------------------------------------------------------
(* The order of messages *)

\* A queue without notifications, or without replies.
LEMMA NoneCounted ==
  ASSUME NEW s \in Seq(Messages)
  PROVE  /\ Notes(s) = 0 => \A k \in DOMAIN s : s[k] # "notification"
         /\ (\A k \in DOMAIN s : s[k] \notin ReadReplies) => Replies(s) = 0
         /\ (\A k \in DOMAIN s : s[k] # "notification") => Notes(s) = 0
<1>1. \A m : CountIn(s, m) = 0 <=> \A k \in DOMAIN s : s[k] # m
  BY CountType, Zenon
<1> QED BY <1>1 DEF Notes, Replies, ReadReplies

\* Pushing a message keeps the order, if it is no reply or there is no notification.
LEMMA AheadAppend ==
  ASSUME NEW s \in Seq(Messages), NEW x \in Messages, Ahead(s),
         x \in ReadReplies => \A k \in DOMAIN s : s[k] # "notification"
  PROVE  Ahead(Append(s, x))
<1>1. /\ DOMAIN s = 1 .. Len(s) /\ Len(s) \in Nat /\ DOMAIN Append(s, x) = 1 .. (Len(s) + 1)
      /\ Append(s, x)[Len(s) + 1] = x /\ \A k \in DOMAIN s : Append(s, x)[k] = s[k]
  OBVIOUS
<1>2. SUFFICES ASSUME NEW i \in 1 .. (Len(s) + 1), NEW j \in 1 .. (Len(s) + 1),
                      Append(s, x)[i] = "notification", Append(s, x)[j] \in ReadReplies
               PROVE  j < i
  BY <1>1, Zenon DEF Ahead
<1>3. CASE j = Len(s) + 1
  <2>1. i = Len(s) + 1 \/ i \in DOMAIN s
    BY <1>1
  <2> QED BY <1>1, <1>2, <1>3, <2>1, Zenon DEF ReadReplies
<1>4. CASE j # Len(s) + 1 /\ i = Len(s) + 1
  BY <1>1, <1>4
<1>5. CASE j # Len(s) + 1 /\ i # Len(s) + 1
  <2>1. i \in DOMAIN s /\ j \in DOMAIN s
    BY <1>1, <1>5
  <2> QED BY <1>1, <1>2, <2>1, Zenon DEF Ahead
<1> QED BY <1>3, <1>4, <1>5

\* Taking the first message keeps the order, and no reply is behind it if it is a
\* notification.
LEMMA AheadTail ==
  ASSUME NEW s \in Seq(Messages), s # <<>>, Ahead(s)
  PROVE  /\ Ahead(Tail(s))
         /\ Head(s) = "notification" => \A k \in DOMAIN s : s[k] \notin ReadReplies
<1>1. /\ DOMAIN s = 1 .. Len(s) /\ Len(s) \in Nat \ {0} /\ DOMAIN Tail(s) = 1 .. (Len(s) - 1)
      /\ Head(s) = s[1] /\ \A k \in DOMAIN Tail(s) : Tail(s)[k] = s[k + 1]
  OBVIOUS
<1>2. Ahead(Tail(s))
  <2>1. SUFFICES ASSUME NEW i \in DOMAIN Tail(s), NEW j \in DOMAIN Tail(s),
                        Tail(s)[i] = "notification", Tail(s)[j] \in ReadReplies
                 PROVE  j < i
    BY Zenon DEF Ahead
  <2>2. i + 1 \in DOMAIN s /\ j + 1 \in DOMAIN s /\ s[i + 1] = "notification" /\ s[j + 1] \in ReadReplies
    BY <1>1, <2>1
  <2>3. j + 1 < i + 1
    BY <2>2, Zenon DEF Ahead
  <2> QED BY <1>1, <2>3
<1>3. ASSUME Head(s) = "notification", NEW k \in DOMAIN s PROVE s[k] \notin ReadReplies
  <2>1. 1 \in DOMAIN s /\ s[1] = "notification" /\ ~(k < 1)
    BY <1>1, <1>3
  <2> QED BY <2>1, Zenon DEF Ahead
<1> QED BY <1>2, <1>3, Zenon

\* While a read is answered there is no notification in the channel.
LEMMA DeferralKeepsOut ==
  ASSUME TypeOK, Deferral, deferNotification
  PROVE  Notes(outbox) = 0 /\ Notes(socket) = 0
<1>1. InFlight = Deferred
  BY DEF Deferral
<1>2. Deferred = notifiers + Deferred + Notes(outbox) + Notes(socket) + Held + Reads(inbox)
  BY <1>1, InFlightSum
<1>3. /\ notifiers \in Nat /\ Deferred \in Nat /\ Held \in Nat
      /\ Notes(outbox) \in Nat /\ Notes(socket) \in Nat /\ Reads(inbox) \in Nat
  BY CountsNat
<1> QED BY <1>2, <1>3

\* Nothing is in a new channel.
LEMMA OrderInit == Init => ReplyAhead
  BY DEF Init, ReplyAhead, Ahead

\* The reply to a read is pushed while notifications are deferred, so none is ahead of it,
\* and the outbox moves to the socket in order.
LEMMA OrderStep == TypeOK /\ Deferral /\ ReplyAhead /\ [Next]_vars => ReplyAhead'
<1> SUFFICES ASSUME TypeOK, Deferral, ReplyAhead, [Next]_vars PROVE ReplyAhead' OBVIOUS
<1>0. /\ outbox \in Seq(Messages) /\ socket \in Seq(Messages)
      /\ DOMAIN outbox = 1 .. Len(outbox) /\ Len(outbox) \in Nat
      /\ DOMAIN socket = 1 .. Len(socket) /\ Len(socket) \in Nat
  BY QueuesSeq
<1>1. ASSUME NEW x \in Messages, outbox' = Append(outbox, x), socket' = socket,
             x \in ReadReplies => Notes(outbox) = 0 /\ Notes(socket) = 0
      PROVE  ReplyAhead'
  <2>1. Ahead(outbox') /\ Ahead(socket')
    BY <1>0, <1>1, NoneCounted, AheadAppend DEF ReplyAhead
  <2>2. ASSUME NEW i \in DOMAIN socket', NEW j \in DOMAIN outbox'
        PROVE  ~(socket'[i] = "notification" /\ outbox'[j] \in ReadReplies)
    <3>1. CASE j \in DOMAIN outbox
      BY <1>0, <1>1, <2>2, <3>1 DEF ReplyAhead
    <3>2. CASE j = Len(outbox) + 1
      BY <1>0, <1>1, <2>2, <3>2, NoneCounted
    <3> QED BY <1>0, <1>1, <3>1, <3>2
  <2> QED BY <2>1, <2>2 DEF ReplyAhead
<1>2. CASE PushNotification
  BY <1>1, <1>2 DEF PushNotification, Messages, ReadReplies
<1>3. CASE ReadReply
  <2>1. answer \in Messages
    BY DEF TypeOK, Messages
  <2>2. deferNotification
    BY <1>3 DEF ReadReply, Deferral
  <2> QED BY <1>1, <1>3, <2>1, <2>2, DeferralKeepsOut DEF ReadReply
<1>4. CASE ModifyReply
  BY <1>1, <1>4 DEF ModifyReply, Messages, ReadReplies
<1>5. CASE SendMany
  <2> DEFINE h == Head(outbox)
  <2>1. outbox # <<>> /\ socket' = Append(socket, h) /\ outbox' = Tail(outbox)
    BY <1>5 DEF SendMany
  <2>2. /\ h \in Messages /\ 1 \in DOMAIN outbox /\ h = outbox[1]
        /\ \A j \in DOMAIN Tail(outbox) : j + 1 \in DOMAIN outbox /\ Tail(outbox)[j] = outbox[j + 1]
    BY <1>0, <2>1
  <2>3. /\ DOMAIN Append(socket, h) = 1 .. (Len(socket) + 1) /\ Append(socket, h)[Len(socket) + 1] = h
        /\ \A i \in DOMAIN socket : Append(socket, h)[i] = socket[i]
    BY <1>0, <2>2
  <2> HIDE DEF h
  <2>4. Ahead(socket')
    <3>1. h \in ReadReplies => \A i \in DOMAIN socket : socket[i] # "notification"
      BY <2>2 DEF ReplyAhead
    <3> QED BY <1>0, <2>1, <2>2, <3>1, AheadAppend DEF ReplyAhead
  <2>5. Ahead(outbox') /\ (h = "notification" => \A k \in DOMAIN outbox : outbox[k] \notin ReadReplies)
    BY <1>0, <2>1, AheadTail DEF ReplyAhead, h
  <2>6. ASSUME NEW i \in DOMAIN socket', NEW j \in DOMAIN outbox'
        PROVE  ~(socket'[i] = "notification" /\ outbox'[j] \in ReadReplies)
    <3>1. j + 1 \in DOMAIN outbox /\ outbox'[j] = outbox[j + 1]
      BY <2>1, <2>2, <2>6
    <3>2. CASE i \in DOMAIN socket
      BY <2>1, <2>3, <3>1, <3>2 DEF ReplyAhead
    <3>3. CASE i = Len(socket) + 1
      BY <2>1, <2>3, <2>5, <3>1, <3>3
    <3> QED BY <1>0, <2>1, <2>3, <2>6, <3>2, <3>3
  <2> QED BY <2>4, <2>5, <2>6 DEF ReplyAhead
<1>6. CASE ClientReceive
  <2>1. socket # <<>> /\ socket' = Tail(socket) /\ outbox' = outbox
    BY <1>6 DEF ClientReceive
  <2>2. Ahead(socket') /\ Ahead(outbox')
    BY <1>0, <2>1, AheadTail DEF ReplyAhead
  <2>3. \A i \in DOMAIN socket' : i + 1 \in DOMAIN socket /\ socket'[i] = socket[i + 1]
    BY <1>0, <2>1
  <2> QED BY <2>1, <2>2, <2>3 DEF ReplyAhead
<1>7. CASE UNCHANGED <<outbox, socket>>
  BY <1>7 DEF ReplyAhead
<1> QED
  BY <1>2, <1>3, <1>4, <1>5, <1>6, <1>7, Zenon DEF Next, vars, Quiet, CheckForEvents, SetupSocket, SetupCheck,
     Read, ReadFill, SendDeferredNotification, Modify, Notify, Vanish, ReceivedElsewhere, WaiterPeek,
     WaiterResume, ClientRead, ClientModify

-----------------------------------------------------------------------------
(* Replies *)

\* A message at the head of the socket is counted.
LEMMA HeadCounted ==
  ASSUME TypeOK, socket # <<>>
  PROVE  /\ Head(socket) \in Messages
         /\ Head(socket) = "notification" => Notes(socket) > 0
         /\ Head(socket) \in ReadReplies => Replies(socket) > 0
         /\ Head(socket) = "modified" => Answers(socket) > 0
<1>1. socket \in Seq(Messages) /\ Tail(socket) \in Seq(Messages)
  BY QueuesSeq
<1>2. Notes(Tail(socket)) \in Nat /\ Replies(Tail(socket)) \in Nat /\ Answers(Tail(socket)) \in Nat
  BY <1>1, QueueNat, Zenon
<1>3. /\ Head(socket) \in Messages
      /\ Notes(Tail(socket)) = Notes(socket) - (IF Head(socket) = "notification" THEN 1 ELSE 0)
      /\ Replies(Tail(socket)) = Replies(socket) - (IF Head(socket) \in ReadReplies THEN 1 ELSE 0)
      /\ Answers(Tail(socket)) = Answers(socket) - (IF Head(socket) = "modified" THEN 1 ELSE 0)
  BY <1>1, QueueTail
<1>4. Notes(socket) \in Nat /\ Replies(socket) \in Nat /\ Answers(socket) \in Nat
  BY <1>1, QueueNat
<1> QED BY <1>2, <1>3, <1>4

\* The client gets no notification while it waits for a read reply: the notification would
\* be ahead of the reply in the channel, or there while a read is answered.
LEMMA NoNotificationInRead ==
  ASSUME TypeOK, OneUnacknowledged, OneReply, Deferral, ReplyAhead,
         socket # <<>>, Head(socket) = "notification"
  PROVE  client # "read"
<1> SUFFICES ASSUME client = "read" PROVE FALSE OBVIOUS
<1>0. socket \in Seq(Messages) /\ outbox \in Seq(Messages) /\ 1 \in DOMAIN socket /\ socket[1] = "notification"
  BY QueuesSeq
<1>1. Notes(socket) > 0
  BY HeadCounted
<1>2. Reads(inbox) = 0
  <2>1. InFlight <= 1
    BY DEF OneUnacknowledged, Count
  <2>2. notifiers + Deferred + Notes(outbox) + Notes(socket) + Held + Reads(inbox) <= 1
    BY <2>1, InFlightSum
  <2>3. /\ notifiers \in Nat /\ Deferred \in Nat /\ Notes(outbox) \in Nat /\ Notes(socket) \in Nat
        /\ Held \in Nat /\ Reads(inbox) \in Nat
    BY CountsNat
  <2> QED BY <1>1, <2>2, <2>3
<1>3. Filling = 0
  <2>1. ~deferNotification
    BY <1>1, DeferralKeepsOut
  <2> QED BY <2>1 DEF Deferral, Filling, Count
<1>4. Replies(socket) = 0
  BY <1>0, AheadTail, NoneCounted DEF ReplyAhead
<1>5. Replies(outbox) = 0
  <2>1. \A j \in DOMAIN outbox : outbox[j] \notin ReadReplies
    BY <1>0 DEF ReplyAhead
  <2> QED BY <1>0, <2>1, NoneCounted
<1>6. Reads(inbox) + Filling + Replies(outbox) + Replies(socket) = 1
  BY DEF OneReply, Reading, Waiting, Count
<1> QED BY <1>2, <1>3, <1>4, <1>5, <1>6

\* A reply comes to a client that waits for it.
LEMMA ReplyExpected ==
  ASSUME TypeOK, OneReply, socket # <<>>, Head(socket) # "notification"
  PROVE  Head(socket) \in Expected
<1>1. Head(socket) \in ReadReplies \/ Head(socket) = "modified"
  BY HeadCounted DEF Messages, ReadReplies
<1>2. CASE Head(socket) \in ReadReplies
  <2>1. Reads(inbox) + Filling + Replies(outbox) + Replies(socket) > 0
    BY <1>2, CountsNat, HeadCounted
  <2>2. client = "read"
    BY <2>1 DEF OneReply, Reading, Waiting, Count
  <2> QED BY <1>2, <2>2 DEF Expected, ReadReplies
<1>3. CASE Head(socket) = "modified"
  <2>1. Modifies(inbox) + Modifying + Answers(outbox) + Answers(socket) > 0
    BY <1>3, CountsNat, HeadCounted
  <2>2. client = "modify"
    BY <2>1 DEF OneReply, Reading, Waiting, Count
  <2> QED BY <1>3, <2>2 DEF Expected
<1> QED BY <1>1, <1>2, <1>3

\* So the client never aborts.
LEMMA KeptStep ==
  TypeOK /\ OneUnacknowledged /\ OneReply /\ Deferral /\ ReplyAhead /\ KeptInOrder /\ [Next]_vars
    => KeptInOrder'
<1> SUFFICES ASSUME TypeOK, OneUnacknowledged, OneReply, Deferral, ReplyAhead, KeptInOrder, [Next]_vars
             PROVE  KeptInOrder'
  OBVIOUS
<1>1. CASE ClientReceive
  BY <1>1, NoNotificationInRead, ReplyExpected DEF ClientReceive, KeptInOrder
<1>2. CASE UNCHANGED client
  BY <1>2 DEF KeptInOrder
<1>3. CASE ClientRead \/ ClientModify
  BY <1>3 DEF ClientRead, ClientModify, KeptInOrder
<1> QED
  BY <1>1, <1>2, <1>3, Zenon DEF Next, vars, clientVars, Quiet, PushNotification, SendMany, CheckForEvents,
     SetupSocket, SetupCheck, Read, ReadFill, ReadReply, SendDeferredNotification, Modify, ModifyReply,
     Notify, Vanish, ReceivedElsewhere, WaiterPeek, WaiterResume

\* No request has been made of a new channel.
LEMMA ReplyInit == Init => OneReply
<1> SUFFICES ASSUME Init PROVE OneReply OBVIOUS
<1>1. /\ Reads(inbox) = 0 /\ Modifies(inbox) = 0 /\ Replies(outbox) = 0 /\ Replies(socket) = 0
      /\ Answers(outbox) = 0 /\ Answers(socket) = 0
  BY QueueEmpty DEF Init
<1>2. Filling = 0 /\ Modifying = 0 /\ client = "idle"
  BY Zenon DEF Init, Filling, Modifying, Count
<1> QED BY <1>1, <1>2 DEF OneReply, Reading, Waiting, Count

\* The reply to a request: the request is in the inbox, then the reply is being made, then in
\* the outbox, then in the socket, and the client waits until it has received it.
LEMMA ReplyStep ==
  TypeOK /\ OneUnacknowledged /\ OneReply /\ Deferral /\ ReplyAhead /\ KeptInOrder /\ [Next]_vars
    => OneReply'
<1> SUFFICES ASSUME TypeOK, OneUnacknowledged, OneReply, Deferral, ReplyAhead, KeptInOrder, [Next]_vars
             PROVE  OneReply'
  OBVIOUS
<1> USE DEF eventVars, noteVars, clientVars
<1>0. /\ Reading = Reads(inbox) + Filling + Replies(outbox) + Replies(socket)
      /\ Waiting = Modifies(inbox) + Modifying + Answers(outbox) + Answers(socket)
  BY DEF OneReply
<1>g. SUFFICES /\ Reading' = Reads(inbox') + Filling' + Replies(outbox') + Replies(socket')
               /\ Waiting' = Modifies(inbox') + Modifying' + Answers(outbox') + Answers(socket')
  BY DEF OneReply
<1>t. /\ Reads(inbox) \in Nat /\ Filling \in Nat /\ Replies(outbox) \in Nat /\ Replies(socket) \in Nat
      /\ Modifies(inbox) \in Nat /\ Modifying \in Nat /\ Answers(outbox) \in Nat /\ Answers(socket) \in Nat
  BY CountsNat
<1>c. /\ reader' = reader => Filling' = Filling
      /\ (modifier' = modifier) => Modifying' = Modifying
      /\ client' = client => Reading' = Reading /\ Waiting' = Waiting
  BY DEF Filling, Modifying, Reading, Waiting
<1>1. ASSUME UNCHANGED <<inbox, outbox, socket, client, modifier>>, Filling' = Filling
      PROVE  OneReply'
  <2>1. Reading' = Reading /\ Waiting' = Waiting /\ Modifying' = Modifying
    BY <1>1, <1>c
  <2> QED BY <1>0, <1>1, <2>1 DEF OneReply
<1>2. CASE PushNotification
  <2>1. Replies(outbox') = Replies(outbox) /\ Answers(outbox') = Answers(outbox)
    BY <1>2, <1>t, QueuesSeq, QueueAppend DEF PushNotification, Messages, ReadReplies
  <2>s. /\ Reading' = Reading /\ Waiting' = Waiting /\ Reads(inbox') = Reads(inbox)
        /\ Modifies(inbox') = Modifies(inbox) /\ Filling' = Filling /\ Modifying' = Modifying
        /\ Replies(socket') = Replies(socket) /\ Answers(socket') = Answers(socket)
    BY <1>c, <1>2 DEF PushNotification
  <2> QED BY <1>0, <1>t, <2>1, <2>s
<1>3. CASE SendMany
  <2>1. /\ Head(outbox) \in Messages
        /\ Replies(outbox') = Replies(outbox) - (IF Head(outbox) \in ReadReplies THEN 1 ELSE 0)
        /\ Answers(outbox') = Answers(outbox) - (IF Head(outbox) = "modified" THEN 1 ELSE 0)
    BY <1>3, QueuesSeq, QueueTail DEF SendMany
  <2>2. /\ Replies(socket') = Replies(socket) + (IF Head(outbox) \in ReadReplies THEN 1 ELSE 0)
        /\ Answers(socket') = Answers(socket) + (IF Head(outbox) = "modified" THEN 1 ELSE 0)
    BY <1>3, <2>1, QueuesSeq, QueueAppend DEF SendMany
  <2>s. /\ Reading' = Reading /\ Waiting' = Waiting /\ Reads(inbox') = Reads(inbox)
        /\ Modifies(inbox') = Modifies(inbox) /\ Filling' = Filling /\ Modifying' = Modifying
    BY <1>c, <1>3 DEF SendMany
  <2> QED BY <1>0, <1>t, <2>1, <2>2, <2>s
<1>4. CASE Read
  <2>1. Reads(inbox') = Reads(inbox) - 1 /\ Modifies(inbox') = Modifies(inbox)
    BY <1>4, QueuesSeq, RequestMoves DEF Read
  <2>2. Filling = 0 /\ Filling' = 1
    BY <1>4 DEF Read, Filling, Count
  <2>s. /\ Reading' = Reading /\ Waiting' = Waiting /\ Modifying' = Modifying
        /\ Replies(outbox') = Replies(outbox) /\ Replies(socket') = Replies(socket) /\ Answers(outbox') = Answers(outbox)
        /\ Answers(socket') = Answers(socket)
    BY <1>c, <1>4 DEF Read
  <2> QED BY <1>0, <1>t, <2>1, <2>2, <2>s
<1>5. CASE ReadReply
  <2>1. Replies(outbox') = Replies(outbox) + 1 /\ Answers(outbox') = Answers(outbox)
    <3>1. answer \in Messages /\ answer \in ReadReplies /\ answer # "modified"
      BY DEF TypeOK, Messages, ReadReplies
    <3> QED BY <1>5, <1>t, <3>1, QueuesSeq, QueueAppend DEF ReadReply
  <2>2. Filling = 1 /\ Filling' = 0
    BY <1>5 DEF ReadReply, Filling, Count
  <2>s. /\ Reading' = Reading /\ Waiting' = Waiting /\ Reads(inbox') = Reads(inbox)
        /\ Modifies(inbox') = Modifies(inbox) /\ Modifying' = Modifying /\ Replies(socket') = Replies(socket)
        /\ Answers(socket') = Answers(socket)
    BY <1>c, <1>5, Zenon DEF ReadReply
  <2> QED BY <1>0, <1>t, <2>1, <2>2, <2>s
<1>6. CASE ReadFill \/ SendDeferredNotification
  <2>1. Filling' = Filling
    BY <1>6 DEF ReadFill, SendDeferredNotification, Filling, Count
  <2> QED BY <1>1, <1>6, <2>1 DEF ReadFill, SendDeferredNotification, OneReply
<1>7. CASE Modify
  <2>1. Modifies(inbox') = Modifies(inbox) - 1 /\ Reads(inbox') = Reads(inbox)
    BY <1>7, QueuesSeq, RequestMoves DEF Modify
  <2>2. Modifying' = 1
    BY <1>7 DEF Modify, Modifying, Count
  <2>3. Modifies(inbox') \in Nat
    BY TypeStep, QueueNat DEF TypeOK
  <2>4. Waiting <= 1
    BY DEF Waiting, Count
  <2>5. Modifying = 0
    BY <1>0, <1>t, <2>1, <2>3, <2>4
  <2>s. /\ Reading' = Reading /\ Waiting' = Waiting /\ Filling' = Filling
        /\ Replies(outbox') = Replies(outbox) /\ Replies(socket') = Replies(socket) /\ Answers(outbox') = Answers(outbox)
        /\ Answers(socket') = Answers(socket)
    BY <1>c, <1>7 DEF Modify
  <2> QED BY <1>0, <1>t, <2>1, <2>2, <2>5, <2>s
<1>8. CASE ModifyReply
  <2>1. Answers(outbox') = Answers(outbox) + 1 /\ Replies(outbox') = Replies(outbox)
    BY <1>8, <1>t, QueuesSeq, QueueAppend DEF ModifyReply, Messages, ReadReplies
  <2>2. Modifying = 1 /\ Modifying' = 0
    BY <1>8 DEF ModifyReply, Modifying, Count
  <2>s. /\ Reading' = Reading /\ Waiting' = Waiting /\ Reads(inbox') = Reads(inbox)
        /\ Modifies(inbox') = Modifies(inbox) /\ Filling' = Filling /\ Replies(socket') = Replies(socket)
        /\ Answers(socket') = Answers(socket)
    BY <1>c, <1>8 DEF ModifyReply
  <2> QED BY <1>0, <1>t, <2>1, <2>2, <2>s
<1>9. CASE ClientRead
  <2>1. Reads(inbox') = Reads(inbox) + 1 /\ Modifies(inbox') = Modifies(inbox)
    BY <1>9, QueuesSeq, RequestMoves DEF ClientRead
  <2>2. Reading = 0 /\ Reading' = 1 /\ Waiting = 0 /\ Waiting' = 0
    BY <1>9 DEF ClientRead, Reading, Waiting, Count
  <2>s. /\ Filling' = Filling /\ Modifying' = Modifying /\ Replies(outbox') = Replies(outbox)
        /\ Replies(socket') = Replies(socket) /\ Answers(outbox') = Answers(outbox) /\ Answers(socket') = Answers(socket)
    BY <1>c, <1>9 DEF ClientRead
  <2> QED BY <1>0, <1>t, <2>1, <2>2, <2>s
<1>10. CASE ClientModify
  <2>1. Reads(inbox') = Reads(inbox) /\ Modifies(inbox') = Modifies(inbox) + 1
    BY <1>10, QueuesSeq, RequestMoves DEF ClientModify
  <2>2. Reading = 0 /\ Reading' = 0 /\ Waiting = 0 /\ Waiting' = 1
    BY <1>10 DEF ClientModify, Reading, Waiting, Count
  <2>s. /\ Filling' = Filling /\ Modifying' = Modifying /\ Replies(outbox') = Replies(outbox)
        /\ Replies(socket') = Replies(socket) /\ Answers(outbox') = Answers(outbox) /\ Answers(socket') = Answers(socket)
    BY <1>c, <1>10 DEF ClientModify
  <2>3. Reading' = Reads(inbox') + Filling' + Replies(outbox') + Replies(socket')
    BY <1>0, <2>1, <2>2, <2>s
  <2>4. Waiting' = Modifies(inbox') + Modifying' + Answers(outbox') + Answers(socket')
    <3>0. Modifies(inbox) + Modifying + Answers(outbox) + Answers(socket) = 0
      BY <1>0, <2>2
    <3>t. Modifies(inbox) \in Nat /\ Modifying \in Nat /\ Answers(outbox) \in Nat /\ Answers(socket) \in Nat
      BY <1>t
    <3>1. Modifies(inbox) = 0 /\ Modifying = 0 /\ Answers(outbox) = 0 /\ Answers(socket) = 0
      <4>1. \A a, b, c, d \in Nat : a + b + c + d = 0 => a = 0 /\ b = 0 /\ c = 0 /\ d = 0
        OBVIOUS
      <4> QED BY <3>0, <3>t, <4>1, Zenon
    <3>2. Modifies(inbox') = 1 /\ Modifying' = 0 /\ Answers(outbox') = 0 /\ Answers(socket') = 0
      BY <2>1, <2>s, <3>1
    <3> QED BY <2>2, <3>2
  <2> QED BY <2>3, <2>4, Zenon
<1>11. CASE ClientReceive
  <2>1. /\ Head(socket) \in Messages
        /\ Replies(socket') = Replies(socket) - (IF Head(socket) \in ReadReplies THEN 1 ELSE 0)
        /\ Answers(socket') = Answers(socket) - (IF Head(socket) = "modified" THEN 1 ELSE 0)
    BY <1>11, QueuesSeq, QueueTail DEF ClientReceive
  <2>2. /\ Reading' = Reading - (IF Head(socket) \in ReadReplies THEN 1 ELSE 0)
        /\ Waiting' = Waiting - (IF Head(socket) = "modified" THEN 1 ELSE 0)
    <3>1. CASE Head(socket) = "notification"
      <4>1. client' = client
        BY <1>11, <3>1, NoNotificationInRead DEF ClientReceive
      <4>2. Reading \in Nat /\ Waiting \in Nat
        BY DEF Reading, Waiting, Count
      <4> QED BY <1>c, <3>1, <4>1, <4>2 DEF ReadReplies
    <3>2. CASE Head(socket) # "notification"
      <4>1. Head(socket) \in Expected /\ client' = "idle"
        BY <1>11, <3>2, ReplyExpected DEF ClientReceive
      <4>2. \/ client = "read" /\ Head(socket) \in ReadReplies /\ Head(socket) # "modified"
            \/ client = "modify" /\ Head(socket) \notin ReadReplies /\ Head(socket) = "modified"
        BY <4>1, Zenon DEF Expected, ReadReplies, TypeOK
      <4> QED BY <4>1, <4>2 DEF Reading, Waiting, Count
    <3> QED BY <3>1, <3>2
  <2>s. /\ Reads(inbox') = Reads(inbox) /\ Modifies(inbox') = Modifies(inbox) /\ Filling' = Filling
        /\ Modifying' = Modifying /\ Replies(outbox') = Replies(outbox) /\ Answers(outbox') = Answers(outbox)
    BY <1>c, <1>11, Zenon DEF ClientReceive
  <2> QED BY <1>0, <1>t, <2>1, <2>2, <2>s
<1>12. CASE UNCHANGED <<inbox, outbox, socket, client, modifier, reader>>
  BY <1>1, <1>c, <1>12, Zenon DEF OneReply
<1> QED
  BY <1>2, <1>3, <1>4, <1>5, <1>6, <1>7, <1>8, <1>9, <1>10, <1>11, <1>12, Zenon DEF Next, vars, Quiet,
     CheckForEvents, SetupSocket, SetupCheck, Notify, Vanish, ReceivedElsewhere, WaiterPeek, WaiterResume

\* A new channel satisfies the invariant.
LEMMA ChannelInit == Init => ChannelInv
  BY TypeInit, UnackInit, ReplyInit, DeferralInit, OrderInit DEF ChannelInv, Init, KeptInOrder

\* Every step keeps it.
LEMMA ChannelStep == ChannelInv /\ [Next]_vars => ChannelInv'
  BY TypeStep, UnackStep, ReplyStep, DeferralStep, OrderStep, KeptStep DEF ChannelInv

\* The channel's messages are kept in order: the client's libkqueue never meets a notification
\* while it waits for the reply to a read, nor a reply it does not wait for, so it never
\* aborts; whatever events, modifications and threads there are, and however late the socket
\* takes messages.
THEOREM OrderCorrect == Spec => []KeptInOrder
<1>1. Init => ChannelInv
  BY ChannelInit
<1>2. ChannelInv /\ [Next]_vars => ChannelInv'
  BY ChannelStep
<1>3. ChannelInv => KeptInOrder
  BY DEF ChannelInv
<1> QED BY <1>1, <1>2, <1>3, PTL DEF Spec

-----------------------------------------------------------------------------
(* Missed notifications *)

\* The end of a port is announced as it comes, and stays announced until a read fills its
\* reply with it.
LEMMA EndStep == TypeOK /\ EndAnnounced /\ [Next]_vars => EndAnnounced'
<1> SUFFICES ASSUME TypeOK, EndAnnounced, [Next]_vars, vanished' = "yes"
             PROVE  kind' # "process" /\ (~canSendNotification' \/ reader' = "fill")
  BY DEF EndAnnounced
<1> USE DEF eventVars, noteVars
<1>1. CASE Vanish
  BY <1>1 DEF Vanish, SendNotification
<1>2. CASE vanished = "yes"
  <2>1. kind' = kind
    BY Zenon DEF Next, vars, Quiet, PushNotification, SendMany, CheckForEvents, SetupSocket, SetupCheck, Read,
       ReadFill, ReadReply, SendDeferredNotification, Modify, ModifyReply, Notify, Vanish, ReceivedElsewhere,
       WaiterPeek, WaiterResume, ClientRead, ClientModify, ClientReceive
  <2>2. CASE ~canSendNotification
    <3>1. Read \/ ~canSendNotification'
      BY <2>2, Zenon DEF Next, vars, Quiet, SendNotification, PushNotification, SendMany, CheckForEvents, SetupSocket,
         SetupCheck, ReadFill, ReadReply, SendDeferredNotification, Modify, ModifyReply, Notify, Vanish,
         ReceivedElsewhere, WaiterPeek, WaiterResume, ClientRead, ClientModify, ClientReceive
    <3>2. Read => reader' = "fill"
      BY DEF Read
    <3> QED BY <1>2, <2>1, <3>1, <3>2, Zenon DEF EndAnnounced
  <2>3. CASE reader = "fill"
    <3>1. ReadFill \/ reader' = "fill"
      BY <2>3, Zenon DEF Next, vars, Quiet, PushNotification, SendMany, CheckForEvents, SetupSocket,
         SetupCheck, Read, ReadReply, SendDeferredNotification, Modify, ModifyReply, Notify, Vanish,
         ReceivedElsewhere, WaiterPeek, WaiterResume, ClientRead, ClientModify, ClientReceive
    <3>2. ~ReadFill
      BY <1>2, Zenon DEF ReadFill
    <3> QED BY <1>2, <2>1, <3>1, <3>2, Zenon DEF EndAnnounced
  <2> QED BY <1>2, <2>2, <2>3, Zenon DEF EndAnnounced
<1>3. vanished = "yes" \/ Vanish
  BY Zenon DEF Next, vars, Quiet, PushNotification, SendMany, CheckForEvents, SetupSocket, SetupCheck, Read,
     ReadFill, ReadReply, SendDeferredNotification, Modify, ModifyReply, Notify, ReceivedElsewhere,
     WaiterPeek, WaiterResume, ClientRead, ClientModify, ClientReceive
<1> QED BY <1>1, <1>2, <1>3

\* What covers events stays: a reply in the outbox leaves it with a check scheduled, a check
\* notifies if it finds events, and a notification that is acknowledged begins a read.
LEMMA CoveredStep ==
  ASSUME TypeOK, [Next]_vars, Covered, events # <<>>
  PROVE  Covered'
<1> USE DEF eventVars, noteVars
<1>0. outbox \in Seq(Messages) /\ checks \in Nat
  BY QueuesSeq DEF TypeOK
<1>1. CASE ~canSendNotification
  <2>1. Read \/ ~canSendNotification'
    BY <1>1, Zenon DEF Next, vars, Quiet, SendNotification, PushNotification, SendMany, CheckForEvents, SetupSocket,
       SetupCheck, ReadFill, ReadReply, SendDeferredNotification, Modify, ModifyReply, Notify, Vanish,
       ReceivedElsewhere, WaiterPeek, WaiterResume, ClientRead, ClientModify, ClientReceive
  <2>2. Read => reader' = "fill"
    BY DEF Read
  <2> QED BY <2>1, <2>2, Zenon DEF Covered
<1>2. CASE reader = "fill" \/ reader = "reply"
  <2>1. ReadReply \/ reader' = "fill" \/ reader' = "reply"
    BY <1>2, Zenon DEF Next, vars, Quiet, PushNotification, SendMany, CheckForEvents, SetupSocket,
       SetupCheck, Read, ReadFill, SendDeferredNotification, Modify, ModifyReply, Notify, Vanish,
       ReceivedElsewhere, WaiterPeek, WaiterResume, ClientRead, ClientModify, ClientReceive
  <2>2. ASSUME ReadReply PROVE \E k \in DOMAIN outbox' : outbox'[k] # "notification"
    <3>1. outbox' = Append(outbox, answer) /\ answer # "notification" /\ answer \in Messages
      BY <2>2 DEF ReadReply, TypeOK, Messages
    <3>2. Len(outbox) + 1 \in DOMAIN outbox' /\ outbox'[Len(outbox) + 1] = answer
      BY <1>0, <3>1
    <3> QED BY <3>1, <3>2, Zenon
  <2> QED BY <2>1, <2>2, Zenon DEF Covered
<1>3. CASE \E k \in DOMAIN outbox : outbox[k] # "notification"
  <2>1. PICK k \in DOMAIN outbox : outbox[k] # "notification"
    BY <1>3
  <2>2. CASE SendMany
    <3>1. CASE Head(outbox) # "notification"
      BY <1>0, <2>2, <3>1 DEF SendMany, Covered
    <3>2. CASE Head(outbox) = "notification"
      <4>0. outbox' = Tail(outbox)
        BY <2>2, Zenon DEF SendMany
      <4>1. k \in 2 .. Len(outbox)
        BY <1>0, <2>1, <3>2
      <4>2. k - 1 \in DOMAIN outbox' /\ outbox'[k - 1] = outbox[k]
        BY <1>0, <4>0, <4>1
      <4> QED BY <2>1, <4>2 DEF Covered
    <3> QED BY <3>1, <3>2
  <2>3. ASSUME NEW x \in Messages, outbox' = Append(outbox, x) PROVE Covered'
    <3>1. k \in DOMAIN outbox' /\ outbox'[k] = outbox[k]
      BY <1>0, <2>1, <2>3
    <3> QED BY <2>1, <3>1 DEF Covered
  <2>4. CASE PushNotification \/ ReadReply \/ ModifyReply
    <3>1. answer \in Messages /\ "notification" \in Messages /\ "modified" \in Messages
      BY DEF TypeOK, Messages
    <3> QED BY <2>3, <2>4, <3>1 DEF PushNotification, ReadReply, ModifyReply
  <2>5. CASE outbox' = outbox
    BY <2>1, <2>5 DEF Covered
  <2> QED
    BY <2>2, <2>4, <2>5, Zenon DEF Next, vars, Quiet, CheckForEvents, SetupSocket, SetupCheck, Read, ReadFill,
       SendDeferredNotification, Modify, Notify, Vanish, ReceivedElsewhere, WaiterPeek, WaiterResume,
       ClientRead, ClientModify, ClientReceive
<1>4. CASE checks > 0
  <2>0. CheckForEvents \/ checks' \in {checks, checks + 1}
    BY Zenon DEF Next, vars, Quiet, PushNotification, SendMany, SetupSocket, SetupCheck, Read,
       ReadFill, ReadReply, SendDeferredNotification, Modify, ModifyReply, Notify, Vanish, ReceivedElsewhere,
       WaiterPeek, WaiterResume, ClientRead, ClientModify, ClientReceive
  <2>1. CheckForEvents \/ checks' > 0
    BY <1>0, <1>4, <2>0
  <2>2. CheckForEvents => ~canSendNotification'
    BY DEF CheckForEvents, SendNotification
  <2> QED BY <2>1, <2>2, Zenon DEF Covered
<1> QED BY <1>1, <1>2, <1>3, <1>4, Zenon DEF Covered

\* An event that comes to an empty queue is announced, the end of setup looks for events, and
\* a read that leaves events behind has its reply to send.
LEMMA MissedStep == TypeOK /\ EndAnnounced /\ NoMissedNotification /\ [Next]_vars => NoMissedNotification'
<1> SUFFICES ASSUME TypeOK, EndAnnounced, NoMissedNotification, [Next]_vars,
                    phase' = "ready", kind' # "portset", events' # <<>> \/ vanished' = "yes"
             PROVE  Covered'
  BY DEF NoMissedNotification
<1> USE DEF eventVars, noteVars
<1>0. EndAnnounced'
  BY EndStep
<1>1. CASE vanished' = "yes"
  BY <1>0, <1>1 DEF EndAnnounced, Covered
<1>2. CASE events' # <<>> /\ vanished' # "yes"
  <2>1. kind' = kind
    BY Zenon DEF Next, vars, Quiet, PushNotification, SendMany, CheckForEvents, SetupSocket, SetupCheck, Read,
       ReadFill, ReadReply, SendDeferredNotification, Modify, ModifyReply, Notify, Vanish, ReceivedElsewhere,
       WaiterPeek, WaiterResume, ClientRead, ClientModify, ClientReceive
  <2>2. CASE SetupCheck
    BY <1>2, <2>2, Zenon DEF SetupCheck, SendNotification, Covered
  <2>3. phase = "ready" \/ SetupCheck
    BY Zenon DEF Next, vars, Quiet, PushNotification, SendMany, CheckForEvents, SetupSocket, Read,
       ReadFill, ReadReply, SendDeferredNotification, Modify, ModifyReply, Notify, Vanish, ReceivedElsewhere,
       WaiterPeek, WaiterResume, ClientRead, ClientModify, ClientReceive
  <2>4. CASE phase = "ready" /\ events # <<>>
    BY <2>1, <2>4, CoveredStep DEF NoMissedNotification
  <2>5. CASE phase = "ready" /\ events = <<>>
    <3>1. ReadFill \/ \E e \in EventKinds : Notify(e)
      BY <1>2, <2>5, Zenon DEF Next, vars, Quiet, PushNotification, SendMany, CheckForEvents, SetupSocket,
         SetupCheck, Read, ReadReply, SendDeferredNotification, Modify, ModifyReply, Vanish, ReceivedElsewhere,
         WaiterPeek, WaiterResume, ClientRead, ClientModify, ClientReceive
    <3>2. CASE ReadFill
      BY <3>2 DEF ReadFill, Covered
    <3>3. ASSUME NEW e \in EventKinds, Notify(e) PROVE Covered'
      <4>1. Announced
        BY <2>1, <2>5, Zenon DEF Announced, TypeOK, Kinds
      <4> QED BY <3>3, <4>1 DEF Notify, SendNotification, Covered
    <3> QED BY <3>1, <3>2, <3>3, Zenon
  <2> QED BY <2>2, <2>3, <2>4, <2>5, Zenon
<1> QED BY <1>1, <1>2

\* No notification is missed: once setup is done, whenever a port or a process has events, or
\* the end of a port has not been told, a notification is unacknowledged, a read is being
\* answered, a reply is in the outbox, or a check for events is scheduled.
THEOREM NotificationCorrect == Spec => []NoMissedNotification
<1>1. Init => IndInv
  BY ChannelInit DEF IndInv, Init, EndAnnounced, NoMissedNotification
<1>2. IndInv /\ [Next]_vars => IndInv'
  <2>1. ChannelInv => TypeOK
    BY DEF ChannelInv
  <2> QED BY <2>1, ChannelStep, EndStep, MissedStep DEF IndInv
<1>3. IndInv => NoMissedNotification
  BY DEF IndInv
<1> QED BY <1>1, <1>2, <1>3, PTL DEF Spec

=============================================================================
