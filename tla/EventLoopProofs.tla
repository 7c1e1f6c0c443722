-------------------------- MODULE EventLoopProofs --------------------------
(***************************************************************************)
(* Proofs that the main loop never sleeps on work and never calls back the *)
(* wrong monitor, for any peers, monitors, addresses and bounds.           *)
(*                                                                         *)
(* NothingStranded is about epoll_wait only; Sending, Blocked and Hearing  *)
(* say of every point of the loop who still answers for an outbox or a     *)
(* socket that is not empty.                                               *)
(* RightMonitor needs that reported monitors are not freed, and that those *)
(* which are not freed have addresses of their own: Kept.                  *)
(***************************************************************************)
EXTENDS EventLoop, TLAPS

Message == [to : Peers, number : 1 .. MaxPosts]

\* The queues and the sockets of the peers keep their types.
OutType ==
  /\ posted \in 0 .. MaxPosts
  /\ outbox \in Seq(Message)
  /\ queued \in [Peers -> 0 .. Room]
  /\ delivered \in [Peers -> Seq(1 .. MaxPosts)]
  /\ dead \subseteq Peers

\* So do the flags, the counters and the monitors.
FlagType == canRead \in BOOLEAN /\ canWrite \in BOOLEAN /\ wakeup \in BOOLEAN /\ armed \in BOOLEAN

CountType ==
  /\ pc \in {"receive", "drain", "send", "arm", "wait", "dispatch", "callback"}
  /\ edges \subseteq {"in", "out"}
  /\ writes \in Nat /\ socket \in Nat /\ arrived \in Nat /\ raises \in Nat

MonitorType ==
  /\ where \in [Monitors -> {"none", "monitors", "dying", "freed"}]
  /\ address \in [Monitors -> Addresses \cup {NoAddress}]
  /\ raised \subseteq Monitors /\ batch \subseteq Monitors
  /\ event \in Monitors \cup {NoMonitor} /\ target \in Monitors \cup {NoMonitor}

\* The parts make up the type invariant.
LEMMA TypeSplits == TypeOK <=> OutType /\ FlagType /\ CountType /\ MonitorType
BY DEF TypeOK, OutType, FlagType, CountType, MonitorType, Message

\* They hold initially.
LEMMA TypeInit == Init => OutType /\ FlagType /\ CountType /\ MonitorType
<1> SUFFICES ASSUME Init PROVE OutType /\ FlagType /\ CountType /\ MonitorType OBVIOUS
<1> USE EventLoopAssumption
<1>1. OutType
  BY DEF Init, OutType
<1>2. FlagType
  BY Zenon DEF Init, FlagType
<1>3. CountType /\ MonitorType
  BY DEF Init, CountType, MonitorType
<1> QED BY <1>1, <1>2, <1>3

\* A step keeps the types of the queues.
LEMMA OutStep ==
  ASSUME OutType, [Next]_vars
  PROVE  OutType'
<1> USE EventLoopAssumption
<1>0. /\ outbox \in Seq(Message)
      /\ outbox # <<>> => Head(outbox) \in Message /\ Tail(outbox) \in Seq(Message)
      /\ posted \in Nat
  BY DEF OutType
<1>1. CASE Send
  <2>1. PICK msg \in Message :
          /\ outbox # <<>> /\ msg = Head(outbox) /\ outbox' = Tail(outbox)
          /\ queued[msg.to] < Room
          /\ queued' = [queued EXCEPT ![msg.to] = @ + 1]
          /\ delivered' = [delivered EXCEPT ![msg.to] = Append(@, msg.number)]
    BY <1>0, <1>1, Zenon DEF Send
  <2>2. msg.to \in Peers /\ msg.number \in 1 .. MaxPosts
    BY DEF Message
  <2>3. Append(delivered[msg.to], msg.number) \in Seq(1 .. MaxPosts)
    BY <2>2 DEF OutType
  <2>4. queued' \in [Peers -> 0 .. Room]
    BY <2>1, <2>2 DEF OutType
  <2>5. delivered' \in [Peers -> Seq(1 .. MaxPosts)]
    BY <2>1, <2>2, <2>3 DEF OutType
  <2> QED BY <1>0, <1>1, <2>1, <2>4, <2>5 DEF Send, OutType
<1>2. CASE SendDropped
  BY <1>0, <1>2 DEF SendDropped, OutType
<1>3. ASSUME NEW p \in Peers, Push(p) PROVE OutType'
  <2>1. posted + 1 \in 1 .. MaxPosts
    BY <1>3 DEF Push, OutType
  <2>2. MessageTo(p, posted + 1) \in Message
    BY <2>1 DEF MessageTo, Message
  <2>3. outbox' \in Seq(Message)
    BY <1>0, <1>3, <2>2 DEF Push
  <2> QED BY <1>3, <2>1, <2>3 DEF Push, OutType
<1>4. ASSUME NEW p \in Peers, PeerReads(p) \/ PeerDies(p) PROVE OutType'
  <2>1. queued \in [Peers -> 0 .. Room] /\ Room \in Nat
    BY EventLoopAssumption DEF OutType
  <2>2. CASE PeerReads(p)
    <3>1. queued[p] > 0 /\ queued' = [queued EXCEPT ![p] = queued[p] - 1]
      BY <2>2 DEF PeerReads
    <3>2. queued[p] - 1 \in 0 .. Room
      BY <2>1, <3>1
    <3>3. queued' \in [Peers -> 0 .. Room]
      BY <2>1, <3>1, <3>2
    <3> QED BY <2>2, <3>3 DEF PeerReads, OutType
  <2>3. CASE PeerDies(p)
    <3>1. queued' \in [Peers -> 0 .. Room]
      BY <2>1, <2>3 DEF PeerDies
    <3> QED BY <2>3, <3>1 DEF PeerDies, OutType
  <2> QED BY <1>4, <2>2, <2>3
<1>5. CASE UNCHANGED outVars
  BY <1>5 DEF outVars, OutType
<1> QED
  BY <1>1, <1>2, <1>3, <1>4, <1>5 DEF Next, Loop, vars, Receive, Drain, SendBlocked, SendDone, Arm, Wait,
     CallbackHandles, CallbackRemoves, Reap, Lookup, Interrupted, ClientSends, WriteWakeup, Raise,
     RemoveMonitor, AddMonitor

\* A step keeps the types of the flags.
LEMMA FlagStep ==
  ASSUME FlagType, [Next]_vars
  PROVE  FlagType'
<1>1. CASE Receive \/ Drain \/ SendBlocked \/ Arm
  BY <1>1, Zenon DEF Receive, Drain, SendBlocked, Arm, FlagType, wakeVars
<1>2. CASE Wait
  BY <1>2 DEF Wait, FlagType
<1>3. CASE WriteWakeup
  BY <1>3 DEF WriteWakeup, FlagType, loopVars
<1>4. CASE UNCHANGED <<canRead, canWrite, wakeup, armed>>
  BY <1>4 DEF FlagType
<1> QED
  BY <1>1, <1>2, <1>3, <1>4 DEF Next, Loop, vars, Send, SendDropped, SendDone, CallbackHandles,
     CallbackRemoves, Reap, Lookup, Interrupted, ClientSends, PeerReads, PeerDies, Push, Raise,
     RemoveMonitor, AddMonitor, loopVars, wakeVars

\* A step keeps the types of the counters.
LEMMA CountStep ==
  ASSUME CountType, [Next]_vars
  PROVE  CountType'
<1>1. edges' \subseteq {"in", "out"}
  <2>1. edges' \subseteq edges \cup {"in", "out"}
    BY DEF Next, Loop, vars, Receive, Drain, SendBlocked, Send, SendDropped, SendDone, Arm, Wait,
       Interrupted, CallbackHandles, CallbackRemoves, Reap, Lookup, ClientSends, WriteWakeup, PeerReads,
       PeerDies, Push, Raise, RemoveMonitor, AddMonitor
  <2> QED BY <2>1 DEF CountType
<1>2. pc' \in {"receive", "drain", "send", "arm", "wait", "dispatch", "callback"}
  BY DEF CountType, Next, Loop, vars, loopVars, Receive, Drain, SendBlocked, Send, SendDropped, SendDone,
     Arm, Wait, Interrupted, CallbackHandles, CallbackRemoves, Reap, Lookup, ClientSends, WriteWakeup,
     PeerReads, PeerDies, Push, Raise, RemoveMonitor, AddMonitor
<1>3. writes' \in Nat
  <2>1. writes \in Nat
    BY DEF CountType
  <2>2. writes' = writes \/ writes' = writes + 1 \/ (writes > 0 /\ writes' = writes - 1)
    BY DEF Next, Loop, vars, wakeVars, Receive, Drain, SendBlocked, Send, SendDropped, SendDone, Arm,
       Wait, Interrupted, CallbackHandles, CallbackRemoves, Remove, Reap, Lookup, ClientSends,
       WriteWakeup, PeerReads, PeerDies, Push, Raise, RemoveMonitor, AddMonitor
  <2> QED BY <2>1, <2>2
<1>4. socket' \in Nat /\ arrived' \in Nat
  <2>1. socket \in Nat /\ arrived \in Nat
    BY Zenon DEF CountType
  <2>2. /\ socket' = socket \/ socket' = 0 \/ socket' = socket + 1
        /\ arrived' = arrived \/ arrived' = arrived + 1
    BY DEF Next, Loop, vars, inVars, Receive, Drain, SendBlocked, Send, SendDropped, SendDone, Arm,
       Wait, Interrupted, CallbackHandles, CallbackRemoves, Reap, Lookup, ClientSends,
       WriteWakeup, PeerReads, PeerDies, Push, Raise, RemoveMonitor, AddMonitor
  <2> QED BY <2>1, <2>2
<1>5. raises' \in Nat
  <2>1. raises \in Nat
    BY Zenon DEF CountType
  <2>2. raises' = raises \/ raises' = raises + 1
    BY Zenon DEF Next, Loop, vars, monVars, Receive, Drain, SendBlocked, Send, SendDropped, SendDone, Arm,
       Wait, Interrupted, CallbackHandles, CallbackRemoves, Reap, Lookup, ClientSends,
       WriteWakeup, PeerReads, PeerDies, Push, Raise, RemoveMonitor, AddMonitor
  <2> QED BY <2>1, <2>2
<1> QED BY <1>1, <1>2, <1>3, <1>4, <1>5 DEF CountType

\* A step keeps the types of the monitors.
LEMMA MonitorStep ==
  ASSUME MonitorType, [Next]_vars
  PROVE  MonitorType'
<1>1. CASE Wait \/ CallbackHandles \/ CallbackRemoves
  BY <1>1 DEF Wait, CallbackHandles, CallbackRemoves, Remove, MonitorType, monVars
<1>2. CASE Reap
  BY <1>2 DEF Reap, In, MonitorType, batchVars
<1>3. ASSUME NEW m \in Monitors, Lookup(m) PROVE MonitorType'
  BY <1>3 DEF Lookup, MonitorType, monVars
<1>4. ASSUME NEW m \in Monitors, Raise(m) \/ RemoveMonitor(m) PROVE MonitorType'
  BY <1>4 DEF Raise, RemoveMonitor, Remove, MonitorType, batchVars
<1>5. ASSUME NEW m \in Monitors, NEW a \in Addresses, AddMonitor(m, a) PROVE MonitorType'
  BY <1>5 DEF AddMonitor, MonitorType, batchVars
<1>6. CASE UNCHANGED <<monVars, batchVars>>
  BY <1>6 DEF MonitorType, monVars, batchVars
<1> QED
  BY <1>1, <1>2, <1>3, <1>4, <1>5, <1>6 DEF Next, Loop, vars, Receive, Drain, SendBlocked, Send,
     SendDropped, SendDone, Arm, Interrupted, ClientSends, WriteWakeup, PeerReads, PeerDies, Push

\* The fields of the loop, its queues and its monitors keep their types, for any peers,
\* monitors and bounds; in particular no peer's socket is written to beyond its room.
THEOREM TypeCorrect == Spec => []TypeOK
<1>1. Init => TypeOK
  BY TypeInit, TypeSplits
<1>2. TypeOK /\ [Next]_vars => TypeOK'
  <2> SUFFICES ASSUME TypeOK, [Next]_vars PROVE TypeOK' OBVIOUS
  <2>1. OutType' /\ FlagType' /\ CountType' /\ MonitorType'
    BY TypeSplits, OutStep, FlagStep, CountStep, MonitorStep
  <2> QED BY <2>1 DEF TypeOK, OutType, FlagType, CountType, MonitorType, Message
<1> QED BY <1>1, <1>2, PTL DEF Spec

-----------------------------------------------------------------------------
(* No work is slept on *)

\* While sending is possible, the outbox is only left unsent with a write to the eventfd
\* made or to come, and the wait that follows has it armed.
Sending ==
  /\ pc = "send" => canWrite
  /\ pc = "wait" /\ canWrite => armed
  /\ pc \in {"arm", "wait"} /\ canWrite /\ outbox # <<>> => wakeup \/ writes > 0

\* While it is not, there is a message, and its peer is full or has made room since.
Blocked == ~canWrite => outbox # <<>> /\ (Full(Head(outbox).to) \/ "out" \in edges)

\* A message in the socket has its edge pending, or the loop knows of it and will look
\* before it waits.
Hearing ==
  /\ socket > 0 => "in" \in edges \/ canRead
  /\ canRead => pc \in {"dispatch", "callback", "receive"}

\* A step keeps Sending.
LEMMA SendingStep ==
  ASSUME TypeOK, Sending, [Next]_vars
  PROVE  Sending'
<1>0. writes \in Nat /\ outbox \in Seq([to : Peers, number : 1 .. MaxPosts])
  BY DEF TypeOK
<1>1. CASE Receive \/ Drain \/ SendBlocked \/ SendDone \/ Arm
  BY <1>1 DEF Receive, Drain, SendBlocked, SendDone, Arm, Sending, wakeVars, outVars
<1>2. CASE Send \/ SendDropped
  BY <1>2 DEF Send, SendDropped, Sending, loopVars, wakeVars
<1>3. CASE Wait \/ Interrupted \/ CallbackHandles \/ Reap \/ CallbackRemoves \/ \E m \in Monitors : Lookup(m)
  BY <1>3 DEF Wait, Interrupted, CallbackHandles, Reap, CallbackRemoves, Lookup, Sending, wakeVars, outVars
<1>4. CASE WriteWakeup
  BY <1>4 DEF WriteWakeup, Sending, loopVars, outVars
<1>5. ASSUME NEW p \in Peers, Push(p) PROVE Sending'
  BY <1>0, <1>5 DEF Push, Sending, loopVars
<1>6. ASSUME NEW m \in Monitors, RemoveMonitor(m) PROVE Sending'
  BY <1>0, <1>6 DEF RemoveMonitor, Remove, Sending, loopVars, outVars
<1>7. CASE UNCHANGED <<loopVars, wakeVars, outbox>>
  BY <1>7 DEF Sending, loopVars, wakeVars
<1> QED
  BY <1>1, <1>2, <1>3, <1>4, <1>5, <1>6, <1>7 DEF Next, Loop, vars, ClientSends, PeerReads, PeerDies,
     Raise, AddMonitor, outVars

\* A message put behind others leaves the first one where it is.
LEMMA AppendKeepsHead ==
  ASSUME NEW S, NEW s \in Seq(S), NEW m \in S, s # <<>>, NEW t, t = Append(s, m)
  PROVE  t # <<>> /\ Head(t) = Head(s)
<1>1. Len(s) \in Nat /\ Len(s) > 0 /\ t \in Seq(S) /\ Len(t) = Len(s) + 1 /\ t[1] = s[1]
  OBVIOUS
<1>2. t # <<>>
  BY <1>1
<1> QED BY <1>1, <1>2

\* A step keeps Blocked.
LEMMA BlockedStep ==
  ASSUME TypeOK, Sending, Blocked, [Next]_vars
  PROVE  Blocked'
<1> USE EventLoopAssumption
<1>0. /\ outbox \in Seq([to : Peers, number : 1 .. MaxPosts])
      /\ queued \in [Peers -> 0 .. Room] /\ canWrite \in BOOLEAN
      /\ outbox # <<>> => Head(outbox).to \in Peers
  <2>1. outbox \in Seq(Message) /\ queued \in [Peers -> 0 .. Room] /\ canWrite \in BOOLEAN
    BY DEF TypeOK, Message
  <2>2. outbox # <<>> => Head(outbox) \in Message
    BY <2>1
  <2> QED BY <2>1, <2>2 DEF Message
<1>1. CASE SendBlocked
  BY <1>1 DEF SendBlocked, Blocked, Full, outVars
<1>2. CASE Send \/ SendDropped
  BY <1>2 DEF Send, SendDropped, Blocked, Sending, loopVars
<1>3. CASE Wait
  <2>1. "out" \in edges => canWrite'
    BY <1>3, Zenon DEF Wait, Reports
  <2>2. canWrite => canWrite'
    BY <1>3, Zenon DEF Wait
  <2> QED BY <1>3, <2>1, <2>2 DEF Wait, Blocked, Full, outVars
<1>4. ASSUME NEW p \in Peers, PeerReads(p) PROVE Blocked'
  BY <1>4 DEF PeerReads, Blocked, loopVars
<1>5. ASSUME NEW p \in Peers, PeerDies(p) PROVE Blocked'
  <2> SUFFICES ASSUME ~canWrite' PROVE outbox' # <<>> /\ (Full(Head(outbox).to)' \/ "out" \in edges')
    BY DEF Blocked
  <2>1. outbox' = outbox /\ outbox # <<>> /\ (Full(Head(outbox).to) \/ "out" \in edges)
    BY <1>5 DEF PeerDies, Blocked, loopVars
  <2>2. CASE "out" \in edges
    BY <1>5, <2>1, <2>2 DEF PeerDies
  <2>3. CASE Full(Head(outbox).to) /\ Head(outbox).to = p
    BY <1>0, <1>5, <2>1, <2>3 DEF PeerDies, Full
  <2>4. CASE Full(Head(outbox).to) /\ Head(outbox).to # p
    BY <1>0, <1>5, <2>1, <2>4 DEF PeerDies, Full
  <2> QED BY <2>1, <2>2, <2>3, <2>4
<1>6. ASSUME NEW p \in Peers, Push(p) PROVE Blocked'
  <2>1. outbox # <<>> => outbox' # <<>> /\ Head(outbox') = Head(outbox)
    <3>1. MessageTo(p, posted + 1) \in Message /\ outbox \in Seq(Message)
      BY <1>0, <1>6 DEF Push, MessageTo, Message, TypeOK
    <3>2. outbox' = Append(outbox, MessageTo(p, posted + 1))
      BY <1>6 DEF Push
    <3> QED BY <3>1, <3>2, AppendKeepsHead
  <2> QED BY <1>6, <2>1 DEF Push, Blocked, Full, loopVars
<1>7. CASE ClientSends
  BY <1>7 DEF ClientSends, Blocked, Full, loopVars, outVars
<1>8. CASE UNCHANGED <<canWrite, outVars, edges>>
  BY <1>8, Zenon DEF Blocked, Full, outVars
<1> QED
  BY <1>1, <1>2, <1>3, <1>4, <1>5, <1>6, <1>7, <1>8 DEF Next, Loop, vars, loopVars, Receive, Drain,
     SendDone, Arm, Interrupted, CallbackHandles, CallbackRemoves, Reap, Lookup, WriteWakeup, Raise,
     RemoveMonitor, AddMonitor

\* A step keeps Hearing.
LEMMA HearingStep ==
  ASSUME TypeOK, Hearing, [Next]_vars
  PROVE  Hearing'
<1>1. CASE Receive
  BY <1>1 DEF Receive, Hearing
<1>2. CASE Wait
  <2>1. socket > 0 => "in" \in edges
    BY <1>2 DEF Wait, Hearing
  <2>2. "in" \in edges /\ socket > 0 => canRead'
    BY <1>2, Zenon DEF Wait, Reports
  <2> QED BY <1>2, <2>1, <2>2 DEF Wait, Hearing, inVars
<1>3. CASE ClientSends
  BY <1>3 DEF ClientSends, Hearing, loopVars
<1>4. ASSUME NEW p \in Peers, PeerReads(p) \/ PeerDies(p) PROVE Hearing'
  BY <1>4 DEF PeerReads, PeerDies, Hearing, loopVars, inVars
<1>5. CASE Interrupted \/ CallbackHandles \/ CallbackRemoves \/ Reap \/ \E m \in Monitors : Lookup(m)
  BY <1>5 DEF Interrupted, CallbackHandles, CallbackRemoves, Reap, Lookup, Hearing, inVars
<1>6. CASE Drain \/ SendBlocked \/ SendDone \/ Arm
  BY <1>6 DEF Drain, SendBlocked, SendDone, Arm, Hearing, inVars
<1>7. CASE UNCHANGED <<loopVars, edges, inVars>>
  BY <1>7 DEF Hearing, loopVars, inVars
<1> QED
  BY <1>1, <1>2, <1>3, <1>4, <1>5, <1>6, <1>7 DEF Next, Loop, vars, Send, SendDropped, WriteWakeup,
     Push, Raise, RemoveMonitor, AddMonitor

\* For any peers, clients and bounds, whatever other threads push or remove and whenever
\* they get to write to the eventfd: the loop does not wait in epoll_wait for an event that
\* has happened already.
THEOREM NeverSleepsOnWork == Spec => []NothingStranded
<1>1. Init => Sending /\ Blocked /\ Hearing
  BY DEF Init, Sending, Blocked, Hearing
<1>2. TypeOK /\ Sending /\ Blocked /\ Hearing /\ [Next]_vars => (Sending /\ Blocked /\ Hearing)'
  BY SendingStep, BlockedStep, HearingStep
<1>3. TypeOK /\ Sending /\ Blocked /\ Hearing => NothingStranded
  BY Zenon DEF TypeOK, Sending, Blocked, Hearing, NothingStranded
<1> QED BY <1>1, <1>2, <1>3, TypeCorrect, PTL DEF Spec

-----------------------------------------------------------------------------
(* Events reach their monitor *)

\* Monitors that are not destroyed have addresses of their own, and those with an event
\* pending or reported are not destroyed.
Listed(m) == where[m] \in {"monitors", "dying"}

Kept ==
  /\ \A m \in raised : where[m] = "monitors"
  /\ \A m \in batch : Listed(m)
  /\ \A m, n \in Monitors : Listed(m) /\ Listed(n) /\ address[m] = address[n] => m = n

\* A step keeps Kept.
LEMMA KeptStep ==
  ASSUME TypeOK, Kept, [Next]_vars
  PROVE  Kept'
<1>0. /\ where \in [Monitors -> {"none", "monitors", "dying", "freed"}]
      /\ address \in [Monitors -> Addresses \cup {NoAddress}]
      /\ raised \subseteq Monitors /\ batch \subseteq Monitors
  BY DEF TypeOK
<1>1. CASE Wait
  BY <1>1 DEF Wait, Kept, Listed, monVars
<1>2. CASE Reap
  BY <1>0, <1>2 DEF Reap, In, Kept, Listed, batchVars
<1>3. ASSUME NEW m \in Monitors, Lookup(m) PROVE Kept'
  BY <1>3 DEF Lookup, Kept, Listed, monVars
<1>4. ASSUME NEW m \in Monitors, Raise(m) PROVE Kept'
  BY <1>4 DEF Raise, In, Kept, Listed, batchVars
<1>5. ASSUME NEW m, where[m] = "monitors", Remove(m), UNCHANGED <<address, batch>> PROVE Kept'
  BY <1>0, <1>5 DEF Remove, Kept, Listed
<1>6. CASE CallbackHandles
  BY <1>6 DEF CallbackHandles, Kept, Listed
<1>7. ASSUME NEW m \in Monitors, NEW a \in Addresses, AddMonitor(m, a) PROVE Kept'
  BY <1>0, <1>7 DEF AddMonitor, In, Kept, Listed, batchVars
<1>8. CASE UNCHANGED <<where, address, raised, batch>>
  BY <1>8 DEF Kept, Listed
<1> QED
  BY <1>1, <1>2, <1>3, <1>4, <1>5, <1>6, <1>7, <1>8 DEF Next, Loop, vars, In, Receive, Drain, SendBlocked,
     Send, SendDropped, SendDone, Arm, Interrupted, ClientSends, WriteWakeup, PeerReads, PeerDies, Push,
     CallbackRemoves, RemoveMonitor, monVars, batchVars

\* For any monitors and any reuse of addresses: the callback that runs is that of the monitor
\* whose event epoll_wait reported, because removed monitors are destroyed only at the end
\* of an iteration.
THEOREM EventsReachTheirMonitor == Spec => []RightMonitor
<1>1. Init => Kept /\ RightMonitor
  BY Zenon DEF Init, Kept, Listed, RightMonitor
<1>2. TypeOK /\ Kept /\ RightMonitor /\ [Next]_vars => (Kept /\ RightMonitor)'
  <2> SUFFICES ASSUME TypeOK, Kept, RightMonitor, [Next]_vars PROVE RightMonitor'
    BY KeptStep, Zenon
  <2>1. ASSUME NEW m \in Monitors, Lookup(m) PROVE RightMonitor'
    BY <2>1 DEF Lookup, In, Kept, Listed, RightMonitor
  <2>2. CASE pc' # "callback"
    BY <2>2 DEF RightMonitor
  <2>3. CASE UNCHANGED <<pc, event, target>>
    BY <2>3 DEF RightMonitor
  <2> QED
    BY <2>1, <2>2, <2>3 DEF Next, Loop, vars, loopVars, batchVars, Receive, Drain, SendBlocked, Send,
       SendDropped, SendDone, Arm, Wait, Interrupted, ClientSends, WriteWakeup, PeerReads, PeerDies, Push,
       CallbackHandles, CallbackRemoves, Reap, Raise, RemoveMonitor, AddMonitor
<1> QED BY <1>1, <1>2, TypeCorrect, PTL DEF Spec

-----------------------------------------------------------------------------
(* The outbox and the loop implement Mailbox *)

\* The outbox holds messages in the order they were posted in.
Ordered ==
  /\ \A i, j \in DOMAIN outbox : i < j => outbox[i].number < outbox[j].number
  /\ \A i \in DOMAIN outbox : outbox[i].number <= posted

\* The outbox as a sequence of messages.
LEMMA OutboxFacts ==
  ASSUME TypeOK
  PROVE  /\ outbox \in Seq(Message) /\ DOMAIN outbox = 1 .. Len(outbox) /\ Len(outbox) \in Nat
         /\ \A i \in DOMAIN outbox : outbox[i].to \in Peers /\ outbox[i].number \in Nat
         /\ posted \in Nat
<1>1. outbox \in Seq(Message) /\ posted \in Nat
  BY EventLoopAssumption DEF TypeOK, Message
<1>2. \A i \in DOMAIN outbox : outbox[i] \in Message
  BY <1>1
<1>3. \A m \in Message : m.to \in Peers /\ m.number \in Nat
  BY EventLoopAssumption DEF Message
<1> QED BY <1>1, <1>2, <1>3

\* Taking the first message off the outbox: who it was for has one message less, the first
\* of theirs, and the order is kept.
LEMMA TakeFirst ==
  ASSUME TypeOK, Ordered, outbox # <<>>, outbox' = Tail(outbox), posted' = posted,
         NEW p, NEW n, p = Head(outbox).to, n = Head(outbox).number
  PROVE  /\ Ordered'
         /\ p \in Peers /\ n \in Pending(p) /\ \A k \in Pending(p) : n <= k
         /\ Pending(p)' = Pending(p) \ {n}
         /\ \A q \in Peers \ {p} : Pending(q)' = Pending(q)
<1>0. /\ outbox \in Seq(Message) /\ DOMAIN outbox = 1 .. Len(outbox) /\ Len(outbox) \in Nat
      /\ \A i \in DOMAIN outbox : outbox[i].to \in Peers /\ outbox[i].number \in Nat
      /\ posted \in Nat
  BY OutboxFacts
<1>1. /\ 1 \in DOMAIN outbox /\ p = outbox[1].to /\ n = outbox[1].number
      /\ \A i \in DOMAIN outbox' : i \in Nat /\ i + 1 \in DOMAIN outbox /\ i + 1 # 1 /\ outbox'[i] = outbox[i + 1]
      /\ \A i \in DOMAIN outbox : i \in Nat /\ (i = 1 \/ (1 < i /\ i - 1 \in DOMAIN outbox' /\ outbox'[i - 1] = outbox[i]))
  BY <1>0
<1>2. \A i \in DOMAIN outbox : i # 1 => n < outbox[i].number
  BY <1>1 DEF Ordered
<1>3. Ordered'
  <2>1. ASSUME NEW i \in DOMAIN outbox', NEW j \in DOMAIN outbox', i < j
        PROVE  outbox'[i].number < outbox'[j].number
    <3>1. i + 1 \in DOMAIN outbox /\ j + 1 \in DOMAIN outbox /\ i + 1 < j + 1
      BY <1>1, <2>1
    <3>2. outbox[i + 1].number < outbox[j + 1].number
      BY <3>1 DEF Ordered
    <3> QED BY <1>1, <3>2
  <2>2. ASSUME NEW i \in DOMAIN outbox' PROVE outbox'[i].number <= posted'
    BY <1>1, <2>2 DEF Ordered
  <2> QED BY <2>1, <2>2 DEF Ordered
<1>4. p \in Peers /\ n \in Pending(p)
  BY <1>0, <1>1, Zenon DEF Pending
<1>5. ASSUME NEW k \in Pending(p) PROVE n <= k
  <2>1. PICK i \in DOMAIN outbox : k = outbox[i].number
    BY DEF Pending
  <2> QED BY <1>0, <1>1, <1>2, <2>1
<1>6. ASSUME NEW q, NEW k, k \in Pending(q)' PROVE k \in Pending(q) /\ k # n
  <2>1. PICK i \in DOMAIN outbox' : outbox'[i].to = q /\ k = outbox'[i].number
    BY <1>6 DEF Pending
  <2>2. i + 1 \in DOMAIN outbox /\ i + 1 # 1 /\ outbox[i + 1].to = q /\ k = outbox[i + 1].number
    BY <1>1, <2>1
  <2>3. n < k /\ n \in Nat /\ k \in Nat
    BY <1>0, <1>1, <1>2, <2>2
  <2> QED BY <2>2, <2>3 DEF Pending
<1>7. ASSUME NEW q, NEW k \in Pending(q), k # n \/ q # p PROVE k \in Pending(q)'
  <2>1. PICK i \in DOMAIN outbox : outbox[i].to = q /\ k = outbox[i].number
    BY DEF Pending
  <2>2. i # 1
    BY <1>1, <1>7, <2>1
  <2>3. i - 1 \in DOMAIN outbox' /\ outbox'[i - 1].to = q /\ k = outbox'[i - 1].number
    BY <1>1, <2>1, <2>2
  <2> QED BY <2>3 DEF Pending
<1>8. Pending(p)' = Pending(p) \ {n}
  BY <1>6, <1>7
<1>9. ASSUME NEW q \in Peers \ {p} PROVE Pending(q)' = Pending(q)
  <2>1. Pending(q)' \subseteq Pending(q)
    BY <1>6
  <2>2. Pending(q) \subseteq Pending(q)'
    BY <1>7
  <2> QED BY <2>1, <2>2, Zenon
<1> QED BY <1>3, <1>4, <1>5, <1>8, <1>9

\* A push adds the next number behind the others.
LEMMA PushLast ==
  ASSUME TypeOK, Ordered, NEW p \in Peers, outbox' = Append(outbox, MessageTo(p, posted + 1)),
         posted' = posted + 1, posted < MaxPosts
  PROVE  /\ Ordered'
         /\ Pending(p)' = Pending(p) \cup {posted + 1}
         /\ \A q \in Peers \ {p} : Pending(q)' = Pending(q)
<1> DEFINE m == MessageTo(p, posted + 1)
<1>0. /\ outbox \in Seq(Message) /\ DOMAIN outbox = 1 .. Len(outbox) /\ Len(outbox) \in Nat
      /\ \A i \in DOMAIN outbox : outbox[i].to \in Peers /\ outbox[i].number \in Nat
      /\ posted \in Nat
  BY OutboxFacts
<1>1. m \in Message /\ m.to = p /\ m.number = posted + 1
  BY <1>0, EventLoopAssumption DEF Message, MessageTo
<1> HIDE DEF m
<1>2. /\ DOMAIN outbox' = 1 .. (Len(outbox) + 1) /\ outbox'[Len(outbox) + 1] = m
      /\ \A i \in DOMAIN outbox : outbox'[i] = outbox[i]
  <2>1. outbox' = Append(outbox, m)
    BY DEF m
  <2> QED BY <1>0, <1>1, <2>1
<1>3. /\ \A i \in DOMAIN outbox' : i \in DOMAIN outbox \/ i = Len(outbox) + 1
      /\ \A i \in DOMAIN outbox : i \in DOMAIN outbox' /\ ~(Len(outbox) + 1 < i)
      /\ Len(outbox) + 1 \in DOMAIN outbox'
  BY <1>0, <1>2
<1>4. Ordered'
  <2>1. ASSUME NEW i \in DOMAIN outbox', NEW j \in DOMAIN outbox', i < j
        PROVE  outbox'[i].number < outbox'[j].number
    <3>1. i \in DOMAIN outbox
      BY <1>0, <1>2, <2>1
    <3>2. CASE j \in DOMAIN outbox
      BY <1>2, <2>1, <3>1, <3>2 DEF Ordered
    <3>3. CASE j = Len(outbox) + 1
      <4>1. outbox[i].number <= posted
        BY <3>1 DEF Ordered
      <4> QED BY <1>0, <1>1, <1>2, <3>1, <3>3, <4>1
    <3> QED BY <1>3, <3>2, <3>3
  <2>2. ASSUME NEW i \in DOMAIN outbox' PROVE outbox'[i].number <= posted'
    <3>1. CASE i \in DOMAIN outbox
      <4>1. outbox[i].number <= posted /\ outbox[i].number \in Nat
        BY <1>0, <3>1 DEF Ordered
      <4> QED BY <1>0, <1>2, <3>1, <4>1
    <3>2. CASE i = Len(outbox) + 1
      BY <1>0, <1>1, <1>2, <3>2
    <3> QED BY <1>3, <3>1, <3>2
  <2> QED BY <2>1, <2>2 DEF Ordered
<1>5. ASSUME NEW q, NEW k, k \in Pending(q)' PROVE k \in Pending(q) \/ (q = p /\ k = posted + 1)
  <2>1. PICK i \in DOMAIN outbox' : outbox'[i].to = q /\ k = outbox'[i].number
    BY <1>5 DEF Pending
  <2>2. CASE i \in DOMAIN outbox
    BY <1>2, <2>1, <2>2 DEF Pending
  <2>3. CASE i = Len(outbox) + 1
    BY <1>1, <1>2, <2>1, <2>3
  <2> QED BY <1>3, <2>2, <2>3
<1>6. ASSUME NEW q, NEW k \in Pending(q) PROVE k \in Pending(q)'
  <2>1. PICK i \in DOMAIN outbox : outbox[i].to = q /\ k = outbox[i].number
    BY DEF Pending
  <2>2. i \in DOMAIN outbox' /\ outbox'[i].to = q /\ k = outbox'[i].number
    BY <1>2, <1>3, <2>1
  <2> QED BY <2>2 DEF Pending
<1>7. posted + 1 \in Pending(p)'
  BY <1>1, <1>2, <1>3 DEF Pending
<1>8. Pending(p)' = Pending(p) \cup {posted + 1}
  BY <1>5, <1>6, <1>7
<1>9. ASSUME NEW q \in Peers \ {p} PROVE Pending(q)' = Pending(q)
  <2>1. Pending(q)' \subseteq Pending(q)
    BY <1>5
  <2>2. Pending(q) \subseteq Pending(q)'
    BY <1>6
  <2> QED BY <2>1, <2>2, Zenon
<1> QED BY <1>4, <1>8, <1>9

\* The mapped variable: what is pending for each peer.
Mail == [p \in Peers |-> Pending(p)]

\* A step of the loop or of another thread is a step of Mailbox, or none.
LEMMA MailboxStep ==
  ASSUME TypeOK, Ordered, [Next]_vars
  PROVE  Ordered' /\ [Posts!Next]_(Posts!vars)
<1>0. Mail = [p \in Peers |-> Pending(p)]
  BY DEF Mail
<1>1. CASE Send
  <2> DEFINE h == Head(outbox)
  <2>1. /\ outbox # <<>> /\ outbox' = Tail(outbox) /\ posted' = posted /\ dead' = dead
        /\ h.to \notin dead
        /\ delivered' = [delivered EXCEPT ![h.to] = Append(delivered[h.to], h.number)]
    BY <1>1 DEF Send
  <2>2. PICK p, n : p = h.to /\ n = h.number
    BY Zenon
  <2>3. /\ Ordered' /\ p \in Peers /\ n \in Pending(p) /\ \A k \in Pending(p) : n <= k
        /\ Pending(p)' = Pending(p) \ {n}
        /\ \A q \in Peers \ {p} : Pending(q)' = Pending(q)
    BY <2>1, <2>2, TakeFirst
  <2> HIDE DEF h
  <2>4. Mail[p] = Pending(p) /\ Mail' = [Mail EXCEPT ![p] = Mail[p] \ {n}]
    BY <2>3, Zenon DEF Mail
  <2>5. Posts!Deliver(p, n)
    <3>1. Posts!First(p, n)
      BY <2>3 DEF Posts!First
    <3>2. delivered' = [delivered EXCEPT ![p] = Append(delivered[p], n)] /\ p \notin dead
      BY <2>1, <2>2
    <3> QED BY <2>1, <2>4, <3>1, <3>2, Zenon DEF Posts!Deliver, Mail
  <2>6. Posts!Next
    BY <2>3, <2>5 DEF Posts!Next
  <2> QED BY <2>3, <2>6
<1>2. CASE SendDropped
  <2> DEFINE h == Head(outbox)
  <2>1. /\ outbox # <<>> /\ outbox' = Tail(outbox) /\ posted' = posted /\ dead' = dead
        /\ h.to \in dead /\ delivered' = delivered
    BY <1>2 DEF SendDropped
  <2>2. PICK p, n : p = h.to /\ n = h.number
    OBVIOUS
  <2>3. /\ Ordered' /\ p \in Peers /\ n \in Pending(p) /\ \A k \in Pending(p) : n <= k
        /\ Pending(p)' = Pending(p) \ {n}
        /\ \A q \in Peers \ {p} : Pending(q)' = Pending(q)
    BY <2>1, <2>2, TakeFirst
  <2> HIDE DEF h
  <2>4. Mail[p] = Pending(p) /\ Mail' = [Mail EXCEPT ![p] = Mail[p] \ {n}]
    BY <2>3, Zenon DEF Mail
  <2>5. Posts!GiveUp(p, n)
    <3>1. Posts!First(p, n)
      BY <2>3 DEF Posts!First
    <3>2. p \in dead
      BY <2>1, <2>2
    <3> QED BY <2>1, <2>4, <3>1, <3>2 DEF Posts!GiveUp, Mail
  <2>6. Posts!Next
    BY <2>3, <2>5 DEF Posts!Next
  <2> QED BY <2>3, <2>6
<1>3. ASSUME NEW p \in Peers, Push(p) PROVE Ordered' /\ Posts!Next
  <2>1. /\ posted < MaxPosts /\ posted' = posted + 1 /\ delivered' = delivered /\ dead' = dead
        /\ outbox' = Append(outbox, MessageTo(p, posted + 1))
    BY <1>3 DEF Push
  <2>2. /\ Ordered' /\ Pending(p)' = Pending(p) \cup {posted + 1}
        /\ \A q \in Peers \ {p} : Pending(q)' = Pending(q)
    BY <2>1, PushLast
  <2>3. Mail' = [Mail EXCEPT ![p] = Mail[p] \cup {posted + 1}]
    BY <2>2, Zenon DEF Mail
  <2>4. Posts!Post(p)
    BY <2>1, <2>3 DEF Posts!Post, Mail
  <2> QED BY <2>2, <2>4 DEF Posts!Next
<1>4. ASSUME NEW p \in Peers, PeerDies(p) PROVE Ordered' /\ Posts!Next
  <2>1. /\ p \notin dead /\ dead' = dead \cup {p}
        /\ posted' = posted /\ outbox' = outbox /\ delivered' = delivered
    BY <1>4 DEF PeerDies
  <2>2. Posts!Die(p)
    BY <2>1 DEF Posts!Die, Pending
  <2> QED BY <2>1, <2>2 DEF Posts!Next, Ordered
<1>5. ASSUME UNCHANGED <<outbox, posted, delivered, dead>> PROVE Ordered' /\ UNCHANGED Posts!vars
  BY <1>5 DEF Ordered, Pending, Posts!vars
<1>6. ASSUME NEW p \in Peers, PeerReads(p) PROVE Ordered' /\ UNCHANGED Posts!vars
  BY <1>5, <1>6 DEF PeerReads
<1>7. CASE UNCHANGED outVars
  BY <1>5, <1>7 DEF outVars
<1> QED
  BY <1>1, <1>2, <1>3, <1>4, <1>6, <1>7 DEF Next, Loop, vars, Receive, Drain, SendBlocked, SendDone, Arm, Wait,
     CallbackHandles, CallbackRemoves, Reap, Lookup, Interrupted, ClientSends, WriteWakeup, Raise,
     RemoveMonitor, AddMonitor

\* push, the loop and sendMany implement Mailbox, for any peers and any number of messages:
\* what reaches a peer does so in the order it was posted, once, and only what is for a dead
\* peer is given up, also when a full peer blocks the outbox in between.
THEOREM ImplementsMailbox == Spec => MailboxSpec
<1>1. Init => Ordered /\ Posts!Init
  <2> SUFFICES ASSUME Init PROVE Ordered /\ Posts!Init OBVIOUS
  <2>1. outbox = <<>> /\ posted = 0 /\ dead = {} /\ delivered = [p \in Peers |-> <<>>]
    BY DEF Init
  <2>2. \A p \in Peers : Pending(p) = {}
    <3>1. DOMAIN outbox = {}
      BY <2>1
    <3> QED BY <3>1 DEF Pending
  <2> QED BY <2>1, <2>2 DEF Ordered, Posts!Init
<1>2. TypeOK /\ Ordered /\ [Next]_vars => Ordered' /\ [Posts!Next]_(Posts!vars)
  BY MailboxStep
<1> QED BY <1>1, <1>2, TypeCorrect, PTL DEF Spec, MailboxSpec, Posts!Spec

=============================================================================
