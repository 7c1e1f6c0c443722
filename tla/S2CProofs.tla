----------------------------- MODULE S2CProofs -----------------------------
(***************************************************************************)
(* Proofs about server-to-client calls, for any number of performers,      *)
(* calls and interruptions: a client's call is in one place until it is    *)
(* answered, a performer gets the answer to its own request, and the       *)
(* client listens whenever it is sent a request.                           *)
(*                                                                         *)
(* The inductive invariant has five parts, which say where the turn, the   *)
(* client's call, the performer's request and the handshake through the    *)
(* signal handler are, and why replies are held back meanwhile.            *)
(***************************************************************************)
EXTENDS S2C, FiniteSetTheorems, TLAPS

Kinds == {"call", "enter", "perform", "exit"}
Labels == {"idle", "perform", "check", "signal", "green", "send", "reply", "take", "release", "exit"}
Messages == {Reply(kind) : kind \in Kinds} \cup {Request(p) : p \in Performers}

NoReplies(s) == \A i \in DOMAIN s : s[i][1] # "reply"
NoRequests(s) == \A i \in DOMAIN s : s[i][1] # "s2c"

\* The only reply in s is Reply(kind), the only request is Request(p).
OneReply(s, kind) ==
  \E i \in DOMAIN s : s[i] = Reply(kind) /\ \A j \in DOMAIN s : s[j][1] = "reply" => j = i
OneRequest(s, p) ==
  \E i \in DOMAIN s : s[i] = Request(p) /\ \A j \in DOMAIN s : s[j][1] = "s2c" => j = i

-----------------------------------------------------------------------------
(* The inductive invariant *)

ProofType ==
  /\ TypeOK
  /\ toClient \in Seq(Messages)

\* One performer at most has the turn, and the semaphore says whether one has.
HasTurn(p) == pc[p] \in {"check", "signal", "green", "send", "reply", "take", "release"}

Turn ==
  /\ perform \in {0, 1}
  /\ perform = 1 => \A p \in Performers : ~HasTurn(p)
  /\ \A p, q \in Performers : HasTurn(p) /\ HasTurn(q) => p = q

\* Where the client's call is.
Place(req, act, def) == requested = req /\ active = act /\ deferred = def

OnePlace ==
  \/ phase = "run" /\ Place(FALSE, None, None) /\ NoReplies(toClient)
  \/ phase \in Kinds /\ Place(TRUE, None, None) /\ NoReplies(toClient)
  \/ phase \in Kinds /\ Place(FALSE, phase, None) /\ NoReplies(toClient)
  \/ phase \in Kinds /\ Place(FALSE, None, phase) /\ NoReplies(toClient)
  \/ phase \in Kinds /\ Place(FALSE, None, None) /\ OneReply(toClient, phase)

\* Where the request of the performer that has sent one is.
InServer(queue, stored, count) == toServer = queue /\ s2cReply = stored /\ reply = count

Nowhere ==
  /\ NoRequests(toClient) /\ InServer(<<>>, None, 0)
  /\ \A p \in Performers : pc[p] \notin {"reply", "take"}
Outstanding(p) ==
  \/ pc[p] = "reply" /\ OneRequest(toClient, p) /\ InServer(<<>>, None, 0)
  \/ pc[p] = "reply" /\ NoRequests(toClient) /\ InServer(<<p>>, None, 0)
  \/ pc[p] = "reply" /\ NoRequests(toClient) /\ InServer(<<>>, p, 1)
  \/ pc[p] = "take" /\ NoRequests(toClient) /\ InServer(<<>>, p, 0)

OneRequestAtMost == ~crashed /\ (Nowhere \/ \E p \in Performers : Outstanding(p))

\* The client is between the start of the signal's handler and its s2c_perform call.
Handling == phase = "enter" \/ (phase = "perform" /\ (requested \/ active = "perform"))
Performing == green /\ active = "perform"
Idle == ~green /\ ~Handling

\* The handshake of the performer that uses the signal handler.
Stage(p) ==
  \/ pc[p] = "signal" /\ signals = 0 /\ enter = 0 /\ Idle
  \/ pc[p] = "green" /\ signals = 1 /\ enter = 0 /\ Idle
  \/ pc[p] = "green" /\ signals = 0 /\ enter = 0 /\ ~green /\ Handling
  \/ pc[p] = "green" /\ signals = 0 /\ enter = 1 /\ Performing
  \/ pc[p] \in {"send", "reply", "take", "release", "exit"} /\ signals = 0 /\ enter = 0 /\ Performing

\* What the exit semaphore says between two handshakes, or after one whose end was missed.
Handed ==
  \/ exit = 0 /\ Idle
  \/ exit = 1 /\ Performing
  \/ exit = 0 /\ Performing /\ asleep

Handshake ==
  /\ \A p \in Performers : pc[p] \in {"signal", "green", "exit"} => p \in using
  /\ using = {} => signals = 0 /\ enter = 0 /\ Handed
  /\ \A p \in using : using = {p} /\ exit = 0 /\ Stage(p)

\* Why no reply reaches the client before the request does.
HeldBack ==
  /\ Self \in Performers => (pc[Self] # "idle" => active = "call") /\ Self \notin using
  /\ \A p \in Performers : pc[p] \in {"send", "reply", "take"} /\ p \notin using /\ p # Self =>
       defer /\ (active # None \/ deferred # None)

Orderly == OneRequestAtMost /\ Handshake /\ HeldBack

-----------------------------------------------------------------------------
(* Messages on their way to the client *)

\* A message is a reply or a request.
LEMMA MessageShape ==
  ASSUME NEW m \in Messages
  PROVE  \/ m[1] = "reply" /\ m[2] \in Kinds /\ m = Reply(m[2])
         \/ m[1] = "s2c" /\ m[2] \in Performers /\ m = Request(m[2])
BY DEF Messages, Reply, Request

\* A reply put behind other messages.
LEMMA ReplySent ==
  ASSUME NEW s \in Seq(Messages), NEW kind \in Kinds, NEW t, t = Append(s, Reply(kind))
  PROVE  /\ t \in Seq(Messages)
         /\ NoRequests(s) => NoRequests(t)
         /\ NoReplies(s) => OneReply(t, kind)
         /\ \A p : OneRequest(s, p) => OneRequest(t, p)
<1>1. Reply(kind) \in Messages /\ Reply(kind)[1] = "reply"
  BY DEF Messages, Reply
<1>2. /\ t \in Seq(Messages) /\ DOMAIN s = 1 .. Len(s) /\ DOMAIN t = 1 .. (Len(s) + 1) /\ Len(s) \in Nat
      /\ t[Len(s) + 1] = Reply(kind) /\ \A i \in DOMAIN s : t[i] = s[i]
  BY <1>1
<1>3. \A i \in DOMAIN t : i = Len(s) + 1 \/ (i \in DOMAIN s /\ t[i] = s[i])
  BY <1>2
<1>4. NoRequests(s) => NoRequests(t)
  BY <1>1, <1>2, <1>3 DEF NoRequests
<1>5. NoReplies(s) => OneReply(t, kind)
  <2> SUFFICES ASSUME NoReplies(s) PROVE OneReply(t, kind) OBVIOUS
  <2>1. Len(s) + 1 \in DOMAIN t
    BY <1>2
  <2>2. \A j \in DOMAIN t : t[j][1] = "reply" => j = Len(s) + 1
    BY <1>3 DEF NoReplies
  <2> QED BY <1>2, <2>1, <2>2 DEF OneReply
<1>6. ASSUME NEW p, OneRequest(s, p) PROVE OneRequest(t, p)
  <2>1. PICK i \in DOMAIN s : s[i] = Request(p) /\ \A j \in DOMAIN s : s[j][1] = "s2c" => j = i
    BY <1>6 DEF OneRequest
  <2>2. i \in DOMAIN t /\ t[i] = Request(p)
    BY <1>2, <2>1
  <2>3. \A j \in DOMAIN t : t[j][1] = "s2c" => j = i
    BY <1>1, <1>2, <1>3, <2>1
  <2> QED BY <2>2, <2>3 DEF OneRequest
<1> QED BY <1>2, <1>4, <1>5, <1>6

\* A request put behind other messages.
LEMMA RequestSent ==
  ASSUME NEW s \in Seq(Messages), NEW p \in Performers, NEW t, t = Append(s, Request(p))
  PROVE  /\ t \in Seq(Messages)
         /\ NoReplies(s) => NoReplies(t)
         /\ NoRequests(s) => OneRequest(t, p)
         /\ \A kind : OneReply(s, kind) => OneReply(t, kind)
<1>1. Request(p) \in Messages /\ Request(p)[1] = "s2c"
  BY DEF Messages, Request
<1>2. /\ t \in Seq(Messages) /\ DOMAIN s = 1 .. Len(s) /\ DOMAIN t = 1 .. (Len(s) + 1) /\ Len(s) \in Nat
      /\ t[Len(s) + 1] = Request(p) /\ \A i \in DOMAIN s : t[i] = s[i]
  BY <1>1
<1>3. \A i \in DOMAIN t : i = Len(s) + 1 \/ (i \in DOMAIN s /\ t[i] = s[i])
  BY <1>2
<1>4. NoReplies(s) => NoReplies(t)
  BY <1>1, <1>2, <1>3 DEF NoReplies
<1>5. NoRequests(s) => OneRequest(t, p)
  <2> SUFFICES ASSUME NoRequests(s) PROVE OneRequest(t, p) OBVIOUS
  <2>1. Len(s) + 1 \in DOMAIN t
    BY <1>2
  <2>2. \A j \in DOMAIN t : t[j][1] = "s2c" => j = Len(s) + 1
    BY <1>3 DEF NoRequests
  <2> QED BY <1>2, <2>1, <2>2 DEF OneRequest
<1>6. ASSUME NEW kind, OneReply(s, kind) PROVE OneReply(t, kind)
  <2>1. PICK i \in DOMAIN s : s[i] = Reply(kind) /\ \A j \in DOMAIN s : s[j][1] = "reply" => j = i
    BY <1>6 DEF OneReply
  <2>2. i \in DOMAIN t /\ t[i] = Reply(kind)
    BY <1>2, <2>1
  <2>3. \A j \in DOMAIN t : t[j][1] = "reply" => j = i
    BY <1>1, <1>2, <1>3, <2>1
  <2> QED BY <2>2, <2>3 DEF OneReply
<1> QED BY <1>2, <1>4, <1>5, <1>6

\* The first message is received, and it is a request.
LEMMA RequestTaken ==
  ASSUME NEW s \in Seq(Messages), s # <<>>, Head(s)[1] = "s2c", NEW t, t = Tail(s)
  PROVE  /\ t \in Seq(Messages)
         /\ NoReplies(s) => NoReplies(t)
         /\ ~NoRequests(s)
         /\ \A p : OneRequest(s, p) => Head(s) = Request(p) /\ NoRequests(t)
         /\ \A kind : OneReply(s, kind) => OneReply(t, kind)
<1>1. /\ t \in Seq(Messages) /\ DOMAIN s = 1 .. Len(s) /\ Len(s) \in Nat \ {0} /\ DOMAIN t = 1 .. (Len(s) - 1)
      /\ Head(s) = s[1] /\ \A i \in DOMAIN t : i + 1 \in DOMAIN s /\ t[i] = s[i + 1]
  OBVIOUS
<1>2. 1 \in DOMAIN s /\ s[1][1] = "s2c"
  BY <1>1
<1>3. NoReplies(s) => NoReplies(t)
  BY <1>1 DEF NoReplies
<1>4. ASSUME NEW p, OneRequest(s, p) PROVE Head(s) = Request(p) /\ NoRequests(t)
  <2>1. PICK i \in DOMAIN s : s[i] = Request(p) /\ \A j \in DOMAIN s : s[j][1] = "s2c" => j = i
    BY <1>4 DEF OneRequest
  <2>2. i = 1
    BY <1>2, <2>1
  <2>3. \A j \in DOMAIN t : t[j][1] # "s2c"
    BY <1>1, <2>1, <2>2
  <2> QED BY <1>1, <2>1, <2>2, <2>3 DEF NoRequests
<1>5. ASSUME NEW kind, OneReply(s, kind) PROVE OneReply(t, kind)
  <2>1. PICK i \in DOMAIN s : s[i] = Reply(kind) /\ \A j \in DOMAIN s : s[j][1] = "reply" => j = i
    BY <1>5 DEF OneReply
  <2>2. i # 1
    BY <1>2, <2>1 DEF Reply
  <2>3. i - 1 \in DOMAIN t /\ t[i - 1] = Reply(kind)
    BY <1>1, <2>1, <2>2
  <2>4. \A j \in DOMAIN t : t[j][1] = "reply" => j = i - 1
    BY <1>1, <2>1, <2>2
  <2> QED BY <2>3, <2>4 DEF OneReply
<1> QED BY <1>1, <1>2, <1>3, <1>4, <1>5 DEF NoRequests

\* The first message is received, and it is a reply.
LEMMA ReplyTaken ==
  ASSUME NEW s \in Seq(Messages), s # <<>>, Head(s)[1] = "reply", NEW t, t = Tail(s)
  PROVE  /\ t \in Seq(Messages)
         /\ NoRequests(s) => NoRequests(t)
         /\ ~NoReplies(s)
         /\ \A kind : OneReply(s, kind) => Head(s) = Reply(kind) /\ NoReplies(t)
         /\ \A p : OneRequest(s, p) => OneRequest(t, p)
<1>1. /\ t \in Seq(Messages) /\ DOMAIN s = 1 .. Len(s) /\ Len(s) \in Nat \ {0} /\ DOMAIN t = 1 .. (Len(s) - 1)
      /\ Head(s) = s[1] /\ \A i \in DOMAIN t : i + 1 \in DOMAIN s /\ t[i] = s[i + 1]
  OBVIOUS
<1>2. 1 \in DOMAIN s /\ s[1][1] = "reply"
  BY <1>1
<1>3. NoRequests(s) => NoRequests(t)
  BY <1>1 DEF NoRequests
<1>4. ASSUME NEW kind, OneReply(s, kind) PROVE Head(s) = Reply(kind) /\ NoReplies(t)
  <2>1. PICK i \in DOMAIN s : s[i] = Reply(kind) /\ \A j \in DOMAIN s : s[j][1] = "reply" => j = i
    BY <1>4 DEF OneReply
  <2>2. i = 1
    BY <1>2, <2>1
  <2>3. \A j \in DOMAIN t : t[j][1] # "reply"
    BY <1>1, <2>1, <2>2
  <2> QED BY <1>1, <2>1, <2>2, <2>3 DEF NoReplies
<1>5. ASSUME NEW p, OneRequest(s, p) PROVE OneRequest(t, p)
  <2>1. PICK i \in DOMAIN s : s[i] = Request(p) /\ \A j \in DOMAIN s : s[j][1] = "s2c" => j = i
    BY <1>5 DEF OneRequest
  <2>2. i # 1
    BY <1>2, <2>1 DEF Request
  <2>3. i - 1 \in DOMAIN t /\ t[i - 1] = Request(p)
    BY <1>1, <2>1, <2>2
  <2>4. \A j \in DOMAIN t : t[j][1] = "s2c" => j = i - 1
    BY <1>1, <2>1, <2>2
  <2> QED BY <2>3, <2>4 DEF OneRequest
<1> QED BY <1>1, <1>2, <1>3, <1>4, <1>5 DEF NoReplies

-----------------------------------------------------------------------------
(* Types *)

\* A step keeps the types of the messages on their way.
LEMMA MessageType ==
  ASSUME ProofType, OnePlace, [Next]_vars
  PROVE  toClient' \in Seq(Messages) /\ toServer' \in Seq(Performers)
<1>0. /\ toClient \in Seq(Messages) /\ toServer \in Seq(Performers)
      /\ deferred \in Kinds \cup {None} /\ None \notin Kinds
      /\ toClient # <<>> => Head(toClient) \in Messages /\ Tail(toClient) \in Seq(Messages)
      /\ toServer # <<>> => Tail(toServer) \in Seq(Performers)
  BY DEF ProofType, TypeOK, Kinds, None
<1>1. ASSUME NEW kind \in Kinds PROVE Append(toClient, Reply(kind)) \in Seq(Messages)
  BY <1>0, ReplySent, Zenon
<1>2. ASSUME NEW p \in Performers PROVE Append(toClient, Request(p)) \in Seq(Messages)
  BY <1>0, RequestSent, Zenon
<1>3. CASE ClientReceives
  <2>1. Head(toClient) \in Messages /\ toClient' \in Seq(Messages)
    BY <1>0, <1>3 DEF ClientReceives
  <2>2. CASE Head(toClient)[1] = "s2c"
    <3>1. Head(toClient)[2] \in Performers
      BY <2>1, <2>2, MessageShape
    <3>2. toServer' = Append(toServer, Head(toClient)[2])
      BY <1>3, <2>2 DEF ClientReceives, Reply
    <3> QED BY <1>0, <2>1, <3>1, <3>2
  <2>3. CASE Head(toClient)[1] # "s2c"
    BY <1>0, <1>3, <2>1, <2>3 DEF ClientReceives
  <2> QED BY <2>2, <2>3
<1>4. CASE ReplyToCall
  BY <1>0, <1>1, <1>4 DEF ReplyToCall, PushCallReply, Kinds
<1>5. CASE S2CPerformExit
  BY <1>0, <1>1, <1>5 DEF S2CPerformExit, PushCallReply, Kinds
<1>6. CASE ReceiveS2CReply
  BY <1>0, <1>6 DEF ReceiveS2CReply
<1>7. ASSUME NEW p \in Performers, SendRequest(p) \/ TakeReply(p)
      PROVE  toClient' \in Seq(Messages) /\ toServer' \in Seq(Performers)
  BY <1>0, <1>1, <1>2, <1>7, Zenon DEF SendRequest, TakeReply, SendDeferred
<1>8. CASE UNCHANGED <<toClient, toServer>>
  BY <1>0, <1>8
<1> QED
  BY <1>3, <1>4, <1>5, <1>6, <1>7, <1>8 DEF Next, Target, Perform, vars, clientVars, ClientCall,
     ClientTakesSignal, Activate, S2CPerformEnter, S2CPerformLost, Begin, DownPerform, Check, SendSignal,
     DownEnter, DownReply, UpPerform, UpExit, Interrupt

\* A step keeps the types of the client and of its call.
LEMMA CallType ==
  ASSUME ProofType, OnePlace, [Next]_vars
  PROVE  /\ phase' \in {"run", "call", "enter", "perform", "exit", "failed"}
         /\ active' \in {None, "call", "enter", "perform", "exit"}
         /\ deferred' \in {None, "call", "enter", "perform", "exit"}
<1> USE DEF Next, Target, Perform, vars, clientVars, callVars, ClientCall, ClientTakesSignal, ClientReceives,
        Calls, Activate, ReplyToCall, PushCallReply, S2CPerformEnter, S2CPerformLost, S2CPerformExit,
        ReceiveS2CReply, Begin, DownPerform, Check, SendSignal, DownEnter, SendRequest, DownReply,
        TakeReply, SendDeferred, UpPerform, UpExit, Interrupt
<1>1. phase' \in {"run", "call", "enter", "perform", "exit", "failed"}
  BY DEF ProofType, TypeOK
<1>2. active' \in {None, "call", "enter", "perform", "exit"}
  <2>1. active' \in {active, None} \/ (requested /\ active' = phase)
    BY Zenon
  <2>2. requested => phase \in Kinds
    BY Zenon DEF OnePlace, Place
  <2> HIDE DEF Next, vars
  <2> QED BY <2>1, <2>2, Zenon DEF ProofType, TypeOK, Kinds
<1>3. deferred' \in {None, "call", "enter", "perform", "exit"}
  BY DEF ProofType, TypeOK
<1> QED BY <1>1, <1>2, <1>3, Zenon

\* A step keeps the types of the flags.
LEMMA FlagType ==
  ASSUME ProofType, [Next]_vars
  PROVE  /\ requested' \in BOOLEAN /\ green' \in BOOLEAN /\ defer' \in BOOLEAN
         /\ crashed' \in BOOLEAN /\ abandoned' \in BOOLEAN /\ asleep' \in BOOLEAN
<1> USE DEF Next, Target, Perform, vars, clientVars, callVars, doneVars, ClientCall, ClientTakesSignal,
        ClientReceives, Calls, Activate, ReplyToCall, S2CPerformEnter, S2CPerformLost, S2CPerformExit,
        ReceiveS2CReply, Begin, DownPerform, Check, SendSignal, DownEnter, SendRequest, DownReply,
        TakeReply, SendDeferred, UpPerform, UpExit, Interrupt
<1>1. requested' \in BOOLEAN
  BY Zenon DEF ProofType, TypeOK
<1>2. green' \in BOOLEAN
  BY Zenon DEF ProofType, TypeOK
<1>3. defer' \in BOOLEAN
  BY Zenon DEF ProofType, TypeOK
<1>4. crashed' \in BOOLEAN
  BY Zenon DEF ProofType, TypeOK
<1>5. abandoned' \in BOOLEAN
  BY ZenonT(30) DEF ProofType, TypeOK
<1>6. asleep' \in BOOLEAN
  BY Zenon DEF ProofType, TypeOK
<1> QED BY <1>1, <1>2, <1>3, <1>4, <1>5, <1>6, Zenon

\* A step keeps the types of the semaphores and of the performers.
LEMMA PerformerType ==
  ASSUME ProofType, [Next]_vars
  PROVE  /\ signals' \in Nat /\ perform' \in Nat /\ enter' \in Nat /\ exit' \in Nat /\ reply' \in Nat
         /\ s2cReply' \in Performers \cup {None}
         /\ pc' \in [Performers -> Labels]
         /\ using' \subseteq Performers /\ lost' \subseteq Performers
<1> USE DEF Next, Target, Perform, vars, clientVars, semVars, callVars, doneVars, ClientCall,
        ClientTakesSignal, ClientReceives, Activate, ReplyToCall, S2CPerformEnter, S2CPerformLost,
        S2CPerformExit, ReceiveS2CReply, Begin, DownPerform, Check, SendSignal, DownEnter, SendRequest,
        DownReply, TakeReply, UpPerform, UpExit, Interrupt
<1>1. signals' \in Nat
  BY SMTT(20) DEF ProofType, TypeOK
<1>2. perform' \in Nat
  BY SMTT(20) DEF ProofType, TypeOK
<1>3. enter' \in Nat
  BY SMTT(20) DEF ProofType, TypeOK
<1>4. exit' \in Nat
  BY SMTT(20) DEF ProofType, TypeOK
<1>5. reply' \in Nat
  BY SMTT(20) DEF ProofType, TypeOK
<1>6. s2cReply' \in Performers \cup {None}
  BY DEF ProofType, TypeOK
<1>7. pc' \in [Performers -> Labels]
  BY ZenonT(30) DEF ProofType, TypeOK, Goto, Granted, Labels
<1>8. using' \subseteq Performers
  BY DEF ProofType, TypeOK
<1>9. lost' \subseteq Performers
  BY DEF ProofType, TypeOK, Granted
<1> QED BY <1>1, <1>2, <1>3, <1>4, <1>5, <1>6, <1>7, <1>8, <1>9, Zenon

\* A step keeps the types, given where the client's call is.
LEMMA TypeStep ==
  ASSUME ProofType, OnePlace, [Next]_vars
  PROVE  ProofType'
BY MessageType, CallType, FlagType, PerformerType DEF ProofType, TypeOK, Labels

-----------------------------------------------------------------------------
(* The client's call is in one place *)

\* What the client receives: a request, which it answers, or the reply it waits for.
GotRequest ==
  /\ Head(toClient)[1] = "s2c"
  /\ toServer' = Append(toServer, Head(toClient)[2])
  /\ UNCHANGED <<phase, requested>>
GotReply ==
  /\ Head(toClient) = Reply(phase) /\ OneReply(toClient, phase)
  /\ phase \in Kinds /\ Place(FALSE, None, None) /\ UNCHANGED toServer
  /\ \/ phase = "enter" /\ phase' = "perform" /\ requested' = TRUE
     \/ phase = "perform" /\ phase' = "exit" /\ requested' = TRUE
     \/ phase \in {"call", "exit"} /\ phase' = "run" /\ requested' = FALSE

\* There is no third case: the branch for an unexpected message is dead.
LEMMA Received ==
  ASSUME ProofType, OnePlace, ClientReceives
  PROVE  /\ toClient \in Seq(Messages) /\ toClient # <<>> /\ toClient' = Tail(toClient)
         /\ UNCHANGED <<signals, calls, semVars, callVars, s2cReply, pc, using, doneVars>>
         /\ GotRequest \/ GotReply
<1>1. /\ toClient \in Seq(Messages) /\ toClient # <<>> /\ toClient' = Tail(toClient)
      /\ Head(toClient) \in Messages
  BY DEF ProofType, ClientReceives
<1>2. Head(toClient)[1] = "s2c" => GotRequest
  BY DEF ClientReceives, GotRequest, Reply
<1>3. ASSUME Head(toClient)[1] # "s2c" PROVE GotReply
  <2>1. Head(toClient)[1] = "reply"
    BY <1>1, <1>3, MessageShape
  <2>2. ~NoReplies(toClient) /\ \A kind : OneReply(toClient, kind) => Head(toClient) = Reply(kind)
    BY <1>1, <2>1, ReplyTaken
  <2>3. phase \in Kinds /\ Place(FALSE, None, None) /\ OneReply(toClient, phase)
    BY <2>2, Zenon DEF OnePlace
  <2>4. Head(toClient) = Reply(phase)
    BY <2>2, <2>3
  <2>5. requested = FALSE
    BY <2>3 DEF Place
  <2>6. CASE phase = "enter"
    BY <1>3, <2>3, <2>4, <2>5, <2>6, Zenon DEF ClientReceives, Calls, GotReply, Reply, Kinds
  <2>7. CASE phase = "perform"
    BY <1>3, <2>3, <2>4, <2>5, <2>7, Zenon DEF ClientReceives, Calls, GotReply, Reply, Kinds
  <2>8. CASE phase \in {"call", "exit"}
    BY <1>3, <2>3, <2>4, <2>5, <2>8, Zenon DEF ClientReceives, Calls, GotReply, Reply, Kinds
  <2> QED BY <2>3, <2>6, <2>7, <2>8 DEF Kinds
<1> QED BY <1>1, <1>2, <1>3 DEF ClientReceives

\* The reply to the active call is sent or deferred.
LEMMA ReplyPlaced ==
  ASSUME ProofType, OnePlace, NEW kind \in Kinds, active = kind, PushCallReply(kind),
         UNCHANGED <<phase, requested>>
  PROVE  OnePlace'
<1>1. phase = kind /\ requested = FALSE /\ deferred = None /\ NoReplies(toClient)
  BY DEF OnePlace, Place, Kinds, None
<1>2. CASE defer
  BY <1>1, <1>2 DEF PushCallReply, OnePlace, Place
<1>3. CASE ~defer
  <2>1. toClient' = Append(toClient, Reply(kind)) /\ deferred' = deferred
    BY <1>3 DEF PushCallReply
  <2>2. OneReply(toClient', kind)
    BY <1>1, <2>1, ReplySent, Zenon DEF ProofType
  <2> QED BY <1>1, <2>1, <2>2 DEF PushCallReply, OnePlace, Place
<1> QED BY <1>2, <1>3

\* A step keeps OnePlace.
LEMMA OnePlaceStep ==
  ASSUME ProofType, OnePlace, [Next]_vars
  PROVE  OnePlace'
<1>0. toClient \in Seq(Messages)
  BY DEF ProofType
<1>1. CASE ClientCall \/ ClientTakesSignal
  BY <1>1 DEF ClientCall, ClientTakesSignal, Calls, OnePlace, Place, Kinds, callVars
<1>2. CASE ClientReceives
  <2>1. CASE GotRequest
    <3>1. /\ NoReplies(toClient) => NoReplies(toClient')
          /\ \A kind : OneReply(toClient, kind) => OneReply(toClient', kind)
      BY <1>2, <2>1, Received, RequestTaken, Zenon DEF GotRequest
    <3>2. UNCHANGED <<phase, requested, active, deferred>>
      BY <1>2, <2>1, Received DEF GotRequest, callVars
    <3> QED BY <3>1, <3>2 DEF OnePlace, Place
  <2>2. CASE GotReply
    <3>1. Head(toClient)[1] = "reply"
      BY <2>2 DEF GotReply, Reply
    <3>2. NoReplies(toClient')
      BY <1>2, <2>2, <3>1, Received, ReplyTaken DEF GotReply
    <3>3. active' = None /\ deferred' = None
      BY <1>2, <2>2, Received DEF GotReply, Place, callVars
    <3> QED BY <2>2, <3>2, <3>3 DEF GotReply, OnePlace, Place, Kinds
  <2> QED BY <1>2, <2>1, <2>2, Received
<1>3. CASE Activate
  BY <1>3 DEF Activate, OnePlace, Place, Kinds
<1>4. CASE ReplyToCall
  BY <1>4, ReplyPlaced DEF ReplyToCall, Kinds
<1>5. CASE S2CPerformExit
  BY <1>5, ReplyPlaced DEF S2CPerformExit, Kinds
<1>6. ASSUME NEW p \in Performers, SendRequest(p) PROVE OnePlace'
  <2>1. /\ NoReplies(toClient) => NoReplies(toClient')
        /\ \A kind : OneReply(toClient, kind) => OneReply(toClient', kind)
    BY <1>0, <1>6, RequestSent, Zenon DEF SendRequest
  <2> QED BY <1>6, <2>1 DEF SendRequest, OnePlace, Place, callVars
<1>7. ASSUME NEW p \in Performers, TakeReply(p) PROVE OnePlace'
  <2>0. UNCHANGED <<phase, requested, active>>
    BY <1>7 DEF TakeReply
  <2>1. CASE defer /\ deferred # None
    <3>1. phase \in Kinds /\ Place(FALSE, None, phase) /\ NoReplies(toClient)
      BY <2>1 DEF OnePlace, Place
    <3>2. toClient' = Append(toClient, Reply(phase)) /\ deferred' = None
      BY <1>7, <2>1, <3>1 DEF TakeReply, SendDeferred, Place
    <3>3. OneReply(toClient', phase)
      BY <1>0, <3>1, <3>2, ReplySent, Zenon
    <3> QED BY <2>0, <3>1, <3>2, <3>3 DEF OnePlace, Place
  <2>2. CASE ~(defer /\ deferred # None)
    BY <1>7, <2>0, <2>2 DEF TakeReply, SendDeferred, OnePlace, Place
  <2> QED BY <2>1, <2>2
<1>8. CASE UNCHANGED <<phase, requested, active, deferred, toClient>>
  BY <1>8 DEF OnePlace, Place
<1> QED
  BY <1>1, <1>2, <1>3, <1>4, <1>5, <1>6, <1>7, <1>8, SMTT(20) DEF Next, Target, Perform, vars,
     clientVars, callVars, S2CPerformEnter, S2CPerformLost, ReceiveS2CReply, Begin, DownPerform, Check,
     SendSignal, DownEnter, DownReply, UpPerform, UpExit, Interrupt

\* The client starts out with no call.
LEMMA PlaceInit == Init => ProofType /\ OnePlace
<1> SUFFICES ASSUME Init PROVE ProofType /\ OnePlace OBVIOUS
<1>1. toClient = <<>> /\ <<>> \in Seq(Messages) /\ <<>> \in Seq(Performers) /\ NoReplies(<<>>)
  BY DEF Init, NoReplies
<1>2. OnePlace
  BY <1>1 DEF Init, OnePlace, Place
<1>3. ProofType
  BY <1>1, Zenon DEF Init, ProofType, TypeOK
<1> QED BY <1>2, <1>3

\* The client's call is in one place in every reachable state.
LEMMA PlaceInvariant == Spec => [](ProofType /\ OnePlace)
<1>1. ProofType /\ OnePlace /\ [Next]_vars => (ProofType /\ OnePlace)'
  BY TypeStep, OnePlaceStep
<1> QED BY <1>1, PlaceInit, PTL DEF Spec

\* How many replies of a kind are on their way.
LEMMA RepliesCounted ==
  ASSUME NEW kind
  PROVE  /\ NoReplies(toClient) => Cardinality(Sent(Reply(kind))) = 0
         /\ OneReply(toClient, kind) => Cardinality(Sent(Reply(kind))) = 1
         /\ \A other : OneReply(toClient, other) /\ other # kind => Cardinality(Sent(Reply(kind))) = 0
<1>0. Reply(kind)[1] = "reply" /\ Reply(kind)[2] = kind
  BY DEF Reply
<1>1. Sent(Reply(kind)) = {} => Cardinality(Sent(Reply(kind))) = 0
  BY FS_EmptySet
<1>2. NoReplies(toClient) => Sent(Reply(kind)) = {}
  BY <1>0 DEF NoReplies, Sent
<1>3. ASSUME OneReply(toClient, kind) PROVE Cardinality(Sent(Reply(kind))) = 1
  <2>1. PICK i \in DOMAIN toClient :
          toClient[i] = Reply(kind) /\ \A j \in DOMAIN toClient : toClient[j][1] = "reply" => j = i
    BY <1>3 DEF OneReply
  <2>2. Sent(Reply(kind)) = {i}
    BY <1>0, <2>1 DEF Sent
  <2> QED BY <2>2, FS_Singleton
<1>4. ASSUME NEW other, OneReply(toClient, other), other # kind PROVE Sent(Reply(kind)) = {}
  <2>1. PICK i \in DOMAIN toClient :
          toClient[i] = Reply(other) /\ \A j \in DOMAIN toClient : toClient[j][1] = "reply" => j = i
    BY <1>4 DEF OneReply
  <2>2. Reply(other) # Reply(kind)
    BY <1>4 DEF Reply
  <2> QED BY <1>0, <2>1, <2>2 DEF Sent
<1> QED BY <1>1, <1>2, <1>3, <1>4

\* For any performers, calls and interruptions, however the deferral of replies and the
\* signal handler fall together: the client's call is in exactly one place until it is
\* answered, so no reply is lost in the one slot for deferred replies, none is sent twice,
\* and the client never meets a reply it does not wait for.
THEOREM CallAccounted == Spec => []CallInOnePlace
<1>1. ProofType /\ OnePlace => CallInOnePlace
  <2> SUFFICES ASSUME ProofType, OnePlace PROVE CallInOnePlace OBVIOUS
  <2>0. phase # "failed"
    BY Zenon DEF OnePlace, Kinds
  <2>1. ASSUME NEW kind \in Kinds
        PROVE  Count(requested /\ kind = phase) + Count(active = kind) + Count(deferred = kind)
                 + Cardinality(Sent(Reply(kind))) = Count(kind = phase)
    <3>1. /\ NoReplies(toClient) => Cardinality(Sent(Reply(kind))) = 0
          /\ OneReply(toClient, kind) => Cardinality(Sent(Reply(kind))) = 1
          /\ \A other : OneReply(toClient, other) /\ other # kind => Cardinality(Sent(Reply(kind))) = 0
      BY RepliesCounted
    <3>2. kind # None /\ kind # "run"
      BY DEF Kinds, None
    <3>3. CASE NoReplies(toClient) /\ ~OneReply(toClient, phase)
      <4>1. Count(requested /\ kind = phase) + Count(active = kind) + Count(deferred = kind)
              = Count(kind = phase)
        BY <3>2, <3>3 DEF OnePlace, Place, Count, Kinds, None
      <4>2. Count(kind = phase) \in {0, 1}
        BY DEF Count
      <4> QED BY <3>1, <3>3, <4>1, <4>2
    <3>4. CASE ~(NoReplies(toClient) /\ ~OneReply(toClient, phase))
      <4>0. OneReply(toClient, phase) => ~NoReplies(toClient)
        BY DEF OneReply, NoReplies, Reply
      <4>1. phase \in Kinds /\ Place(FALSE, None, None) /\ OneReply(toClient, phase)
        BY <3>4, <4>0, Zenon DEF OnePlace
      <4>2. /\ Count(requested /\ kind = phase) = 0
            /\ Count(active = kind) = 0 /\ Count(deferred = kind) = 0
        BY <3>2, <4>1 DEF Place, Count
      <4>3. Cardinality(Sent(Reply(kind))) = Count(kind = phase)
        BY <3>1, <4>1 DEF Count
      <4>4. Count(kind = phase) \in {0, 1}
        BY DEF Count
      <4> QED BY <4>2, <4>3, <4>4
    <3> QED BY <3>3, <3>4
  <2> QED BY <2>0, <2>1 DEF CallInOnePlace, Kinds
<1> QED BY <1>1, PlaceInvariant, PTL

-----------------------------------------------------------------------------
(* One performer has the turn *)

\* The perform semaphore is handed from one performer to the next.
LEMMA TurnStep ==
  ASSUME ProofType, Turn, [Next]_vars
  PROVE  Turn'
<1>0. pc \in [Performers -> Labels] /\ perform \in {0, 1}
  BY DEF ProofType, TypeOK, Labels, Turn
<1>1. ASSUME NEW p \in Performers, Begin(p) \/ Check(p) \/ SendSignal(p) \/ DownEnter(p) \/ SendRequest(p)
                                   \/ DownReply(p) \/ TakeReply(p) \/ UpExit(p)
      PROVE  Turn'
  <2>1. /\ perform' = perform /\ pc' = [pc EXCEPT ![p] = pc'[p]]
        /\ HasTurn(p)' => HasTurn(p)
    BY <1>0, <1>1 DEF Begin, Check, SendSignal, DownEnter, SendRequest, DownReply, TakeReply, UpExit,
       Goto, Granted, HasTurn, semVars
  <2> QED BY <1>0, <2>1 DEF Turn, HasTurn
<1>2. ASSUME NEW p \in Performers, DownPerform(p) PROVE Turn'
  <2>1. perform = 1 /\ perform' = 0 /\ pc' = [pc EXCEPT ![p] = "check"]
    BY <1>0, <1>2 DEF DownPerform, Goto, Granted
  <2> QED BY <1>0, <2>1 DEF Turn, HasTurn
<1>3. ASSUME NEW p \in Performers, UpPerform(p) PROVE Turn'
  <2>1. /\ HasTurn(p) /\ perform' = perform + 1
        /\ pc' = [pc EXCEPT ![p] = pc'[p]] /\ pc'[p] \in {"exit", "idle"}
    BY <1>0, <1>3 DEF UpPerform, Goto, HasTurn
  <2>2. perform = 0
    BY <1>0, <2>1 DEF Turn
  <2> QED BY <1>0, <2>1, <2>2 DEF Turn, HasTurn
<1>4. ASSUME NEW p \in Performers, Interrupt(p) PROVE Turn'
  <2>1. pc' = [pc EXCEPT ![p] = "idle"]
    BY <1>4 DEF Interrupt, Goto
  <2>2. CASE perform' = perform \/ (perform > 0 /\ perform' = perform - 1)
    BY <1>0, <2>1, <2>2 DEF Turn, HasTurn
  <2>3. CASE HasTurn(p) /\ perform' = perform + 1
    <3>1. perform = 0
      BY <1>0, <2>3 DEF Turn
    <3> QED BY <1>0, <2>1, <2>3, <3>1 DEF Turn, HasTurn
  <2> QED BY <1>4, <2>2, <2>3 DEF Interrupt, HasTurn
<1>5. CASE UNCHANGED <<pc, perform>>
  BY <1>5 DEF Turn, HasTurn
<1> QED
  BY <1>1, <1>2, <1>3, <1>4, <1>5 DEF Next, Target, Perform, vars, semVars, ClientCall, ClientTakesSignal,
     ClientReceives, Activate, ReplyToCall, S2CPerformEnter, S2CPerformLost, S2CPerformExit, ReceiveS2CReply

-----------------------------------------------------------------------------
(* The request of the performer that has the turn *)

\* Steps that touch neither requests nor the performers that wait for an answer.
LEMMA RequestFrame ==
  ASSUME OneRequestAtMost, UNCHANGED <<toServer, s2cReply, reply, crashed>>,
         NoRequests(toClient) => NoRequests(toClient'),
         \A p \in Performers : OneRequest(toClient, p) => OneRequest(toClient', p),
         \A p \in Performers : pc[p] \in {"reply", "take"} \/ pc'[p] \in {"reply", "take"} => pc'[p] = pc[p]
  PROVE  OneRequestAtMost'
<1>1. CASE Nowhere
  BY <1>1, Zenon DEF OneRequestAtMost, Nowhere, InServer
<1>2. ASSUME NEW p \in Performers, Outstanding(p) PROVE Outstanding(p)'
  BY <1>2 DEF Outstanding, InServer
<1> QED BY <1>1, <1>2 DEF OneRequestAtMost

\* A performer that waits for an answer has the turn, so it is the only one.
LEMMA Waiter ==
  ASSUME Turn, NEW p \in Performers, NEW q \in Performers, HasTurn(p), Outstanding(q)
  PROVE  p = q
BY Zenon DEF Turn, HasTurn, Outstanding

\* A request is followed from the performer to the client and back to the same performer.
LEMMA RequestStep ==
  ASSUME ProofType, OnePlace, Turn, OneRequestAtMost, [Next]_vars, ~abandoned'
  PROVE  OneRequestAtMost'
<1>0. /\ toClient \in Seq(Messages) /\ pc \in [Performers -> Labels]
      /\ deferred \in Kinds \cup {None} /\ None \notin Performers
  BY S2CAssumption DEF ProofType, TypeOK, Labels, Kinds
<1>1. CASE ClientReceives
  <2>0. UNCHANGED <<s2cReply, reply, crashed, pc>> /\ toClient' = Tail(toClient) /\ toClient # <<>>
    BY <1>1, Received DEF semVars, doneVars
  <2>1. CASE GotRequest
    <3>1. /\ ~NoRequests(toClient)
          /\ \A p : OneRequest(toClient, p) => Head(toClient) = Request(p) /\ NoRequests(toClient')
      BY <1>0, <2>0, <2>1, RequestTaken, Zenon DEF GotRequest
    <3>2. PICK p \in Performers : pc[p] = "reply" /\ OneRequest(toClient, p) /\ InServer(<<>>, None, 0)
      BY <3>1, Zenon DEF OneRequestAtMost, Nowhere, Outstanding
    <3>3. Head(toClient)[2] = p
      BY <3>1, <3>2 DEF Request
    <3>4. toServer' = <<p>>
      BY <2>1, <3>2, <3>3 DEF GotRequest, InServer
    <3>5. Outstanding(p)'
      BY <2>0, <3>1, <3>2, <3>4 DEF Outstanding, InServer
    <3> QED BY <2>0, <3>5 DEF OneRequestAtMost
  <2>2. CASE GotReply
    <3>1. Head(toClient)[1] = "reply"
      BY <2>2 DEF GotReply, Reply
    <3>2. /\ NoRequests(toClient) => NoRequests(toClient')
          /\ \A p : OneRequest(toClient, p) => OneRequest(toClient', p)
      BY <1>0, <2>0, <3>1, ReplyTaken, Zenon
    <3> QED BY <2>0, <2>2, <3>2, RequestFrame DEF GotReply
  <2> QED BY <1>1, <2>1, <2>2, Received
<1>2. ASSUME NEW kind \in Kinds, toClient' = toClient \/ toClient' = Append(toClient, Reply(kind))
      PROVE  /\ NoRequests(toClient) => NoRequests(toClient')
             /\ \A p : OneRequest(toClient, p) => OneRequest(toClient', p)
  BY <1>0, <1>2, ReplySent
<1>3. CASE ReplyToCall
  <2>1. active \in Kinds /\ (toClient' = toClient \/ toClient' = Append(toClient, Reply(active)))
    BY <1>3 DEF ReplyToCall, PushCallReply, Kinds
  <2> QED BY <1>2, <1>3, <2>1, RequestFrame DEF ReplyToCall, semVars, doneVars
<1>4. CASE S2CPerformExit
  <2>1. "perform" \in Kinds /\ (toClient' = toClient \/ toClient' = Append(toClient, Reply("perform")))
    BY <1>4 DEF S2CPerformExit, PushCallReply, Kinds
  <2> QED BY <1>2, <1>4, <2>1, RequestFrame DEF S2CPerformExit, doneVars
<1>5. CASE ReceiveS2CReply
  <2>1. PICK p \in Performers : pc[p] = "reply" /\ NoRequests(toClient) /\ InServer(<<p>>, None, 0)
    BY <1>5 DEF ReceiveS2CReply, OneRequestAtMost, Nowhere, Outstanding, InServer
  <2>2. Head(toServer) = p /\ Tail(toServer) = <<>>
    BY <2>1 DEF InServer
  <2>3. Outstanding(p)' /\ ~crashed'
    BY <1>5, <2>1, <2>2 DEF ReceiveS2CReply, InServer, Outstanding, OneRequestAtMost
  <2> QED BY <2>3 DEF OneRequestAtMost
<1>6. ASSUME NEW p \in Performers, SendRequest(p) PROVE OneRequestAtMost'
  <2>1. pc[p] = "send" /\ pc' = [pc EXCEPT ![p] = "reply"] /\ HasTurn(p)
    BY <1>6 DEF SendRequest, Goto, HasTurn
  <2>2. Nowhere
    BY <2>1, Waiter, Zenon DEF OneRequestAtMost, Outstanding
  <2>3. OneRequest(toClient', p)
    BY <1>0, <1>6, <2>2, RequestSent, Zenon DEF SendRequest, Nowhere
  <2>4. Outstanding(p)' /\ ~crashed'
    BY <1>0, <1>6, <2>1, <2>2, <2>3 DEF SendRequest, Nowhere, Outstanding, InServer, OneRequestAtMost,
       semVars, doneVars
  <2> QED BY <2>4 DEF OneRequestAtMost
<1>7. ASSUME NEW p \in Performers, DownReply(p) PROVE OneRequestAtMost'
  <2>1. pc[p] = "reply" /\ pc' = [pc EXCEPT ![p] = "take"] /\ HasTurn(p) /\ reply > 0 /\ reply' = reply - 1
    BY <1>7 DEF DownReply, Goto, Granted, HasTurn
  <2>2. Outstanding(p)
    BY <2>1, Waiter DEF OneRequestAtMost, Nowhere
  <2>3. NoRequests(toClient) /\ InServer(<<>>, p, 1)
    BY <2>1, <2>2 DEF Outstanding, InServer
  <2>4. Outstanding(p)' /\ ~crashed'
    BY <1>0, <1>7, <2>1, <2>3 DEF DownReply, Outstanding, InServer, OneRequestAtMost, clientVars, doneVars
  <2> QED BY <2>4 DEF OneRequestAtMost
<1>8. ASSUME NEW p \in Performers, TakeReply(p) PROVE OneRequestAtMost'
  <2>1. pc[p] = "take" /\ pc' = [pc EXCEPT ![p] = "release"] /\ HasTurn(p)
    BY <1>8 DEF TakeReply, Goto, HasTurn
  <2>2. Outstanding(p)
    BY <2>1, Waiter DEF OneRequestAtMost, Nowhere
  <2>3. NoRequests(toClient) /\ InServer(<<>>, p, 0)
    BY <2>1, <2>2 DEF Outstanding
  <2>4. NoRequests(toClient')
    <3>1. toClient' = toClient \/ (deferred \in Kinds /\ toClient' = Append(toClient, Reply(deferred)))
      BY <1>0, <1>8 DEF TakeReply, SendDeferred
    <3> QED BY <1>0, <2>3, <3>1, ReplySent
  <2>5. \A q \in Performers : pc'[q] \notin {"reply", "take"}
    BY <1>0, <2>1, Zenon DEF Turn, HasTurn
  <2>6. Nowhere' /\ ~crashed'
    BY <1>8, <2>3, <2>4, <2>5, Zenon DEF TakeReply, Nowhere, InServer, OneRequestAtMost, semVars
  <2> QED BY <2>6 DEF OneRequestAtMost
<1>9. ASSUME NEW p \in Performers, Begin(p) \/ DownPerform(p) \/ Check(p) \/ SendSignal(p) \/ DownEnter(p)
                                   \/ UpPerform(p) \/ UpExit(p) \/ Interrupt(p)
      PROVE  OneRequestAtMost'
  <2>1. /\ UNCHANGED <<toClient, toServer, s2cReply, reply, crashed>>
        /\ pc' = [pc EXCEPT ![p] = pc'[p]]
        /\ pc[p] \notin {"reply", "take"} /\ pc'[p] \notin {"reply", "take"}
    BY <1>0, <1>9, Zenon DEF Begin, DownPerform, Check, SendSignal, DownEnter, UpPerform, UpExit,
       Interrupt, Goto, Granted, clientVars, semVars, doneVars
  <2>2. \A q \in Performers : pc[q] \in {"reply", "take"} \/ pc'[q] \in {"reply", "take"} => pc'[q] = pc[q]
    BY <1>0, <2>1, Zenon
  <2> QED BY <2>1, <2>2, RequestFrame
<1>10. CASE UNCHANGED <<toClient, toServer, s2cReply, reply, crashed, pc>>
  BY <1>10, RequestFrame, Zenon
<1> QED
  BY <1>1, <1>3, <1>4, <1>5, <1>6, <1>7, <1>8, <1>9, <1>10, Zenon DEF Next, Target, Perform, vars, clientVars,
     semVars, doneVars, ClientCall, ClientTakesSignal, Activate, S2CPerformEnter, S2CPerformLost

-----------------------------------------------------------------------------
(* The handshake through the signal handler *)

\* The client's and the target's steps keep the handshake in step with the performer.
LEMMA TargetHandshake ==
  ASSUME ProofType, OnePlace, Handshake,
         ClientCall \/ ClientTakesSignal \/ ClientReceives \/ Target
  PROVE  Handshake'
<1> USE DEF Handshake, Stage, Handed, Idle, Handling, Performing
<1>0. /\ UNCHANGED <<pc, using>> /\ (asleep => asleep')
      /\ signals \in Nat /\ enter \in Nat /\ exit \in Nat
      /\ green \in BOOLEAN /\ requested \in BOOLEAN
  BY DEF ProofType, TypeOK, ClientCall, ClientTakesSignal, ClientReceives, Target, Activate, ReplyToCall,
     S2CPerformEnter, S2CPerformLost, S2CPerformExit, ReceiveS2CReply, doneVars
<1>1. CASE ClientCall
  <2>1. /\ phase = "run" /\ phase' = "call" /\ active = None
        /\ UNCHANGED <<signals, enter, exit, active, green>>
    BY <1>1, Zenon DEF ClientCall, Calls, OnePlace, Place, Kinds, semVars, callVars
  <2> QED BY <1>0, <2>1, Zenon DEF None
<1>2. CASE ClientTakesSignal
  <2>1. /\ phase = "run" /\ phase' = "enter" /\ active = None /\ signals > 0 /\ signals' = signals - 1
        /\ UNCHANGED <<enter, exit, active, green>>
    BY <1>2 DEF ClientTakesSignal, Calls, OnePlace, Place, Kinds, semVars, callVars
  <2>2. PICK p \in using : using = {p} /\ exit = 0 /\ pc[p] = "green" /\ signals = 1 /\ enter = 0 /\ ~green
    BY <2>1, SMTT(20) DEF None
  <2> QED BY <1>0, <2>1, <2>2
<1>3. CASE ClientReceives
  <2>0. UNCHANGED <<signals, enter, exit, active, green>>
    BY <1>3, Zenon DEF ClientReceives, semVars, callVars
  <2>1. CASE GotRequest
    BY <1>0, <2>0, <2>1, Zenon DEF GotRequest
  <2>2. CASE GotReply
    <3>1. requested = FALSE /\ active = None
      BY <2>2 DEF GotReply, Place
    <3>2. ~Performing /\ ~Performing' /\ (Handling <=> phase = "enter")
      BY <2>0, <3>1, Zenon DEF None
    <3>3. Handling' <=> Handling
      BY <2>0, <2>2, <3>1, <3>2, Zenon DEF GotReply, None
    <3> QED BY <1>0, <2>0, <3>2, <3>3
  <2> QED BY <1>3, <2>1, <2>2, Received
<1>4. CASE Activate
  <2>1. /\ requested /\ active = None /\ ~requested' /\ active' = phase
        /\ UNCHANGED <<phase, signals, enter, exit, green>>
    BY <1>4 DEF Activate, semVars
  <2>2. ~Performing /\ (Handling' <=> Handling)
    BY <2>1 DEF None
  <2>3. ~green
    BY <2>2, Zenon
  <2> QED BY <1>0, <2>1, <2>2, <2>3, Zenon
<1>5. CASE ReplyToCall
  <2>1. /\ active \in {"call", "enter", "exit"} /\ active = phase /\ active' = None
        /\ UNCHANGED <<phase, requested, signals, enter, exit, green>>
    BY <1>5 DEF ReplyToCall, PushCallReply, OnePlace, Place, Kinds, None, semVars
  <2>2. ~Performing /\ ~Performing' /\ (Handling' <=> Handling)
    BY <2>1, Zenon DEF None
  <2> QED BY <1>0, <2>1, <2>2, Zenon
<1>6. CASE S2CPerformEnter
  <2>1. /\ active = "perform" /\ phase = "perform" /\ ~green /\ green' /\ enter' = enter + 1
        /\ UNCHANGED <<phase, requested, active, signals, exit>>
    BY <1>6 DEF S2CPerformEnter, OnePlace, Place, Kinds, None, clientVars
  <2>2. PICK p \in using : using = {p} /\ exit = 0 /\ pc[p] = "green" /\ signals = 0 /\ enter = 0
    BY <2>1, Zenon
  <2> QED BY <1>0, <2>1, <2>2
<1>7. CASE S2CPerformExit
  <2>1. /\ active = "perform" /\ phase = "perform" /\ ~requested /\ exit > 0 /\ exit' = exit - 1
        /\ ~green' /\ active' = None /\ UNCHANGED <<phase, requested, signals, enter>>
    BY <1>7 DEF S2CPerformExit, PushCallReply, OnePlace, Place, Kinds, None
  <2>2. using = {} /\ signals = 0 /\ enter = 0 /\ exit = 1
    BY <1>0, <2>1
  <2> QED BY <1>0, <2>1, <2>2 DEF None
<1>8. CASE ReceiveS2CReply
  <2>1. UNCHANGED <<phase, requested, active, green, signals, enter, exit>>
    BY <1>8 DEF ReceiveS2CReply, callVars
  <2> QED BY <1>0, <2>1
<1>9. CASE S2CPerformLost
  <2>1. /\ exit > 0 /\ exit' = exit - 1 /\ asleep'
        /\ UNCHANGED <<phase, requested, active, green, signals, enter>>
    BY <1>9 DEF S2CPerformLost, clientVars, callVars
  <2>2. using = {} /\ signals = 0 /\ enter = 0 /\ exit = 1 /\ Performing
    BY <1>0, <2>1
  <2> QED BY <1>0, <2>1, <2>2
<1> QED BY <1>1, <1>2, <1>3, <1>4, <1>5, <1>6, <1>7, <1>8, <1>9, Zenon DEF Target

\* So do a performer's, as long as none returns with its request outstanding.
LEMMA PerformerHandshake ==
  ASSUME ProofType, Turn, Handshake, NEW p \in Performers,
         Begin(p) \/ Perform(p) \/ Interrupt(p), ~abandoned'
  PROVE  Handshake'
<1> USE DEF Stage
<1>0. /\ UNCHANGED <<phase, requested, active, green, asleep>> /\ pc \in [Performers -> Labels]
      /\ pc' = [pc EXCEPT ![p] = pc'[p]] /\ using \subseteq Performers
      /\ signals \in Nat /\ enter \in Nat /\ exit \in Nat
  BY ZenonT(30) DEF ProofType, TypeOK, Labels, Begin, Perform, DownPerform, Check, SendSignal, DownEnter,
     SendRequest, DownReply, TakeReply, SendDeferred, UpPerform, UpExit, Interrupt, Goto, Granted,
     clientVars, callVars, doneVars
<1>1. (Idle' <=> Idle) /\ (Handling' <=> Handling) /\ (Performing' <=> Performing)
  BY <1>0, Zenon DEF Idle, Handling, Performing
<1>1a. UNCHANGED exit => (Handed' <=> Handed)
  BY <1>0, <1>1, Zenon DEF Handed
<1>2. CASE Begin(p) \/ DownPerform(p) \/ Interrupt(p)
  <2>0. pc[p] \in {"idle", "perform"} /\ pc'[p] \in {"idle", "perform", "check"}
    BY <1>0, <1>2, Zenon DEF Begin, DownPerform, Interrupt, Goto, Granted
  <2>1. UNCHANGED <<signals, enter, exit>> /\ using' \in {using, using \ {p}}
    BY <1>2, Zenon DEF Begin, DownPerform, Interrupt, clientVars, semVars
  <2>2. p \notin using
    BY <2>0, Zenon DEF Handshake
  <2>3. using' = using
    BY <2>1, <2>2, Zenon
  <2> QED BY <1>0, <1>1, <1>1a, <2>0, <2>1, <2>2, <2>3 DEF Handshake
<1>3. CASE Check(p)
  <2>1. pc[p] = "check" /\ UNCHANGED <<signals, enter, exit>>
    BY <1>3 DEF Check, clientVars, semVars
  <2>2. p \notin using
    BY <2>1, Zenon DEF Handshake
  <2>3. CASE active = None
    <3>1. pc'[p] = "signal" /\ using' = using \cup {p} /\ ~Performing
      BY <1>0, <1>3, <2>3 DEF Check, Goto, Performing, None
    <3>2. using = {}
      <4> SUFFICES ASSUME NEW q \in using PROVE FALSE OBVIOUS
      <4>1. pc[q] \in {"signal", "green"} /\ q \in Performers
        BY <1>0, <3>1, Zenon DEF Handshake
      <4> QED BY <2>1, <4>1 DEF Turn, HasTurn
    <3>3. exit = 0 /\ Idle /\ signals = 0 /\ enter = 0
      BY <3>1, <3>2, Zenon DEF Handshake, Handed
    <3> QED BY <1>0, <1>1, <1>1a, <2>1, <3>1, <3>2, <3>3, Zenon DEF Handshake
  <2>4. CASE active # None
    <3>1. pc'[p] = "send" /\ using' = using
      BY <1>0, <1>3, <2>4, Zenon DEF Check, Goto
    <3> QED BY <1>0, <1>1, <1>1a, <2>1, <2>2, <3>1 DEF Handshake
  <2> QED BY <2>3, <2>4
<1>4. CASE SendSignal(p)
  <2>1. pc[p] = "signal" /\ pc'[p] = "green" /\ signals' = signals + 1 /\ UNCHANGED <<enter, exit, using>>
    BY <1>0, <1>4, Zenon DEF SendSignal, Goto, semVars
  <2>2. using = {p} /\ exit = 0 /\ signals = 0 /\ enter = 0 /\ Idle
    BY <2>1, Zenon DEF Handshake
  <2> QED BY <1>0, <1>1, <1>1a, <2>1, <2>2 DEF Handshake
<1>5. CASE DownEnter(p)
  <2>1. /\ pc[p] = "green" /\ pc'[p] = "send" /\ enter > 0 /\ enter' = enter - 1
        /\ UNCHANGED <<signals, exit, using>>
    BY <1>0, <1>5, Zenon DEF DownEnter, Goto, Granted, clientVars
  <2>2. using = {p} /\ exit = 0 /\ signals = 0 /\ enter = 1 /\ Performing
    <3>1. p \in using
      BY <2>1 DEF Handshake
    <3>2. using = {p} /\ exit = 0 /\ Stage(p)
      BY <3>1, Zenon DEF Handshake
    <3> QED BY <2>1, <3>2
  <2> QED BY <1>0, <1>1, <1>1a, <2>1, <2>2 DEF Handshake
<1>6. CASE SendRequest(p) \/ DownReply(p) \/ TakeReply(p)
  <2>1. /\ pc[p] \in {"send", "reply", "take"} /\ pc'[p] \in {"reply", "take", "release"}
        /\ UNCHANGED <<signals, enter, exit, using>>
    BY <1>0, <1>6, Zenon DEF SendRequest, DownReply, TakeReply, SendDeferred, Goto, Granted, clientVars,
       semVars
  <2> QED BY <1>0, <1>1, <1>1a, <2>1 DEF Handshake
<1>7. CASE UpPerform(p)
  <2>1. /\ pc[p] = "release" /\ pc'[p] = IF p \in using THEN "exit" ELSE "idle"
        /\ UNCHANGED <<signals, enter, exit, using>>
    BY <1>0, <1>7, Zenon DEF UpPerform, Goto, clientVars
  <2> QED BY <1>0, <1>1, <1>1a, <2>1 DEF Handshake
<1>8. CASE UpExit(p)
  <2>1. /\ pc[p] = "exit" /\ pc'[p] = "idle" /\ exit' = exit + 1 /\ using' = using \ {p}
        /\ UNCHANGED <<signals, enter>>
    BY <1>0, <1>8, Zenon DEF UpExit, Goto, clientVars
  <2>2. using = {p} /\ exit = 0 /\ signals = 0 /\ enter = 0 /\ Performing
    BY <2>1, Zenon DEF Handshake
  <2>3. using' = {} /\ exit' = 1
    BY <2>1, <2>2
  <2>4. \A q \in Performers : pc'[q] \notin {"signal", "green", "exit"}
    BY <1>0, <2>1, <2>2, Zenon DEF Handshake
  <2>5. signals' = 0 /\ enter' = 0 /\ Performing'
    BY <1>1, <2>1, <2>2, Zenon
  <2> QED BY <2>3, <2>4, <2>5, Zenon DEF Handshake, Handed
<1> QED BY <1>2, <1>3, <1>4, <1>5, <1>6, <1>7, <1>8, ZenonT(30) DEF Perform

-----------------------------------------------------------------------------
(* Replies are held back *)

\* A performer that found a call active has its reply deferred until the request is answered.
LEMMA HeldBackStep ==
  ASSUME ProofType, OnePlace, Turn, Handshake, HeldBack, [Next]_vars, ~abandoned'
  PROVE  HeldBack'
<1> USE DEF HeldBack
<1>0. pc \in [Performers -> Labels] /\ using \subseteq Performers
  BY DEF ProofType, TypeOK, Labels
<1>1. CASE Activate
  <2>1. active = None /\ active' \in Kinds /\ UNCHANGED <<pc, using, defer, deferred>>
    BY <1>1 DEF Activate, OnePlace, Place
  <2> QED BY <2>1 DEF Kinds, None
<1>2. CASE ReplyToCall \/ S2CPerformExit
  <2>1. /\ UNCHANGED <<pc, using, defer>> /\ (Self \in Performers => pc[Self] = "idle")
        /\ defer => deferred' \in Kinds
    BY <1>2 DEF ReplyToCall, S2CPerformExit, PushCallReply, Kinds
  <2> QED BY <2>1 DEF Kinds, None
<1>3. CASE UNCHANGED <<pc, using, defer, deferred, active>>
  BY <1>3, Zenon
<1>4. ASSUME NEW p \in Performers, Check(p) PROVE HeldBack'
  <2>1. pc[p] = "check" /\ pc' = [pc EXCEPT ![p] = pc'[p]] /\ UNCHANGED <<active, deferred>>
    BY <1>0, <1>4 DEF Check, Goto
  <2>2. CASE active = None
    <3>1. pc'[p] = "signal" /\ using' = using \cup {p} /\ defer' = defer /\ p # Self
      BY <1>0, <1>4, <2>1, <2>2 DEF Check, Goto, None
    <3> QED BY <1>0, <2>1, <3>1
  <2>3. CASE active # None
    <3>1. pc'[p] = "send" /\ using' = using /\ (defer' <=> defer \/ p # Self)
      BY <1>0, <1>4, <2>3, Zenon DEF Check, Goto
    <3> QED BY <1>0, <2>1, <2>3, <3>1
  <2> QED BY <2>2, <2>3
<1>5. ASSUME NEW p \in Performers, TakeReply(p) PROVE HeldBack'
  <2>1. pc[p] = "take" /\ pc' = [pc EXCEPT ![p] = "release"] /\ UNCHANGED <<active, using>>
    BY <1>5 DEF TakeReply, Goto
  <2>2. \A q \in Performers : pc'[q] \notin {"send", "reply", "take"}
    BY <1>0, <2>1 DEF Turn, HasTurn
  <2> QED BY <1>0, <2>1, <2>2
<1>6. ASSUME NEW p \in Performers, Begin(p) \/ DownPerform(p) \/ SendSignal(p) \/ UpPerform(p) \/ UpExit(p)
                                   \/ Interrupt(p)
      PROVE  HeldBack'
  <2>1. /\ pc' = [pc EXCEPT ![p] = pc'[p]] /\ UNCHANGED <<active, defer, deferred>>
        /\ using' \in {using, using \ {p}} /\ pc'[p] \notin {"send", "reply", "take"}
        /\ p = Self => pc[p] # "idle" \/ active = "call"
    BY <1>0, <1>6 DEF Begin, DownPerform, SendSignal, UpPerform, UpExit, Interrupt, Goto, Granted, callVars
  <2> QED BY <1>0, <2>1, SMTT(20)
<1>7. ASSUME NEW p \in Performers, DownEnter(p) \/ SendRequest(p) \/ DownReply(p) PROVE HeldBack'
  <2>1. /\ pc[p] \in {"green", "send", "reply"} /\ pc' = [pc EXCEPT ![p] = pc'[p]]
        /\ UNCHANGED <<active, defer, deferred, using>>
    BY <1>0, <1>7 DEF DownEnter, SendRequest, DownReply, Goto, Granted, callVars
  <2>2. pc[p] = "green" => p \in using
    BY DEF Handshake
  <2> QED BY <1>0, <2>1, <2>2, Zenon
<1> QED
  BY <1>1, <1>2, <1>3, <1>4, <1>5, <1>6, <1>7, Zenon DEF Next, Target, Perform, vars, callVars, ClientCall,
     ClientTakesSignal, ClientReceives, S2CPerformEnter, S2CPerformLost, ReceiveS2CReply

-----------------------------------------------------------------------------
(* The theorems about requests *)

\* A request once abandoned stays abandoned.
LEMMA AbandonedForGood ==
  ASSUME [Next]_vars, ~abandoned'
  PROVE  ~abandoned
BY DEF Next, Target, Perform, vars, doneVars, ClientCall, ClientTakesSignal, ClientReceives, Activate,
   ReplyToCall, S2CPerformEnter, S2CPerformLost, S2CPerformExit, ReceiveS2CReply, Begin, DownPerform,
   Check, SendSignal, DownEnter, SendRequest, DownReply, TakeReply, UpPerform, UpExit, Interrupt

\* A step of the system keeps requests, the handshake and the deferral in order while no
\* performer has returned with its request outstanding.
LEMMA OrderlyStep ==
  ASSUME ProofType, OnePlace, Turn, ~abandoned => Orderly, [Next]_vars, ~abandoned'
  PROVE  Orderly'
<1>0. ~abandoned
  BY AbandonedForGood
<1>1. OneRequestAtMost' /\ HeldBack'
  BY <1>0, RequestStep, HeldBackStep DEF Orderly
<1>2. Handshake'
  <2>1. CASE UNCHANGED vars
    BY <1>0, <2>1 DEF Orderly, Handshake, Stage, Handed, Idle, Handling, Performing, vars, clientVars, semVars,
       callVars, doneVars
  <2> QED BY <1>0, <2>1, TargetHandshake, PerformerHandshake, Zenon DEF Orderly, Next
<1> QED BY <1>1, <1>2 DEF Orderly

\* The inductive invariant holds initially.
LEMMA OrderlyInit == Init => Turn /\ Orderly
<1> SUFFICES ASSUME Init PROVE Turn /\ Orderly OBVIOUS
<1>1. \A p \in Performers : pc[p] = "idle"
  BY DEF Init
<1>2. Turn
  BY <1>1 DEF Init, Turn, HasTurn
<1>3. OneRequestAtMost
  BY <1>1 DEF Init, OneRequestAtMost, Nowhere, NoRequests, InServer
<1>4. Handshake
  BY <1>1 DEF Init, Handshake, Handed, Idle, Handling
<1>5. HeldBack
  BY <1>1 DEF Init, HeldBack
<1> QED BY <1>2, <1>3, <1>4, <1>5 DEF Orderly

\* The five parts of the invariant together, in every reachable state.
LEMMA OrderlyInvariant ==
  Spec => [](ProofType /\ OnePlace /\ Turn /\ (~abandoned => Orderly))
<1>1. Init => ProofType /\ OnePlace /\ Turn /\ (~abandoned => Orderly)
  BY PlaceInit, OrderlyInit
<1>2. ASSUME ProofType, OnePlace, Turn, ~abandoned => Orderly, [Next]_vars
      PROVE  (ProofType /\ OnePlace /\ Turn /\ (~abandoned => Orderly))'
  BY <1>2, TypeStep, OnePlaceStep, TurnStep, OrderlyStep
<1> QED BY <1>1, <1>2, PTL DEF Spec

\* For any number of performers: until one returns with its request outstanding, the reply
\* that a performer takes from _s2cReply answers its own request, and the throws of
\* _s2cPerform and of the receipt of S2C replies are dead code.
THEOREM RepliesMatchRequests == Spec => []OwnReply
<1>1. Turn /\ (~abandoned => Orderly) => OwnReply
  <2> SUFFICES ASSUME Turn, OneRequestAtMost, NEW p \in Performers, pc[p] = "take" PROVE s2cReply = p
    BY DEF OwnReply, Orderly, OneRequestAtMost
  <2>1. PICK q \in Performers : Outstanding(q)
    BY DEF OneRequestAtMost, Nowhere
  <2>2. p = q
    BY <2>1, Waiter DEF HasTurn
  <2> QED BY <2>1, <2>2 DEF Outstanding, InServer
<1> QED BY <1>1, OrderlyInvariant, PTL

\* For any number of performers: until one returns with its request outstanding, a request
\* is only ever on its way to a client that waits for a message, and no reply is ahead of
\* it.  The handshake through the signal handler, the deferral of replies and the exception
\* for the thread's own microthread in _s2cPerform together guarantee it.
THEOREM RequestsAreHeard == Spec => []ClientListens
<1>1. ProofType /\ OnePlace /\ (~abandoned => Orderly) => ClientListens
  <2> SUFFICES ASSUME ProofType, OnePlace, OneRequestAtMost, Handshake, HeldBack,
                      NEW p \in Performers, NEW i \in Sent(Request(p))
               PROVE  phase # "run" /\ NoReplies(toClient)
    BY Zenon DEF ClientListens, Orderly, NoReplies
  <2>1. ~NoRequests(toClient)
    BY DEF Sent, NoRequests, Request
  <2>2. PICK q \in Performers : pc[q] = "reply"
    BY <2>1, Zenon DEF OneRequestAtMost, Nowhere, Outstanding
  <2>3. active # None \/ deferred # None
    <3>1. CASE q \in using
      BY <2>2, <3>1 DEF Handshake, Stage, Performing, None
    <3>2. CASE q = Self
      BY <2>2, <3>2 DEF HeldBack, None
    <3> QED BY <2>2, <3>1, <3>2 DEF HeldBack
  <2> QED BY <2>3, Zenon DEF OnePlace, Place, Kinds
<1> QED BY <1>1, OrderlyInvariant, PTL

-----------------------------------------------------------------------------
(* Waiting *)

\* Whoever waits for the turn waits for a performer that has it, as long as no performer
\* has returned with it.
TurnTaken == perform = 0 => \E p \in Performers : HasTurn(p)

\* A reply is held back only while the performer that will send it is under way.
Deferral ==
  /\ defer => \E p \in Performers : pc[p] \in {"send", "reply", "take"}
  /\ deferred # None => defer

\* The turn is handed on, as long as it is not lost with a performer that is interrupted
\* before it knows that it has it.
LEMMA TurnTakenStep ==
  ASSUME ProofType, Turn, TurnTaken, [Next]_vars, ~abandoned'
  PROVE  TurnTaken'
<1>0. pc \in [Performers -> Labels] /\ perform \in {0, 1}
  BY DEF ProofType, TypeOK, Labels, Turn
<1>1. ASSUME NEW p \in Performers, Begin(p) \/ Check(p) \/ SendSignal(p) \/ DownEnter(p) \/ SendRequest(p)
                                   \/ DownReply(p) \/ TakeReply(p) \/ UpExit(p)
      PROVE  TurnTaken'
  <2>1. /\ perform' = perform /\ pc' = [pc EXCEPT ![p] = pc'[p]]
        /\ HasTurn(p) => HasTurn(p)'
    BY <1>0, <1>1 DEF Begin, Check, SendSignal, DownEnter, SendRequest, DownReply, TakeReply, UpExit,
       Goto, Granted, HasTurn, semVars
  <2> QED BY <1>0, <2>1, Zenon DEF TurnTaken, HasTurn
<1>2. ASSUME NEW p \in Performers, DownPerform(p) PROVE TurnTaken'
  <2>1. pc' = [pc EXCEPT ![p] = "check"]
    BY <1>2 DEF DownPerform, Goto, Granted
  <2> QED BY <1>0, <2>1 DEF TurnTaken, HasTurn
<1>3. ASSUME NEW p \in Performers, UpPerform(p) PROVE TurnTaken'
  BY <1>0, <1>3 DEF UpPerform, TurnTaken
<1>4. ASSUME NEW p \in Performers, Interrupt(p) PROVE TurnTaken'
  <2>1. pc[p] = "perform" /\ UNCHANGED perform /\ pc' = [pc EXCEPT ![p] = "idle"]
    BY <1>4 DEF Interrupt, Goto
  <2> QED BY <1>0, <2>1 DEF TurnTaken, HasTurn
<1>5. CASE UNCHANGED <<pc, perform>>
  BY <1>5 DEF TurnTaken, HasTurn
<1> QED
  BY <1>1, <1>2, <1>3, <1>4, <1>5, Zenon DEF Next, Target, Perform, vars, semVars, ClientCall,
     ClientTakesSignal, ClientReceives, Activate, ReplyToCall, S2CPerformEnter, S2CPerformLost,
     S2CPerformExit, ReceiveS2CReply

\* The performer that ends the deferral sends the deferred reply.
LEMMA DeferralStep ==
  ASSUME ProofType, Deferral, [Next]_vars, ~abandoned'
  PROVE  Deferral'
<1>0. pc \in [Performers -> Labels]
  BY Zenon DEF ProofType, TypeOK, Labels
<1>1. CASE ReplyToCall \/ S2CPerformExit
  BY <1>1 DEF ReplyToCall, S2CPerformExit, PushCallReply, Deferral
<1>2. ASSUME NEW p \in Performers, Check(p) PROVE Deferral'
  <2>1. /\ pc[p] = "check" /\ pc' = [pc EXCEPT ![p] = pc'[p]] /\ UNCHANGED deferred
        /\ defer' => defer \/ pc'[p] = "send"
        /\ defer => defer'
    BY <1>0, <1>2, Zenon DEF Check, Goto
  <2> QED BY <1>0, <2>1 DEF Deferral
<1>3. ASSUME NEW p \in Performers, TakeReply(p) PROVE Deferral'
  BY <1>3 DEF TakeReply, SendDeferred, Deferral
<1>4. ASSUME NEW p \in Performers, Begin(p) \/ DownPerform(p) \/ SendSignal(p) \/ UpPerform(p) \/ UpExit(p)
                                   \/ DownEnter(p) \/ SendRequest(p) \/ DownReply(p) \/ Interrupt(p)
      PROVE  Deferral'
  <2>1. /\ pc' = [pc EXCEPT ![p] = pc'[p]] /\ UNCHANGED <<defer, deferred>>
        /\ pc[p] \in {"send", "reply", "take"} => pc'[p] \in {"reply", "take"}
    BY <1>0, <1>4 DEF Begin, DownPerform, SendSignal, UpPerform, UpExit, DownEnter, SendRequest, DownReply,
       Interrupt, Goto, Granted, callVars
  <2> QED BY <1>0, <2>1, ZenonT(30) DEF Deferral
<1>5. CASE UNCHANGED <<pc, defer, deferred>>
  BY <1>5 DEF Deferral
<1> QED
  BY <1>1, <1>2, <1>3, <1>4, <1>5, Zenon DEF Next, Target, Perform, vars, callVars, ClientCall,
     ClientTakesSignal, ClientReceives, Activate, S2CPerformEnter, S2CPerformLost, ReceiveS2CReply

\* The invariants about waiting, in every reachable state.
LEMMA WaitingInvariant == Spec => [](~abandoned => TurnTaken /\ Deferral)
<1>1. Init => TurnTaken /\ Deferral
  BY DEF Init, TurnTaken, Deferral
<1>2. ASSUME ProofType, Turn, ~abandoned => TurnTaken /\ Deferral, [Next]_vars
      PROVE  (~abandoned => TurnTaken /\ Deferral)'
  <2>1. abandoned => abandoned'
    BY <1>2, AbandonedForGood
  <2> QED BY <1>2, <2>1, TurnTakenStep, DeferralStep
<1> QED BY <1>1, <1>2, OrderlyInvariant, PTL DEF Spec

\* Where nobody can move, nobody waits for a reply: an unanswered request is with a client
\* that waits for it, or its reply is with the server.
LEMMA NobodyAwaitsReply ==
  ASSUME ProofType, OnePlace, Turn, Orderly, ~CanMove, ~WakeUpLost, NEW p \in Performers
  PROVE  pc[p] \in {"idle", "perform", "green"}
<1>1. /\ pc[p] \in {"idle", "perform", "green", "reply"}
      /\ pc[p] = "reply" => ~(reply > 0)
      /\ toServer = <<>> /\ (phase \notin {"run", "failed"} => toClient = <<>>)
  BY Zenon DEF CanMove, WakeUpLost, ProofType, TypeOK
<1> SUFFICES ASSUME pc[p] = "reply" PROVE FALSE
  BY <1>1
<1>2. PICK q \in Performers : Outstanding(q)
  BY DEF Orderly, OneRequestAtMost, Nowhere
<1>3. q = p
  BY <1>2, Waiter DEF HasTurn
<1>4. OneRequest(toClient, p)
  BY <1>1, <1>2, <1>3 DEF Outstanding, InServer
<1>5. active # None \/ deferred # None
  <2>1. CASE p \in using
    BY <2>1 DEF Orderly, Handshake, Stage, Performing, None
  <2>2. CASE p = Self
    BY <2>2 DEF Orderly, HeldBack, None
  <2> QED BY <2>1, <2>2 DEF Orderly, HeldBack
<1>6. phase \in Kinds
  BY <1>5 DEF OnePlace, Place
<1> QED BY <1>1, <1>4, <1>6 DEF OneRequest, Kinds

\* Where nobody can move and nobody embraces, the client runs: its call would be activated,
\* served, answered by a message or have its deferred reply sent.
LEMMA ClientRuns ==
  ASSUME ProofType, OnePlace, Turn, Orderly, TurnTaken, Deferral, ~CanMove, ~WakeUpLost, ~Embrace
  PROVE  phase = "run" /\ active = None
<1>0. \A p \in Performers : pc[p] \in {"idle", "perform", "green"}
  BY NobodyAwaitsReply
<1>1. /\ ~(requested /\ active = None) /\ (phase \notin {"run", "failed"} => toClient = <<>>)
      /\ active \in {"call", "enter", "exit"} => Self \in Performers /\ pc[Self] # "idle"
      /\ active = "perform" => green /\ ~(exit > 0)
      /\ \A p \in Performers : /\ pc[p] = "perform" => ~(perform > 0)
                               /\ pc[p] = "green" => ~(enter > 0)
      /\ ~asleep
  BY Zenon DEF CanMove, WakeUpLost
<1>2. deferred = None
  BY <1>0 DEF Deferral
<1>3. CASE active \in {"call", "enter", "exit"}
  <2>1. Self \in Performers /\ pc[Self] = "perform"
    BY <1>0, <1>1, <1>3 DEF Orderly, HeldBack, Handshake
  <2>2. perform = 0
    BY <1>1, <2>1 DEF Turn
  <2>3. PICK p \in Performers : HasTurn(p)
    BY <2>2 DEF TurnTaken
  <2>4. pc[p] = "green" /\ p # Self
    BY <1>0, <2>1, <2>3 DEF HasTurn
  <2> QED BY <2>1, <2>4, Zenon DEF Embrace
<1>4. CASE active = "perform"
  <2>1. green /\ ~(exit > 0)
    BY <1>1, <1>4
  <2>2. PICK p \in using : Stage(p)
    BY <1>1, <2>1 DEF Orderly, Handshake, Handed, Idle
  <2>3. p \in Performers
    BY <2>2 DEF ProofType, TypeOK
  <2>4. pc[p] = "green" /\ enter = 1
    BY <1>0, <2>1, <2>2, <2>3, Zenon DEF Stage, Idle
  <2> QED BY <1>1, <2>3, <2>4
<1>5. CASE active = None
  BY <1>1, <1>2, <1>5 DEF OnePlace, Place, OneReply, Kinds, None
<1> QED BY <1>3, <1>4, <1>5 DEF ProofType, TypeOK

\* For any number of performers, calls and interruptions: the semaphores of _s2cPerform and
\* s2c_perform, the deferral of replies and the client's waits never leave everybody waiting
\* for somebody else, except in an embrace, after a performer returned with its request or
\* the turn outstanding, or after a semaphore raised its waiter before it had suspended.
THEOREM NobodyStuck == Spec => []NeverStuck
<1>1. ASSUME ProofType, OnePlace, Turn, Orderly, TurnTaken, Deferral, ~CanMove, ~WakeUpLost, ~Embrace
      PROVE  phase = "run" /\ \A p \in Performers : pc[p] = "idle"
  <2>1. phase = "run" /\ active = None
    BY <1>1, ClientRuns
  <2>2. ~(signals > 0) /\ \A p \in Performers : pc[p] = "perform" => ~(perform > 0)
    BY <1>1, <2>1, Zenon DEF CanMove, WakeUpLost
  <2>3. \A p \in Performers : pc[p] # "green"
    BY <1>1, <2>1, <2>2 DEF Orderly, Handshake, Stage, Handling, Performing, None
  <2>4. \A p \in Performers : pc[p] \in {"idle", "perform"}
    BY <1>1, <2>3, NobodyAwaitsReply
  <2>5. perform = 1
    BY <1>1, <2>4 DEF Turn, TurnTaken, HasTurn
  <2> QED BY <2>1, <2>2, <2>4, <2>5
<1>2. ProofType /\ OnePlace /\ Turn /\ (~abandoned => Orderly) /\ (~abandoned => TurnTaken /\ Deferral)
        => NeverStuck
  BY <1>1 DEF NeverStuck
<1> QED BY <1>2, OrderlyInvariant, WaitingInvariant, PTL

\* For any number of performers: once a performer has signalled a client that is in a call
\* whose microthread wants to perform itself, neither gets on, whatever the others do, until
\* the performer is interrupted.
THEOREM EmbraceIsFinal == Spec => EmbraceLasts
<1>1. ASSUME ProofType, Turn, ~abandoned => Orderly, Embrace, [Next]_vars, ~abandoned'
      PROVE  Embrace'
  <2>0. pc \in [Performers -> Labels] /\ Orderly
    BY <1>1, AbandonedForGood DEF ProofType, TypeOK, Labels
  <2>1. PICK p \in Performers : p # Self /\ pc[p] \in {"signal", "green"}
    BY <1>1 DEF Embrace
  <2>2. /\ Self \in Performers /\ pc[Self] = "perform" /\ active = "call"
        /\ p \in using /\ perform = 0 /\ enter = 0
    <3>1. Self \in Performers /\ pc[Self] = "perform" /\ active = "call"
      BY <1>1, <2>0 DEF Embrace, Orderly, HeldBack
    <3>2. p \in using /\ enter = 0
      BY <2>0, <2>1, <3>1 DEF Orderly, Handshake, Stage, Performing
    <3>3. perform = 0
      BY <1>1, <2>1 DEF Turn, HasTurn
    <3> QED BY <3>1, <3>2, <3>3
  <2>3. ASSUME NEW q \in Performers, Begin(q) \/ Perform(q) \/ Interrupt(q) PROVE Embrace'
    <3>0. ~(perform > 0) /\ ~(enter > 0)
      BY <2>2
    <3>1. pc' = [pc EXCEPT ![q] = pc'[q]]
      BY <2>0, <2>3, Zenon DEF Begin, Perform, DownPerform, Check, SendSignal, DownEnter, SendRequest,
         DownReply, TakeReply, UpPerform, UpExit, Interrupt, Goto, Granted
    <3>2. q # Self
      BY <2>2, <2>3, <3>0, Zenon DEF Begin, Perform, DownPerform, Check, SendSignal, DownEnter, SendRequest,
         DownReply, TakeReply, UpPerform, UpExit, Interrupt
    <3>3. q = p => pc'[q] \in {"signal", "green"}
      <4> SUFFICES ASSUME q = p PROVE pc'[q] \in {"signal", "green"} OBVIOUS
      <4>1. SendSignal(q)
        BY <1>1, <2>1, <2>3, <3>0, Zenon DEF Begin, Perform, DownPerform, Check, DownEnter, SendRequest,
           DownReply, TakeReply, UpPerform, UpExit, Interrupt
      <4> QED BY <2>0, <4>1, Zenon DEF SendSignal, Goto
    <3> QED BY <2>0, <2>1, <2>2, <3>1, <3>2, <3>3, Zenon DEF Embrace
  <2>4. CASE UNCHANGED pc
    BY <1>1, <2>4 DEF Embrace
  <2> QED
    BY <1>1, <2>3, <2>4, Zenon DEF Next, Target, vars, ClientCall, ClientTakesSignal, ClientReceives, Activate,
       ReplyToCall, S2CPerformEnter, S2CPerformLost, S2CPerformExit, ReceiveS2CReply
<1>2. ProofType /\ Turn /\ (~abandoned => Orderly) /\ [Next]_vars => [Embrace => Embrace' \/ abandoned']_vars
  BY <1>1
<1> QED BY <1>2, OrderlyInvariant, PTL DEF Spec, EmbraceLasts
=============================================================================
