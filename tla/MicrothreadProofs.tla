------------------------- MODULE MicrothreadProofs -------------------------
(***************************************************************************)
(* What holds of a client thread for any number of workers, calls, blocks, *)
(* signals and S2C calls (Microthread.tla).                                *)
(***************************************************************************)
EXTENDS Microthread, TLAPS

USE DEF callVars, runVars, intrVars, s2cVars, deathVars, microVars, workVars,
        clientVars, chanVars, Kinds, Ordinary, None, Nobody

-----------------------------------------------------------------------------
(* Types *)

PcType(f) == f \in [Workers -> {"idle", "dispatch", "micro", "top", "done", "release"}]
InterruptType == [call : Kinds \cup {None}, saved : Kinds \cup {None}, stack : BOOLEAN]

\* Replacing the top of a stack by a record of the right type keeps its type; the
\* update of an empty stack changes nothing.
LEMMA SetTop ==
  ASSUME NEW s \in Seq(InterruptType), NEW x, s # <<>> => x \in InterruptType
  PROVE  [s EXCEPT ![Len(s)] = x] \in Seq(InterruptType)
<1>1. CASE s = <<>>
  <2>1. Len(s) \notin DOMAIN s
    BY <1>1
  <2>2. [s EXCEPT ![Len(s)] = x] = s
    BY <2>1
  <2> QED
    BY <2>2, Zenon
<1>2. CASE s # <<>>
  BY <1>2
<1> QED
  BY <1>1, <1>2

\* The top of the stack of interrupts is an interrupt.
LEMMA TopType == ASSUME NEW s \in Seq(InterruptType), s # <<>> PROVE s[Len(s)] \in InterruptType
  OBVIOUS

\* Initially the types hold.
LEMMA InitType == Init => TypeOK
<1> SUFFICES ASSUME Init PROVE TypeOK OBVIOUS
<1>1. /\ pc \in [Workers -> {"idle", "dispatch", "micro", "top", "done", "release"}]
      /\ imp \in [Impersonators -> {"idle", "deferring", "impersonating", "left"}]
  BY DEF Init
<1>2. /\ interrupts \in Seq([call : Kinds \cup {None}, saved : Kinds \cup {None}, stack : BOOLEAN])
      /\ requests \in Seq(Kinds \cup {"push"}) /\ replies \in Seq(Kinds)
  BY DEF Init
<1>3. /\ suspended \in BOOLEAN /\ running \in BOOLEAN /\ terminating \in BOOLEAN
      /\ continuation \in BOOLEAN /\ stack \in BOOLEAN
      /\ interruptedContinuation \in BOOLEAN /\ interruptedForSignal \in BOOLEAN
      /\ handlingInterruptedCall \in BOOLEAN /\ pendingCallOverride \in BOOLEAN
      /\ deferReplyForS2C \in BOOLEAN /\ dead \in BOOLEAN /\ dtapeLive \in BOOLEAN
  BY Zenon DEF Init
<1> QED
  BY <1>1, <1>2, <1>3 DEF Init, TypeOK

\* The steps of the client keep the types.
LEMMA ClientType == TypeOK /\ Client => TypeOK'
<1> SUFFICES ASSUME TypeOK, Client PROVE TypeOK' OBVIOUS
<1>1. CASE SendCall
  BY <1>1 DEF Client, SendCall, TypeOK
<1>2. CASE Signal
  BY <1>2 DEF Client, Signal, TypeOK
<1>3. CASE Handler
  <2>1. sent' \in Nat /\ phase' \in {"hcall", "exit"}
    BY <1>3 DEF Handler, TypeOK
  <2>2. requests' = Append(requests, "hcall") \/ requests' = Append(requests, "ix")
    BY <1>3 DEF Handler
  <2>3. requests' \in Seq(Kinds \cup {"push"})
    <3>1. requests \in Seq(Kinds \cup {"push"})
      BY DEF TypeOK
    <3>2. Append(requests, "hcall") \in Seq(Kinds \cup {"push"})
      BY <3>1
    <3>3. Append(requests, "ix") \in Seq(Kinds \cup {"push"})
      BY <3>1
    <3> QED
      BY <2>2, <3>2, <3>3
  <2> QED
    BY <1>3, <2>1, <2>3 DEF Client, Handler, TypeOK
<1>4. CASE ClientReceive
  <2>1. replies' \in Seq(Kinds) /\ Head(replies) \in Kinds
    <3>1. replies \in Seq(Kinds) /\ replies # <<>> /\ replies' = Tail(replies)
      BY <1>4 DEF ClientReceive, TypeOK
    <3> QED
      BY <3>1
  <2>2. requests' \in Seq(Kinds \cup {"push"})
    <3>1. requests' = requests \/ requests' = Append(requests, "push")
      BY <1>4 DEF ClientReceive
    <3>2. requests \in Seq(Kinds \cup {"push"})
      BY Zenon DEF TypeOK
    <3> QED
      BY <3>1, <3>2
  <2>3. phase' \in {"run", "wait", "enter", "push", "handler", "hcall", "exit", "failed", "gone"}
    BY <1>4 DEF ClientReceive, TypeOK
  <2>4. pushing' \in Kinds \cup {None}
    BY <1>4, <2>1 DEF ClientReceive, TypeOK
  <2> QED
    BY <1>4, <2>1, <2>2, <2>3, <2>4 DEF Client, ClientReceive, TypeOK
<1> QED
  BY <1>1, <1>2, <1>3, <1>4 DEF Client

\* The main loop, receiving a call, keeps the types.
LEMMA ReceiveType == TypeOK /\ Receive => TypeOK'
<1> SUFFICES ASSUME TypeOK, Receive PROVE TypeOK' OBVIOUS
<1> DEFINE c == Head(requests)
<1>1. c \in Kinds \cup {"push"} /\ Tail(requests) \in Seq(Kinds \cup {"push"})
  BY DEF Receive, TypeOK
<1>2. CASE Throw(c)
  BY <1>2 DEF Throw, TypeOK
<1>3. CASE c \in Kinds /\ ReceiveCall(c) /\ requests' = Tail(requests) /\ UNCHANGED <<replies, s2cVars>>
  <2> HIDE DEF c
  <2> QED
    BY <1>1, <1>3 DEF ReceiveCall, TypeOK
<1>4. CASE ReceivePush /\ requests' = Tail(requests) /\ UNCHANGED <<replies, s2cVars>>
  <2>1. interrupts' \in Seq(InterruptType)
    <3>1. interrupts \in Seq(InterruptType) /\ pushing \in Kinds \cup {None}
      BY DEF TypeOK, InterruptType
    <3>2. interrupts' = interrupts
            \/ (interrupts # <<>> /\ interrupts' = [interrupts EXCEPT ![Depth].saved = pushing])
      BY <1>4 DEF ReceivePush
    <3>3. interrupts # <<>> => [Top EXCEPT !.saved = pushing] \in InterruptType
      BY <3>1, TopType DEF InterruptType, Top, Depth
    <3>4. [interrupts EXCEPT ![Depth].saved = pushing]
            = [interrupts EXCEPT ![Depth] = [Top EXCEPT !.saved = pushing]]
      BY DEF Top
    <3>5. [interrupts EXCEPT ![Depth].saved = pushing] \in Seq(InterruptType)
      BY <3>1, <3>3, <3>4, SetTop DEF Depth
    <3> QED
      BY <3>1, <3>2, <3>5
  <2>2. pendingSavedReply' \in Kinds \cup {None}
    BY <1>4 DEF ReceivePush, TypeOK
  <2> QED
    BY <1>1, <1>4, <2>1, <2>2 DEF ReceivePush, TypeOK, InterruptType
<1> QED
  BY <1>2, <1>3, <1>4 DEF Receive

\* Wake-ups and the steps of a death keep the types.
LEMMA DeathType == TypeOK /\ (Wake \/ NotifyDead \/ FinishNotifyDead \/ Release) => TypeOK'
<1>1. TypeOK /\ Wake => TypeOK'
  BY DEF Wake, Resumed, TypeOK
<1>2. TypeOK /\ NotifyDead => TypeOK'
  BY Zenon DEF NotifyDead, TypeOK
<1>3. TypeOK /\ FinishNotifyDead => TypeOK'
  BY DEF FinishNotifyDead, Resumed, TypeOK
<1>4. TypeOK /\ Release => TypeOK'
  BY ZenonT(30) DEF Release, TypeOK
<1> QED
  BY <1>1, <1>2, <1>3, <1>4

\* S2C calls and impersonators keep the types.
LEMMA OthersType == TypeOK /\ (S2C \/ \E i \in Impersonators : Impersonate(i)) => TypeOK'
<1>1. TypeOK /\ S2C => TypeOK'
  <2> SUFFICES ASSUME TypeOK, S2C PROVE TypeOK' OBVIOUS
  <2>1. deferReplyForS2C' \in BOOLEAN
    BY Zenon DEF S2C, S2CDefer, S2CFinish
  <2>2. deferredReply' \in Kinds \cup {None} /\ s2cs' \in Nat
    BY DEF S2C, S2CDefer, S2CFinish, TypeOK
  <2>3. replies' \in Seq(Kinds)
    <3>1. \/ replies' = replies
          \/ deferredReply # None /\ replies' = Append(replies, deferredReply)
      BY DEF S2C, S2CDefer, S2CFinish
    <3> QED
      BY <3>1 DEF TypeOK
  <2> QED
    BY <2>1, <2>2, <2>3 DEF S2C, TypeOK
<1>2. ASSUME TypeOK, NEW i \in Impersonators, Impersonate(i) PROVE TypeOK'
  <2>1. running' \in BOOLEAN
    BY <1>2, Zenon DEF Impersonate, ImpersonateDefer, ImpersonateEnter, ImpersonateLeave, TypeOK
  <2>2. deferral' \in {"no", "deferred", "pending"} /\ queued' \in Nat
    BY <1>2 DEF Impersonate, ImpersonateDefer, ImpersonateEnter, ImpersonateLeave, TypeOK
  <2>3. imp' \in [Impersonators -> {"idle", "deferring", "impersonating", "left"}]
    BY <1>2 DEF Impersonate, ImpersonateDefer, ImpersonateEnter, ImpersonateLeave, TypeOK
  <2> QED
    BY <1>2, <2>1, <2>2, <2>3 DEF Impersonate, TypeOK
<1> QED
  BY <1>1, <1>2

\* The end of doWork keeps the types.
LEMMA DoneWorkingType ==
  ASSUME TypeOK, NEW w \in Workers, NEW term \in BOOLEAN, NEW q \in Nat, DoneWorking(w, term, q)
  PROVE  /\ running' \in BOOLEAN /\ terminating' \in BOOLEAN /\ PcType(pc')
         /\ pendingCall' \in Kinds \cup {None} /\ pendingInterrupts' \in Nat /\ queued' \in Nat
<1>1. running' \in BOOLEAN /\ terminating' \in BOOLEAN
  BY Zenon DEF DoneWorking
<1>2. PcType(pc')
  BY DEF DoneWorking, TypeOK, PcType
<1>3. pendingCall' \in Kinds \cup {None} /\ pendingInterrupts' \in Nat /\ queued' \in Nat
  BY DEF DoneWorking, TypeOK
<1> QED
  BY <1>1, <1>2, <1>3

\* The steps of a worker inside doWork keep the types.
LEMMA WorkType ==
  ASSUME TypeOK, NEW w \in Workers, DoWork(w) \/ Dispatch(w) \/ BackToTop(w) \/ FinishDoWork(w)
  PROVE  TypeOK'
<1>1. CASE DoWork(w)
  <2>0. terminating \in BOOLEAN /\ queued \in Nat /\ queued - 1 \in Nat
    BY <1>1 DEF DoWork, TypeOK
  <2>1. CASE DoWorkDeferred(w)
    BY <1>1, <2>0, <2>1 DEF DoWork, DoWorkDeferred, TypeOK
  <2>2. CASE DoWorkRunning(w)
    BY <1>1, <2>0, <2>2 DEF DoWork, DoWorkRunning, TypeOK
  <2>3. CASE DoWorkTerminated(w)
    <3>1. /\ running' \in BOOLEAN /\ terminating' \in BOOLEAN /\ PcType(pc')
          /\ pendingCall' \in Kinds \cup {None} /\ pendingInterrupts' \in Nat /\ queued' \in Nat
      BY <2>0, <2>3, DoneWorkingType, Zenon DEF DoWorkTerminated
    <3> QED
      BY <1>1, <2>3, <3>1 DEF DoWork, DoWorkTerminated, TypeOK, PcType
  <2>4. CASE DoWorkStart(w)
    <3>1. running' \in BOOLEAN /\ PcType(pc')
      BY <2>4 DEF DoWorkStart, TypeOK, PcType
    <3> QED
      BY <1>1, <2>0, <2>4, <3>1 DEF DoWork, DoWorkStart, TypeOK, PcType
  <2> QED
    BY <1>1, <2>1, <2>2, <2>3, <2>4 DEF DoWork
<1>2. CASE Dispatch(w)
  <2>1. CASE StartInterrupt(w)
    <3>1. interrupts' \in Seq(InterruptType)
      BY <2>1 DEF StartInterrupt, TypeOK, InterruptType
    <3>2. suspended' \in BOOLEAN /\ stack' \in BOOLEAN /\ continuation' \in BOOLEAN
      BY <2>1, Zenon DEF StartInterrupt
    <3>3. interruptedContinuation' \in BOOLEAN
      BY <2>1 DEF StartInterrupt, TypeOK
    <3>4. PcType(pc')
      BY <2>1 DEF StartInterrupt, TypeOK, PcType
    <3> QED
      BY <1>2, <2>1, <3>1, <3>2, <3>3, <3>4
         DEF Dispatch, StartInterrupt, TypeOK, PcType, InterruptType
  <2>2. CASE ResumeMicrothread(w)
    <3>1. suspended' \in BOOLEAN /\ stack' \in BOOLEAN /\ continuation' \in BOOLEAN
      BY <2>2, Zenon DEF ResumeMicrothread
    <3>2. PcType(pc')
      BY <2>2 DEF ResumeMicrothread, TypeOK, PcType
    <3> QED
      BY <1>2, <2>2, <3>1, <3>2 DEF Dispatch, ResumeMicrothread, GoesOn, TypeOK, PcType
  <2>3. CASE StartCall(w)
    <3>1. suspended' \in BOOLEAN /\ stack' \in BOOLEAN
      BY <2>3, Zenon DEF StartCall
    <3>2. PcType(pc')
      BY <2>3 DEF StartCall, TypeOK, PcType
    <3> QED
      BY <1>2, <2>3, <3>1, <3>2 DEF Dispatch, StartCall, TypeOK, PcType
  <2>4. CASE NothingToDo(w)
    <3>1. /\ running' \in BOOLEAN /\ terminating' \in BOOLEAN /\ PcType(pc')
          /\ pendingCall' \in Kinds \cup {None} /\ pendingInterrupts' \in Nat /\ queued' \in Nat
      BY <2>4, DoneWorkingType DEF NothingToDo, TypeOK
    <3> QED
      BY <1>2, <2>4, <3>1 DEF Dispatch, NothingToDo, TypeOK, PcType
  <2> QED
    BY <1>2, <2>1, <2>2, <2>3, <2>4 DEF Dispatch
<1>3. CASE BackToTop(w)
  <2>1. /\ running' \in BOOLEAN /\ terminating' \in BOOLEAN /\ PcType(pc')
        /\ pendingCall' \in Kinds \cup {None} /\ pendingInterrupts' \in Nat /\ queued' \in Nat
    BY <1>3, DoneWorkingType DEF BackToTop, TypeOK
  <2>2. stack' \in BOOLEAN
    BY <1>3 DEF BackToTop
  <2> QED
    BY <1>3, <2>1, <2>2 DEF BackToTop, TypeOK, PcType
<1>4. CASE FinishDoWork(w)
  <2>1. PcType(pc')
    BY <1>4 DEF FinishDoWork, TypeOK, PcType
  <2> QED
    BY <1>4, <2>1 DEF FinishDoWork, TypeOK, PcType
<1> QED
  BY <1>1, <1>2, <1>3, <1>4

\* Sending, saving or deferring a reply keeps the types.
LEMMA PushCallReplyType ==
  ASSUME TypeOK, NEW w \in Workers, NEW expected, NEW next, PushCallReply(w, expected, next),
         expected \subseteq Kinds
  PROVE  /\ activeCall' \in Kinds \cup {None} /\ deferredReply' \in Kinds \cup {None}
         /\ replies' \in Seq(Kinds)
<1>1. activeCall \in Kinds
  BY DEF PushCallReply
<1>2. replies' = replies \/ replies' = Append(replies, activeCall)
  BY DEF PushCallReply
<1>3. replies' \in Seq(Kinds)
  BY <1>1, <1>2 DEF TypeOK
<1> QED
  BY <1>1, <1>3 DEF PushCallReply, TypeOK

\* The steps of the microthread itself keep the types.
LEMMA MicrothreadType == ASSUME TypeOK, NEW w \in Workers, Microthread(w) PROVE TypeOK'
<1>0. PcType(pc)
  BY DEF TypeOK, PcType
<1>00. interrupts \in Seq(InterruptType)
  BY DEF TypeOK, InterruptType
<1>1. CASE MakePendingCallActive(w)
  BY <1>1 DEF Microthread, MakePendingCallActive, TypeOK
<1>2. CASE AssertWait(w)
  BY <1>2 DEF Microthread, AssertWait, TypeOK
<1>3. CASE SuspendUnlocked(w)
  <2>1. suspended' \in BOOLEAN /\ continuation' \in BOOLEAN
    BY <1>3, Zenon DEF SuspendUnlocked
  <2>2. PcType(pc')
    BY <1>0, <1>3 DEF SuspendUnlocked, PcType
  <2> QED
    BY <1>3, <2>1, <2>2 DEF Microthread, SuspendUnlocked, TypeOK, PcType
<1>4. CASE SuspendLocked(w)
  <2>1. suspended' \in BOOLEAN
    BY <1>4 DEF SuspendLocked
  <2>2. PcType(pc')
    BY <1>0, <1>4 DEF SuspendLocked, PcType
  <2> QED
    BY <1>4, <2>1, <2>2 DEF Microthread, SuspendLocked, TypeOK, PcType
<1>5. CASE ReturnToTop(w)
  <2>1. PcType(pc')
    BY <1>0, <1>5 DEF ReturnToTop, PcType
  <2> QED
    BY <1>5, <2>1 DEF Microthread, ReturnToTop, TypeOK, PcType
<1>6. CASE Reply(w) \/ InterruptEnter4(w) \/ InterruptExit1(w)
  <2> SUFFICES ASSUME NEW expected, NEW next \in {"replied", "exit2"},
                      PushCallReply(w, expected, next), expected \subseteq Kinds
               PROVE  TypeOK'
    BY <1>6 DEF Reply, InterruptEnter4, InterruptExit1
  <2>1. /\ activeCall' \in Kinds \cup {None} /\ deferredReply' \in Kinds \cup {None}
        /\ replies' \in Seq(Kinds)
    BY PushCallReplyType, Zenon
  <2> QED
    BY <2>1 DEF Microthread, PushCallReply, TypeOK
<1>7. CASE InterruptEnter1(w)
  <2>1. interrupts' \in Seq(InterruptType)
    <3>0. pendingSavedReply \in Kinds \cup {None}
      BY DEF TypeOK
    <3>1. interrupts # <<>> => [Top EXCEPT !.saved = pendingSavedReply] \in InterruptType
      BY <1>00, <3>0, TopType, Zenon DEF InterruptType, Top, Depth
    <3>2. [interrupts EXCEPT ![Depth].saved = pendingSavedReply]
            = [interrupts EXCEPT ![Depth] = [Top EXCEPT !.saved = pendingSavedReply]]
      BY DEF Top
    <3>3. [interrupts EXCEPT ![Depth].saved = pendingSavedReply] \in Seq(InterruptType)
      BY <1>00, <3>1, <3>2, SetTop DEF Depth
    <3> QED
      BY <1>00, <1>7, <3>3 DEF InterruptEnter1
  <2>2. interruptedForSignal' \in BOOLEAN
    BY <1>7 DEF InterruptEnter1
  <2> QED
    BY <1>7, <2>1, <2>2 DEF Microthread, InterruptEnter1, TypeOK, InterruptType
<1>8. CASE InterruptEnter2(w)
  <2>1. /\ handlingInterruptedCall' \in BOOLEAN /\ pendingCallOverride' \in BOOLEAN
        /\ interruptedContinuation' \in BOOLEAN
    BY <1>8, Zenon DEF InterruptEnter2, TypeOK
  <2>2. ctl' \in {"icall", "enter3"}
    BY <1>8 DEF InterruptEnter2
  <2> QED
    BY <1>8, <2>1, <2>2 DEF Microthread, InterruptEnter2, GoesOn, TypeOK
<1>9. CASE ReplyInterrupted(w)
  <2>1. interrupts' \in Seq(InterruptType)
    <3> DEFINE t == [Top EXCEPT !.call = None, !.saved = Top.call]
    <3>1. interrupts # <<>> => t \in InterruptType
      BY <1>00, TopType, Zenon DEF InterruptType, Top, Depth
    <3>2. interrupts' = [interrupts EXCEPT ![Depth] = t]
      BY <1>9, Zenon DEF ReplyInterrupted, Top
    <3> HIDE DEF t
    <3> QED
      BY <1>00, <3>1, <3>2, SetTop DEF Depth
  <2> QED
    BY <1>9, <2>1 DEF Microthread, ReplyInterrupted, TypeOK, InterruptType
<1>10. CASE InterruptEnter3(w)
  <2>1. interrupts' \in Seq(InterruptType)
    <3> DEFINE t == [Top EXCEPT !.call = None, !.stack = FALSE]
    <3>1. interrupts # <<>> => t \in InterruptType
      BY <1>00, TopType, Zenon DEF InterruptType, Top, Depth
    <3>2. interrupts' = [interrupts EXCEPT ![Depth] = t]
      BY <1>10, Zenon DEF InterruptEnter3, Top
    <3> HIDE DEF t
    <3> QED
      BY <1>00, <3>1, <3>2, SetTop DEF Depth
  <2>2. /\ handlingInterruptedCall' \in BOOLEAN /\ pendingCallOverride' \in BOOLEAN
        /\ interruptedForSignal' \in BOOLEAN
    BY <1>10, Zenon DEF InterruptEnter3
  <2> QED
    BY <1>10, <2>1, <2>2 DEF Microthread, InterruptEnter3, TypeOK, InterruptType
<1>11. CASE InterruptExit2(w)
  <2>1. interrupts # <<>> /\ Depth \in Nat /\ Depth >= 1
    BY <1>00, <1>11 DEF InterruptExit2, Depth
  <2>2. interrupts' \in Seq(InterruptType)
    <3>1. \A k \in 1 .. (Depth - 1) : interrupts[k] \in InterruptType
      BY <1>00, <2>1 DEF Depth
    <3> QED
      BY <1>00, <1>11, <2>1, <3>1 DEF InterruptExit2, Depth
  <2>3. replies' \in Seq(Kinds)
    <3>1. Top.saved \in Kinds \cup {None}
      BY <1>00, <2>1, TopType DEF Top, Depth, InterruptType
    <3>2. replies' = replies \/ (Top.saved # None /\ replies' = Append(replies, Top.saved))
      BY <1>11 DEF InterruptExit2
    <3>3. replies \in Seq(Kinds)
      BY DEF TypeOK
    <3>4. \A x \in Kinds \cup {None} : x # None => Append(replies, x) \in Seq(Kinds)
      BY <3>3
    <3> QED
      BY <3>1, <3>2, <3>3, <3>4
  <2> QED
    BY <1>11, <2>2, <2>3 DEF Microthread, InterruptExit2, TypeOK, InterruptType
<1> QED
  BY <1>1, <1>2, <1>3, <1>4, <1>5, <1>6, <1>7, <1>8, <1>9, <1>10, <1>11 DEF Microthread

\* A checkout and the second insertion into a queue keep the types.
LEMMA CheckoutType ==
  ASSUME TypeOK, NEW w \in Workers, Checkout(w) \/ SuspendTwice(w)
  PROVE  TypeOK'
<1>1. CASE Checkout(w)
  <2>1. replies' \in Seq(Kinds)
    <3>1. replies \in Seq(Kinds) /\ replies' = Append(replies, "call")
      BY <1>1 DEF Checkout, TypeOK
    <3> QED
      BY <3>1
  <2>2. dead' \in BOOLEAN
    BY <1>1 DEF Checkout
  <2>3. dying' \in {"alive", "release", "resume", "unregistered"}
    BY <1>1 DEF Checkout, TypeOK
  <2> QED
    BY <1>1, <2>1, <2>2, <2>3 DEF Checkout, TypeOK
<1>2. CASE SuspendTwice(w)
  BY <1>2 DEF SuspendTwice, Throw, TypeOK
<1> QED
  BY <1>1, <1>2

\* Every step keeps the types.
LEMMA StepType == TypeOK /\ [Next]_vars => TypeOK'
<1>1. TypeOK /\ UNCHANGED vars => TypeOK'
  BY DEF vars, TypeOK
<1> QED
  BY <1>1, ClientType, ReceiveType, DeathType, OthersType, WorkType, MicrothreadType,
     CheckoutType DEF Next, Quiet

\* The fields of Thread keep their types whatever the main loop, the workers, the
\* impersonators and the client do.
THEOREM TypeCorrect == Spec => []TypeOK
  BY InitType, StepType, PTL DEF Spec

-----------------------------------------------------------------------------
(* One runner *)

\* Initially nobody runs the thread.
LEMMA RunnerInit == Init => OneRunner
  BY DEF Init, OneRunner, Runs, Impersonates

\* The three ways to doneWorking all leave the claim free.
LEMMA DoneWorkingRunner ==
  ASSUME TypeOK, OneRunner, NEW w \in Workers, NEW term, NEW q, DoneWorking(w, term, q),
         imp' = imp, Runs(w) \/ ~running
  PROVE  OneRunner'
<1>1. \A v \in Workers : v # w => pc'[v] = pc[v]
  BY DEF DoneWorking, TypeOK
<1>2. pc'[w] \in {"done", "release"}
  BY DEF DoneWorking, TypeOK
<1>3. running' = FALSE
  BY DEF DoneWorking
<1>4. \A v \in Workers : ~Runs(v)'
  BY <1>1, <1>2 DEF OneRunner, Runs
<1>5. \A i \in Impersonators : ~Impersonates(i)'
  BY DEF OneRunner, Runs, Impersonates
<1> QED
  BY <1>3, <1>4, <1>5 DEF OneRunner

\* Every step keeps the claim of _running exclusive.
LEMMA RunnerStep == TypeOK /\ OneRunner /\ [Next]_vars => OneRunner'
<1> SUFFICES ASSUME TypeOK, OneRunner, [Next]_vars PROVE OneRunner' OBVIOUS
<1>1. ASSUME UNCHANGED <<running, pc, imp>> PROVE OneRunner'
  BY <1>1 DEF OneRunner, Runs, Impersonates
<1>2. CASE Client \/ Receive \/ Wake \/ NotifyDead \/ FinishNotifyDead \/ Release \/ S2C \/ UNCHANGED vars
  <2>1. UNCHANGED <<running, pc, imp>>
    BY <1>2
       DEF Client, Receive, ReceiveCall, ReceivePush, Throw, Wake, NotifyDead, FinishNotifyDead,
       Release, S2C, vars
  <2> QED
    BY <1>1, <2>1
<1>3. ASSUME NEW i \in Impersonators, Impersonate(i) PROVE OneRunner'
  <2>0. pc' = pc
    BY <1>3 DEF Impersonate
  <2>1. CASE ImpersonateDefer(i)
    BY <2>0, <2>1 DEF ImpersonateDefer, OneRunner, Runs, Impersonates, TypeOK
  <2>2. CASE ImpersonateEnter(i)
    BY <2>0, <2>2 DEF ImpersonateEnter, OneRunner, Runs, Impersonates, TypeOK
  <2>3. CASE ImpersonateLeave(i)
    BY <2>0, <2>3 DEF ImpersonateLeave, OneRunner, Runs, Impersonates, TypeOK
  <2> QED
    BY <1>3, <2>1, <2>2, <2>3 DEF Impersonate
<1>4. ASSUME NEW w \in Workers, DoWork(w) PROVE OneRunner'
  <2>0. imp' = imp
    BY <1>4 DEF DoWork
  <2>1. CASE DoWorkDeferred(w) \/ DoWorkRunning(w)
    BY <1>1, <2>0, <2>1 DEF DoWorkDeferred, DoWorkRunning
  <2>2. CASE DoWorkTerminated(w)
    BY <2>0, <2>2, DoneWorkingRunner, Zenon DEF DoWorkTerminated
  <2>3. CASE DoWorkStart(w)
    BY <2>0, <2>3 DEF DoWorkStart, OneRunner, Runs, Impersonates, TypeOK
  <2> QED
    BY <1>4, <2>1, <2>2, <2>3 DEF DoWork
<1>5. ASSUME NEW w \in Workers, Dispatch(w) PROVE OneRunner'
  <2>0. imp' = imp /\ pc[w] = "dispatch"
    BY <1>5 DEF Dispatch
  <2>1. CASE NothingToDo(w)
    BY <2>0, <2>1, DoneWorkingRunner DEF NothingToDo, Runs
  <2>2. CASE StartInterrupt(w) \/ ResumeMicrothread(w) \/ StartCall(w)
    <3>1. running' = running /\ pc' = [pc EXCEPT ![w] = "micro"]
      BY <2>2 DEF StartInterrupt, ResumeMicrothread, StartCall
    <3> QED
      BY <2>0, <3>1 DEF OneRunner, Runs, Impersonates, TypeOK
  <2> QED
    BY <1>5, <2>1, <2>2 DEF Dispatch
<1>6. ASSUME NEW w \in Workers, BackToTop(w) PROVE OneRunner'
  BY <1>6, DoneWorkingRunner, Zenon DEF BackToTop, Runs
<1>7. ASSUME NEW w \in Workers, FinishDoWork(w) PROVE OneRunner'
  BY <1>7 DEF FinishDoWork, OneRunner, Runs, Impersonates, TypeOK
<1>8. ASSUME NEW w \in Workers, Microthread(w) PROVE OneRunner'
  <2>1. imp' = imp /\ running' = running /\ pc[w] = "micro"
    BY <1>8 DEF Microthread
  <2>2. pc' = pc \/ pc' = [pc EXCEPT ![w] = "top"]
    BY <1>8, Zenon
       DEF Microthread, MakePendingCallActive, Reply, PushCallReply, ReturnToTop, AssertWait,
       SuspendUnlocked, SuspendLocked, InterruptEnter1, InterruptEnter2, ReplyInterrupted,
       InterruptEnter3, InterruptEnter4, InterruptExit1, InterruptExit2
  <2> QED
    BY <2>1, <2>2 DEF OneRunner, Runs, Impersonates, TypeOK
<1>9. ASSUME NEW w \in Workers, Checkout(w) \/ SuspendTwice(w) PROVE OneRunner'
  <2>1. UNCHANGED <<running, pc, imp>>
    BY <1>9, Zenon DEF Checkout, SuspendTwice, Throw
  <2> QED
    BY <1>1, <2>1
<1> QED
  BY <1>2, <1>3, <1>4, <1>5, <1>6, <1>7, <1>8, <1>9 DEF Next, Quiet

\* At any time at most one worker or impersonator has the microthread, and
\* _running says exactly whether one has.
THEOREM RunnerExclusive == Spec => []OneRunner
  BY RunnerInit, RunnerStep, TypeCorrect, PTL DEF Spec

-----------------------------------------------------------------------------
(* Death and release *)

Releasing(w) == pc[w] = "release"

\* The release is promised at most once, in one of three places: notifyDead has
\* yet to schedule it, a worker leaving doWork has, or it is scheduled.  A promise
\* implies _terminating, which only one of the two critical sections sets first.
DeathInv ==
  /\ dead <=> dying # "alive"
  /\ terminating => dead
  /\ (releases > 0 \/ dying = "release" \/ \E w \in Workers : Releasing(w)) => terminating
  /\ releases <= 1
  /\ dying = "release" => releases = 0 /\ \A w \in Workers : ~Releasing(w)
  /\ \A w \in Workers : Releasing(w) => releases = 0
  /\ \A v, w \in Workers : Releasing(v) /\ Releasing(w) => v = w
  /\ (dead /\ activeCall = None /\ \A w \in Workers : ~Runs(w)) => terminating

\* Initially no release is promised.
LEMMA DeathInit == Init => DeathInv
  BY DEF Init, DeathInv, Releasing

\* The end of doWork promises a release only if nobody has.
LEMMA DoneWorkingDeath ==
  ASSUME TypeOK, DeathInv, NEW w \in Workers, NEW term \in BOOLEAN, NEW q, DoneWorking(w, term, q),
         UNCHANGED <<dead, dying, releases, activeCall>>, pc[w] # "release",
         terminating => term, term => dead
  PROVE  DeathInv'
<1> DEFINE finished == dead /\ activeCall = None /\ ~term
<1>1. terminating' = (term \/ finished)
  BY DEF DoneWorking
<1>2. pc' = [pc EXCEPT ![w] = IF finished THEN "release" ELSE "done"]
  BY DEF DoneWorking
<1>3. \A v \in Workers : Releasing(v)' => Releasing(v) \/ (v = w /\ finished)
  BY <1>2 DEF TypeOK, Releasing
<1>4. finished => ~terminating /\ releases = 0 /\ dying # "release" /\ \A v \in Workers : ~Releasing(v)
  BY DEF DeathInv, TypeOK
<1>5. (dead /\ activeCall = None) => terminating'
  BY <1>1, Zenon
<1> HIDE DEF finished
<1>6. (terminating' => dead) /\ (terminating => terminating') /\ (finished => terminating')
  BY <1>1, Zenon DEF finished
<1> QED
  BY <1>3, <1>4, <1>5, <1>6 DEF DeathInv

\* Every step keeps the promise of a release unique.
LEMMA DeathStep == TypeOK /\ DeathInv /\ [Next]_vars => DeathInv'
<1> SUFFICES ASSUME TypeOK, DeathInv, [Next]_vars PROVE DeathInv' OBVIOUS
<1>1. ASSUME UNCHANGED <<dead, dying, terminating, releases, pc, activeCall>> PROVE DeathInv'
  BY <1>1 DEF DeathInv, Releasing, Runs
<1>2. CASE Client \/ Receive \/ Wake \/ Release \/ S2C \/ UNCHANGED vars
  <2>1. UNCHANGED <<dead, dying, terminating, releases, pc, activeCall>>
    BY <1>2 DEF Client, Receive, ReceiveCall, ReceivePush, Throw, Wake, Release, S2C, vars
  <2> QED
    BY <1>1, <2>1
<1>3. ASSUME NEW i \in Impersonators, Impersonate(i) PROVE DeathInv'
  BY <1>1, <1>3 DEF Impersonate
<1>4. CASE NotifyDead
  <2>1. /\ dying = "alive" /\ dead' = TRUE /\ UNCHANGED <<releases, pc, activeCall>>
        /\ \/ activeCall = None /\ terminating' = TRUE /\ dying' = "release"
           \/ activeCall # None /\ dying' = "resume" /\ terminating' = terminating
    BY <1>4 DEF NotifyDead
  <2>2. ~dead /\ ~terminating /\ releases = 0 /\ \A w \in Workers : ~Releasing(w)
    BY <2>1 DEF DeathInv, TypeOK
  <2>3. \A w \in Workers : ~Releasing(w)'
    BY <2>1, <2>2 DEF Releasing
  <2> QED
    BY <2>1, <2>2, <2>3 DEF DeathInv
<1>5. CASE FinishNotifyDead
  <2>1. /\ dying \in {"release", "resume"} /\ dying' = "unregistered"
        /\ UNCHANGED <<dead, terminating, pc, activeCall>>
        /\ \/ dying = "release" /\ releases' = releases + 1
           \/ dying = "resume" /\ releases' = releases
    BY <1>5 DEF FinishNotifyDead
  <2>2. /\ \A w \in Workers : Releasing(w)' <=> Releasing(w)
        /\ \A w \in Workers : Runs(w)' <=> Runs(w)
    BY <2>1 DEF Releasing, Runs
  <2> QED
    BY <2>1, <2>2 DEF DeathInv, TypeOK
<1>6. ASSUME NEW w \in Workers, DoWork(w) PROVE DeathInv'
  <2>1. CASE DoWorkDeferred(w) \/ DoWorkRunning(w)
    BY <1>1, <1>6, <2>1 DEF DoWork, DoWorkDeferred, DoWorkRunning
  <2>2. CASE DoWorkTerminated(w)
    <3>1. pc[w] # "release" /\ UNCHANGED <<dead, dying, releases, activeCall>> /\ dead
      BY <1>6, <2>2 DEF DoWork, DoWorkTerminated, DeathInv
    <3> QED
      BY <2>2, <3>1, DoneWorkingDeath, Zenon DEF DoWorkTerminated
  <2>3. CASE DoWorkStart(w)
    <3>1. /\ pc[w] = "idle" /\ pc' = [pc EXCEPT ![w] = "dispatch"]
          /\ UNCHANGED <<dead, dying, terminating, releases, activeCall>>
      BY <1>6, <2>3 DEF DoWork, DoWorkStart
    <3>2. (\A v \in Workers : Releasing(v)' <=> Releasing(v)) /\ Runs(w)'
      BY <3>1 DEF Releasing, Runs, TypeOK
    <3> QED
      BY <3>1, <3>2 DEF DeathInv
  <2> QED
    BY <1>6, <2>1, <2>2, <2>3 DEF DoWork
<1>7. ASSUME NEW w \in Workers, Dispatch(w) PROVE DeathInv'
  <2>1. pc[w] = "dispatch" /\ UNCHANGED <<dead, dying, releases>>
    BY <1>7, Zenon DEF Dispatch
  <2>2. CASE NothingToDo(w)
    BY <2>1, <2>2, DoneWorkingDeath, Zenon DEF NothingToDo, DeathInv, TypeOK
  <2>3. CASE StartInterrupt(w) \/ ResumeMicrothread(w) \/ StartCall(w)
    <3>1. terminating' = terminating /\ pc' = [pc EXCEPT ![w] = "micro"]
      BY <2>3 DEF StartInterrupt, ResumeMicrothread, StartCall
    <3>2. (\A v \in Workers : Releasing(v)' <=> Releasing(v)) /\ Runs(w)'
      BY <2>1, <3>1 DEF Releasing, Runs, TypeOK
    <3> QED
      BY <2>1, <3>1, <3>2 DEF DeathInv
  <2> QED
    BY <1>7, <2>2, <2>3 DEF Dispatch
<1>8. ASSUME NEW w \in Workers, BackToTop(w) PROVE DeathInv'
  <2>1. pc[w] = "top" /\ UNCHANGED <<dead, dying, releases, activeCall>>
    BY <1>8 DEF BackToTop
  <2> QED
    BY <1>8, <2>1, DoneWorkingDeath, Zenon DEF BackToTop, DeathInv, TypeOK
<1>9. ASSUME NEW w \in Workers, FinishDoWork(w) PROVE DeathInv'
  <2>1. /\ pc[w] \in {"done", "release"} /\ pc' = [pc EXCEPT ![w] = "idle"]
        /\ releases' = IF pc[w] = "release" THEN releases + 1 ELSE releases
        /\ UNCHANGED <<dead, dying, terminating, activeCall>>
    BY <1>9 DEF FinishDoWork
  <2>2. \A v \in Workers : Releasing(v)' <=> Releasing(v) /\ v # w
    BY <2>1 DEF Releasing, TypeOK
  <2>3. \A v \in Workers : Runs(v)' <=> Runs(v)
    BY <2>1 DEF Runs, TypeOK
  <2>4. CASE Releasing(w)
    <3>1. releases' = 1 /\ dying # "release" /\ terminating /\ \A v \in Workers : ~Releasing(v)'
      BY <2>1, <2>2, <2>4 DEF DeathInv, Releasing
    <3> QED
      BY <2>1, <2>3, <3>1 DEF DeathInv
  <2>5. CASE ~Releasing(w)
    <3>1. releases' = releases /\ \A v \in Workers : Releasing(v)' <=> Releasing(v)
      BY <2>1, <2>2, <2>5 DEF Releasing
    <3> QED
      BY <2>1, <2>3, <3>1 DEF DeathInv
  <2> QED
    BY <2>4, <2>5
<1>10. ASSUME NEW w \in Workers, Microthread(w) PROVE DeathInv'
  <2>1. UNCHANGED <<dead, dying, terminating, releases>> /\ pc[w] = "micro"
    BY <1>10 DEF Microthread
  <2>2. pc' = pc \/ pc' = [pc EXCEPT ![w] = "top"]
    BY <1>10, Zenon
       DEF Microthread, MakePendingCallActive, Reply, PushCallReply, ReturnToTop, AssertWait,
       SuspendUnlocked, SuspendLocked, InterruptEnter1, InterruptEnter2, ReplyInterrupted,
       InterruptEnter3, InterruptEnter4, InterruptExit1, InterruptExit2
  <2>3. (\A v \in Workers : Releasing(v)' <=> Releasing(v)) /\ Runs(w)'
    BY <2>1, <2>2 DEF Releasing, Runs, TypeOK
  <2> QED
    BY <2>1, <2>3 DEF DeathInv
<1>11. ASSUME NEW w \in Workers, Checkout(w) PROVE DeathInv'
  <2>1. /\ activeCall # None /\ UNCHANGED <<terminating, releases, pc, activeCall>>
        /\ dead' = TRUE /\ dying' = IF dead THEN dying ELSE "unregistered"
    BY <1>11 DEF Checkout
  <2>2. \A v \in Workers : Releasing(v)' <=> Releasing(v)
    BY <2>1 DEF Releasing
  <2> QED
    BY <2>1, <2>2 DEF DeathInv
<1>12. ASSUME NEW w \in Workers, SuspendTwice(w) PROVE DeathInv'
  BY <1>1, <1>12 DEF SuspendTwice, Throw
<1> QED
  BY <1>2, <1>3, <1>4, <1>5, <1>6, <1>7, <1>8, <1>9, <1>10, <1>11, <1>12 DEF Next, Quiet

\* notifyDead and doWork never both release the duct-taped thread.
THEOREM ReleasedAtMostOnce == Spec => []ReleasedOnce
<1>1. DeathInv => ReleasedOnce
  BY DEF DeathInv, ReleasedOnce
<1> QED
  BY <1>1, DeathInit, DeathStep, TypeCorrect, PTL DEF Spec

\* The branch doWork calls impossible is: a dead thread at rest without a call
\* is already terminating.
THEOREM DeadThreadsTerminate == Spec => []DeadIsTerminating
<1>1. TypeOK /\ OneRunner /\ DeathInv => DeadIsTerminating
  BY DEF DeathInv, OneRunner, DeadIsTerminating
<1> QED
  BY <1>1, DeathInit, DeathStep, TypeCorrect, RunnerExclusive, PTL DEF Spec

-----------------------------------------------------------------------------
(* Wake-ups *)

\* A worker that is about to leave doWork with the thread suspended still holds the
\* lock the waker needs, so nobody is woken while _running would drop the wake-up;
\* while it is impersonated, the deferral keeps it.
WakeInv ==
  /\ \A i \in Impersonators : imp[i] \in {"deferring", "impersonating"} => deferral # "no"
  /\ \A w \in Workers : pc[w] = "micro" => ~suspended
  /\ \A w \in Workers : pc[w] = "top" /\ suspended => wait = "armed" /\ unlockMe = w
  /\ (wait = "woken" /\ suspended /\ ~terminating /\ \A w \in Workers : ~Runs(w)) => Scheduled

\* Initially no wake-up is under way.
LEMMA WakeInit == Init => WakeInv
  BY DEF Init, WakeInv

\* With locked waits and one impersonator at most, every step keeps wake-ups.
LEMMA WakeStep ==
  ASSUME WaitKind = "locked", \A i, j \in Impersonators : i = j,
         TypeOK, OneRunner, WakeInv, [Next]_vars
  PROVE  WakeInv'
<1>1. CASE Client \/ Release \/ S2C \/ UNCHANGED vars
  <2>1. UNCHANGED <<imp, deferral, pc, suspended, wait, unlockMe, terminating, queued>>
    BY <1>1 DEF Client, Release, S2C, vars
  <2> QED
    BY <2>1, Zenon DEF WakeInv, Scheduled, Runs
<1>2. CASE Receive
  <2>1. /\ UNCHANGED <<imp, deferral, pc, suspended, wait, unlockMe, terminating>>
        /\ queued' = queued \/ queued' = queued + 1
    BY <1>2 DEF Receive, ReceiveCall, ReceivePush, Throw
  <2> QED
    BY <2>1 DEF WakeInv, Scheduled, Runs, TypeOK
<1>3. CASE Wake
  <2>1. /\ UNCHANGED <<imp, deferral, pc, suspended, unlockMe, terminating>>
        /\ unlockMe = Nobody /\ queued' = queued + Resumed
    BY <1>3 DEF Wake
  <2>2. \A w \in Workers : ~(pc[w] = "top" /\ suspended)
    BY <2>1, MicrothreadAssumption DEF WakeInv
  <2> QED
    BY <2>1, <2>2 DEF WakeInv, Scheduled, Runs, Resumed, TypeOK
<1>4. CASE NotifyDead
  <2>1. /\ UNCHANGED <<imp, deferral, pc, suspended, wait, unlockMe, queued>>
        /\ terminating' = TRUE \/ terminating' = terminating
    BY <1>4 DEF NotifyDead
  <2> QED
    BY <2>1 DEF WakeInv, Scheduled, Runs
<1>5. CASE FinishNotifyDead
  <2>1. /\ UNCHANGED <<imp, deferral, pc, suspended, wait, unlockMe, terminating>>
        /\ queued' = queued \/ queued' = queued + Resumed
    BY <1>5 DEF FinishNotifyDead
  <2> QED
    BY <2>1 DEF WakeInv, Scheduled, Runs, Resumed, TypeOK
<1>6. ASSUME NEW i \in Impersonators, Impersonate(i) PROVE WakeInv'
  <2>0. UNCHANGED <<pc, suspended, wait, unlockMe, terminating>>
    BY <1>6, Zenon DEF Impersonate
  <2>1. CASE ImpersonateDefer(i)
    BY <2>0, <2>1, Zenon DEF ImpersonateDefer, WakeInv, Scheduled, Runs, TypeOK
  <2>2. CASE ImpersonateEnter(i)
    BY <2>0, <2>2, Zenon DEF ImpersonateEnter, WakeInv, Scheduled, Runs, TypeOK
  <2>3. CASE ImpersonateLeave(i)
    BY <2>0, <2>3 DEF ImpersonateLeave, WakeInv, Scheduled, Runs, TypeOK
  <2> QED
    BY <1>6, <2>1, <2>2, <2>3 DEF Impersonate
<1>7. ASSUME NEW w \in Workers, DoWork(w) PROVE WakeInv'
  <2>0. UNCHANGED <<imp, suspended, wait, unlockMe>> /\ pc[w] = "idle"
    BY <1>7 DEF DoWork
  <2>1. CASE DoWorkDeferred(w)
    BY <2>0, <2>1 DEF DoWorkDeferred, WakeInv, Scheduled, Runs
  <2>2. CASE DoWorkRunning(w)
    <3>1. \E v \in Workers : Runs(v)
      BY <2>2, Zenon DEF DoWorkRunning, OneRunner, WakeInv, Impersonates
    <3> QED
      BY <2>0, <2>2, <3>1 DEF DoWorkRunning, WakeInv, Runs
  <2>3. CASE DoWorkTerminated(w)
    <3>1. terminating' /\ deferral' = deferral
      BY <2>3, Zenon DEF DoWorkTerminated, DoneWorking
    <3>2. \A v \in Workers : pc'[v] = pc[v] \/ pc'[v] \in {"done", "release"}
      BY <2>3 DEF DoWorkTerminated, DoneWorking, TypeOK
    <3> QED
      BY <2>0, <3>1, <3>2, Zenon DEF WakeInv
  <2>4. CASE DoWorkStart(w)
    <3>1. pc' = [pc EXCEPT ![w] = "dispatch"] /\ deferral' = deferral
      BY <2>4, Zenon DEF DoWorkStart
    <3>2. Runs(w)' /\ \A v \in Workers : pc'[v] = pc[v] \/ pc'[v] = "dispatch"
      BY <3>1 DEF Runs, TypeOK
    <3> QED
      BY <2>0, <3>1, <3>2 DEF WakeInv
  <2> QED
    BY <1>7, <2>1, <2>2, <2>3, <2>4 DEF DoWork
<1>8. ASSUME NEW w \in Workers, Dispatch(w) PROVE WakeInv'
  <2>0. UNCHANGED <<imp, deferral, unlockMe>> /\ pc[w] = "dispatch"
    BY <1>8, Zenon DEF Dispatch
  <2>1. CASE NothingToDo(w)
    <3>1. ~suspended /\ suspended' = suspended
      BY <2>1 DEF NothingToDo, DispatchResume
    <3> QED
      BY <2>0, <3>1, Zenon DEF WakeInv
  <2>2. CASE StartInterrupt(w) \/ ResumeMicrothread(w) \/ StartCall(w)
    <3>1. suspended' = FALSE /\ pc' = [pc EXCEPT ![w] = "micro"]
      BY <2>2 DEF StartInterrupt, ResumeMicrothread, StartCall
    <3> QED
      BY <2>0, <3>1, Zenon DEF WakeInv
  <2> QED
    BY <1>8, <2>1, <2>2 DEF Dispatch
<1>9. ASSUME NEW w \in Workers, BackToTop(w) PROVE WakeInv'
  <2>1. UNCHANGED <<imp, deferral, suspended, wait, unlockMe>> /\ pc[w] = "top"
    BY <1>9, Zenon DEF BackToTop
  <2>2. \A v \in Workers : pc'[v] = pc[v] \/ pc'[v] \in {"done", "release"}
    BY <1>9 DEF BackToTop, DoneWorking, TypeOK
  <2>3. suspended => wait # "woken"
    BY <2>1 DEF WakeInv
  <2> QED
    BY <2>1, <2>2, <2>3, Zenon DEF WakeInv
<1>10. ASSUME NEW w \in Workers, FinishDoWork(w) PROVE WakeInv'
  <2>1. /\ UNCHANGED <<imp, deferral, suspended, wait, terminating, queued>>
        /\ pc[w] \in {"done", "release"} /\ pc' = [pc EXCEPT ![w] = "idle"]
        /\ unlockMe' = IF unlockMe = w THEN Nobody ELSE unlockMe
    BY <1>10, Zenon DEF FinishDoWork
  <2>2. \A v \in Workers : /\ Runs(v)' <=> Runs(v)
                           /\ pc'[v] \in {"micro", "top"} => pc'[v] = pc[v] /\ v # w
    BY <2>1 DEF Runs, TypeOK
  <2> QED
    BY <2>1, <2>2 DEF WakeInv, Scheduled
<1>11. ASSUME NEW w \in Workers, Microthread(w) PROVE WakeInv'
  <2>0. UNCHANGED <<imp, deferral>> /\ pc[w] = "micro" /\ ~suspended
    BY <1>11 DEF Microthread, WakeInv
  <2>1. CASE SuspendLocked(w)
    <3>1. pc' = [pc EXCEPT ![w] = "top"] /\ wait' = "armed" /\ unlockMe' = w
      BY <2>1, Zenon DEF SuspendLocked
    <3>2. \A v \in Workers : pc'[v] \in {"micro", "top"} => v = w /\ pc'[v] = "top"
      BY <2>0, <3>1, Zenon DEF OneRunner, Runs, TypeOK
    <3> QED
      BY <2>0, <3>1, <3>2 DEF WakeInv
  <2>2. CASE ~SuspendLocked(w)
    <3>1. suspended' = suspended
      BY <1>11, <2>2 DEF Microthread, MakePendingCallActive, Reply, PushCallReply, ReturnToTop,
         AssertWait, SuspendUnlocked, InterruptEnter1, InterruptEnter2, ReplyInterrupted,
         InterruptEnter3, InterruptEnter4, InterruptExit1, InterruptExit2
    <3> QED
      BY <2>0, <3>1 DEF WakeInv
  <2> QED
    BY <2>1, <2>2
<1>12. ASSUME NEW w \in Workers, Checkout(w) \/ SuspendTwice(w) PROVE WakeInv'
  <2>1. UNCHANGED <<imp, deferral, pc, suspended, wait, unlockMe, terminating, queued>>
    BY <1>12, Zenon DEF Checkout, SuspendTwice, Throw
  <2> QED
    BY <2>1, Zenon DEF WakeInv, Scheduled, Runs
<1> QED
  BY <1>1, <1>2, <1>3, <1>4, <1>5, <1>6, <1>7, <1>8, <1>9, <1>10, <1>11, <1>12 DEF Next, Quiet

\* As long as waits are protected by a lock that doWork releases last, and one
\* thread at a time impersonates this one, no wake-up is ever lost.
THEOREM WakeupsKept ==
  ASSUME WaitKind = "locked", \A i, j \in Impersonators : i = j
  PROVE  Spec => []NoLostWakeup
<1>1. TypeOK /\ OneRunner /\ WakeInv /\ [Next]_vars => WakeInv'
  BY WakeStep
<1>2. TypeOK /\ OneRunner /\ WakeInv => NoLostWakeup
  BY DEF WakeInv, OneRunner, NoLostWakeup
<1> QED
  BY <1>1, <1>2, WakeInit, TypeCorrect, RunnerExclusive, PTL DEF Spec

-----------------------------------------------------------------------------
(* The protocol between the client and its thread: views of the state *)

\* Where the worker that runs the microthread is in doWork, if there is one.
StageOf(f) ==
  IF \E w \in Workers : f[w] = "micro" THEN "micro"
  ELSE IF \E w \in Workers : f[w] = "top" THEN "top"
  ELSE IF \E w \in Workers : f[w] = "dispatch" THEN "dispatch"
  ELSE "rest"

Stage == StageOf(pc)

\* The one interrupt there can be, and what it keeps.
CallOf(s) == IF s = <<>> THEN None ELSE s[1].call
SavedOf(s) == IF s = <<>> THEN None ELSE s[1].saved

Nested == interrupts # <<>>
Interrupted == CallOf(interrupts)
Saved == SavedOf(interrupts)

\* A call is being processed, on the stack of a worker or suspended.
Serving == Stage = "micro" \/ suspended

\* Messages in a socket.
One(a) == <<a>>
Two(a, b) == <<a, b>>

\* At most one worker runs the thread, so its place is the stage.
LEMMA StageIs ==
  ASSUME NEW f, NEW w \in Workers, f[w] \in {"dispatch", "micro", "top"},
         \A v \in Workers : f[v] \in {"dispatch", "micro", "top"} => v = w
  PROVE  StageOf(f) = f[w]
<1>1. CASE f[w] = "micro"
  BY <1>1 DEF StageOf
<1>2. CASE f[w] = "top"
  <2>1. ~\E v \in Workers : f[v] = "micro"
    BY <1>2
  <2> QED
    BY <1>2, <2>1 DEF StageOf
<1>3. CASE f[w] = "dispatch"
  <2>1. (~\E v \in Workers : f[v] = "micro") /\ (~\E v \in Workers : f[v] = "top")
    BY <1>3
  <2> QED
    BY <1>3, <2>1 DEF StageOf
<1> QED
  BY <1>1, <1>2, <1>3

\* Nobody runs the thread: it is at rest.
LEMMA StageRest ==
  ASSUME NEW f, \A v \in Workers : f[v] \notin {"dispatch", "micro", "top"}
  PROVE  StageOf(f) = "rest"
  BY DEF StageOf

\* The stage is one of four.
LEMMA StageType == ASSUME NEW f PROVE StageOf(f) \in {"micro", "top", "dispatch", "rest"}
  BY DEF StageOf

\* The steps of the worker that runs the thread move the stage with them.
LEMMA StageMoves ==
  ASSUME TypeOK, OneRunner, NEW w \in Workers, Runs(w), NEW y, pc' = [pc EXCEPT ![w] = y]
  PROVE  /\ Stage = pc[w]
         /\ y \in {"dispatch", "micro", "top"} => Stage' = y
         /\ y \notin {"dispatch", "micro", "top"} => Stage' = "rest"
<1>1. \A v \in Workers : pc[v] \in {"dispatch", "micro", "top"} => v = w
  BY DEF OneRunner, Runs
<1>2. Stage = pc[w]
  BY <1>1, StageIs DEF Runs, Stage
<1>3. pc'[w] = y /\ \A v \in Workers : v # w => pc'[v] = pc[v]
  BY DEF TypeOK
<1>4. CASE y \in {"dispatch", "micro", "top"}
  <2>1. StageOf(pc') = pc'[w]
    BY <1>1, <1>3, <1>4, StageIs, Zenon
  <2> QED
    BY <1>2, <1>3, <1>4, <2>1 DEF Stage
<1>5. CASE y \notin {"dispatch", "micro", "top"}
  <2>1. StageOf(pc') = "rest"
    BY <1>1, <1>3, <1>5, StageRest, Zenon
  <2> QED
    BY <1>2, <1>5, <2>1 DEF Stage
<1> QED
  BY <1>4, <1>5

\* A worker that does not run the thread does not move the stage, unless it starts.
LEMMA StageKept ==
  ASSUME TypeOK, OneRunner, NEW w \in Workers, ~Runs(w), NEW y, pc' = [pc EXCEPT ![w] = y]
  PROVE  /\ y \notin {"dispatch", "micro", "top"} => Stage' = Stage
         /\ ~running => Stage = "rest"
         /\ ~running /\ y = "dispatch" => Stage' = "dispatch"
<1>1. pc'[w] = y /\ \A v \in Workers : v # w => pc'[v] = pc[v]
  BY DEF TypeOK
<1>2. ~running => \A v \in Workers : pc[v] \notin {"dispatch", "micro", "top"}
  BY DEF OneRunner, Runs
<1>3. ~running => Stage = "rest"
  BY <1>2, StageRest DEF Stage
<1>4. ASSUME y \notin {"dispatch", "micro", "top"} PROVE Stage' = Stage
  <2>1. \A v \in Workers : \A x \in {"dispatch", "micro", "top"} : pc'[v] = x <=> pc[v] = x
    BY <1>1, <1>4 DEF Runs
  <2> QED
    BY <2>1 DEF Stage, StageOf
<1>5. ASSUME ~running, y = "dispatch" PROVE Stage' = "dispatch"
  <2>1. StageOf(pc') = pc'[w]
    BY <1>1, <1>2, <1>5, StageIs, Zenon
  <2> QED
    BY <1>1, <1>5, <2>1 DEF Stage
<1> QED
  BY <1>3, <1>4, <1>5

\* A list of interrupts is empty exactly if its length is zero.
LEMMA LengthFacts ==
  ASSUME NEW s \in Seq(InterruptType)
  PROVE  Len(s) \in Nat /\ (s = <<>> <=> Len(s) = 0)
<1>1. Len(s) \in Nat
  OBVIOUS
<1>2. Len(<<>>) = 0
  OBVIOUS
<1>3. ASSUME Len(s) = 0 PROVE s = <<>>
  BY <1>3
<1> QED
  BY <1>1, <1>2, <1>3

\* What the steps of the microthread do to its one interrupt.
LEMMA FrameFacts ==
  ASSUME NEW s \in Seq(InterruptType), Len(s) <= 1
  PROVE  /\ s = <<>> => \A r \in InterruptType :
                          /\ Append(s, r) # <<>> /\ Len(Append(s, r)) <= 1
                          /\ CallOf(Append(s, r)) = r.call /\ SavedOf(Append(s, r)) = r.saved
         /\ s = <<>> => CallOf(s) = None /\ SavedOf(s) = None
         /\ s # <<>> =>
              /\ Len(s) = 1 /\ s[Len(s)].call = CallOf(s) /\ s[Len(s)].saved = SavedOf(s)
              /\ SubSeq(s, 1, Len(s) - 1) = <<>>
<1>1. ASSUME s = <<>>, NEW r \in InterruptType
      PROVE  /\ Append(s, r) # <<>> /\ Len(Append(s, r)) <= 1
             /\ CallOf(Append(s, r)) = r.call /\ SavedOf(Append(s, r)) = r.saved
  <2>1. Len(s) = 0
    BY <1>1
  <2>2. Append(s, r) \in Seq(InterruptType) /\ Len(Append(s, r)) = 1 /\ Append(s, r)[1] = r
    BY <2>1
  <2>3. Append(s, r) # <<>>
    BY <2>2, LengthFacts
  <2> QED
    BY <2>2, <2>3 DEF CallOf, SavedOf
<1>2. ASSUME s # <<>> PROVE Len(s) = 1
  <2>1. Len(s) \in Nat /\ Len(s) # 0
    BY <1>2, LengthFacts, Zenon
  <2> QED
    BY <2>1
<1>3. ASSUME s # <<>> PROVE SubSeq(s, 1, Len(s) - 1) = <<>>
  <2>1. SubSeq(s, 1, 0) = <<>>
    OBVIOUS
  <2> QED
    BY <1>2, <1>3, <2>1
<1> QED
  BY <1>1, <1>2, <1>3 DEF CallOf, SavedOf

\* What a change of its fields does.
LEMMA FrameSet ==
  ASSUME NEW s \in Seq(InterruptType), Len(s) <= 1, s # <<>>,
         NEW r \in InterruptType, NEW t, t = [s EXCEPT ![Len(s)] = r]
  PROVE  t # <<>> /\ Len(t) <= 1 /\ CallOf(t) = r.call /\ SavedOf(t) = r.saved
<1>1. Len(s) = 1
  <2>1. Len(s) \in Nat /\ Len(s) # 0
    BY LengthFacts, Zenon
  <2>2. \A n \in Nat : n <= 1 /\ n # 0 => n = 1
    OBVIOUS
  <2> QED
    BY <2>1, <2>2, Zenon
<1>2. t \in Seq(InterruptType) /\ Len(t) = 1 /\ t[1] = r
  <2>1. DOMAIN s = 1 .. 1
    BY <1>1
  <2>2. DOMAIN t = 1 .. 1 /\ t[1] = r
    BY <1>1, <2>1
  <2>3. t \in Seq(InterruptType)
    BY SetTop
  <2>4. Len(t) \in Nat /\ DOMAIN t = 1 .. Len(t)
    BY <2>3
  <2>5. Len(t) = 1
    BY <2>2, <2>4
  <2> QED
    BY <2>2, <2>3, <2>5
<1>3. t # <<>>
  BY <1>2, LengthFacts
<1> QED
  BY <1>2, <1>3 DEF CallOf, SavedOf

\* The sockets hold two messages at most.
LEMMA SocketFacts ==
  /\ \A a : Append(<<>>, a) = One(a) /\ Head(One(a)) = a /\ Tail(One(a)) = <<>> /\ One(a) # <<>>
  /\ \A a, b : /\ Append(One(a), b) = Two(a, b) /\ Head(Two(a, b)) = a
               /\ Tail(Two(a, b)) = One(b) /\ Two(a, b) # <<>>
<1>1. ASSUME NEW a PROVE Append(<<>>, a) = One(a) /\ Head(One(a)) = a /\ Tail(One(a)) = <<>> /\ One(a) # <<>>
  BY DEF One
<1>2. ASSUME NEW a, NEW b
      PROVE  /\ Append(One(a), b) = Two(a, b) /\ Head(Two(a, b)) = a
             /\ Tail(Two(a, b)) = One(b) /\ Two(a, b) # <<>>
  <2>1. Append(<<a>>, b) = <<a, b>>
    <3>1. Append(<<a>>, b) \in Seq({a, b}) /\ <<a, b>> \in Seq({a, b})
      OBVIOUS
    <3>2. DOMAIN Append(<<a>>, b) = 1 .. 2 /\ DOMAIN <<a, b>> = 1 .. 2
      OBVIOUS
    <3>3. \A i \in 1 .. 2 : Append(<<a>>, b)[i] = <<a, b>>[i]
      OBVIOUS
    <3>4. /\ Append(<<a>>, b) = [i \in 1 .. 2 |-> Append(<<a>>, b)[i]]
          /\ <<a, b>> = [i \in 1 .. 2 |-> <<a, b>>[i]]
      BY <3>1, <3>2
    <3> QED
      BY <3>3, <3>4, Zenon
  <2>2. Head(<<a, b>>) = a
    OBVIOUS
  <2>3. Tail(<<a, b>>) = <<b>>
    OBVIOUS
  <2>4. <<a, b>> # <<>>
    OBVIOUS
  <2> QED
    BY <2>1, <2>2, <2>3, <2>4 DEF One, Two
<1> QED
  BY <1>1, <1>2
-----------------------------------------------------------------------------
(* The protocol: its invariant *)

\* A suspended microthread is inside a call; it has either a stack to be resumed on
\* or a continuation.
StackInv ==
  /\ suspended => Stage # "micro" /\ ctl \in {"call", "icall"}
  /\ Stage \in {"micro", "top"} => stack
  /\ suspended /\ Stage \in {"rest", "dispatch"} => (continuation <=> ~stack)
  /\ continuation => suspended /\ ctl = "call"

\* No interrupted call is being finished.
Plain == ~interruptedForSignal /\ ~handlingInterruptedCall /\ ~pendingCallOverride

Settled == Plain /\ ~interruptedContinuation /\ Interrupted = None

\* What processCall finds: which call is active, and what the interrupt holds, at
\* every point of the microthread's code.
ServeInv ==
  /\ Len(interrupts) <= 1
  /\ ctl = "exit2" => Stage = "micro"
  /\ ~Serving => activeCall = None /\ Settled
  /\ (Serving /\ ctl = "activate") =>
       /\ activeCall = None /\ pendingCall # None /\ Plain
       /\ pendingCall = "ie" => Nested /\ Saved = None
       /\ pendingCall = "call" => ~Nested
       /\ pendingCall \in {"hcall", "ix"} => Nested
       /\ pendingCall # "ie" => Settled
       /\ Interrupted \in {None, "call"}
       /\ interruptedContinuation => Interrupted = "call"
       /\ Interrupted = "call" => pendingSavedReply = None
  /\ (Serving /\ ctl = "call") =>
       /\ activeCall \in Ordinary /\ Settled
       /\ activeCall = "call" <=> ~Nested
  /\ (Serving /\ ctl \in {"enter1", "enter2", "icall", "enter3", "enter4"}) =>
       /\ activeCall = "ie" /\ Nested /\ pendingCall = None
       /\ ctl \in {"enter1", "enter4"} => Plain
       /\ ctl \in {"enter2", "icall", "enter3"} => interruptedForSignal
       /\ ctl = "enter2" => ~handlingInterruptedCall /\ ~pendingCallOverride
       /\ ctl \in {"enter1", "enter2"} =>
            /\ Interrupted \in {None, "call"}
            /\ interruptedContinuation => Interrupted = "call"
       /\ ctl \in {"icall", "enter3", "enter4"} => ~interruptedContinuation
       /\ ctl = "icall" => Interrupted = "call"
       /\ ctl \in {"enter3", "enter4"} => Interrupted = None
       /\ Interrupted = "call" => Saved = None /\ pendingSavedReply = None
       /\ pendingSavedReply # None => ctl = "enter1" /\ Saved = None
  /\ (Serving /\ ctl = "exit1") => activeCall = "ix" /\ Nested /\ Settled
  /\ (Serving /\ ctl = "exit2") => activeCall = None /\ Nested /\ Settled
  /\ (Serving /\ ctl = "replied") => activeCall = None /\ Settled

\* What a call that waits for the microthread finds: the calls before it.
PendingInv ==
  /\ pendingCall \in {"call", "hcall", "ix"} => activeCall = None
  /\ pendingCall = "ie" => activeCall \in {None, "call"}
  /\ pendingCall \in {"hcall", "ix"} => Nested /\ ctl # "exit2"
  /\ (pendingCall = "call" /\ Nested) => ctl = "exit2"
  /\ (pendingCall = "ie" /\ Nested) => ctl = "exit2" \/ (Stage = "micro" /\ ctl = "activate")
  /\ pendingSavedReply # None =>
       /\ pendingSavedReply = "call"
       /\ \/ pendingCall = "ie" /\ activeCall = None /\ Saved = None
          \/ activeCall = "ie" /\ ctl = "enter1"

\* Where the client's calls and their replies are.
Holds(req, pend, act, saved, rep) ==
  /\ requests = req /\ pendingCall = pend /\ activeCall = act
  /\ Saved = saved /\ replies = rep

\* The interrupt of the last signal is being left; that of this one is entered.
Leaving == Nested => ctl = "exit2"
Handling == Nested /\ ctl # "exit2"
Fresh == Nested => Stage = "micro" /\ ctl = "activate"

Kept == IF outer = "wait" THEN "call" ELSE None

\* No interrupt_enter waits behind a call and the call is neither interrupted nor
\* pushed back.
Direct == Interrupted = None /\ pendingSavedReply = None /\ pendingInterrupts = 0

\* The client waits for nothing, or for an ordinary call outside a handler.
RunInv == Direct /\ Leaving /\ Holds(<<>>, None, None, None, <<>>)

WaitInv ==
  /\ Direct
  /\ \/ deferredReply = "call" /\ ~Nested /\ Holds(<<>>, None, None, None, <<>>)
     \/ /\ deferredReply = None
        /\ \/ Leaving /\ Holds(One("call"), None, None, None, <<>>)
           \/ Leaving /\ Holds(<<>>, "call", None, None, <<>>)
           \/ Holds(<<>>, None, "call", None, <<>>)
           \/ ~Nested /\ Holds(<<>>, None, None, None, One("call"))
           \/ ctl = "exit2" /\ Holds(<<>>, None, None, "call", <<>>)

\* interrupt_enter outside a call.
EnterRunInv ==
  /\ Direct
  /\ \/ Leaving /\ Holds(One("ie"), None, None, None, <<>>)
     \/ Holds(<<>>, "ie", None, None, <<>>)
     \/ Holds(<<>>, None, "ie", None, <<>>)
     \/ Handling /\ Holds(<<>>, None, None, None, One("ie"))

\* interrupt_enter during a call: both are on their way.
EnterDirect ==
  /\ Direct
  /\ \/ Leaving /\ Holds(Two("call", "ie"), None, None, None, <<>>)
     \/ Leaving /\ Holds(One("ie"), "call", None, None, <<>>)
     \/ Holds(One("ie"), None, "call", None, <<>>)
     \/ ~Nested /\ Holds(One("ie"), None, None, None, One("call"))
     \/ ctl = "exit2" /\ Holds(One("ie"), None, None, "call", <<>>)
     \/ Holds(<<>>, "ie", "call", None, <<>>)
     \/ Fresh /\ Holds(<<>>, "ie", None, None, One("call"))
     \/ ctl = "exit2" /\ Holds(<<>>, "ie", None, "call", <<>>)
     \/ Holds(<<>>, None, "ie", "call", <<>>)
     \/ Holds(<<>>, None, "ie", None, One("call"))
     \/ Handling /\ Holds(<<>>, None, None, "call", One("ie"))
     \/ Handling /\ Holds(<<>>, None, None, None, Two("call", "ie"))

\* interrupt_enter waits in _pendingInterrupts.
EnterBehind ==
  /\ pendingInterrupts = 1 /\ Interrupted = None /\ pendingSavedReply = None
  /\ \/ Leaving /\ Holds(<<>>, "call", None, None, <<>>)
     \/ Holds(<<>>, None, "call", None, <<>>)
     \/ ~Nested /\ Holds(<<>>, None, None, None, One("call"))

\* The call is interrupted, or its reply was pushed back ahead of interrupt_enter.
EnterOver ==
  /\ pendingInterrupts = 0
  /\ \/ /\ Interrupted = "call" /\ pendingSavedReply = None
        /\ Holds(<<>>, "ie", None, None, <<>>) \/ Holds(<<>>, None, "ie", None, <<>>)
     \/ /\ Interrupted = None /\ pendingSavedReply = "call"
        /\ \/ Fresh /\ Holds(<<>>, "ie", None, None, <<>>)
           \/ Holds(<<>>, None, "ie", None, <<>>)

\* push_reply is on its way back with the reply of the call.
PushInv ==
  /\ Interrupted = None /\ pendingSavedReply = None
  /\ \/ /\ pendingInterrupts = 0
        /\ \/ ~Nested /\ Holds(Two("ie", "push"), None, None, None, <<>>)
           \/ Fresh /\ Holds(One("push"), "ie", None, None, <<>>)
           \/ Holds(One("push"), None, "ie", None, <<>>)
           \/ Handling /\ Holds(One("push"), None, None, None, One("ie"))
     \/ /\ pendingInterrupts = 1
        /\ ~Nested /\ Holds(One("push"), None, None, None, <<>>)

\* The signal handler runs, makes a call, or ends with interrupt_exit.
HandlerInv == Direct /\ Handling /\ Holds(<<>>, None, None, Kept, <<>>)

HandlerCallInv ==
  /\ Direct /\ Handling
  /\ \/ Holds(One("hcall"), None, None, Kept, <<>>)
     \/ Holds(<<>>, "hcall", None, Kept, <<>>)
     \/ Holds(<<>>, None, "hcall", Kept, <<>>)
     \/ Holds(<<>>, None, None, Kept, One("hcall"))

ExitInv ==
  /\ Direct
  /\ \/ Handling /\ Holds(One("ix"), None, None, Kept, <<>>)
     \/ Handling /\ Holds(<<>>, "ix", None, Kept, <<>>)
     \/ Handling /\ Holds(<<>>, None, "ix", Kept, <<>>)
     \/ ctl = "exit2" /\ Holds(<<>>, None, None, Kept, One("ix"))
     \/ ~Nested /\ outer = "run" /\ Holds(<<>>, None, None, None, One("ix"))
     \/ ~Nested /\ outer = "wait" /\ Holds(<<>>, None, None, None, Two("ix", "call"))

\* The client and the server agree on where the client is.
PhaseInv ==
  /\ phase \in {"run", "wait", "enter", "push", "handler", "hcall", "exit"}
  /\ phase = "run" => RunInv
  /\ phase = "wait" => WaitInv
  /\ phase = "enter" /\ outer = "run" => EnterRunInv
  /\ phase = "enter" /\ outer = "wait" => EnterDirect \/ EnterBehind \/ EnterOver
  /\ phase = "push" => PushInv
  /\ phase = "handler" => HandlerInv
  /\ phase = "hcall" => HandlerCallInv
  /\ phase = "exit" => ExitInv

\* Replies are deferred, and pushed back, only when they may be.
DeferInv ==
  /\ MaxSignals # 0 => ~deferReplyForS2C
  /\ MaxSignals = 0 => phase \in {"run", "wait"} /\ ~Nested
  /\ ~deferReplyForS2C => deferredReply = None
  /\ phase # "wait" => deferredReply = None
  /\ phase = "push" => pushing = "call" /\ outer = "wait"
  /\ phase # "push" => pushing = None

ProtocolInv ==
  /\ crashed \in {"no", "push", "doneWorking", "queue"}
  /\ crashed = "doneWorking" => Stage = "rest"
  /\ crashed # "doneWorking" => StackInv /\ ServeInv /\ PendingInv
  /\ dead => phase = "gone"
  /\ phase # "failed"
  /\ ~dead /\ crashed = "no" => PhaseInv /\ DeferInv
-----------------------------------------------------------------------------
(* The protocol: steps of the client *)

\* What the server's half of the invariant depends on.
serverView == <<Stage, pendingCall, activeCall, pendingSavedReply, suspended, continuation,
                stack, interrupts, interruptedContinuation, interruptedForSignal,
                handlingInterruptedCall, pendingCallOverride, ctl>>

\* A step that leaves the microthread alone keeps the server's half.
LEMMA ServerKept ==
  ASSUME UNCHANGED serverView
  PROVE  /\ StackInv => StackInv'
         /\ ServeInv => ServeInv'
         /\ PendingInv => PendingInv'
         /\ Nested' = Nested /\ Interrupted' = Interrupted /\ Saved' = Saved
<1>0. /\ Stage' = Stage /\ pendingCall' = pendingCall /\ activeCall' = activeCall
      /\ pendingSavedReply' = pendingSavedReply /\ suspended' = suspended
      /\ continuation' = continuation /\ stack' = stack /\ interrupts' = interrupts
      /\ interruptedContinuation' = interruptedContinuation
      /\ interruptedForSignal' = interruptedForSignal
      /\ handlingInterruptedCall' = handlingInterruptedCall
      /\ pendingCallOverride' = pendingCallOverride /\ ctl' = ctl
  BY DEF serverView
<1>1. Nested' = Nested /\ Interrupted' = Interrupted /\ Saved' = Saved
  BY <1>0 DEF Nested, Interrupted, Saved
<1>2. Serving' = Serving /\ Plain' = Plain
  BY <1>0 DEF Serving, Plain
<1>3. Settled' = Settled
  BY <1>0, <1>1, <1>2 DEF Settled
<1>4. StackInv => StackInv'
  BY <1>0, Zenon DEF StackInv
<1>5. ServeInv => ServeInv'
  BY <1>0, <1>1, <1>2, <1>3, Zenon DEF ServeInv
<1>6. PendingInv => PendingInv'
  BY <1>0, <1>1 DEF PendingInv
<1> QED
  BY <1>1, <1>4, <1>5, <1>6

\* The client sends a call, starts or ends a signal handler, or gets the reply it
\* waits for or pushes back.
LEMMA ClientProtocol == TypeOK /\ ProtocolInv /\ Client => ProtocolInv'
<1> SUFFICES ASSUME TypeOK, ProtocolInv, Client PROVE ProtocolInv' OBVIOUS
<1>1. /\ crashed = "no" /\ crashed' = crashed /\ dead' = dead
      /\ UNCHANGED <<pendingInterrupts, deferReplyForS2C, deferredReply>>
  BY DEF Client
<1>2. UNCHANGED serverView
  <2>1. UNCHANGED <<pc, pendingCall, activeCall, pendingSavedReply, suspended, continuation,
                stack, interrupts, interruptedContinuation, interruptedForSignal,
                handlingInterruptedCall, pendingCallOverride, ctl>>
    BY DEF Client
  <2>2. Stage' = Stage
    BY <2>1 DEF Stage
  <2> QED
    BY <2>1, <2>2 DEF serverView
<1>3. /\ StackInv' /\ ServeInv' /\ PendingInv'
      /\ Nested' = Nested /\ Interrupted' = Interrupted /\ Saved' = Saved
  BY <1>1, <1>2, ServerKept DEF ProtocolInv
<1>4. pendingCall' = pendingCall /\ activeCall' = activeCall /\ ctl' = ctl /\ Stage' = Stage
      /\ pendingSavedReply' = pendingSavedReply
  BY <1>2, Zenon DEF serverView
<1>5. ~dead /\ PhaseInv /\ DeferInv
  <2>1. phase # "gone"
    BY DEF Client, SendCall, Signal, Handler, ClientReceive, Awaited
  <2> QED
    BY <1>1, <2>1 DEF ProtocolInv, TypeOK
<1>6. /\ Direct' = Direct /\ Leaving' = Leaving /\ Handling' = Handling /\ Fresh' = Fresh
  BY <1>1, <1>3, <1>4 DEF Direct, Leaving, Handling, Fresh
<1>7. CASE SendCall
  <2>1. /\ phase = "run" /\ phase' = "wait" /\ requests' = Append(requests, "call")
        /\ UNCHANGED <<outer, pushing, replies>>
    BY <1>7 DEF SendCall
  <2>2. RunInv
    BY <1>5, <2>1, Zenon DEF PhaseInv
  <2>3. WaitInv'
    BY <1>1, <1>3, <1>4, <1>5, <1>6, <2>1, <2>2, SocketFacts, Zenon
       DEF WaitInv, RunInv, Holds, DeferInv
  <2>4. PhaseInv' /\ DeferInv'
    BY <1>1, <1>3, <1>5, <2>1, <2>3, Zenon DEF PhaseInv, DeferInv
  <2> QED
    BY <1>1, <1>3, <1>5, <2>1, <2>4 DEF ProtocolInv
<1>8. CASE Signal
  <2>1. /\ phase \in {"run", "wait"} /\ phase' = "enter" /\ outer' = phase
        /\ requests' = Append(requests, "ie") /\ UNCHANGED <<pushing, replies>>
        /\ MaxSignals # 0
    BY <1>8, MicrothreadAssumption DEF Signal, TypeOK
  <2>2. deferredReply = None
    BY <1>5, <2>1 DEF DeferInv
  <2>3. ASSUME phase = "run" PROVE PhaseInv'
    <3>1. RunInv
      BY <1>5, <2>3, Zenon DEF PhaseInv
    <3>2. EnterRunInv'
      BY <1>1, <1>3, <1>4, <1>6, <2>1, <3>1, SocketFacts DEF RunInv, EnterRunInv, Holds
    <3> QED
      BY <2>1, <2>3, <3>2 DEF PhaseInv
  <2>4. ASSUME phase = "wait" PROVE PhaseInv'
    <3>1. WaitInv
      BY <1>5, <2>4, Zenon DEF PhaseInv
    <3>2. EnterDirect'
      BY <1>1, <1>3, <1>4, <1>6, <2>1, <2>2, <3>1, SocketFacts, Zenon DEF WaitInv, EnterDirect, Holds
    <3> QED
      BY <2>1, <2>4, <3>2 DEF PhaseInv
  <2>5. PhaseInv' /\ DeferInv'
    BY <1>1, <1>5, <2>1, <2>2, <2>3, <2>4, Zenon DEF DeferInv
  <2> QED
    BY <1>1, <1>3, <1>5, <2>1, <2>5, Zenon DEF ProtocolInv
<1>9. CASE Handler
  <2>1. /\ phase = "handler" /\ UNCHANGED <<outer, pushing, replies>>
        /\ \/ phase' = "hcall" /\ requests' = Append(requests, "hcall")
           \/ phase' = "exit" /\ requests' = Append(requests, "ix")
    BY <1>9 DEF Handler
  <2>2. HandlerInv /\ Kept' = Kept
    BY <1>5, <2>1, Zenon DEF PhaseInv, Kept
  <2>3. phase' = "hcall" => HandlerCallInv'
    BY <1>1, <1>3, <1>4, <1>6, <2>1, <2>2, SocketFacts, Zenon DEF HandlerInv, HandlerCallInv, Holds
  <2>4. phase' = "exit" => ExitInv'
    BY <1>1, <1>3, <1>4, <1>6, <2>1, <2>2, SocketFacts, Zenon DEF HandlerInv, ExitInv, Holds
  <2>5. PhaseInv' /\ DeferInv'
    BY <1>1, <1>3, <1>5, <2>1, <2>3, <2>4, Zenon DEF PhaseInv, DeferInv
  <2> QED
    BY <1>1, <1>3, <1>5, <2>1, <2>5 DEF ProtocolInv
<1>10. CASE ClientReceive
  <2>1. replies # <<>> /\ replies' = Tail(replies) /\ outer' = outer
    BY <1>10 DEF ClientReceive
  <2>2. Kept' = Kept
    BY <2>1 DEF Kept
  <2>3. ASSUME phase = "wait"
        PROVE  phase' = "run" /\ UNCHANGED pushing /\ deferredReply = None /\ RunInv'
    <3>1. WaitInv
      BY <1>5, <2>3 DEF PhaseInv
    <3>2. deferredReply = None /\ ~Nested /\ Holds(<<>>, None, None, None, One("call")) /\ Direct
      BY <2>1, <3>1 DEF WaitInv, Holds
    <3>3. Head(replies) = "call" /\ Tail(replies) = <<>>
      BY <3>2, SocketFacts DEF Holds
    <3>4. phase' = "run" /\ UNCHANGED <<requests, pushing>>
      BY <1>10, <2>3, <3>3 DEF ClientReceive, Awaited
    <3> QED
      BY <1>1, <1>3, <1>4, <1>6, <2>1, <3>2, <3>3, <3>4 DEF RunInv, Holds, Leaving
  <2>4. ASSUME phase = "enter", Holds(<<>>, None, None, Kept, One("ie")), Direct, Handling
        PROVE  phase' = "handler" /\ UNCHANGED pushing /\ HandlerInv'
    <3>1. Head(replies) = "ie" /\ Tail(replies) = <<>>
      BY <2>4, SocketFacts DEF Holds
    <3>2. phase' = "handler" /\ UNCHANGED <<requests, pushing>>
      BY <1>10, <2>4, <3>1 DEF ClientReceive, Awaited
    <3> QED
      BY <1>1, <1>3, <1>4, <1>6, <2>1, <2>2, <2>4, <3>1, <3>2 DEF HandlerInv, Holds
  <2>5. ASSUME phase = "enter", outer = "run"
        PROVE  phase' = "handler" /\ UNCHANGED pushing /\ HandlerInv'
    <3>1. EnterRunInv /\ Kept = None
      BY <1>5, <2>5 DEF PhaseInv, Kept
    <3>2. Handling /\ Direct /\ Holds(<<>>, None, None, None, One("ie"))
      BY <2>1, <3>1 DEF EnterRunInv, Holds
    <3> QED
      BY <2>4, <2>5, <3>1, <3>2
  <2>6. ASSUME phase = "enter", outer = "wait"
        PROVE  \/ phase' = "handler" /\ UNCHANGED pushing /\ HandlerInv'
               \/ phase' = "push" /\ pushing' = "call" /\ PushInv'
    <3>1. CASE Holds(<<>>, None, None, Kept, One("ie")) /\ Direct /\ Handling
      BY <2>4, <2>6, <3>1
    <3>2. CASE ~(Holds(<<>>, None, None, Kept, One("ie")) /\ Direct /\ Handling)
      <4>0. (EnterDirect \/ EnterBehind \/ EnterOver) /\ Kept = "call"
        BY <1>5, <2>6, Zenon DEF PhaseInv, Kept
      <4>1. replies \in {One("call"), Two("call", "ie")}
        BY <2>1, <3>2, <4>0 DEF EnterDirect, EnterBehind, EnterOver, Holds
      <4>2. Head(replies) = "call"
        BY <4>1, SocketFacts
      <4>3. phase' = "push" /\ pushing' = "call" /\ requests' = Append(requests, "push")
        BY <1>10, <2>6, <4>2 DEF ClientReceive, Awaited
      <4>4. CASE EnterDirect
        <5>1. /\ Direct
              /\ \/ ~Nested /\ Holds(One("ie"), None, None, None, One("call"))
                 \/ Fresh /\ Holds(<<>>, "ie", None, None, One("call"))
                 \/ Holds(<<>>, None, "ie", None, One("call"))
                 \/ Handling /\ Holds(<<>>, None, None, None, Two("call", "ie"))
          BY <2>1, <3>2, <4>0, <4>4, Zenon DEF EnterDirect, Holds
        <5> QED
          BY <1>1, <1>3, <1>4, <1>6, <2>1, <4>3, <5>1, SocketFacts, Zenon DEF PushInv, Holds, Direct
      <4>5. CASE EnterBehind
        <5>1. /\ pendingInterrupts = 1 /\ Interrupted = None /\ pendingSavedReply = None
              /\ ~Nested /\ Holds(<<>>, None, None, None, One("call"))
          BY <2>1, <4>5 DEF EnterBehind, Holds
        <5> QED
          BY <1>1, <1>3, <1>4, <2>1, <4>3, <5>1, SocketFacts DEF PushInv, Holds
      <4>6. CASE EnterOver
        BY <2>1, <4>6 DEF EnterOver, Holds
      <4> QED
        BY <4>0, <4>4, <4>5, <4>6
    <3> QED
      BY <3>1, <3>2
  <2>7. ASSUME phase = "hcall"
        PROVE  phase' = "handler" /\ UNCHANGED pushing /\ HandlerInv'
    <3>1. HandlerCallInv
      BY <1>5, <2>7 DEF PhaseInv
    <3>2. Direct /\ Handling /\ Holds(<<>>, None, None, Kept, One("hcall"))
      BY <2>1, <3>1 DEF HandlerCallInv, Holds
    <3>3. Head(replies) = "hcall" /\ Tail(replies) = <<>>
      BY <3>2, SocketFacts DEF Holds
    <3>4. phase' = "handler" /\ UNCHANGED <<requests, pushing>>
      BY <1>10, <2>7, <3>3, Zenon DEF ClientReceive, Awaited
    <3> QED
      BY <1>1, <1>3, <1>4, <1>6, <2>1, <2>2, <3>2, <3>3, <3>4 DEF HandlerInv, Holds
  <2>8. ASSUME phase = "exit"
        PROVE  /\ UNCHANGED pushing
               /\ \/ phase' = "run" /\ RunInv'
                  \/ phase' = "wait" /\ WaitInv'
    <3>1. ExitInv /\ deferredReply = None
      BY <1>5, <2>8 DEF PhaseInv, DeferInv
    <3>2. replies = One("ix") \/ replies = Two("ix", "call")
      BY <2>1, <3>1 DEF ExitInv, Holds
    <3>3. Head(replies) = "ix"
      BY <3>2, SocketFacts
    <3>4. phase' = outer /\ UNCHANGED <<requests, pushing>>
      BY <1>10, <2>8, <3>3 DEF ClientReceive, Awaited
    <3>5. CASE outer = "run"
      <4>1. Direct /\ Leaving /\ Holds(<<>>, None, None, None, One("ix"))
        BY <2>1, <3>1, <3>5 DEF ExitInv, Holds, Kept, Leaving
      <4>2. Tail(replies) = <<>>
        BY <4>1, SocketFacts DEF Holds
      <4>3. RunInv'
        BY <1>3, <1>4, <1>6, <2>1, <3>4, <4>1, <4>2 DEF RunInv, Holds
      <4> QED
        BY <3>4, <3>5, <4>3
    <3>6. CASE outer = "wait"
      <4>1. /\ Direct
            /\ \/ ctl = "exit2" /\ Holds(<<>>, None, None, "call", One("ix"))
               \/ ~Nested /\ Holds(<<>>, None, None, None, Two("ix", "call"))
        BY <2>1, <3>1, <3>6, Zenon DEF ExitInv, Holds, Kept
      <4>2. WaitInv'
        BY <1>1, <1>3, <1>4, <1>6, <2>1, <3>1, <3>4, <3>6, <4>1, SocketFacts DEF WaitInv, Holds
      <4> QED
        BY <3>4, <3>6, <4>2, Zenon
    <3> QED
      BY <3>5, <3>6 DEF TypeOK
  <2>9. phase \in {"wait", "enter", "hcall", "exit"} /\ outer \in {"run", "wait"}
    BY <1>10 DEF ClientReceive, Awaited, TypeOK
  <2>10. PhaseInv'
    <3>1. CASE phase = "wait"
      BY <2>3, <3>1 DEF PhaseInv
    <3>2. CASE phase = "enter" /\ outer = "run"
      BY <2>5, <3>2 DEF PhaseInv
    <3>3. CASE phase = "enter" /\ outer = "wait"
      BY <2>6, <3>3 DEF PhaseInv
    <3>4. CASE phase = "hcall"
      BY <2>7, <3>4 DEF PhaseInv
    <3>5. CASE phase = "exit"
      BY <2>8, <3>5, Zenon DEF PhaseInv
    <3> QED
      BY <2>9, <3>1, <3>2, <3>3, <3>4, <3>5
  <2>11. DeferInv'
    <3>1. CASE phase = "wait"
      BY <1>1, <1>3, <1>5, <2>3, <3>1 DEF DeferInv
    <3>2. CASE phase = "enter" /\ outer = "run"
      BY <1>1, <1>3, <1>5, <2>5, <3>2, Zenon DEF DeferInv
    <3>3. CASE phase = "enter" /\ outer = "wait"
      BY <1>1, <1>3, <1>5, <2>1, <2>6, <3>3, Zenon DEF DeferInv
    <3>4. CASE phase = "hcall"
      BY <1>1, <1>3, <1>5, <2>7, <3>4 DEF DeferInv
    <3>5. CASE phase = "exit"
      BY <1>1, <1>3, <1>5, <2>8, <3>5, Zenon DEF DeferInv
    <3> QED
      BY <2>9, <3>1, <3>2, <3>3, <3>4, <3>5
  <2> QED
    BY <1>1, <1>3, <1>5, <2>10, <2>11 DEF ProtocolInv, PhaseInv
<1> QED
  BY <1>7, <1>8, <1>9, <1>10 DEF Client
-----------------------------------------------------------------------------
(* The protocol: calls arrive *)

\* What a step that only touches the pending calls leaves alone.
runView == <<activeCall, pendingSavedReply, suspended, continuation, interrupts,
             interruptedContinuation, interruptedForSignal, handlingInterruptedCall,
             pendingCallOverride, ctl>>

\* An active ordinary call means that the microthread is in it, outside any interrupt.
LEMMA ActiveCall ==
  ASSUME TypeOK, ServeInv, activeCall = "call"
  PROVE  Serving /\ ctl = "call" /\ ~Nested
  BY DEF TypeOK, ServeInv

\* A call becomes pending: it finds the microthread done with the calls before it.
LEMMA BecomesPending ==
  ASSUME ServeInv, PendingInv, (Stage' = "micro") <=> (Stage = "micro"), UNCHANGED runView,
         pendingCall = None, pendingCall' \in Kinds, pendingSavedReply = None,
         pendingCall' \in {"call", "ie"} => Leaving,
         pendingCall' \in {"hcall", "ix"} => Handling,
         activeCall = None \/ (activeCall = "call" /\ pendingCall' = "ie")
  PROVE  ServeInv' /\ PendingInv'
<1>0. /\ activeCall' = activeCall
      /\ pendingSavedReply' = pendingSavedReply /\ suspended' = suspended
      /\ continuation' = continuation /\ interrupts' = interrupts
      /\ interruptedContinuation' = interruptedContinuation
      /\ interruptedForSignal' = interruptedForSignal
      /\ handlingInterruptedCall' = handlingInterruptedCall
      /\ pendingCallOverride' = pendingCallOverride /\ ctl' = ctl
  BY DEF runView
<1>1. Nested' = Nested /\ Interrupted' = Interrupted /\ Saved' = Saved
  BY <1>0 DEF Nested, Interrupted, Saved
<1>2. Serving' = Serving /\ Plain' = Plain
  BY <1>0 DEF Serving, Plain
<1>3. Settled' = Settled
  BY <1>0, <1>1, <1>2 DEF Settled
<1>5. ServeInv'
  <2>1. ~(Serving /\ ctl = "activate")
    BY DEF ServeInv
  <2>2. ~(Serving /\ ctl \in {"enter1", "enter2", "icall", "enter3", "enter4"})
    BY Zenon DEF ServeInv
  <2> QED
    BY <1>0, <1>1, <1>2, <1>3, <2>1, <2>2, Zenon DEF ServeInv
<1>6. PendingInv'
  BY <1>0, <1>1, Zenon DEF PendingInv, Leaving, Handling
<1> QED
  BY <1>5, <1>6

\* The client's calls arrive one at a time, and in the order in which it made them.
LEMMA ReceiveCallProtocol ==
  ASSUME TypeOK, ProtocolInv, crashed = "no", ~dead, requests # <<>>,
         Head(requests) \in Kinds, ~BadRequest(Head(requests)), ReceiveCall(Head(requests)),
         requests' = Tail(requests), UNCHANGED <<replies, s2cVars>>
  PROVE  ProtocolInv'
<1> DEFINE c == Head(requests)
<1>1. /\ StackInv /\ ServeInv /\ PendingInv /\ PhaseInv /\ DeferInv /\ phase # "failed"
  BY Zenon DEF ProtocolInv
<1>2. /\ UNCHANGED runView /\ UNCHANGED <<pc, stack, phase, outer, pushing, crashed, dead>>
  BY DEF ReceiveCall, runView
<1>3. Stage' = Stage
  BY <1>2 DEF Stage
<1>0. StackInv'
  BY <1>1, <1>2, <1>3 DEF StackInv, runView
<1>4. /\ activeCall' = activeCall /\ pendingSavedReply' = pendingSavedReply /\ ctl' = ctl
      /\ interrupts' = interrupts
  BY <1>2 DEF runView
<1>5. Nested' = Nested /\ Interrupted' = Interrupted /\ Saved' = Saved
  BY <1>4 DEF Nested, Interrupted, Saved
<1>6. /\ Leaving' = Leaving /\ Handling' = Handling /\ Fresh' = Fresh /\ Kept' = Kept
  BY <1>2, <1>3, <1>4, <1>5 DEF Leaving, Handling, Fresh, Kept
<1>7. /\ replies' = replies /\ deferredReply' = deferredReply
      /\ deferReplyForS2C' = deferReplyForS2C
  OBVIOUS
<1>8. DeferInv'
  BY <1>1, <1>2, <1>5, <1>7 DEF DeferInv
<1>9. ASSUME PhaseInv', StackInv' /\ ServeInv' /\ PendingInv' PROVE ProtocolInv'
  BY <1>1, <1>2, <1>8, <1>9 DEF ProtocolInv
<1>10. ASSUME pendingCall = None
       PROVE  pendingCall' = c /\ pendingInterrupts' = pendingInterrupts
  BY <1>10 DEF ReceiveCall
<1> HIDE DEF c
<1>11. CASE phase = "run" \/ phase = "handler"
  BY <1>1, <1>11, Zenon DEF PhaseInv, RunInv, HandlerInv, Holds
<1>12. CASE phase = "wait"
  <2>1. Direct /\ deferredReply = None /\ Leaving /\ Holds(One("call"), None, None, None, <<>>)
    BY <1>1, <1>12 DEF PhaseInv, WaitInv, Holds
  <2>2. c = "call" /\ Tail(requests) = <<>>
    BY <2>1, SocketFacts DEF Holds, c
  <2>3. pendingCall' = "call" /\ pendingInterrupts' = pendingInterrupts
    BY <1>10, <2>1, <2>2, Zenon DEF Holds
  <2>4. StackInv' /\ ServeInv' /\ PendingInv'
    BY <1>0, <1>1, <1>2, <1>3, <2>1, <2>3, BecomesPending, Zenon DEF Holds, Direct
  <2>5. WaitInv'
    BY <1>4, <1>5, <1>6, <1>7, <2>1, <2>2, <2>3, Zenon DEF WaitInv, Holds, Direct
  <2> QED
    BY <1>2, <1>9, <1>12, <2>4, <2>5, Zenon DEF PhaseInv
<1>13. CASE phase = "enter" /\ outer = "run"
  <2>1. Direct /\ Leaving /\ Holds(One("ie"), None, None, None, <<>>)
    BY <1>1, <1>13 DEF PhaseInv, EnterRunInv, Holds
  <2>2. c = "ie" /\ Tail(requests) = <<>>
    BY <2>1, SocketFacts DEF Holds, c
  <2>3. pendingCall' = "ie" /\ pendingInterrupts' = pendingInterrupts
    BY <1>10, <2>1, <2>2, Zenon DEF Holds
  <2>4. StackInv' /\ ServeInv' /\ PendingInv'
    BY <1>0, <1>1, <1>2, <1>3, <2>1, <2>3, BecomesPending, Zenon DEF Holds, Direct
  <2>5. EnterRunInv'
    BY <1>4, <1>5, <1>6, <1>7, <2>1, <2>2, <2>3, Zenon DEF EnterRunInv, Holds, Direct
  <2> QED
    BY <1>2, <1>9, <1>13, <2>4, <2>5, Zenon DEF PhaseInv
<1>14. CASE phase = "enter" /\ outer = "wait"
  <2>1. /\ Direct
        /\ \/ Leaving /\ Holds(Two("call", "ie"), None, None, None, <<>>)
           \/ Leaving /\ Holds(One("ie"), "call", None, None, <<>>)
           \/ Holds(One("ie"), None, "call", None, <<>>)
           \/ ~Nested /\ Holds(One("ie"), None, None, None, One("call"))
           \/ ctl = "exit2" /\ Holds(One("ie"), None, None, "call", <<>>)
    BY <1>1, <1>14, Zenon DEF PhaseInv, EnterDirect, EnterBehind, EnterOver, Holds
  <2>2. ASSUME EnterDirect' \/ EnterBehind' PROVE PhaseInv'
    BY <1>2, <1>14, <2>2 DEF PhaseInv
  <2>3. CASE Leaving /\ Holds(Two("call", "ie"), None, None, None, <<>>)
    <3>1. c = "call" /\ Tail(requests) = One("ie")
      BY <2>3, SocketFacts DEF Holds, c
    <3>2. pendingCall' = "call" /\ pendingInterrupts' = pendingInterrupts
      BY <1>10, <2>3, <3>1, Zenon DEF Holds
    <3>3. StackInv' /\ ServeInv' /\ PendingInv'
      BY <1>0, <1>1, <1>2, <1>3, <2>1, <2>3, <3>2, BecomesPending DEF Holds, Direct
    <3>4. EnterDirect'
      BY <1>4, <1>5, <1>6, <1>7, <2>1, <2>3, <3>1, <3>2, Zenon DEF EnterDirect, Holds, Direct
    <3> QED
      BY <1>9, <2>2, <3>3, <3>4
  <2>4. CASE Leaving /\ Holds(One("ie"), "call", None, None, <<>>)
    <3>1. c = "ie" /\ Tail(requests) = <<>>
      BY <2>4, SocketFacts, Zenon DEF Holds, c
    <3>2. pendingCall' = pendingCall /\ pendingInterrupts' = pendingInterrupts + 1
      BY <2>4, <3>1 DEF Holds, ReceiveCall
    <3>3. StackInv' /\ ServeInv' /\ PendingInv'
      <4>1. UNCHANGED serverView
        BY <1>2, <1>3, <3>2, Zenon DEF runView, serverView
      <4> QED
        BY <1>1, <4>1, ServerKept, Zenon
    <3>4. EnterBehind'
      <4>1. pendingInterrupts' = 1
        BY <2>1, <3>2 DEF Direct
      <4> QED
        BY <1>4, <1>5, <1>6, <1>7, <2>1, <2>4, <3>1, <3>2, <4>1, Zenon
           DEF EnterBehind, Holds, Direct
    <3> QED
      BY <1>9, <2>2, <3>3, <3>4
  <2>5. CASE \/ Holds(One("ie"), None, "call", None, <<>>)
             \/ ~Nested /\ Holds(One("ie"), None, None, None, One("call"))
             \/ ctl = "exit2" /\ Holds(One("ie"), None, None, "call", <<>>)
    <3>1. c = "ie" /\ Tail(requests) = <<>>
      BY <2>5, SocketFacts DEF Holds, c
    <3>2. pendingCall' = "ie" /\ pendingInterrupts' = pendingInterrupts
      BY <1>10, <2>5, <3>1 DEF Holds
    <3>3. Leaving
      BY <1>1, <2>5, ActiveCall, Zenon DEF Holds, Leaving
    <3>4. StackInv' /\ ServeInv' /\ PendingInv'
      BY <1>0, <1>1, <1>2, <1>3, <2>1, <2>5, <3>2, <3>3, BecomesPending DEF Holds, Direct
    <3>5. EnterDirect'
      BY <1>4, <1>5, <1>6, <1>7, <2>1, <2>5, <3>1, <3>2, Zenon DEF EnterDirect, Holds, Direct, Fresh
    <3> QED
      BY <1>9, <2>2, <3>4, <3>5
  <2> QED
    BY <2>1, <2>3, <2>4, <2>5
<1>15. CASE phase = "push"
  <2>1. Direct /\ ~Nested /\ Holds(Two("ie", "push"), None, None, None, <<>>)
    BY <1>1, <1>15, SocketFacts DEF PhaseInv, PushInv, Holds, Direct
  <2>2. c = "ie" /\ Tail(requests) = One("push")
    BY <2>1, SocketFacts DEF Holds, c
  <2>3. pendingCall' = "ie" /\ pendingInterrupts' = pendingInterrupts
    BY <1>10, <2>1, <2>2 DEF Holds
  <2>4. StackInv' /\ ServeInv' /\ PendingInv'
    BY <1>0, <1>1, <1>2, <1>3, <2>1, <2>3, BecomesPending, Zenon DEF Holds, Direct, Leaving
  <2>5. PushInv'
    BY <1>4, <1>5, <1>6, <1>7, <2>1, <2>2, <2>3, Zenon DEF PushInv, Holds, Direct, Fresh
  <2> QED
    BY <1>2, <1>9, <1>15, <2>4, <2>5, Zenon DEF PhaseInv
<1>16. CASE phase = "hcall"
  <2>1. Direct /\ Handling /\ Holds(One("hcall"), None, None, Kept, <<>>)
    BY <1>1, <1>16 DEF PhaseInv, HandlerCallInv, Holds
  <2>2. c = "hcall" /\ Tail(requests) = <<>>
    BY <2>1, SocketFacts DEF Holds, c
  <2>3. pendingCall' = "hcall" /\ pendingInterrupts' = pendingInterrupts
    BY <1>10, <2>1, <2>2, Zenon DEF Holds
  <2>4. StackInv' /\ ServeInv' /\ PendingInv'
    BY <1>0, <1>1, <1>2, <1>3, <2>1, <2>3, BecomesPending, Zenon DEF Holds, Direct
  <2>5. HandlerCallInv'
    BY <1>4, <1>5, <1>6, <1>7, <2>1, <2>2, <2>3, Zenon DEF HandlerCallInv, Holds, Direct
  <2> QED
    BY <1>2, <1>9, <1>16, <2>4, <2>5 DEF PhaseInv
<1>17. CASE phase = "exit"
  <2>1. Direct /\ Handling /\ Holds(One("ix"), None, None, Kept, <<>>)
    BY <1>1, <1>17, Zenon DEF PhaseInv, ExitInv, Holds
  <2>2. c = "ix" /\ Tail(requests) = <<>>
    BY <2>1, SocketFacts DEF Holds, c
  <2>3. pendingCall' = "ix" /\ pendingInterrupts' = pendingInterrupts
    BY <1>10, <2>1, <2>2, Zenon DEF Holds
  <2>4. StackInv' /\ ServeInv' /\ PendingInv'
    BY <1>0, <1>1, <1>2, <1>3, <2>1, <2>3, BecomesPending, Zenon DEF Holds, Direct
  <2>5. ExitInv'
    BY <1>4, <1>5, <1>6, <1>7, <2>1, <2>2, <2>3 DEF ExitInv, Holds, Direct
  <2> QED
    BY <1>2, <1>9, <1>17, <2>4, <2>5, Zenon DEF PhaseInv
<1> QED
  BY <1>1, <1>11, <1>12, <1>13, <1>14, <1>15, <1>16, <1>17, Zenon DEF PhaseInv, TypeOK

\* What may be on its way to the server, and what is pending meanwhile.
LEMMA RequestsOf ==
  ASSUME TypeOK, PhaseInv, requests # <<>>
  PROVE  /\ phase # "push" =>
              requests \in {One("call"), One("ie"), Two("call", "ie"), One("hcall"), One("ix")}
         /\ pendingCall # None => requests \in {One("ie"), One("push")}
<1>1. CASE phase = "run" \/ phase = "handler"
  BY <1>1, Zenon DEF PhaseInv, RunInv, HandlerInv, Holds
<1>2. CASE phase = "wait"
  BY <1>2, Zenon DEF PhaseInv, WaitInv, Holds
<1>3. CASE phase = "enter" /\ outer = "run"
  BY <1>3 DEF PhaseInv, EnterRunInv, Holds
<1>4. CASE phase = "enter" /\ outer = "wait"
  BY <1>4, Zenon DEF PhaseInv, EnterDirect, EnterBehind, EnterOver, Holds
<1>5. CASE phase = "push"
  BY <1>5, Zenon DEF PhaseInv, PushInv, Holds
<1>6. CASE phase = "hcall"
  BY <1>6, Zenon DEF PhaseInv, HandlerCallInv, Holds
<1>7. CASE phase = "exit"
  BY <1>7 DEF PhaseInv, ExitInv, Holds
<1> QED
  BY <1>1, <1>2, <1>3, <1>4, <1>5, <1>6, <1>7, ZenonT(30) DEF PhaseInv, TypeOK

\* A reply that is pushed back finds its interrupt, or the call that will open it.
LEMMA ReceivePushProtocol ==
  ASSUME TypeOK, ProtocolInv, crashed = "no", ~dead, requests # <<>>,
         Head(requests) = "push", ~BadRequest("push"), ReceivePush,
         requests' = Tail(requests), UNCHANGED <<replies, s2cVars>>
  PROVE  ProtocolInv'
<1>1. /\ StackInv /\ ServeInv /\ PendingInv /\ PhaseInv /\ DeferInv
  BY DEF ProtocolInv
<1>2. /\ UNCHANGED <<pc, outer, crashed, dead, pendingCall, activeCall, pendingInterrupts,
                     suspended, continuation, stack, interruptedContinuation,
                     interruptedForSignal, handlingInterruptedCall, pendingCallOverride, ctl>>
      /\ phase' = "enter" /\ pushing' = None
  BY Zenon DEF ReceivePush
<1>3. Stage' = Stage /\ Serving' = Serving /\ Plain' = Plain
  BY <1>2 DEF Stage, Serving, Plain
<1>4. replies' = replies /\ deferredReply' = deferredReply /\ deferReplyForS2C' = deferReplyForS2C
  OBVIOUS
<1>5. phase = "push"
  <2>1. phase # "push" =>
          requests \in {One("call"), One("ie"), Two("call", "ie"), One("hcall"), One("ix")}
    BY <1>1, RequestsOf, Zenon
  <2>2. phase # "push" => Head(requests) \in {"call", "ie", "hcall", "ix"}
    BY <2>1, SocketFacts
  <2> QED
    BY <2>2
<1>6. PushInv /\ pushing = "call" /\ outer = "wait" /\ deferredReply = None /\ MaxSignals # 0
  BY <1>1, <1>5 DEF PhaseInv, DeferInv
<1>7. /\ requests = One("push") /\ Tail(requests) = <<>>
  BY <1>6, SocketFacts DEF PushInv, Holds
<1>8. DeferInv'
  BY <1>1, <1>2, <1>4, <1>6 DEF DeferInv
<1>9. ASSUME EnterDirect' \/ EnterOver' PROVE PhaseInv'
  BY <1>2, <1>6, <1>9, Zenon DEF PhaseInv
<1>10. ASSUME PhaseInv', StackInv' /\ ServeInv' /\ PendingInv' PROVE ProtocolInv'
  BY <1>2, <1>8, <1>10, Zenon DEF ProtocolInv
<1>11. CASE pendingCall = "ie"
  <2>1. pendingSavedReply' = "call" /\ interrupts' = interrupts
    BY <1>6, <1>11 DEF ReceivePush
  <2>2. Nested' = Nested /\ Interrupted' = Interrupted /\ Saved' = Saved
    BY <2>1, Zenon DEF Nested, Interrupted, Saved
  <2>3. Settled' = Settled
    BY <1>2, <1>3, <2>2, Zenon DEF Settled
  <2>4. /\ Interrupted = None /\ pendingInterrupts = 0 /\ Fresh /\ activeCall = None
        /\ Saved = None /\ replies = <<>>
    BY <1>6, <1>7, <1>11, Zenon DEF PushInv, Holds
  <2>5. StackInv'
    BY <1>1, <1>2, <1>3 DEF StackInv
  <2>6. ServeInv'
    BY <1>1, <1>2, <1>3, <1>11, <2>1, <2>2, <2>3, <2>4, Zenon DEF ServeInv
  <2>7. PendingInv'
    BY <1>1, <1>2, <1>3, <1>11, <2>1, <2>2, <2>4, Zenon DEF PendingInv
  <2>8. EnterOver'
    BY <1>2, <1>3, <1>4, <1>7, <1>11, <2>1, <2>2, <2>4, Zenon DEF EnterOver, Holds, Fresh
  <2> QED
    BY <1>9, <1>10, <2>5, <2>6, <2>7, <2>8
<1>12. CASE pendingCall # "ie"
  <2>1. /\ interrupts # <<>> /\ Top.saved = None
        /\ interrupts' = [interrupts EXCEPT ![Depth].saved = "call"]
        /\ pendingSavedReply' = pendingSavedReply
    BY <1>6, <1>12 DEF ReceivePush
  <2>2. /\ Nested /\ Nested' /\ Interrupted' = Interrupted /\ Saved' = "call"
        /\ Len(interrupts') <= 1
    <3>1. interrupts \in Seq(InterruptType) /\ Len(interrupts) <= 1
      BY <1>1, Zenon DEF ServeInv, TypeOK, InterruptType
    <3>2. Top.call = Interrupted /\ Top \in InterruptType
      BY <2>1, <3>1, FrameFacts, TopType DEF Top, Depth, Interrupted
    <3> DEFINE r == [Top EXCEPT !.saved = "call"]
    <3>3. r \in InterruptType /\ r.call = Interrupted /\ r.saved = "call"
      BY <3>2 DEF InterruptType
    <3>4. interrupts' = [interrupts EXCEPT ![Len(interrupts)] = r]
      BY <2>1 DEF Top, Depth
    <3> HIDE DEF r
    <3>5. /\ interrupts' # <<>> /\ Len(interrupts') <= 1
          /\ CallOf(interrupts') = r.call /\ SavedOf(interrupts') = r.saved
      <4>1. interrupts # <<>> /\ r \in InterruptType
        BY <2>1, <3>3, Zenon
      <4> QED
        BY <3>1, <3>4, <4>1, FrameSet, Zenon
    <3> QED
      BY <2>1, <3>3, <3>5, Zenon DEF Nested, Interrupted, Saved
  <2>3. Settled' = Settled
    BY <1>2, <1>3, <2>2, Zenon DEF Settled
  <2>4. /\ Interrupted = None /\ pendingInterrupts = 0 /\ pendingSavedReply = None
        /\ pendingCall = None /\ Saved = None
        /\ \/ activeCall = "ie" /\ replies = <<>>
           \/ activeCall = None /\ replies = One("ie") /\ Handling
    BY <1>6, <1>7, <1>12, <2>2, SocketFacts DEF PushInv, Holds
  <2>5. StackInv'
    BY <1>1, <1>2, <1>3 DEF StackInv
  <2>6. ServeInv'
    BY <1>1, <1>2, <1>3, <2>1, <2>2, <2>3, <2>4 DEF ServeInv
  <2>7. PendingInv'
    BY <1>1, <1>2, <1>3, <2>1, <2>2, <2>4 DEF PendingInv
  <2>8. EnterDirect'
    BY <1>2, <1>3, <1>4, <1>7, <2>1, <2>2, <2>4, Zenon DEF EnterDirect, Holds, Handling, Direct
  <2> QED
    BY <1>9, <1>10, <2>5, <2>6, <2>7, <2>8
<1> QED
  BY <1>11, <1>12

\* The main loop never throws on a call of its client: only a push_reply may find
\* nothing to be kept in.
LEMMA ReceiveProtocol == TypeOK /\ DeathInv /\ ProtocolInv /\ Receive => ProtocolInv'
<1> SUFFICES ASSUME TypeOK, DeathInv, ProtocolInv, Receive PROVE ProtocolInv' OBVIOUS
<1>1. crashed = "no" /\ ~dead /\ requests # <<>>
  BY Zenon DEF Receive, DeathInv, TypeOK
<1>2. CASE BadRequest(Head(requests)) /\ Throw(Head(requests))
  <2>1. Head(requests) = "push"
    <3>1. PhaseInv
      BY <1>1, Zenon DEF ProtocolInv
    <3>2. pendingCall # None => requests \in {One("ie"), One("push")}
      BY <1>1, <3>1, RequestsOf
    <3>3. pendingCall # None => Head(requests) \in {"ie", "push"}
      BY <3>2, SocketFacts, Zenon
    <3> QED
      BY <1>2, <3>3 DEF BadRequest
  <2>2. crashed' = "push" /\ UNCHANGED serverView /\ UNCHANGED <<dead, phase>>
    <3>1. UNCHANGED pc
      BY <1>2 DEF Throw
    <3> QED
      BY <1>2, <2>1, <3>1, Zenon DEF Throw, serverView, Stage
  <2> QED
    BY <1>1, <2>2, ServerKept DEF ProtocolInv
<1>3. CASE Head(requests) \in Kinds /\ ~BadRequest(Head(requests)) /\ ReceiveCall(Head(requests))
           /\ requests' = Tail(requests) /\ UNCHANGED <<replies, s2cVars>>
  BY <1>1, <1>3, ReceiveCallProtocol
<1>4. CASE Head(requests) = "push" /\ ~BadRequest(Head(requests)) /\ ReceivePush
           /\ requests' = Tail(requests) /\ UNCHANGED <<replies, s2cVars>>
  BY <1>1, <1>4, ReceivePushProtocol, Zenon
<1> QED
  BY <1>2, <1>3, <1>4 DEF Receive
-----------------------------------------------------------------------------
(* The protocol: steps that do not serve calls *)

\* What the client's half of the invariant depends on, besides serverView.
clientView == <<requests, replies, phase, outer, pushing, deferredReply, deferReplyForS2C,
                pendingInterrupts, dead, crashed>>

\* The client's half looks at the microthread through a few predicates only.
LEMMA PhaseSame ==
  ASSUME Direct' = Direct, Leaving' = Leaving, Handling' = Handling, Fresh' = Fresh,
         Nested' = Nested, Interrupted' = Interrupted, Saved' = Saved,
         (ctl' = "exit2") = (ctl = "exit2"),
         pendingCall' = pendingCall, activeCall' = activeCall,
         pendingSavedReply' = pendingSavedReply, pendingInterrupts' = pendingInterrupts,
         requests' = requests, replies' = replies, phase' = phase, outer' = outer,
         deferredReply' = deferredReply
  PROVE  PhaseInv => PhaseInv'
<1>1. Kept' = Kept
  BY DEF Kept
<1>2. RunInv' = RunInv /\ WaitInv' = WaitInv /\ EnterRunInv' = EnterRunInv
  BY Zenon DEF RunInv, WaitInv, EnterRunInv, Holds
<1>3. EnterDirect' = EnterDirect
  BY Zenon DEF EnterDirect, Holds
<1>4. EnterBehind' = EnterBehind /\ EnterOver' = EnterOver /\ PushInv' = PushInv
  BY Zenon DEF EnterBehind, EnterOver, PushInv, Holds
<1>5. HandlerInv' = HandlerInv /\ HandlerCallInv' = HandlerCallInv /\ ExitInv' = ExitInv
  BY <1>1, Zenon DEF HandlerInv, HandlerCallInv, ExitInv, Holds
<1> QED
  BY <1>2, <1>3, <1>4, <1>5, Zenon DEF PhaseInv

\* A step that leaves the client and its socket alone keeps the client's half.
LEMMA PhaseKept ==
  ASSUME UNCHANGED serverView, UNCHANGED <<requests, replies, phase, outer, deferredReply,
                                           pendingInterrupts>>
  PROVE  PhaseInv => PhaseInv'
<1>1. /\ Nested' = Nested /\ Interrupted' = Interrupted /\ Saved' = Saved
  BY ServerKept
<1>2. /\ pendingCall' = pendingCall /\ activeCall' = activeCall /\ ctl' = ctl /\ Stage' = Stage
      /\ pendingSavedReply' = pendingSavedReply /\ pendingInterrupts' = pendingInterrupts
  BY Zenon DEF serverView
<1>3. Direct' = Direct /\ Leaving' = Leaving /\ Handling' = Handling /\ Fresh' = Fresh
  BY <1>1, <1>2, Zenon DEF Direct, Leaving, Handling, Fresh
<1> QED
  BY <1>1, <1>2, <1>3, PhaseSame

\* A step that changes nothing of either view keeps the invariant.
LEMMA ViewKept ==
  ASSUME ProtocolInv, UNCHANGED serverView, UNCHANGED clientView
  PROVE  ProtocolInv'
<1>1. /\ requests' = requests /\ replies' = replies /\ phase' = phase /\ outer' = outer
      /\ pushing' = pushing /\ deferredReply' = deferredReply
      /\ deferReplyForS2C' = deferReplyForS2C
      /\ pendingInterrupts' = pendingInterrupts /\ dead' = dead /\ crashed' = crashed
  BY DEF clientView
<1>2. PhaseInv => PhaseInv'
  BY <1>1, PhaseKept, Zenon
<1>3. /\ StackInv => StackInv'
      /\ ServeInv => ServeInv'
      /\ PendingInv => PendingInv'
      /\ Nested' = Nested /\ Stage' = Stage
  BY ServerKept DEF serverView
<1>4. DeferInv => DeferInv'
  BY <1>1, <1>3 DEF DeferInv
<1> QED
  BY <1>1, <1>2, <1>3, <1>4 DEF ProtocolInv

\* Replies are deferred only without signals, so only the reply of an ordinary
\* call is, and it reaches the client when the S2C call is over.
LEMMA S2CProtocol ==
  ASSUME MaxSignals = 0 \/ MaxS2C = 0, TypeOK, ProtocolInv, S2C
  PROVE  ProtocolInv'
<1>1. /\ crashed = "no" /\ UNCHANGED <<crashed, dead, phase, requests, outer, pushing,
                                       pendingInterrupts>>
      /\ UNCHANGED serverView
  <2>1. UNCHANGED pc
    BY DEF S2C
  <2> QED
    BY <2>1, Zenon DEF S2C, serverView, Stage
<1>2. /\ Nested' = Nested /\ Interrupted' = Interrupted /\ Saved' = Saved
      /\ StackInv' /\ ServeInv' /\ PendingInv'
  BY <1>1, ServerKept DEF ProtocolInv
<1>3. CASE dead
  BY <1>1, <1>2, <1>3, Zenon DEF ProtocolInv
<1>4. CASE ~dead
  <2>1. PhaseInv /\ DeferInv
    BY <1>1, <1>4, Zenon DEF ProtocolInv
  <2>2. CASE S2CDefer
    <3>1. MaxSignals = 0
      BY <2>2 DEF S2CDefer, TypeOK
    <3>2. UNCHANGED <<deferredReply, replies>> /\ deferReplyForS2C'
      BY <2>2 DEF S2CDefer
    <3>3. PhaseInv'
      BY <1>1, <2>1, <3>2, PhaseKept, Zenon
    <3>4. DeferInv'
      BY <1>1, <1>2, <2>1, <3>1, <3>2 DEF DeferInv
    <3> QED
      BY <1>1, <1>2, <3>3, <3>4, Zenon DEF ProtocolInv
  <2>3. CASE S2CFinish
    <3>1. /\ deferReplyForS2C /\ ~deferReplyForS2C' /\ deferredReply' = None
          /\ replies' = IF deferredReply = None THEN replies ELSE Append(replies, deferredReply)
      BY <2>3, Zenon DEF S2CFinish
    <3>2. DeferInv'
      BY <1>1, <1>2, <2>1, <3>1, Zenon DEF DeferInv
    <3>3. CASE deferredReply = None
      <4>1. PhaseInv'
        BY <1>1, <2>1, <3>1, <3>3, PhaseKept, Zenon
      <4> QED
        BY <1>1, <1>2, <3>2, <4>1 DEF ProtocolInv
    <3>4. CASE deferredReply # None
      <4>1. phase = "wait" /\ WaitInv
        BY <2>1, <3>4 DEF DeferInv, PhaseInv
      <4>2. /\ Direct /\ deferredReply = "call" /\ ~Nested
            /\ Holds(<<>>, None, None, None, <<>>)
        BY <3>4, <4>1 DEF WaitInv
      <4>3. replies' = One("call")
        BY <3>1, <3>4, <4>2, SocketFacts DEF Holds
      <4>4. /\ pendingCall' = pendingCall /\ activeCall' = activeCall
            /\ pendingSavedReply' = pendingSavedReply
        BY <1>1, Zenon DEF serverView
      <4>5. WaitInv'
        BY <1>1, <1>2, <3>1, <4>2, <4>3, <4>4 DEF WaitInv, Holds, Direct
      <4> QED
        BY <1>1, <1>2, <3>2, <4>1, <4>5 DEF ProtocolInv, PhaseInv
    <3> QED
      BY <3>3, <3>4
  <2> QED
    BY <2>2, <2>3 DEF S2C
<1> QED
  BY <1>3, <1>4, Zenon

\* notifyDead and the wakers leave the microthread where it is.
LEMMA AsideProtocol ==
  ASSUME TypeOK, ProtocolInv,
         \/ Wake \/ NotifyDead \/ FinishNotifyDead \/ Release
         \/ \E i \in Impersonators : Impersonate(i)
  PROVE  ProtocolInv'
<1>1. crashed = "no" /\ crashed' = crashed /\ UNCHANGED serverView
  <2>1. UNCHANGED pc
    BY Zenon DEF Wake, NotifyDead, FinishNotifyDead, Release, Impersonate
  <2>2. UNCHANGED <<pendingCall, activeCall, pendingSavedReply, suspended, continuation,
                stack, interrupts, interruptedContinuation, interruptedForSignal,
                handlingInterruptedCall, pendingCallOverride, ctl>>
    BY Zenon DEF Wake, NotifyDead, FinishNotifyDead, Release, Impersonate
  <2>3. crashed = "no" /\ crashed' = crashed
    BY Zenon DEF Wake, NotifyDead, FinishNotifyDead, Release, Impersonate
  <2> QED
    BY <2>1, <2>2, <2>3 DEF serverView, Stage
<1>2. CASE NotifyDead
  <2>1. dead' /\ phase' = "gone"
    BY <1>2, Zenon DEF NotifyDead
  <2>2. StackInv' /\ ServeInv' /\ PendingInv'
    BY <1>1, ServerKept DEF ProtocolInv
  <2> QED
    BY <1>1, <2>1, <2>2, Zenon DEF ProtocolInv
<1>3. CASE ~NotifyDead
  <2>1. UNCHANGED clientView
    BY <1>3, Zenon DEF Wake, FinishNotifyDead, Release, Impersonate, clientView
  <2> QED
    BY <1>1, <2>1, ViewKept
<1> QED
  BY <1>2, <1>3
=============================================================================
