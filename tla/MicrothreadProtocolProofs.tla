--------------------- MODULE MicrothreadProtocolProofs ---------------------
(***************************************************************************)
(* The protocol between a client and its thread, second part: the workers, *)
(* the microthread, and what follows from the invariant ProtocolInv that   *)
(* MicrothreadProofs states and proves for all other steps.                *)
(***************************************************************************)
EXTENDS MicrothreadProofs

USE DEF callVars, runVars, intrVars, s2cVars, deathVars, microVars, workVars,
        clientVars, chanVars, Kinds, Ordinary, None, Nobody

-----------------------------------------------------------------------------
(* The protocol: where the invariant places the call *)

\* The number of elements of an empty and of a singleton set.
LEMMA SmallCardinality == Cardinality({}) = 0 /\ \A x : Cardinality({x}) = 1
<1> DEFINE Counts(f, S) == f = [T \in SUBSET S |->
                                  IF T = {} THEN 0 ELSE 1 + f[T \ {CHOOSE y : y \in T}]]
<1>1. ASSUME NEW S, NEW g, Counts(g, S)
      PROVE  \E f : Cardinality(S) = f[S] /\ Counts(f, S)
  <2> DEFINE CS == CHOOSE f : Counts(f, S)
  <2>1. Cardinality(S) = CS[S]
    BY DEF Cardinality
  <2> HIDE DEF Counts
  <2>2. Counts(CS, S)
    BY <1>1
  <2> QED
    BY <2>1, <2>2, Zenon
<1>2. Cardinality({}) = 0
  <2>1. Counts([T \in SUBSET {} |-> 0], {})
    OBVIOUS
  <2> HIDE DEF Counts
  <2>2. PICK f : Cardinality({}) = f[{}] /\ Counts(f, {})
    BY <1>1, <2>1, Zenon
  <2> QED
    BY <2>2 DEF Counts
<1>3. ASSUME NEW x PROVE Cardinality({x}) = 1
  <2>1. \A T \in SUBSET {x} : T # {} => T \ {CHOOSE y : y \in T} = {}
    <3>1. SUFFICES ASSUME NEW T \in SUBSET {x}, T # {} PROVE T \ {CHOOSE y : y \in T} = {}
      OBVIOUS
    <3>2. T = {x}
      BY <3>1
    <3> QED
      BY <3>2
  <2>2. Counts([T \in SUBSET {x} |-> IF T = {} THEN 0 ELSE 1], {x})
    BY <2>1
  <2> HIDE DEF Counts
  <2>3. PICK f : Cardinality({x}) = f[{x}] /\ Counts(f, {x})
    BY <1>1, <2>2
  <2>4. f[{}] = 0 /\ f[{x}] = 1 + f[{x} \ {CHOOSE y : y \in {x}}]
    BY <2>3 DEF Counts
  <2> QED
    BY <2>1, <2>3, <2>4
<1> QED
  BY <1>2, <1>3

\* How often the call is in a socket.
LEMMA SocketCounts ==
  /\ CountIn(<<>>) = 0
  /\ \A a : CountIn(One(a)) = Count(a = "call")
  /\ \A a, b : a # "call" \/ b # "call" =>
       CountIn(Two(a, b)) = Count(a = "call") + Count(b = "call")
<1>0. Cardinality({}) = 0 /\ Cardinality({1}) = 1 /\ Cardinality({2}) = 1
  BY SmallCardinality
<1>1. CountIn(<<>>) = 0
  <2>1. {k \in DOMAIN <<>> : <<>>[k] = "call"} = {}
    OBVIOUS
  <2> QED
    BY <1>0, <2>1 DEF CountIn
<1>2. ASSUME NEW a PROVE CountIn(One(a)) = Count(a = "call")
  <2>1. DOMAIN <<a>> = {1} /\ <<a>>[1] = a
    OBVIOUS
  <2>2. {k \in DOMAIN <<a>> : <<a>>[k] = "call"} = IF a = "call" THEN {1} ELSE {}
    BY <2>1
  <2> QED
    BY <1>0, <2>2 DEF CountIn, One, Count
<1>3. ASSUME NEW a, NEW b, a # "call" \/ b # "call"
      PROVE  CountIn(Two(a, b)) = Count(a = "call") + Count(b = "call")
  <2>1. DOMAIN <<a, b>> = {1, 2} /\ <<a, b>>[1] = a /\ <<a, b>>[2] = b
    OBVIOUS
  <2>2. {k \in DOMAIN <<a, b>> : <<a, b>>[k] = "call"} =
          IF a = "call" THEN {1} ELSE IF b = "call" THEN {2} ELSE {}
    BY <1>3, <2>1, Zenon
  <2> QED
    BY <1>0, <1>3, <2>2 DEF CountIn, Two, Count
<1> QED
  BY <1>1, <1>2, <1>3

\* How often the call is in the interrupt.
LEMMA FrameCounts ==
  ASSUME TypeOK, Len(interrupts) <= 1
  PROVE  /\ Cardinality({k \in 1 .. Depth : interrupts[k].call = "call"}) = Count(Interrupted = "call")
         /\ Cardinality({k \in 1 .. Depth : interrupts[k].saved = "call"}) = Count(Saved = "call")
<1>0. Cardinality({}) = 0 /\ Cardinality({1}) = 1
  BY SmallCardinality, Zenon
<1>1. interrupts \in Seq(InterruptType)
  BY DEF TypeOK, InterruptType
<1>2. CASE interrupts = <<>>
  <2>1. 1 .. Depth = {}
    BY <1>2 DEF Depth
  <2> QED
    BY <1>0, <1>2, <2>1, Zenon DEF Interrupted, Saved, CallOf, SavedOf, Count
<1>3. CASE interrupts # <<>>
  <2>1. 1 .. Depth = {1}
    <3>1. Len(interrupts) = 1
      BY <1>1, <1>3, FrameFacts
    <3> QED
      BY <3>1 DEF Depth
  <2>2. {k \in 1 .. Depth : interrupts[k].call = "call"} =
          IF interrupts[1].call = "call" THEN {1} ELSE {}
    BY <2>1
  <2>3. {k \in 1 .. Depth : interrupts[k].saved = "call"} =
          IF interrupts[1].saved = "call" THEN {1} ELSE {}
    BY <2>1
  <2> QED
    BY <1>0, <1>3, <2>2, <2>3, Zenon DEF Interrupted, Saved, CallOf, SavedOf, Count
<1> QED
  BY <1>2, <1>3, Zenon

\* Where the invariant places the call, it is once, exactly while the client waits for it.
LEMMA ProtocolConserved == TypeOK /\ ProtocolInv => CallConserved
<1> SUFFICES ASSUME TypeOK, ProtocolInv, ~dead, crashed = "no"
             PROVE  CallConserved
  BY Zenon DEF CallConserved
<1> DEFINE o == Count(Outstanding)
           p == Count(pendingCall = "call")
           a == Count(activeCall = "call")
           s == Count(pendingSavedReply = "call")
           d == Count(deferredReply = "call")
           u == Count(pushing = "call")
           i == Count(Interrupted = "call")
           v == Count(Saved = "call")
<1>1. PhaseInv /\ DeferInv /\ Len(interrupts) <= 1
  BY Zenon DEF ProtocolInv, ServeInv
<1>2. SUFFICES o = CountIn(requests) + CountIn(replies) + p + a + s + d + u + i + v
  BY <1>1, FrameCounts, Zenon DEF CallConserved
<1>3. /\ CountIn(<<>>) = 0 /\ CountIn(One("call")) = 1 /\ CountIn(One("ie")) = 0
      /\ CountIn(One("hcall")) = 0 /\ CountIn(One("ix")) = 0 /\ CountIn(One("push")) = 0
      /\ CountIn(Two("call", "ie")) = 1 /\ CountIn(Two("ie", "push")) = 0
      /\ CountIn(Two("ix", "call")) = 1
  BY SocketCounts DEF Count
<1>4. /\ (Outstanding => o = 1) /\ (~Outstanding => o = 0)
      /\ (pendingCall = "call" => p = 1) /\ (pendingCall # "call" => p = 0)
      /\ (activeCall = "call" => a = 1) /\ (activeCall # "call" => a = 0)
      /\ (pendingSavedReply = "call" => s = 1) /\ (pendingSavedReply # "call" => s = 0)
      /\ (deferredReply = "call" => d = 1) /\ (deferredReply # "call" => d = 0)
      /\ (pushing = "call" => u = 1) /\ (pushing # "call" => u = 0)
      /\ (Interrupted = "call" => i = 1) /\ (Interrupted # "call" => i = 0)
      /\ (Saved = "call" => v = 1) /\ (Saved # "call" => v = 0)
  BY Zenon DEF Count
<1> HIDE DEF o, p, a, s, d, u, i, v
<1>5. /\ phase # "wait" => deferredReply = None
      /\ phase # "push" => pushing = None
  BY <1>1, Zenon DEF DeferInv
<1>6. CASE phase = "run"
  <2>1. RunInv
    BY <1>1, <1>6, Zenon DEF PhaseInv
  <2> QED
    BY <1>3, <1>4, <1>5, <1>6, <2>1 DEF RunInv, Direct, Holds, Outstanding
<1>7. CASE phase = "wait"
  <2>1. WaitInv
    BY <1>1, <1>7, Zenon DEF PhaseInv
  <2> QED
    BY <1>3, <1>4, <1>5, <1>7, <2>1 DEF WaitInv, Direct, Holds, Outstanding
<1>8. CASE phase = "enter" /\ outer = "run"
  <2>1. EnterRunInv
    BY <1>1, <1>8, Zenon DEF PhaseInv
  <2> QED
    BY <1>3, <1>4, <1>5, <1>8, <2>1 DEF EnterRunInv, Direct, Holds, Outstanding
<1>9. CASE phase = "enter" /\ outer = "wait"
  <2>1. CASE EnterDirect
    BY <1>3, <1>4, <1>5, <1>9, <2>1 DEF EnterDirect, Direct, Holds, Outstanding
  <2>2. CASE EnterBehind
    BY <1>3, <1>4, <1>5, <1>9, <2>2 DEF EnterBehind, Holds, Outstanding
  <2>3. CASE EnterOver
    BY <1>3, <1>4, <1>5, <1>9, <2>3 DEF EnterOver, Holds, Outstanding
  <2> QED
    BY <1>1, <1>9, <2>1, <2>2, <2>3, Zenon DEF PhaseInv
<1>10. CASE phase = "push"
  <2>1. PushInv /\ pushing = "call" /\ outer = "wait"
    BY <1>1, <1>10, Zenon DEF PhaseInv, DeferInv
  <2> QED
    BY <1>3, <1>4, <1>5, <1>10, <2>1 DEF PushInv, Holds, Outstanding
<1>11. CASE phase = "handler"
  <2>1. HandlerInv
    BY <1>1, <1>11, Zenon DEF PhaseInv
  <2> QED
    BY <1>3, <1>4, <1>5, <1>11, <2>1 DEF HandlerInv, Kept, Direct, Holds, Outstanding
<1>12. CASE phase = "hcall"
  <2>1. HandlerCallInv
    BY <1>1, <1>12, Zenon DEF PhaseInv
  <2> QED
    BY <1>3, <1>4, <1>5, <1>12, <2>1 DEF HandlerCallInv, Kept, Direct, Holds, Outstanding
<1>13. CASE phase = "exit"
  <2>1. ExitInv
    BY <1>1, <1>13, Zenon DEF PhaseInv
  <2> QED
    BY <1>3, <1>4, <1>5, <1>13, <2>1 DEF ExitInv, Kept, Direct, Holds, Outstanding
<1>14. phase \in {"run", "wait", "enter", "push", "handler", "hcall", "exit"} /\ outer \in {"run", "wait"}
  BY <1>1 DEF PhaseInv, TypeOK
<1> QED
  BY <1>6, <1>7, <1>8, <1>9, <1>10, <1>11, <1>12, <1>13, <1>14, Zenon

-----------------------------------------------------------------------------
(* The protocol: doWork *)

\* The place of a worker in doWork matters only between the microthread and the rest.
LEMMA PlaceKept ==
  ASSUME ServeInv, PendingInv, Stage # "micro", Stage' # "micro", UNCHANGED runView,
         pendingCall' = pendingCall
  PROVE  /\ ServeInv' /\ PendingInv'
         /\ UNCHANGED <<requests, replies, phase, outer, deferredReply, pendingInterrupts>> =>
              (PhaseInv => PhaseInv')
<1>0. /\ activeCall' = activeCall
      /\ pendingSavedReply' = pendingSavedReply /\ suspended' = suspended
      /\ continuation' = continuation /\ interrupts' = interrupts
      /\ interruptedContinuation' = interruptedContinuation
      /\ interruptedForSignal' = interruptedForSignal
      /\ handlingInterruptedCall' = handlingInterruptedCall
      /\ pendingCallOverride' = pendingCallOverride /\ ctl' = ctl
  BY DEF runView
<1>1. Nested' = Nested /\ Interrupted' = Interrupted /\ Saved' = Saved
  BY <1>0 DEF Nested, Interrupted, Saved
<1>2. Serving' = Serving /\ Plain' = Plain
  BY <1>0 DEF Serving, Plain
<1>3. Settled' = Settled
  BY <1>0, <1>1, <1>2 DEF Settled
<1>4. ServeInv'
  BY <1>0, <1>1, <1>2, <1>3 DEF ServeInv
<1>5. PendingInv'
  BY <1>0, <1>1 DEF PendingInv
<1>6. ASSUME UNCHANGED <<requests, replies, phase, outer, deferredReply, pendingInterrupts>>
      PROVE  PhaseInv => PhaseInv'
  <2>1. /\ requests' = requests /\ replies' = replies /\ phase' = phase /\ outer' = outer
        /\ deferredReply' = deferredReply /\ pendingInterrupts' = pendingInterrupts
    BY <1>6
  <2>2. Direct' = Direct /\ Leaving' = Leaving /\ Handling' = Handling /\ Fresh' = Fresh
    BY <1>0, <1>1, <2>1 DEF Direct, Leaving, Handling, Fresh
  <2> QED
    BY <1>0, <1>1, <2>1, <2>2, PhaseSame
<1> QED
  BY <1>4, <1>5, <1>6

\* The end of doWork turns an interrupt_enter that waits behind the last call into
\* the pending call; that the call is still pending is the one thing it throws on.
LEMMA DoneWorkingProtocol ==
  ASSUME TypeOK, ProtocolInv, crashed = "no", NEW w \in Workers, NEW term \in BOOLEAN, NEW q,
         DoneWorking(w, term, q), Stage # "micro", Stage' = "rest", UNCHANGED runView,
         UNCHANGED <<requests, replies, phase, outer, pushing, deferredReply, deferReplyForS2C,
                     dead>>,
         suspended => (continuation <=> ~stack')
  PROVE  ProtocolInv'
<1> DEFINE interrupt == ~term /\ ~dead /\ pendingInterrupts > 0
<1>1. /\ crashed' = IF interrupt /\ pendingCall # None THEN "doneWorking" ELSE crashed
      /\ pendingCall' = IF interrupt THEN "ie" ELSE pendingCall
      /\ pendingInterrupts' = IF interrupt THEN pendingInterrupts - 1 ELSE pendingInterrupts
  BY DEF DoneWorking
<1>2. StackInv /\ ServeInv /\ PendingInv /\ phase # "failed" /\ (dead => phase = "gone")
  BY DEF ProtocolInv
<1>3. /\ activeCall' = activeCall /\ pendingSavedReply' = pendingSavedReply /\ ctl' = ctl
      /\ interrupts' = interrupts /\ suspended' = suspended /\ continuation' = continuation
  BY DEF runView
<1>4. Nested' = Nested /\ Interrupted' = Interrupted /\ Saved' = Saved
  BY <1>3 DEF Nested, Interrupted, Saved
<1>5. StackInv'
  BY <1>2, <1>3 DEF StackInv
<1>6. DeferInv => DeferInv'
  BY <1>4 DEF DeferInv
<1>7. CASE ~interrupt
  <2>1. crashed' = "no" /\ pendingCall' = pendingCall /\ pendingInterrupts' = pendingInterrupts
    BY <1>1, <1>7
  <2>2. ServeInv' /\ PendingInv' /\ (PhaseInv => PhaseInv')
    BY <1>2, <2>1, PlaceKept
  <2> QED
    BY <1>2, <1>5, <1>6, <2>1, <2>2 DEF ProtocolInv
<1>8. CASE interrupt /\ pendingCall # None
  BY <1>1, <1>2, <1>8 DEF ProtocolInv
<1>9. CASE interrupt /\ pendingCall = None
  <2>1. /\ crashed' = "no" /\ pendingCall' = "ie" /\ pendingInterrupts' = pendingInterrupts - 1
        /\ ~dead /\ pendingInterrupts # 0
    BY <1>1, <1>9
  <2>2. PhaseInv /\ DeferInv
    BY <2>1 DEF ProtocolInv
  <2>3. \/ phase = "enter" /\ outer = "wait" /\ EnterBehind
        \/ phase = "push" /\ PushInv
    BY <2>1, <2>2 DEF PhaseInv, RunInv, WaitInv, EnterRunInv, EnterDirect, EnterOver,
       HandlerInv, HandlerCallInv, ExitInv, Direct, TypeOK
  <2>4. CASE phase = "enter" /\ outer = "wait" /\ EnterBehind
    <3>1. /\ pendingInterrupts' = 0 /\ Interrupted = None /\ pendingSavedReply = None
          /\ \/ Holds(<<>>, None, "call", None, <<>>)
             \/ ~Nested /\ Holds(<<>>, None, None, None, One("call"))
      BY <1>9, <2>1, <2>4 DEF EnterBehind, Holds
    <3>2. ~Nested
      BY <1>2, <3>1, ActiveCall DEF Holds
    <3>3. ServeInv' /\ PendingInv'
      BY <1>2, <1>9, <2>1, <3>1, <3>2, BecomesPending DEF Holds, Leaving
    <3>4. EnterDirect'
      BY <1>3, <1>4, <2>1, <3>1, <3>2, Zenon DEF EnterDirect, Holds, Direct, Fresh
    <3>5. PhaseInv'
      BY <2>4, <3>4 DEF PhaseInv
    <3> QED
      BY <1>2, <1>5, <1>6, <2>1, <2>2, <3>3, <3>5 DEF ProtocolInv
  <2>5. CASE phase = "push" /\ PushInv
    <3>1. /\ pendingInterrupts' = 0 /\ Interrupted = None /\ pendingSavedReply = None
          /\ ~Nested /\ Holds(One("push"), None, None, None, <<>>)
      BY <1>9, <2>1, <2>5 DEF PushInv
    <3>2. ServeInv' /\ PendingInv'
      BY <1>2, <1>9, <2>1, <3>1, BecomesPending DEF Holds, Leaving
    <3>3. PushInv'
      BY <1>3, <1>4, <2>1, <3>1, Zenon DEF PushInv, Holds, Fresh
    <3>4. PhaseInv'
      BY <2>5, <3>3 DEF PhaseInv
    <3> QED
      BY <1>2, <1>5, <1>6, <2>1, <2>2, <3>2, <3>4 DEF ProtocolInv
  <2> QED
    BY <2>3, <2>4, <2>5
<1> QED
  BY <1>7, <1>8, <1>9

\* interrupt_enter starts outside any other interrupt and sets the active call aside.
LEMMA StartInterruptProtocol ==
  ASSUME TypeOK, OneRunner, ProtocolInv, NEW w \in Workers, Dispatch(w), StartInterrupt(w)
  PROVE  ProtocolInv'
<1>1. /\ crashed = "no" /\ pc[w] = "dispatch" /\ pc' = [pc EXCEPT ![w] = "micro"]
      /\ ~pendingCallOverride /\ pendingCall = "ie"
      /\ interrupts' = Append(interrupts, [call |-> activeCall, saved |-> None, stack |-> stack])
      /\ interruptedContinuation' = continuation /\ continuation' = FALSE
      /\ activeCall' = None /\ suspended' = FALSE /\ stack' = TRUE /\ ctl' = "activate"
      /\ UNCHANGED <<pendingCall, pendingInterrupts, crashed, pendingSavedReply, dead,
                     interruptedForSignal, handlingInterruptedCall, pendingCallOverride,
                     deferReplyForS2C, deferredReply, phase, outer, pushing, requests, replies>>
  BY DEF Dispatch, StartInterrupt, DispatchInterrupt
<1>2. Stage = "dispatch" /\ Stage' = "micro"
  BY <1>1, StageMoves, Zenon DEF Runs
<1>3. /\ StackInv /\ ServeInv /\ PendingInv
      /\ (dead => phase = "gone") /\ phase # "failed" /\ (~dead => PhaseInv /\ DeferInv)
  BY <1>1 DEF ProtocolInv
<1>4. ~Nested
  BY <1>1, <1>2, <1>3 DEF ServeInv, PendingInv
<1>5. Nested' /\ Interrupted' = activeCall /\ Saved' = None /\ Len(interrupts') <= 1
  <2>1. interrupts \in Seq(InterruptType) /\ Len(interrupts) <= 1 /\ interrupts = <<>>
    BY <1>3, <1>4 DEF TypeOK, InterruptType, ServeInv, Nested
  <2> DEFINE r == [call |-> activeCall, saved |-> None, stack |-> stack]
  <2>2. r \in InterruptType /\ r.call = activeCall /\ r.saved = None
    BY DEF TypeOK, InterruptType
  <2>3. interrupts' = Append(interrupts, r)
    BY <1>1
  <2> HIDE DEF r
  <2>4. /\ Append(interrupts, r) # <<>> /\ Len(Append(interrupts, r)) <= 1
        /\ CallOf(Append(interrupts, r)) = r.call /\ SavedOf(Append(interrupts, r)) = r.saved
    BY <2>1, <2>2, FrameFacts
  <2> QED
    BY <2>2, <2>3, <2>4 DEF Nested, Interrupted, Saved
<1>6. activeCall \in {None, "call"} /\ (pendingSavedReply # None => activeCall = None)
  BY <1>1, <1>3 DEF PendingInv
<1>7. Plain /\ (continuation => activeCall = "call")
  <2>1. CASE ~Serving
    BY <1>3, <2>1 DEF ServeInv, Settled, StackInv, Serving
  <2>2. CASE Serving
    <3>1. suspended /\ ctl \in {"call", "icall"}
      BY <1>2, <1>3, <2>2 DEF StackInv, Serving
    <3>2. ctl = "call"
      BY <1>3, <1>6, <2>2, <3>1 DEF ServeInv
    <3> QED
      BY <1>3, <1>4, <2>2, <3>2 DEF ServeInv, Settled
  <2> QED
    BY <2>1, <2>2
<1>8. StackInv'
  BY <1>1, <1>2 DEF StackInv
<1>9. Serving' /\ Plain'
  BY <1>1, <1>2, <1>7 DEF Serving, Plain
<1>10. ServeInv'
  BY <1>1, <1>2, <1>5, <1>6, <1>7, <1>9 DEF ServeInv
<1>11. PendingInv'
  BY <1>1, <1>2, <1>3, <1>5, <1>6 DEF PendingInv
<1>12. ~dead => PhaseInv'
  <2> SUFFICES ASSUME ~dead PROVE PhaseInv'
    OBVIOUS
  <2>1. PhaseInv /\ Fresh' /\ Interrupted = None /\ ctl # "exit2"
    BY <1>1, <1>2, <1>3, <1>4 DEF Fresh, Interrupted, CallOf, Nested, ServeInv
  <2>2. phase \in {"enter", "push"}
    BY <1>1, <2>1 DEF PhaseInv, RunInv, WaitInv, HandlerInv, HandlerCallInv, ExitInv, Holds
  <2>3. ASSUME phase = "enter", outer = "run" PROVE PhaseInv'
    <3>1. Direct /\ Holds(<<>>, "ie", None, None, <<>>)
      BY <1>1, <2>1, <2>3 DEF PhaseInv, EnterRunInv, Holds
    <3>2. EnterRunInv'
      BY <1>1, <1>5, <3>1 DEF EnterRunInv, Holds, Direct
    <3> QED
      BY <1>1, <2>3, <3>2 DEF PhaseInv
  <2>4. ASSUME phase = "enter", outer = "wait" PROVE PhaseInv'
    <3>1. \/ Direct /\ Holds(<<>>, "ie", "call", None, <<>>)
          \/ Direct /\ Holds(<<>>, "ie", None, None, One("call"))
          \/ /\ pendingInterrupts = 0 /\ pendingSavedReply = "call"
             /\ Holds(<<>>, "ie", None, None, <<>>)
      BY <1>1, <2>1, <2>4 DEF PhaseInv, EnterDirect, EnterBehind, EnterOver, Holds
    <3>2. CASE Direct /\ Holds(<<>>, "ie", None, None, One("call"))
      <4>1. EnterDirect'
        BY <1>1, <1>5, <2>1, <3>2 DEF EnterDirect, Holds, Direct
      <4> QED
        BY <1>1, <2>4, <4>1 DEF PhaseInv
    <3>3. CASE \/ Direct /\ Holds(<<>>, "ie", "call", None, <<>>)
               \/ /\ pendingInterrupts = 0 /\ pendingSavedReply = "call"
                  /\ Holds(<<>>, "ie", None, None, <<>>)
      <4>1. EnterOver'
        BY <1>1, <1>5, <2>1, <3>3 DEF EnterOver, Holds, Direct
      <4> QED
        BY <1>1, <2>4, <4>1 DEF PhaseInv
    <3> QED
      BY <3>1, <3>2, <3>3
  <2>5. ASSUME phase = "push" PROVE PhaseInv'
    <3>1. Direct /\ Holds(One("push"), "ie", None, None, <<>>)
      BY <1>1, <2>1, <2>5 DEF PhaseInv, PushInv, Holds, Direct
    <3>2. PushInv'
      BY <1>1, <1>5, <2>1, <3>1 DEF PushInv, Holds, Direct
    <3> QED
      BY <1>1, <2>5, <3>2 DEF PhaseInv
  <2> QED
    BY <2>2, <2>3, <2>4, <2>5 DEF TypeOK
<1>13. ~dead => DeferInv'
  <2>1. ASSUME ~dead PROVE MaxSignals # 0
    <3>1. PhaseInv /\ DeferInv
      BY <1>3, <2>1
    <3>2. phase \notin {"run", "wait"}
      BY <1>1, <3>1 DEF PhaseInv, RunInv, WaitInv, Holds
    <3> QED
      BY <3>1, <3>2 DEF DeferInv
  <2> QED
    BY <1>1, <1>3, <2>1 DEF DeferInv
<1> QED
  BY <1>1, <1>3, <1>8, <1>10, <1>11, <1>12, <1>13 DEF ProtocolInv

\* A resumed call goes on where it suspended.
LEMMA ResumeProtocol ==
  ASSUME TypeOK, OneRunner, ProtocolInv, NEW w \in Workers, Dispatch(w), ResumeMicrothread(w)
  PROVE  ProtocolInv'
<1>1. /\ crashed = "no" /\ pc[w] = "dispatch" /\ pc' = [pc EXCEPT ![w] = "micro"]
      /\ suspended /\ suspended' = FALSE /\ continuation' = FALSE /\ stack' = TRUE
      /\ UNCHANGED <<pendingCall, activeCall, pendingInterrupts, crashed, pendingSavedReply, dead,
                     interrupts, interruptedContinuation, ctl,
                     interruptedForSignal, handlingInterruptedCall, pendingCallOverride,
                     deferReplyForS2C, deferredReply, phase, outer, pushing, requests, replies>>
  BY DEF Dispatch, ResumeMicrothread, DispatchResume
<1>2. Stage = "dispatch" /\ Stage' = "micro"
  BY <1>1, StageMoves, Zenon DEF Runs
<1>3. /\ StackInv /\ ServeInv /\ PendingInv
      /\ (dead => phase = "gone") /\ phase # "failed" /\ (~dead => PhaseInv /\ DeferInv)
  BY <1>1 DEF ProtocolInv
<1>4. ctl \in {"call", "icall"}
  BY <1>1, <1>3 DEF StackInv
<1>5. Nested' = Nested /\ Interrupted' = Interrupted /\ Saved' = Saved
  BY <1>1 DEF Nested, Interrupted, Saved
<1>6. Serving /\ Serving' /\ Plain' = Plain
  BY <1>1, <1>2 DEF Serving, Plain
<1>7. Settled' = Settled
  BY <1>1, <1>5, <1>6 DEF Settled
<1>8. StackInv'
  BY <1>1, <1>2 DEF StackInv
<1>9. ServeInv'
  BY <1>1, <1>3, <1>4, <1>5, <1>6, <1>7 DEF ServeInv
<1>10. PendingInv'
  BY <1>1, <1>2, <1>3, <1>4, <1>5 DEF PendingInv
<1>11. Direct' = Direct /\ Leaving' = Leaving /\ Handling' = Handling /\ Fresh' = Fresh
  BY <1>1, <1>2, <1>4, <1>5 DEF Direct, Leaving, Handling, Fresh
<1>12. PhaseInv => PhaseInv'
  BY <1>1, <1>5, <1>11, PhaseSame
<1>13. DeferInv => DeferInv'
  BY <1>1, <1>5 DEF DeferInv
<1> QED
  BY <1>1, <1>3, <1>8, <1>9, <1>10, <1>12, <1>13 DEF ProtocolInv

\* A pending call starts when nothing is active, and an ordinary one outside any
\* interrupt.
LEMMA StartCallProtocol ==
  ASSUME TypeOK, OneRunner, ProtocolInv, NEW w \in Workers, Dispatch(w), StartCall(w)
  PROVE  ProtocolInv'
<1>1. /\ crashed = "no" /\ pc[w] = "dispatch" /\ pc' = [pc EXCEPT ![w] = "micro"]
      /\ ~continuation /\ pendingCall # None
      /\ (pendingCallOverride \/ pendingCall # "ie")
      /\ suspended' = FALSE /\ stack' = TRUE /\ ctl' = "activate"
      /\ UNCHANGED <<pendingCall, activeCall, pendingInterrupts, crashed, pendingSavedReply, dead,
                     interrupts, interruptedContinuation, continuation,
                     interruptedForSignal, handlingInterruptedCall, pendingCallOverride,
                     deferReplyForS2C, deferredReply, phase, outer, pushing, requests, replies>>
  BY DEF Dispatch, StartCall, DispatchInterrupt, TypeOK
<1>2. Stage = "dispatch" /\ Stage' = "micro"
  BY <1>1, StageMoves, Zenon DEF Runs
<1>3. /\ StackInv /\ ServeInv /\ PendingInv
      /\ (dead => phase = "gone") /\ phase # "failed" /\ (~dead => PhaseInv /\ DeferInv)
  BY <1>1 DEF ProtocolInv
<1>4. Nested' = Nested /\ Interrupted' = Interrupted /\ Saved' = Saved
  BY <1>1 DEF Nested, Interrupted, Saved
<1>5. ~pendingCallOverride
  <2>1. suspended => ctl \in {"call", "icall"}
    BY <1>3 DEF StackInv
  <2>2. Serving => suspended
    BY <1>2 DEF Serving
  <2> QED
    BY <1>1, <1>3, <2>1, <2>2 DEF ServeInv, Settled, Plain
<1>6. pendingCall \in {"call", "hcall", "ix"} /\ activeCall = None
  BY <1>1, <1>3, <1>5 DEF PendingInv, TypeOK
<1>7. ~Serving
  <2>1. suspended => ctl \in {"call", "icall"}
    BY <1>3 DEF StackInv
  <2>2. Serving => suspended
    BY <1>2 DEF Serving
  <2> QED
    BY <1>3, <1>6, <2>1, <2>2 DEF ServeInv
<1>8. Plain' /\ ~interruptedContinuation' /\ Interrupted' = None /\ Settled'
  BY <1>1, <1>3, <1>4, <1>7 DEF ServeInv, Settled, Plain
<1>9. Serving' /\ ctl # "exit2"
  BY <1>2, <1>3 DEF Serving, ServeInv
<1>10. StackInv'
  BY <1>1, <1>2 DEF StackInv
<1>11. ServeInv'
  <2>1. /\ pendingCall = "call" => ~Nested
        /\ pendingCall \in {"hcall", "ix"} => Nested
    BY <1>3, <1>9 DEF PendingInv
  <2>2. Len(interrupts') <= 1
    BY <1>1, <1>3 DEF ServeInv
  <2> QED
    BY <1>1, <1>2, <1>4, <1>6, <1>8, <1>9, <2>1, <2>2 DEF ServeInv
<1>12. PendingInv'
  BY <1>1, <1>2, <1>3, <1>4, <1>6, <1>9 DEF PendingInv
<1>13. ~dead => PhaseInv'
  <2>1. Leaving' = Leaving /\ Handling' = Handling /\ Direct' = Direct
    BY <1>1, <1>4, <1>9, Zenon DEF Leaving, Handling, Direct
  <2>2. ASSUME ~dead PROVE PhaseInv'
    <3>1. PhaseInv
      BY <1>3, <2>2, Zenon
    <3>2. CASE phase \in {"run", "handler", "push"} \/ (phase = "enter" /\ outer = "run")
      BY <1>6, <3>1, <3>2 DEF PhaseInv, RunInv, HandlerInv, PushInv, EnterRunInv, Holds
    <3>3. CASE phase = "wait"
      <4>1. Direct /\ deferredReply = None /\ Leaving /\ Holds(<<>>, "call", None, None, <<>>)
        BY <1>6, <3>1, <3>3 DEF PhaseInv, WaitInv, Holds
      <4>2. WaitInv'
        BY <1>1, <1>4, <2>1, <4>1 DEF WaitInv, Holds
      <4> QED
        BY <1>1, <3>3, <4>2 DEF PhaseInv
    <3>4. CASE phase = "enter" /\ outer = "wait"
      <4>1. \/ Direct /\ Leaving /\ Holds(One("ie"), "call", None, None, <<>>)
            \/ /\ pendingInterrupts = 1 /\ Interrupted = None /\ pendingSavedReply = None
               /\ Leaving /\ Holds(<<>>, "call", None, None, <<>>)
        BY <1>6, <3>1, <3>4, Zenon DEF PhaseInv, EnterDirect, EnterBehind, EnterOver, Holds
      <4>2. EnterDirect' \/ EnterBehind'
        BY <1>1, <1>4, <2>1, <4>1 DEF EnterDirect, EnterBehind, Holds
      <4> QED
        BY <1>1, <3>4, <4>2, Zenon DEF PhaseInv
    <3>5. CASE phase \in {"hcall", "exit"}
      <4>1. Kept' = Kept
        BY <1>1 DEF Kept
      <4>2. /\ Direct /\ Handling
            /\ \/ phase = "hcall" /\ Holds(<<>>, "hcall", None, Kept, <<>>)
               \/ phase = "exit" /\ Holds(<<>>, "ix", None, Kept, <<>>)
        BY <1>6, <3>1, <3>5, Zenon DEF PhaseInv, HandlerCallInv, ExitInv, Holds
      <4>3. \/ phase = "hcall" /\ HandlerCallInv'
            \/ phase = "exit" /\ ExitInv'
        BY <1>1, <1>4, <2>1, <4>1, <4>2 DEF HandlerCallInv, ExitInv, Holds
      <4> QED
        BY <1>1, <4>3 DEF PhaseInv
    <3> QED
      BY <3>1, <3>2, <3>3, <3>4, <3>5 DEF PhaseInv, TypeOK
  <2> QED
    BY <2>2
<1>14. DeferInv => DeferInv'
  BY <1>1, <1>4 DEF DeferInv
<1> QED
  BY <1>1, <1>3, <1>10, <1>11, <1>12, <1>13, <1>14, Zenon DEF ProtocolInv

\* The steps of doWork outside the microthread keep the protocol.
LEMMA WorkProtocol ==
  ASSUME TypeOK, OneRunner, ProtocolInv, NEW w \in Workers,
         DoWork(w) \/ Dispatch(w) \/ BackToTop(w) \/ FinishDoWork(w)
  PROVE  ProtocolInv'
<1>1. CASE DoWork(w)
  <2>1. /\ crashed = "no" /\ pc[w] = "idle"
        /\ UNCHANGED <<suspended, continuation, stack, interrupts, pendingSavedReply,
                       interruptedContinuation, interruptedForSignal, handlingInterruptedCall,
                       pendingCallOverride, deferReplyForS2C, deferredReply, dead, ctl,
                       phase, outer, pushing, requests, replies>>
    BY <1>1 DEF DoWork
  <2>2. CASE DoWorkDeferred(w) \/ DoWorkRunning(w)
    <3>1. UNCHANGED <<pc, pendingCall, activeCall, pendingInterrupts, crashed>>
      BY <2>2 DEF DoWorkDeferred, DoWorkRunning
    <3>2. UNCHANGED serverView /\ UNCHANGED clientView
      BY <2>1, <3>1 DEF serverView, clientView, Stage
    <3> QED
      BY <3>2, ViewKept
  <2>3. CASE DoWorkTerminated(w)
    <3>1. ~running /\ DoneWorking(w, TRUE, queued - 1) /\ activeCall' = activeCall
      BY <2>3, Zenon DEF DoWorkTerminated
    <3>2. Stage = "rest" /\ Stage' = "rest"
      <4>1. PICK y \in {"done", "release"} : pc' = [pc EXCEPT ![w] = y]
        BY <3>1 DEF DoneWorking
      <4> QED
        BY <2>1, <3>1, <4>1, StageKept, Zenon DEF Runs
    <3>3. UNCHANGED runView
      BY <2>1, <3>1 DEF runView
    <3>4. suspended => (continuation <=> ~stack')
      BY <2>1, <3>2 DEF ProtocolInv, StackInv
    <3> QED
      BY <2>1, <3>1, <3>2, <3>3, <3>4, DoneWorkingProtocol, Zenon
  <2>4. CASE DoWorkStart(w)
    <3>1. /\ ~running /\ pc' = [pc EXCEPT ![w] = "dispatch"]
          /\ UNCHANGED <<pendingCall, activeCall, pendingInterrupts, crashed>>
      BY <2>4 DEF DoWorkStart
    <3>2. Stage = "rest" /\ Stage' = "dispatch"
      BY <2>1, <3>1, StageKept, Zenon DEF Runs
    <3>3. UNCHANGED runView
      BY <2>1, <3>1 DEF runView
    <3>4. StackInv /\ ServeInv /\ PendingInv
      BY <2>1 DEF ProtocolInv
    <3>5. ServeInv' /\ PendingInv' /\ (PhaseInv => PhaseInv')
      BY <2>1, <3>1, <3>2, <3>3, <3>4, PlaceKept
    <3>6. StackInv'
      BY <2>1, <3>2, <3>4 DEF StackInv
    <3>7. DeferInv => DeferInv'
      BY <2>1, Zenon DEF DeferInv, Nested
    <3> QED
      BY <2>1, <3>1, <3>5, <3>6, <3>7 DEF ProtocolInv
  <2> QED
    BY <1>1, <2>2, <2>3, <2>4 DEF DoWork
<1>2. CASE Dispatch(w)
  <2>1. CASE NothingToDo(w)
    <3>1. /\ crashed = "no" /\ pc[w] = "dispatch" /\ DoneWorking(w, terminating, queued)
          /\ UNCHANGED <<suspended, continuation, stack, interrupts, pendingSavedReply,
                         interruptedContinuation, interruptedForSignal, handlingInterruptedCall,
                         pendingCallOverride, deferReplyForS2C, deferredReply, dead, ctl,
                         activeCall, phase, outer, pushing, requests, replies>>
      BY <1>2, <2>1 DEF Dispatch, NothingToDo
    <3>2. Stage = "dispatch" /\ Stage' = "rest"
      <4>1. PICK y \in {"done", "release"} : pc' = [pc EXCEPT ![w] = y]
        BY <3>1, Zenon DEF DoneWorking
      <4> QED
        BY <3>1, <4>1, StageMoves, Zenon DEF Runs
    <3>3. UNCHANGED runView
      BY <3>1 DEF runView
    <3>4. suspended => (continuation <=> ~stack')
      BY <3>1, <3>2 DEF ProtocolInv, StackInv
    <3>5. terminating \in BOOLEAN
      BY DEF TypeOK
    <3> QED
      BY <3>1, <3>2, <3>3, <3>4, <3>5, DoneWorkingProtocol, Zenon
  <2> QED
    BY <1>2, <2>1, StartInterruptProtocol, ResumeProtocol, StartCallProtocol DEF Dispatch
<1>3. CASE BackToTop(w)
  <2>1. /\ crashed = "no" /\ pc[w] = "top" /\ DoneWorking(w, terminating, queued)
        /\ stack' = (stack /\ suspended /\ ~continuation)
        /\ UNCHANGED <<suspended, continuation, interrupts, pendingSavedReply,
                       interruptedContinuation, interruptedForSignal, handlingInterruptedCall,
                       pendingCallOverride, deferReplyForS2C, deferredReply, dead, ctl,
                       activeCall, phase, outer, pushing, requests, replies>>
    BY <1>3 DEF BackToTop
  <2>2. Stage = "top" /\ Stage' = "rest"
    <3>1. PICK y \in {"done", "release"} : pc' = [pc EXCEPT ![w] = y]
      BY <2>1, Zenon DEF DoneWorking
    <3> QED
      BY <2>1, <3>1, StageMoves, Zenon DEF Runs
  <2>3. UNCHANGED runView
    BY <2>1 DEF runView
  <2>4. suspended => (continuation <=> ~stack')
    BY <2>1, <2>2, Zenon DEF ProtocolInv, StackInv, TypeOK
  <2>5. terminating \in BOOLEAN
    BY DEF TypeOK
  <2> QED
    BY <2>1, <2>2, <2>3, <2>4, <2>5, DoneWorkingProtocol, Zenon
<1>4. CASE FinishDoWork(w)
  <2>1. Stage' = Stage
    <3>1. pc[w] \in {"done", "release"} /\ pc' = [pc EXCEPT ![w] = "idle"]
      BY <1>4 DEF FinishDoWork
    <3>2. ~Runs(w) /\ "idle" \notin {"dispatch", "micro", "top"}
      BY <3>1, Zenon DEF Runs
    <3> QED
      BY <3>1, <3>2, StageKept, Zenon
  <2>2. UNCHANGED serverView /\ UNCHANGED clientView
    BY <1>4, <2>1 DEF FinishDoWork, serverView, clientView
  <2> QED
    BY <2>2, ViewKept
<1> QED
  BY <1>1, <1>2, <1>3, <1>4
-----------------------------------------------------------------------------
(* The protocol: the microthread *)

\* What every step of the microthread leaves alone, and where its worker is.
LEMMA MicroFacts ==
  ASSUME TypeOK, OneRunner, ProtocolInv, NEW w \in Workers, Microthread(w)
  PROVE  /\ crashed = "no" /\ crashed' = "no" /\ Stage = "micro" /\ Serving
         /\ StackInv /\ ServeInv /\ PendingInv /\ ~suspended /\ stack
         /\ (dead => phase = "gone") /\ phase # "failed" /\ (~dead => PhaseInv /\ DeferInv)
         /\ UNCHANGED <<stack, deferReplyForS2C, dead, phase, outer, pushing, requests>>
         /\ pc' = pc => Stage' = "micro"
         /\ pc' = [pc EXCEPT ![w] = "top"] => Stage' = "top"
<1>1. /\ crashed = "no" /\ crashed' = "no" /\ pc[w] = "micro"
      /\ UNCHANGED <<stack, deferReplyForS2C, dead, phase, outer, pushing, requests>>
  BY DEF Microthread
<1>2. Runs(w) /\ \A v \in Workers : pc[v] \in {"dispatch", "micro", "top"} => v = w
  BY <1>1 DEF OneRunner, Runs
<1>3. Stage = "micro"
  BY <1>1, <1>2, StageIs DEF Stage
<1>4. pc' = pc => Stage' = "micro"
  BY <1>3 DEF Stage
<1>5. pc' = [pc EXCEPT ![w] = "top"] => Stage' = "top"
  BY <1>2, StageMoves, Zenon
<1>6. /\ StackInv /\ ServeInv /\ PendingInv
      /\ (dead => phase = "gone") /\ phase # "failed" /\ (~dead => PhaseInv /\ DeferInv)
  BY <1>1 DEF ProtocolInv
<1>7. Serving /\ ~suspended /\ stack
  BY <1>3, <1>6 DEF Serving, StackInv
<1> QED
  BY <1>1, <1>3, <1>4, <1>5, <1>6, <1>7

\* A step of the microthread keeps the invariant if it keeps each part.
LEMMA Assemble ==
  ASSUME crashed' = "no", StackInv', ServeInv', PendingInv', dead' => phase' = "gone",
         phase' # "failed", ~dead' => PhaseInv' /\ DeferInv'
  PROVE  ProtocolInv'
  BY DEF ProtocolInv

\* makePendingCallActive finds a pending call and no active one.
LEMMA ActivateProtocol ==
  ASSUME TypeOK, OneRunner, ProtocolInv, NEW w \in Workers, Microthread(w),
         MakePendingCallActive(w)
  PROVE  ProtocolInv'
<1>1. /\ crashed' = "no" /\ Stage = "micro" /\ Serving
      /\ StackInv /\ ServeInv /\ PendingInv /\ ~suspended /\ stack
      /\ (dead => phase = "gone") /\ phase # "failed" /\ (~dead => PhaseInv /\ DeferInv)
      /\ UNCHANGED <<stack, deferReplyForS2C, dead, phase, outer, pushing, requests>>
  BY MicroFacts
<1>2. /\ ctl = "activate" /\ activeCall' = pendingCall /\ pendingCall' = None
      /\ ctl' = CASE pendingCall = "ie" -> "enter1" [] pendingCall = "ix" -> "exit1"
                  [] OTHER -> "call"
      /\ UNCHANGED <<pendingInterrupts, suspended, continuation, interrupts, pendingSavedReply,
                     interruptedContinuation, interruptedForSignal, handlingInterruptedCall,
                     pendingCallOverride, deferredReply, pc, replies>>
  BY DEF MakePendingCallActive
<1>3. Stage' = "micro"
  BY <1>2, MicroFacts
<1>4. Nested' = Nested /\ Interrupted' = Interrupted /\ Saved' = Saved
  BY <1>2 DEF Nested, Interrupted, Saved
<1>5. Serving' /\ Plain' = Plain
  BY <1>2, <1>3 DEF Serving, Plain
<1>6. Settled' = Settled
  BY <1>2, <1>4, <1>5 DEF Settled
<1>7. /\ activeCall = None /\ pendingCall # None /\ Plain
      /\ pendingCall = "ie" => Nested /\ Saved = None
      /\ pendingCall = "call" => ~Nested
      /\ pendingCall \in {"hcall", "ix"} => Nested
      /\ pendingCall # "ie" => Settled
      /\ Interrupted \in {None, "call"}
      /\ interruptedContinuation => Interrupted = "call"
      /\ Interrupted = "call" => pendingSavedReply = None
      /\ Len(interrupts) <= 1
  BY <1>1, <1>2, Zenon DEF ServeInv
<1>8. pendingCall \in {"call", "hcall", "ie", "ix"}
  BY <1>7 DEF TypeOK
<1>9. StackInv'
  BY <1>1, <1>2, <1>3 DEF StackInv
<1>10. ServeInv'
  <2>1. CASE pendingCall = "ie"
    <3>1. ctl' = "enter1" /\ activeCall' = "ie"
      BY <1>2, <2>1
    <3> QED
      BY <1>2, <1>4, <1>5, <1>7, <2>1, <3>1 DEF ServeInv
  <2>2. CASE pendingCall = "ix"
    <3>1. ctl' = "exit1" /\ activeCall' = "ix"
      BY <1>2, <2>2
    <3> QED
      BY <1>2, <1>4, <1>5, <1>6, <1>7, <2>2, <3>1 DEF ServeInv
  <2>3. CASE pendingCall \in {"call", "hcall"}
    <3>1. ctl' = "call" /\ activeCall' = pendingCall
      BY <1>2, <2>3
    <3> QED
      BY <1>2, <1>4, <1>5, <1>6, <1>7, <2>3, <3>1 DEF ServeInv
  <2> QED
    BY <1>8, <2>1, <2>2, <2>3
<1>11. PendingInv'
  BY <1>1, <1>2, <1>7, <1>8 DEF PendingInv
<1>12. ASSUME ~dead PROVE PhaseInv'
  <2>1. PhaseInv
    BY <1>1, <1>12
  <2>2. Direct' = Direct /\ (Nested => Handling') /\ ctl # "exit2" /\ ctl' # "exit2" /\ Kept' = Kept
    BY <1>1, <1>2, <1>4, <1>8, Zenon DEF Direct, Handling, Kept
  <2>3. CASE phase \in {"run", "handler"}
    BY <1>7, <2>1, <2>3 DEF PhaseInv, RunInv, HandlerInv, Holds
  <2>4. CASE phase = "wait"
    <3>1. Direct /\ deferredReply = None /\ Holds(<<>>, "call", None, None, <<>>)
      BY <1>7, <2>1, <2>4 DEF PhaseInv, WaitInv, Holds
    <3>2. WaitInv'
      BY <1>1, <1>2, <1>4, <2>2, <3>1 DEF WaitInv, Holds
    <3> QED
      BY <1>1, <2>4, <3>2 DEF PhaseInv
  <2>5. CASE phase = "enter" /\ outer = "run"
    <3>1. Direct /\ Holds(<<>>, "ie", None, None, <<>>)
      BY <1>7, <2>1, <2>5 DEF PhaseInv, EnterRunInv, Holds
    <3>2. EnterRunInv'
      BY <1>1, <1>2, <1>4, <2>2, <3>1, Zenon DEF EnterRunInv, Holds
    <3> QED
      BY <1>1, <2>5, <3>2 DEF PhaseInv
  <2>6. CASE phase = "enter" /\ outer = "wait"
    <3>1. CASE EnterDirect
      <4>1. \/ Direct /\ Holds(One("ie"), "call", None, None, <<>>)
            \/ Direct /\ Holds(<<>>, "ie", None, None, One("call"))
        BY <1>7, <2>2, <3>1 DEF EnterDirect, Holds
      <4>2. EnterDirect'
        BY <1>1, <1>2, <1>4, <2>2, <4>1, Zenon DEF EnterDirect, Holds
      <4> QED
        BY <1>1, <2>6, <4>2, Zenon DEF PhaseInv
    <3>2. CASE EnterBehind
      <4>1. /\ pendingInterrupts = 1 /\ Interrupted = None /\ pendingSavedReply = None
            /\ Holds(<<>>, "call", None, None, <<>>)
        BY <1>7, <3>2 DEF EnterBehind, Holds
      <4>2. EnterBehind'
        BY <1>1, <1>2, <1>4, <4>1 DEF EnterBehind, Holds
      <4> QED
        BY <1>1, <2>6, <4>2 DEF PhaseInv
    <3>3. CASE EnterOver
      <4>1. /\ pendingInterrupts = 0 /\ Holds(<<>>, "ie", None, None, <<>>)
            /\ \/ Interrupted = "call" /\ pendingSavedReply = None
               \/ Interrupted = None /\ pendingSavedReply = "call"
        BY <1>7, <3>3 DEF EnterOver, Holds
      <4>2. EnterOver'
        BY <1>1, <1>2, <1>4, <4>1 DEF EnterOver, Holds
      <4> QED
        BY <1>1, <2>6, <4>2 DEF PhaseInv
    <3> QED
      BY <2>1, <2>6, <3>1, <3>2, <3>3, Zenon DEF PhaseInv
  <2>7. CASE phase = "push"
    <3>1. Direct /\ Holds(One("push"), "ie", None, None, <<>>)
      BY <1>7, <2>1, <2>7 DEF PhaseInv, PushInv, Holds, Direct
    <3>2. PushInv'
      BY <1>1, <1>2, <1>4, <3>1, Zenon DEF PushInv, Holds, Direct
    <3> QED
      BY <1>1, <2>7, <3>2, Zenon DEF PhaseInv
  <2>8. CASE phase = "hcall"
    <3>1. Direct /\ Nested /\ Holds(<<>>, "hcall", None, Kept, <<>>)
      BY <1>7, <2>1, <2>8 DEF PhaseInv, HandlerCallInv, Holds, Handling
    <3>2. HandlerCallInv'
      BY <1>1, <1>2, <1>4, <2>2, <3>1 DEF HandlerCallInv, Holds
    <3> QED
      BY <1>1, <2>8, <3>2 DEF PhaseInv
  <2>9. CASE phase = "exit"
    <3>1. Direct /\ Nested /\ Holds(<<>>, "ix", None, Kept, <<>>)
      BY <1>7, <2>1, <2>9 DEF PhaseInv, ExitInv, Holds, Handling
    <3>2. ExitInv'
      BY <1>1, <1>2, <1>4, <2>2, <3>1 DEF ExitInv, Holds
    <3> QED
      BY <1>1, <2>9, <3>2 DEF PhaseInv
  <2> QED
    BY <2>1, <2>3, <2>4, <2>5, <2>6, <2>7, <2>8, <2>9, Zenon DEF PhaseInv, TypeOK
<1>13. DeferInv => DeferInv'
  BY <1>1, <1>2, <1>4 DEF DeferInv
<1> QED
  BY <1>1, <1>9, <1>10, <1>11, <1>12, <1>13, Assemble

\* A call registers a wait, suspends, or has returned: nobody outside can tell.
LEMMA SuspendProtocol ==
  ASSUME TypeOK, OneRunner, ProtocolInv, NEW w \in Workers, Microthread(w),
         AssertWait(w) \/ SuspendUnlocked(w) \/ SuspendLocked(w) \/ ReturnToTop(w)
  PROVE  ProtocolInv'
<1>1. /\ crashed' = "no" /\ Stage = "micro" /\ Serving
      /\ StackInv /\ ServeInv /\ PendingInv /\ ~suspended /\ stack
      /\ (dead => phase = "gone") /\ phase # "failed" /\ (~dead => PhaseInv /\ DeferInv)
      /\ UNCHANGED <<stack, deferReplyForS2C, dead, phase, outer, pushing, requests>>
  BY MicroFacts
<1>2. UNCHANGED <<pendingCall, activeCall, pendingInterrupts, interrupts, pendingSavedReply,
                  interruptedContinuation, interruptedForSignal, handlingInterruptedCall,
                  pendingCallOverride, deferredReply, replies, ctl>>
  BY Zenon DEF AssertWait, SuspendUnlocked, SuspendLocked, ReturnToTop
<1>3. Nested' = Nested /\ Interrupted' = Interrupted /\ Saved' = Saved
  BY <1>2 DEF Nested, Interrupted, Saved
<1>4. Plain' = Plain
  BY <1>2 DEF Plain
<1>5. Settled' = Settled
  BY <1>2, <1>3, <1>4 DEF Settled
<1>6. /\ ctl \in {"call", "icall", "replied"}
      /\ \/ ctl # "replied" /\ Serving' /\ StackInv'
         \/ ctl = "replied" /\ ~Serving' /\ StackInv'
  <2>1. ~continuation
    BY <1>1 DEF StackInv
  <2>2. CASE AssertWait(w)
    <3>1. UNCHANGED <<suspended, continuation, pc>> /\ ctl \in {"call", "icall"}
      BY <2>2 DEF AssertWait
    <3>2. Stage' = "micro"
      BY <3>1, MicroFacts, Zenon
    <3> QED
      BY <1>1, <1>2, <2>1, <3>1, <3>2 DEF StackInv, Serving
  <2>3. CASE SuspendUnlocked(w) \/ SuspendLocked(w)
    <3>1. /\ ctl \in {"call", "icall"} /\ suspended' = TRUE /\ pc' = [pc EXCEPT ![w] = "top"]
          /\ continuation' \in BOOLEAN /\ (continuation' => ctl = "call")
      <4>1. CASE SuspendUnlocked(w)
        BY <4>1, Zenon DEF SuspendUnlocked
      <4>2. CASE SuspendLocked(w)
        BY <2>1, <4>2 DEF SuspendLocked, TypeOK
      <4> QED
        BY <2>3, <4>1, <4>2, Zenon
    <3>2. Stage' = "top"
      BY <3>1, MicroFacts, Zenon
    <3> QED
      BY <1>1, <1>2, <3>1, <3>2 DEF StackInv, Serving
  <2>4. CASE ReturnToTop(w)
    <3>1. ctl = "replied" /\ pc' = [pc EXCEPT ![w] = "top"] /\ UNCHANGED <<suspended, continuation>>
      BY <2>4 DEF ReturnToTop
    <3>2. Stage' = "top"
      BY <3>1, MicroFacts, ZenonT(30)
    <3> QED
      BY <1>1, <1>2, <2>1, <3>1, <3>2, Zenon DEF StackInv, Serving
  <2> QED
    BY <2>2, <2>3, <2>4
<1>7. ServeInv'
  BY <1>1, <1>2, <1>3, <1>4, <1>5, <1>6, Zenon DEF ServeInv
<1>8. PendingInv'
  BY <1>1, <1>2, <1>3, <1>6, Zenon DEF PendingInv
<1>9. Direct' = Direct /\ Leaving' = Leaving /\ Handling' = Handling /\ Fresh' = Fresh
  BY <1>1, <1>2, <1>3, <1>6, Zenon DEF Direct, Leaving, Handling, Fresh
<1>10. PhaseInv => PhaseInv'
  BY <1>1, <1>2, <1>3, <1>9, PhaseSame, Zenon
<1>11. DeferInv => DeferInv'
  BY <1>1, <1>2, <1>3 DEF DeferInv
<1> QED
  BY <1>1, <1>6, <1>7, <1>8, <1>10, <1>11, Assemble

\* The reply of an ordinary call goes to the client, or is deferred; the client
\* waits for it, or has been interrupted meanwhile and will push it back.
LEMMA ReplyProtocol ==
  ASSUME TypeOK, OneRunner, ProtocolInv, NEW w \in Workers, Microthread(w), Reply(w)
  PROVE  ProtocolInv'
<1>1. /\ crashed' = "no" /\ Stage = "micro" /\ Serving
      /\ StackInv /\ ServeInv /\ PendingInv /\ ~suspended /\ stack
      /\ (dead => phase = "gone") /\ phase # "failed" /\ (~dead => PhaseInv /\ DeferInv)
      /\ UNCHANGED <<stack, deferReplyForS2C, dead, phase, outer, pushing, requests>>
  BY MicroFacts
<1>2. /\ ctl = "call" /\ ctl' = "replied" /\ activeCall \in Ordinary /\ activeCall' = None
      /\ deferredReply' = IF deferReplyForS2C THEN activeCall ELSE deferredReply
      /\ replies' = IF deferReplyForS2C \/ dead THEN replies ELSE Append(replies, activeCall)
      /\ UNCHANGED <<pendingCall, pendingInterrupts, suspended, continuation, interrupts,
                     pendingSavedReply, interruptedContinuation, interruptedForSignal,
                     handlingInterruptedCall, pendingCallOverride, pc>>
  BY DEF Reply, PushCallReply
<1>3. Stage' = "micro"
  BY <1>2, MicroFacts
<1>4. Nested' = Nested /\ Interrupted' = Interrupted /\ Saved' = Saved
  BY <1>2 DEF Nested, Interrupted, Saved
<1>5. Serving' /\ Plain' = Plain
  BY <1>2, <1>3, Zenon DEF Serving, Plain
<1>6. Settled' /\ Settled /\ (activeCall = "call" <=> ~Nested) /\ Len(interrupts') <= 1
  BY <1>1, <1>2, <1>4, <1>5 DEF Settled, ServeInv
<1>7. StackInv'
  BY <1>1, <1>2, <1>3, Zenon DEF StackInv
<1>8. ServeInv'
  BY <1>2, <1>5, <1>6, Zenon DEF ServeInv
<1>9. PendingInv'
  BY <1>1, <1>2, <1>3, <1>4 DEF PendingInv
<1>10. ASSUME ~dead PROVE PhaseInv' /\ DeferInv'
  <2>1. PhaseInv /\ DeferInv
    BY <1>1, <1>10
  <2>2. Direct' = Direct /\ Kept' = Kept /\ (Nested => Handling')
    BY <1>1, <1>2, <1>4 DEF Direct, Handling, Kept
  <2>3. CASE phase \in {"run", "handler", "push", "exit"} \/ (phase = "enter" /\ outer = "run")
    BY <1>2, <2>1, <2>3, Zenon
       DEF PhaseInv, RunInv, EnterRunInv, HandlerInv, PushInv, ExitInv, Holds
  <2>4. CASE phase = "wait"
    <3>1. Direct /\ deferredReply = None /\ Holds(<<>>, None, "call", None, <<>>)
      BY <1>2, <2>1, <2>4 DEF PhaseInv, WaitInv, Holds
    <3>2. ~Nested' /\ activeCall = "call"
      BY <1>4, <1>6, <3>1 DEF Holds
    <3>3. CASE deferReplyForS2C
      <4>1. WaitInv'
        BY <1>1, <1>2, <1>4, <2>2, <3>1, <3>2, <3>3, Zenon DEF WaitInv, Holds
      <4>2. DeferInv'
        BY <1>1, <1>4, <2>1, <2>4, <3>3, Zenon DEF DeferInv
      <4> QED
        BY <1>1, <2>4, <4>1, <4>2, Zenon DEF PhaseInv
    <3>4. CASE ~deferReplyForS2C
      <4>1. replies' = One("call") /\ deferredReply' = None
        BY <1>2, <1>10, <3>1, <3>2, <3>4, SocketFacts, Zenon DEF Holds
      <4>2. WaitInv'
        BY <1>1, <1>2, <1>4, <2>2, <3>1, <3>2, <4>1, Zenon DEF WaitInv, Holds
      <4>3. DeferInv'
        BY <1>1, <1>4, <2>1, <2>4, <4>1, Zenon DEF DeferInv
      <4> QED
        BY <1>1, <2>4, <4>2, <4>3 DEF PhaseInv
    <3> QED
      BY <3>3, <3>4
  <2>5. ASSUME phase \in {"enter", "hcall"}
        PROVE  deferredReply' = None /\ replies' = Append(replies, activeCall) /\ DeferInv'
    <3>1. ~deferReplyForS2C /\ deferredReply = None
      BY <2>1, <2>5, Zenon DEF DeferInv
    <3> QED
      BY <1>1, <1>2, <1>4, <1>10, <2>1, <2>5, <3>1 DEF DeferInv
  <2>6. CASE phase = "enter" /\ outer = "wait"
    <3>1. \/ Direct /\ Holds(One("ie"), None, "call", None, <<>>)
          \/ Direct /\ Holds(<<>>, "ie", "call", None, <<>>)
          \/ /\ pendingInterrupts = 1 /\ Interrupted = None /\ pendingSavedReply = None
             /\ Holds(<<>>, None, "call", None, <<>>)
      BY <1>2, <2>1, <2>6, Zenon DEF PhaseInv, EnterDirect, EnterBehind, EnterOver, Holds
    <3>2. ~Nested' /\ replies' = One("call")
      BY <1>4, <1>6, <2>5, <2>6, <3>1, SocketFacts, Zenon DEF Holds
    <3>3. EnterDirect' \/ EnterBehind'
      BY <1>1, <1>2, <1>4, <2>2, <3>1, <3>2, Zenon DEF EnterDirect, EnterBehind, Holds, Fresh
    <3> QED
      BY <1>1, <2>5, <2>6, <3>3, Zenon DEF PhaseInv
  <2>7. CASE phase = "hcall"
    <3>1. Direct /\ Handling /\ Holds(<<>>, None, "hcall", Kept, <<>>)
      BY <1>2, <2>1, <2>7 DEF PhaseInv, HandlerCallInv, Holds
    <3>2. replies' = One("hcall")
      BY <2>5, <2>7, <3>1, SocketFacts, Zenon DEF Holds
    <3>3. HandlerCallInv'
      BY <1>1, <1>2, <1>4, <2>2, <3>1, <3>2, Zenon DEF HandlerCallInv, Holds, Handling
    <3> QED
      BY <1>1, <2>5, <2>7, <3>3, Zenon DEF PhaseInv
  <2> QED
    BY <2>1, <2>3, <2>4, <2>6, <2>7, Zenon DEF PhaseInv, TypeOK
<1> QED
  BY <1>1, <1>7, <1>8, <1>9, <1>10, Assemble, Zenon

\* The top interrupt is the only one.
LEMMA TopFacts ==
  ASSUME TypeOK, ServeInv, Nested
  PROVE  Top \in InterruptType /\ Top.call = Interrupted /\ Top.saved = Saved
<1>1. interrupts \in Seq(InterruptType) /\ Len(interrupts) <= 1 /\ interrupts # <<>>
  BY DEF ServeInv, TypeOK, InterruptType, Nested
<1> QED
  BY <1>1, FrameFacts, TopType, Zenon DEF Top, Depth, Interrupted, Saved

\* A step that rewrites the top interrupt.
LEMMA FrameUpdate ==
  ASSUME TypeOK, ServeInv, Nested, NEW r \in InterruptType,
         interrupts' = [interrupts EXCEPT ![Depth] = r]
  PROVE  Nested' /\ Len(interrupts') <= 1 /\ Interrupted' = r.call /\ Saved' = r.saved
<1>1. interrupts \in Seq(InterruptType) /\ Len(interrupts) <= 1 /\ interrupts # <<>>
  BY DEF ServeInv, TypeOK, InterruptType, Nested
<1>2. interrupts' = [interrupts EXCEPT ![Len(interrupts)] = r]
  BY DEF Depth
<1>3. /\ interrupts' # <<>> /\ Len(interrupts') <= 1
      /\ CallOf(interrupts') = r.call /\ SavedOf(interrupts') = r.saved
  BY <1>1, <1>2, FrameSet, Zenon
<1> QED
  BY <1>3, Zenon DEF Nested, Interrupted, Saved

\* Where the client is, and where its call is, while interrupt_enter is processed.
Entering ==
  \/ phase = "enter" /\ outer = "run" /\ Direct /\ Holds(<<>>, None, "ie", None, <<>>)
  \/ /\ phase = "enter" /\ outer = "wait" /\ Direct
     /\ Holds(<<>>, None, "ie", "call", <<>>) \/ Holds(<<>>, None, "ie", None, One("call"))
  \/ /\ phase = "enter" /\ outer = "wait" /\ pendingInterrupts = 0
     /\ Interrupted = "call" /\ pendingSavedReply = None
     /\ Holds(<<>>, None, "ie", None, <<>>)
  \/ /\ phase = "enter" /\ outer = "wait" /\ pendingInterrupts = 0
     /\ Interrupted = None /\ pendingSavedReply = "call"
     /\ Holds(<<>>, None, "ie", None, <<>>)
  \/ phase = "push" /\ Direct /\ Holds(One("push"), None, "ie", None, <<>>)

\* Nothing but these places is consistent with an active interrupt_enter.
LEMMA EnteringStarts ==
  ASSUME TypeOK, PhaseInv, activeCall = "ie"
  PROVE  Entering
<1>1. phase \notin {"run", "wait", "handler", "hcall", "exit"}
  BY Zenon DEF PhaseInv, RunInv, WaitInv, HandlerInv, HandlerCallInv, ExitInv, Holds
<1>2. CASE phase = "enter" /\ outer = "run"
  BY <1>2 DEF PhaseInv, EnterRunInv, Holds, Entering
<1>3. CASE phase = "enter" /\ outer = "wait"
  <2>1. EnterDirect \/ EnterBehind \/ EnterOver
    BY <1>3 DEF PhaseInv
  <2>2. ~EnterBehind
    BY Zenon DEF EnterBehind, Holds
  <2>3. CASE EnterDirect
    BY <1>3, <2>3 DEF EnterDirect, Holds, Entering
  <2>4. CASE EnterOver
    BY <1>3, <2>4, Zenon DEF EnterOver, Holds, Entering
  <2> QED
    BY <2>1, <2>2, <2>3, <2>4
<1>4. CASE phase = "push"
  BY <1>4 DEF PhaseInv, PushInv, Holds, Entering, Direct
<1> QED
  BY <1>1, <1>2, <1>3, <1>4, Zenon DEF PhaseInv, TypeOK

\* Each of these places is one the protocol allows.
LEMMA EnteringStays ==
  ASSUME Entering'
  PROVE  PhaseInv'
<1>1. CASE (phase = "enter" /\ outer = "run")'
  BY <1>1 DEF PhaseInv, EnterRunInv, Entering
<1>2. CASE (phase = "enter" /\ outer = "wait")'
  <2>1. EnterDirect' \/ EnterOver'
    BY <1>2 DEF EnterDirect, EnterOver, Entering
  <2> QED
    BY <1>2, <2>1, Zenon DEF PhaseInv
<1>3. CASE phase' = "push"
  <2>1. PushInv'
    BY <1>3 DEF PushInv, Entering, Direct
  <2> QED
    BY <1>3, <2>1, Zenon DEF PhaseInv
<1> QED
  BY <1>1, <1>2, <1>3, Zenon DEF Entering

\* A step of interrupt_enter before its reply.
LEMMA EnterStep ==
  ASSUME TypeOK, OneRunner, ProtocolInv, NEW w \in Workers, Microthread(w),
         UNCHANGED <<callVars, suspended, continuation, deferredReply, pc, replies>>,
         activeCall = "ie", pendingCall = None, Nested, Nested', pendingSavedReply' = None,
         ctl' \in {"enter2", "icall", "enter3", "enter4"}, ServeInv', Entering => Entering'
  PROVE  ProtocolInv'
<1>1. /\ crashed' = "no" /\ Stage = "micro" /\ Serving
      /\ StackInv /\ ServeInv /\ PendingInv /\ ~suspended /\ stack
      /\ (dead => phase = "gone") /\ phase # "failed" /\ (~dead => PhaseInv /\ DeferInv)
      /\ UNCHANGED <<stack, deferReplyForS2C, dead, phase, outer, pushing, requests>>
  BY MicroFacts
<1>2. Stage' = "micro"
  BY MicroFacts
<1>3. StackInv'
  BY <1>1, <1>2 DEF StackInv
<1>4. PendingInv'
  BY DEF PendingInv
<1>5. ASSUME ~dead PROVE PhaseInv' /\ DeferInv'
  <2>1. PhaseInv'
    BY <1>1, <1>5, EnteringStarts, EnteringStays, Zenon
  <2>2. DeferInv'
    BY <1>1, <1>5 DEF DeferInv
  <2> QED
    BY <2>1, <2>2
<1> QED
  BY <1>1, <1>3, <1>4, <1>5, Assemble, Zenon

\* A reply that was pushed back goes into the interrupt.
LEMMA Enter1Protocol ==
  ASSUME TypeOK, OneRunner, ProtocolInv, NEW w \in Workers, Microthread(w), InterruptEnter1(w)
  PROVE  ProtocolInv'
<1>1. Stage = "micro" /\ Serving /\ ServeInv /\ PendingInv /\ ~suspended
  BY MicroFacts
<1>2. /\ ctl = "enter1" /\ ctl' = "enter2" /\ pendingSavedReply' = None
      /\ pendingSavedReply = None \/ Top.saved = None
      /\ interruptedForSignal' = TRUE
      /\ UNCHANGED <<callVars, suspended, continuation, interruptedContinuation,
                     handlingInterruptedCall, pendingCallOverride, deferredReply, pc, replies>>
  BY DEF InterruptEnter1
<1>3. /\ activeCall = "ie" /\ Nested /\ pendingCall = None /\ Plain
      /\ Interrupted \in {None, "call"} /\ (interruptedContinuation => Interrupted = "call")
      /\ (Interrupted = "call" => Saved = None /\ pendingSavedReply = None)
      /\ (pendingSavedReply # None => Saved = None)
  BY <1>1, <1>2 DEF ServeInv
<1>4. /\ Nested' /\ Len(interrupts') <= 1 /\ Interrupted' = Interrupted
      /\ Saved' = IF pendingSavedReply = None THEN Saved ELSE pendingSavedReply
  <2>1. CASE pendingSavedReply = None
    <3>1. interrupts' = interrupts
      BY <2>1 DEF InterruptEnter1
    <3> QED
      BY <1>1, <1>3, <2>1, <3>1 DEF Nested, Interrupted, Saved, ServeInv
  <2>2. CASE pendingSavedReply # None
    <3>1. interrupts' = [interrupts EXCEPT ![Depth].saved = pendingSavedReply]
      BY <2>2 DEF InterruptEnter1
    <3>2. Top \in InterruptType /\ Top.call = Interrupted
      BY <1>1, <1>3, TopFacts
    <3> DEFINE r == [Top EXCEPT !.saved = pendingSavedReply]
    <3>3. r \in InterruptType /\ r.call = Interrupted /\ r.saved = pendingSavedReply
      BY <3>2, Zenon DEF InterruptType, TypeOK
    <3>4. interrupts' = [interrupts EXCEPT ![Depth] = r]
      BY <3>1 DEF Top
    <3> HIDE DEF r
    <3> QED
      BY <1>1, <1>3, <2>2, <3>3, <3>4, FrameUpdate, Zenon
  <2> QED
    BY <2>1, <2>2, Zenon
<1>5. Stage' = "micro"
  BY <1>2, MicroFacts, Zenon
<1>6. ServeInv'
  BY <1>1, <1>2, <1>3, <1>4, <1>5, Zenon DEF ServeInv, Serving, Plain
<1>7. ASSUME Entering PROVE Entering'
  <2>1. UNCHANGED <<phase, outer, requests>>
    BY MicroFacts
  <2> QED
    BY <1>2, <1>4, <1>7, <2>1 DEF Entering, Direct, Holds
<1> QED
  BY <1>2, <1>3, <1>4, <1>6, <1>7, EnterStep

\* The interrupted call is resumed, if there is one, to end with its reply saved.
LEMMA Enter2Protocol ==
  ASSUME TypeOK, OneRunner, ProtocolInv, NEW w \in Workers, Microthread(w), InterruptEnter2(w)
  PROVE  ProtocolInv'
<1>1. Stage = "micro" /\ Serving /\ ServeInv /\ PendingInv /\ ~suspended
  BY MicroFacts
<1>2. /\ ctl = "enter2"
      /\ interruptedContinuation' = FALSE
      /\ UNCHANGED <<callVars, suspended, continuation, interrupts, pendingSavedReply,
                     interruptedForSignal, deferredReply, pc, replies>>
  BY DEF InterruptEnter2
<1>3. /\ activeCall = "ie" /\ Nested /\ pendingCall = None /\ interruptedForSignal
      /\ Interrupted \in {None, "call"} /\ (interruptedContinuation => Interrupted = "call")
      /\ (Interrupted = "call" => Saved = None /\ pendingSavedReply = None)
      /\ pendingSavedReply = None /\ Len(interrupts) <= 1
  BY <1>1, <1>2 DEF ServeInv
<1>4. Nested' = Nested /\ Interrupted' = Interrupted /\ Saved' = Saved
  BY <1>2 DEF Nested, Interrupted, Saved
<1>5. ctl' = IF Interrupted = "call" THEN "icall" ELSE "enter3"
  <2>1. Top.call = Interrupted
    BY <1>1, <1>3, TopFacts
  <2> QED
    BY <1>3, <2>1 DEF InterruptEnter2
<1>6. Stage' = "micro"
  BY <1>2, MicroFacts
<1>7. ServeInv'
  BY <1>1, <1>2, <1>3, <1>4, <1>5, <1>6, ZenonT(30) DEF ServeInv, Serving, Plain
<1>8. ASSUME Entering PROVE Entering'
  <2>1. UNCHANGED <<phase, outer, requests>>
    BY MicroFacts
  <2> QED
    BY <1>2, <1>4, <1>8, <2>1 DEF Entering, Direct, Holds
<1> QED
  BY <1>2, <1>3, <1>4, <1>5, <1>7, <1>8, EnterStep

\* The reply of the interrupted call is saved in the interrupt.
LEMMA ReplyInterruptedProtocol ==
  ASSUME TypeOK, OneRunner, ProtocolInv, NEW w \in Workers, Microthread(w), ReplyInterrupted(w)
  PROVE  ProtocolInv'
<1>1. Stage = "micro" /\ Serving /\ ServeInv /\ PendingInv /\ ~suspended
  BY MicroFacts
<1>2. /\ ctl = "icall" /\ ctl' = "enter3"
      /\ interrupts' = [interrupts EXCEPT ![Depth].call = None, ![Depth].saved = Top.call]
      /\ UNCHANGED <<callVars, suspended, continuation, pendingSavedReply,
                     interruptedContinuation, interruptedForSignal, handlingInterruptedCall,
                     pendingCallOverride, deferredReply, pc, replies>>
  BY DEF ReplyInterrupted
<1>3. /\ activeCall = "ie" /\ Nested /\ pendingCall = None /\ interruptedForSignal
      /\ Interrupted = "call" /\ Saved = None /\ pendingSavedReply = None
      /\ ~interruptedContinuation
  BY <1>1, <1>2 DEF ServeInv
<1>4. Nested' /\ Len(interrupts') <= 1 /\ Interrupted' = None /\ Saved' = "call"
  <2>1. Top \in InterruptType /\ Top.call = "call"
    BY <1>1, <1>3, TopFacts
  <2> DEFINE r == [Top EXCEPT !.call = None, !.saved = "call"]
  <2>2. r \in InterruptType /\ r.call = None /\ r.saved = "call"
    BY <2>1, Zenon DEF InterruptType
  <2>3. interrupts' = [interrupts EXCEPT ![Depth] = r]
    <3>1. interrupts \in Seq(InterruptType) /\ Depth \in DOMAIN interrupts
      <4>1. interrupts \in Seq(InterruptType) /\ interrupts # <<>>
        BY <1>3 DEF TypeOK, InterruptType, Nested
      <4> QED
        BY <4>1 DEF Depth
    <3> QED
      BY <1>2, <2>1, <3>1, Zenon DEF Top
  <2> HIDE DEF r
  <2> QED
    BY <1>1, <1>3, <2>2, <2>3, FrameUpdate, Zenon
<1>5. Stage' = "micro"
  BY <1>2, MicroFacts
<1>6. ServeInv'
  BY <1>1, <1>2, <1>3, <1>4, <1>5 DEF ServeInv, Serving, Plain
<1>7. ASSUME Entering PROVE Entering'
  <2>1. UNCHANGED <<phase, outer, requests>>
    BY MicroFacts
  <2> QED
    BY <1>2, <1>3, <1>4, <1>7, <2>1 DEF Entering, Direct, Holds
<1> QED
  BY <1>2, <1>3, <1>4, <1>6, <1>7, EnterStep

\* The interrupted call is over: its flags are reset.
LEMMA Enter3Protocol ==
  ASSUME TypeOK, OneRunner, ProtocolInv, NEW w \in Workers, Microthread(w), InterruptEnter3(w)
  PROVE  ProtocolInv'
<1>1. Stage = "micro" /\ Serving /\ ServeInv /\ PendingInv /\ ~suspended
  BY MicroFacts
<1>2. /\ ctl = "enter3" /\ ctl' = "enter4"
      /\ ~handlingInterruptedCall' /\ ~pendingCallOverride' /\ ~interruptedForSignal'
      /\ interrupts' = [interrupts EXCEPT ![Depth].call = None, ![Depth].stack = FALSE]
      /\ UNCHANGED <<callVars, suspended, continuation, pendingSavedReply,
                     interruptedContinuation, deferredReply, pc, replies>>
  BY DEF InterruptEnter3
<1>3. /\ activeCall = "ie" /\ Nested /\ pendingCall = None
      /\ Interrupted = None /\ pendingSavedReply = None /\ ~interruptedContinuation
  BY <1>1, <1>2 DEF ServeInv
<1>4. Nested' /\ Len(interrupts') <= 1 /\ Interrupted' = None /\ Saved' = Saved
  <2>1. Top \in InterruptType /\ Top.saved = Saved
    BY <1>1, <1>3, TopFacts
  <2> DEFINE r == [Top EXCEPT !.call = None, !.stack = FALSE]
  <2>2. r \in InterruptType /\ r.call = None /\ r.saved = Saved
    BY <2>1, Zenon DEF InterruptType
  <2>3. interrupts' = [interrupts EXCEPT ![Depth] = r]
    <3>1. interrupts \in Seq(InterruptType) /\ Depth \in DOMAIN interrupts
      <4>1. interrupts \in Seq(InterruptType) /\ interrupts # <<>>
        BY <1>3 DEF TypeOK, InterruptType, Nested
      <4> QED
        BY <4>1 DEF Depth
    <3> QED
      BY <1>2, <2>1, <3>1, Zenon DEF Top
  <2> HIDE DEF r
  <2> QED
    BY <1>1, <1>3, <2>2, <2>3, FrameUpdate, Zenon
<1>5. Stage' = "micro"
  BY <1>2, MicroFacts
<1>6. ServeInv'
  BY <1>1, <1>2, <1>3, <1>4, <1>5 DEF ServeInv, Serving, Plain
<1>7. ASSUME Entering PROVE Entering'
  <2>1. UNCHANGED <<phase, outer, requests>>
    BY MicroFacts
  <2> QED
    BY <1>2, <1>3, <1>4, <1>7, <2>1, Zenon DEF Entering, Direct, Holds
<1> QED
  BY <1>2, <1>3, <1>4, <1>6, <1>7, EnterStep

\* interrupt_enter replies; the interrupt now holds what the interrupted call owes.
LEMMA Enter4Protocol ==
  ASSUME TypeOK, OneRunner, ProtocolInv, NEW w \in Workers, Microthread(w), InterruptEnter4(w)
  PROVE  ProtocolInv'
<1>1. /\ crashed' = "no" /\ Stage = "micro" /\ Serving
      /\ StackInv /\ ServeInv /\ PendingInv /\ ~suspended /\ stack
      /\ (dead => phase = "gone") /\ phase # "failed" /\ (~dead => PhaseInv /\ DeferInv)
      /\ UNCHANGED <<stack, deferReplyForS2C, dead, phase, outer, pushing, requests>>
  BY MicroFacts
<1>2. /\ ctl = "enter4" /\ ctl' = "replied" /\ activeCall = "ie" /\ activeCall' = None
      /\ deferredReply' = IF deferReplyForS2C THEN activeCall ELSE deferredReply
      /\ replies' = IF deferReplyForS2C \/ dead THEN replies ELSE Append(replies, activeCall)
      /\ UNCHANGED <<pendingCall, pendingInterrupts, suspended, continuation, interrupts,
                     pendingSavedReply, interruptedContinuation, interruptedForSignal,
                     handlingInterruptedCall, pendingCallOverride, pc>>
  BY Zenon DEF InterruptEnter4, PushCallReply
<1>3. /\ Nested /\ pendingCall = None /\ Plain /\ ~interruptedContinuation
      /\ Interrupted = None /\ pendingSavedReply = None /\ Len(interrupts) <= 1
  BY <1>1, <1>2 DEF ServeInv
<1>4. Nested' = Nested /\ Interrupted' = Interrupted /\ Saved' = Saved
  BY <1>2 DEF Nested, Interrupted, Saved
<1>5. Stage' = "micro"
  BY <1>2, MicroFacts
<1>6. Settled' /\ Len(interrupts') <= 1
  BY <1>2, <1>3, <1>4, Zenon DEF Settled, Plain
<1>7. StackInv'
  BY <1>1, <1>2, <1>5, Zenon DEF StackInv
<1>8. ServeInv'
  BY <1>2, <1>5, <1>6, Zenon DEF ServeInv, Serving
<1>9. PendingInv'
  BY <1>2, <1>3, Zenon DEF PendingInv
<1>10. ASSUME ~dead PROVE PhaseInv' /\ DeferInv'
  <2>1. Entering /\ DeferInv
    BY <1>1, <1>2, <1>10, EnteringStarts, Zenon
  <2>2. ~deferReplyForS2C /\ deferredReply = None /\ DeferInv'
    BY <1>1, <1>2, <1>3, <1>4, <2>1, Zenon DEF DeferInv
  <2>3. replies' = Append(replies, "ie") /\ Handling' /\ Direct' = Direct
    BY <1>2, <1>3, <1>4, <1>10, <2>2, Zenon DEF Handling, Direct
  <2>4. CASE phase = "enter" /\ outer = "run"
    <3>1. Direct /\ Holds(<<>>, None, "ie", None, <<>>)
      BY <2>1, <2>4 DEF Entering
    <3>2. replies' = One("ie")
      BY <2>3, <3>1, SocketFacts, Zenon DEF Holds
    <3>3. EnterRunInv'
      BY <1>1, <1>2, <1>4, <2>3, <3>1, <3>2, Zenon DEF EnterRunInv, Holds
    <3> QED
      BY <1>1, <2>2, <2>4, <3>3, Zenon DEF PhaseInv
  <2>5. CASE phase = "enter" /\ outer = "wait"
    <3>1. /\ Direct
          /\ Holds(<<>>, None, "ie", "call", <<>>) \/ Holds(<<>>, None, "ie", None, One("call"))
      BY <1>3, <2>1, <2>5 DEF Entering
    <3>2. \/ Saved = "call" /\ replies' = One("ie")
          \/ Saved = None /\ replies' = Two("call", "ie")
      BY <2>3, <3>1, SocketFacts, Zenon DEF Holds
    <3>3. EnterDirect'
      BY <1>1, <1>2, <1>4, <2>3, <3>1, <3>2, Zenon DEF EnterDirect, Holds
    <3> QED
      BY <1>1, <2>2, <2>5, <3>3, Zenon DEF PhaseInv
  <2>6. CASE phase = "push"
    <3>1. Direct /\ Holds(One("push"), None, "ie", None, <<>>)
      BY <2>1, <2>6 DEF Entering
    <3>2. replies' = One("ie")
      BY <2>3, <3>1, SocketFacts, Zenon DEF Holds
    <3>3. PushInv'
      BY <1>1, <1>2, <1>4, <2>3, <3>1, <3>2, Zenon DEF PushInv, Holds, Direct
    <3> QED
      BY <1>1, <2>2, <2>6, <3>3 DEF PhaseInv
  <2> QED
    BY <2>1, <2>4, <2>5, <2>6, Zenon DEF Entering
<1> QED
  BY <1>1, <1>7, <1>8, <1>9, <1>10, Assemble

\* interrupt_exit replies, with the interrupt still there.
LEMMA Exit1Protocol ==
  ASSUME TypeOK, OneRunner, ProtocolInv, NEW w \in Workers, Microthread(w), InterruptExit1(w)
  PROVE  ProtocolInv'
<1>1. /\ crashed' = "no" /\ Stage = "micro" /\ Serving
      /\ StackInv /\ ServeInv /\ PendingInv /\ ~suspended /\ stack
      /\ (dead => phase = "gone") /\ phase # "failed" /\ (~dead => PhaseInv /\ DeferInv)
      /\ UNCHANGED <<stack, deferReplyForS2C, dead, phase, outer, pushing, requests>>
  BY MicroFacts
<1>2. /\ ctl = "exit1" /\ ctl' = "exit2" /\ activeCall = "ix" /\ activeCall' = None
      /\ deferredReply' = IF deferReplyForS2C THEN activeCall ELSE deferredReply
      /\ replies' = IF deferReplyForS2C \/ dead THEN replies ELSE Append(replies, activeCall)
      /\ UNCHANGED <<pendingCall, pendingInterrupts, suspended, continuation, interrupts,
                     pendingSavedReply, interruptedContinuation, interruptedForSignal,
                     handlingInterruptedCall, pendingCallOverride, pc>>
  BY Zenon DEF InterruptExit1, PushCallReply
<1>3. Nested /\ Settled /\ Len(interrupts) <= 1 /\ pendingCall = None /\ pendingSavedReply = None
  BY <1>1, <1>2, Zenon DEF ServeInv, PendingInv, TypeOK
<1>4. Nested' = Nested /\ Interrupted' = Interrupted /\ Saved' = Saved
  BY <1>2 DEF Nested, Interrupted, Saved
<1>5. Stage' = "micro"
  BY <1>2, MicroFacts
<1>6. Settled' /\ Len(interrupts') <= 1
  BY <1>2, <1>3, <1>4 DEF Settled, Plain
<1>7. StackInv'
  BY <1>1, <1>2, <1>5, Zenon DEF StackInv
<1>8. ServeInv'
  BY <1>2, <1>3, <1>4, <1>5, <1>6, Zenon DEF ServeInv, Serving
<1>9. PendingInv'
  BY <1>2, <1>3, Zenon DEF PendingInv
<1>10. ASSUME ~dead PROVE PhaseInv' /\ DeferInv'
  <2>1. PhaseInv /\ DeferInv
    BY <1>1, <1>10
  <2>2. ~deferReplyForS2C /\ deferredReply = None /\ DeferInv'
    BY <1>1, <1>2, <1>3, <1>4, <2>1 DEF DeferInv
  <2>3. phase = "exit"
    BY <1>2, <2>1, ZenonT(30)
       DEF PhaseInv, RunInv, WaitInv, EnterRunInv, EnterDirect, EnterBehind, EnterOver,
                      PushInv, HandlerInv, HandlerCallInv, Holds, TypeOK
  <2>4. Direct /\ Holds(<<>>, None, "ix", Kept, <<>>)
    BY <1>2, <2>1, <2>3, Zenon DEF PhaseInv, ExitInv, Holds
  <2>5. replies' = One("ix")
    BY <1>2, <1>10, <2>2, <2>4, SocketFacts, Zenon DEF Holds
  <2>6. Direct' /\ Kept' = Kept
    BY <1>1, <1>2, <1>4, <2>4, Zenon DEF Direct, Kept
  <2>7. ExitInv'
    BY <1>1, <1>2, <1>4, <2>4, <2>5, <2>6, Zenon DEF ExitInv, Holds
  <2> QED
    BY <1>1, <2>2, <2>3, <2>7, Zenon DEF PhaseInv
<1> QED
  BY <1>1, <1>7, <1>8, <1>9, <1>10, Assemble

\* interrupt_exit leaves the interrupt and sends the reply it saved; the client may
\* have gone on to its next call or its next signal.
LEMMA Exit2Protocol ==
  ASSUME TypeOK, OneRunner, ProtocolInv, NEW w \in Workers, Microthread(w), InterruptExit2(w)
  PROVE  ProtocolInv'
<1>1. /\ crashed' = "no" /\ Stage = "micro" /\ Serving
      /\ StackInv /\ ServeInv /\ PendingInv /\ ~suspended /\ stack
      /\ (dead => phase = "gone") /\ phase # "failed" /\ (~dead => PhaseInv /\ DeferInv)
      /\ UNCHANGED <<stack, deferReplyForS2C, dead, phase, outer, pushing, requests>>
  BY MicroFacts
<1>2. /\ ctl = "exit2" /\ ctl' = "replied"
      /\ interrupts' = SubSeq(interrupts, 1, Depth - 1)
      /\ replies' = IF Top.saved = None THEN replies ELSE Append(replies, Top.saved)
      /\ UNCHANGED <<pendingCall, activeCall, pendingInterrupts, suspended, continuation,
                     pendingSavedReply, interruptedContinuation, interruptedForSignal,
                     handlingInterruptedCall, pendingCallOverride, deferredReply, pc>>
  BY Zenon DEF InterruptExit2
<1>3. activeCall = None /\ Nested /\ Settled /\ Len(interrupts) <= 1
  BY <1>1, <1>2 DEF ServeInv
<1>4. ~Nested' /\ Interrupted' = None /\ Saved' = None /\ interrupts' = <<>>
  <2>1. interrupts \in Seq(InterruptType) /\ Len(interrupts) <= 1 /\ interrupts # <<>>
    BY <1>3, Zenon DEF TypeOK, InterruptType, Nested
  <2>2. interrupts' = <<>>
    BY <1>2, <2>1, FrameFacts, Zenon DEF Depth
  <2> QED
    BY <2>2, Zenon DEF Nested, Interrupted, Saved, CallOf, SavedOf
<1>5. replies' = IF Saved = None THEN replies ELSE Append(replies, Saved)
  BY <1>1, <1>2, <1>3, TopFacts, Zenon
<1>6. Stage' = "micro"
  BY <1>2, MicroFacts
<1>7. Settled' /\ Len(interrupts') <= 1
  <2>1. Len(interrupts') = 0
    BY <1>4
  <2>2. Settled'
    BY <1>2, <1>3, <1>4, Zenon DEF Settled, Plain
  <2> QED
    BY <2>1, <2>2
<1>8. StackInv'
  BY <1>1, <1>2, <1>6 DEF StackInv
<1>9. ServeInv'
  BY <1>2, <1>3, <1>6, <1>7, Zenon DEF ServeInv, Serving
<1>10. PendingInv'
  BY <1>1, <1>2, <1>3, <1>4 DEF PendingInv
<1>11. ASSUME ~dead PROVE PhaseInv' /\ DeferInv'
  <2>1. PhaseInv /\ DeferInv
    BY <1>1, <1>11
  <2>2. deferredReply = None /\ DeferInv'
    BY <1>1, <1>2, <1>3, <1>4, <2>1, Zenon DEF DeferInv
  <2>3. /\ ~Handling /\ ~Fresh /\ Leaving' /\ Fresh' /\ Kept' = Kept
        /\ (pendingSavedReply = None /\ pendingInterrupts = 0 => Direct')
    BY <1>1, <1>2, <1>3, <1>4 DEF Handling, Fresh, Leaving, Kept, Direct
  <2>4. CASE phase \in {"handler", "hcall", "push"}
    BY <1>3, <2>1, <2>3, <2>4, Zenon DEF PhaseInv, HandlerInv, HandlerCallInv, PushInv, Holds
  <2>5. CASE phase = "run"
    <3>1. Direct /\ Holds(<<>>, None, None, None, <<>>)
      BY <2>1, <2>5, Zenon DEF PhaseInv, RunInv
    <3>2. RunInv'
      BY <1>1, <1>2, <1>4, <1>5, <2>3, <3>1, Zenon DEF RunInv, Holds, Direct
    <3> QED
      BY <1>1, <2>2, <2>5, <3>2 DEF PhaseInv
  <2>6. CASE phase = "wait"
    <3>1. /\ Direct
          /\ \/ Holds(One("call"), None, None, None, <<>>)
             \/ Holds(<<>>, "call", None, None, <<>>)
             \/ Holds(<<>>, None, None, "call", <<>>)
      BY <1>3, <2>1, <2>2, <2>6, Zenon DEF PhaseInv, WaitInv, Holds
    <3>2. Saved = "call" /\ replies = <<>> => replies' = One("call")
      BY <1>5, SocketFacts, Zenon
    <3>3. Direct' /\ deferredReply' = None
      BY <1>2, <2>2, <2>3, <3>1, Zenon DEF Direct
    <3>4. WaitInv'
      BY <1>1, <1>2, <1>3, <1>4, <1>5, <2>3, <3>1, <3>2, <3>3, Zenon DEF WaitInv, Holds
    <3> QED
      BY <1>1, <2>2, <2>6, <3>4, Zenon DEF PhaseInv
  <2>7. CASE phase = "enter" /\ outer = "run"
    <3>1. /\ Direct
          /\ Holds(One("ie"), None, None, None, <<>>) \/ Holds(<<>>, "ie", None, None, <<>>)
      BY <1>3, <2>1, <2>3, <2>7, Zenon DEF PhaseInv, EnterRunInv, Holds
    <3>2. Direct'
      BY <2>3, <3>1, Zenon DEF Direct
    <3>3. EnterRunInv'
      BY <1>1, <1>2, <1>3, <1>4, <1>5, <2>3, <3>1, <3>2, Zenon DEF EnterRunInv, Holds
    <3> QED
      BY <1>1, <2>2, <2>7, <3>3, Zenon DEF PhaseInv
  <2>8. CASE phase = "enter" /\ outer = "wait"
    <3>1. CASE EnterDirect
      <4>1. /\ Direct
            /\ \/ Holds(Two("call", "ie"), None, None, None, <<>>)
               \/ Holds(One("ie"), "call", None, None, <<>>)
               \/ Holds(One("ie"), None, None, "call", <<>>)
               \/ Holds(<<>>, "ie", None, "call", <<>>)
        BY <1>3, <2>3, <3>1, Zenon DEF EnterDirect, Holds
      <4>2. Saved = "call" /\ replies = <<>> => replies' = One("call")
        BY <1>5, SocketFacts
      <4>3. Direct'
        BY <2>3, <4>1 DEF Direct
      <4>4. EnterDirect'
        BY <1>1, <1>2, <1>3, <1>4, <1>5, <2>3, <4>1, <4>2, <4>3, Zenon DEF EnterDirect, Holds
      <4> QED
        BY <1>1, <2>2, <2>8, <4>4, Zenon DEF PhaseInv
    <3>2. CASE EnterBehind
      <4>1. /\ pendingInterrupts = 1 /\ pendingSavedReply = None
            /\ Holds(<<>>, "call", None, None, <<>>)
        BY <1>3, <3>2, Zenon DEF EnterBehind, Holds
      <4>2. EnterBehind'
        BY <1>1, <1>2, <1>3, <1>4, <1>5, <2>3, <4>1, Zenon DEF EnterBehind, Holds
      <4> QED
        BY <1>1, <2>2, <2>8, <4>2 DEF PhaseInv
    <3>3. ~EnterOver
      BY <1>3, <2>3, Zenon DEF EnterOver, Settled, Holds
    <3> QED
      BY <2>1, <2>8, <3>1, <3>2, <3>3, Zenon DEF PhaseInv
  <2>9. CASE phase = "exit"
    <3>1. Direct /\ Holds(<<>>, None, None, Kept, One("ix"))
      BY <1>3, <2>1, <2>3, <2>9, Zenon DEF PhaseInv, ExitInv, Holds
    <3>2. Kept = "call" => replies' = Two("ix", "call")
      BY <1>5, <3>1, SocketFacts DEF Holds
    <3>3. Kept = None => replies' = One("ix")
      BY <1>5, <3>1 DEF Holds
    <3>4. Direct'
      BY <2>3, <3>1, Zenon DEF Direct
    <3>5. outer \in {"run", "wait"}
      BY DEF TypeOK
    <3>6. ExitInv'
      BY <1>1, <1>2, <1>3, <1>4, <3>1, <3>2, <3>3, <3>4, <3>5, Zenon DEF ExitInv, Holds, Kept
    <3> QED
      BY <1>1, <2>2, <2>9, <3>6, Zenon DEF PhaseInv
  <2> QED
    BY <2>1, <2>4, <2>5, <2>6, <2>7, <2>8, <2>9, Zenon DEF PhaseInv, TypeOK
<1> QED
  BY <1>1, <1>8, <1>9, <1>10, <1>11, Assemble

\* The microthread's steps.
LEMMA MicrothreadProtocol ==
  ASSUME TypeOK, OneRunner, ProtocolInv, NEW w \in Workers, Microthread(w)
  PROVE  ProtocolInv'
<1>1. CASE MakePendingCallActive(w)
  BY <1>1, ActivateProtocol
<1>2. CASE Reply(w)
  BY <1>2, ReplyProtocol
<1>3. CASE AssertWait(w) \/ SuspendUnlocked(w) \/ SuspendLocked(w) \/ ReturnToTop(w)
  BY <1>3, SuspendProtocol, Zenon
<1>4. CASE InterruptEnter1(w)
  BY <1>4, Enter1Protocol
<1>5. CASE InterruptEnter2(w)
  BY <1>5, Enter2Protocol
<1>6. CASE ReplyInterrupted(w)
  BY <1>6, ReplyInterruptedProtocol
<1>7. CASE InterruptEnter3(w)
  BY <1>7, Enter3Protocol
<1>8. CASE InterruptEnter4(w)
  BY <1>8, Enter4Protocol
<1>9. CASE InterruptExit1(w)
  BY <1>9, Exit1Protocol
<1>10. CASE InterruptExit2(w)
  BY <1>10, Exit2Protocol
<1> QED
  BY <1>1, <1>2, <1>3, <1>4, <1>5, <1>6, <1>7, <1>8, <1>9, <1>10, Zenon DEF Microthread

-----------------------------------------------------------------------------
(* The protocol: a checkout ends it *)

\* The thread has checked out: its call stays active, and nothing else is left.
GoneInv ==
  /\ crashed = "no" /\ dead /\ phase = "gone"
  /\ ctl = "replied" /\ activeCall # None /\ pendingCall = None
  /\ ~suspended /\ ~continuation

\* A checkout finds the thread in its last call.
LEMMA CheckoutGone ==
  ASSUME TypeOK, OneRunner, ProtocolInv, NEW w \in Workers, Checkout(w)
  PROVE  GoneInv'
<1>1. /\ crashed = "no" /\ pc[w] = "micro" /\ activeCall = "call" /\ pendingCall = None
      /\ UNCHANGED <<crashed, activeCall, pendingCall, suspended, continuation>>
      /\ dead' /\ phase' = "gone" /\ ctl' = "replied"
  BY Zenon DEF Checkout
<1>2. \A v \in Workers : pc[v] \in {"dispatch", "micro", "top"} => v = w
  BY <1>1, Zenon DEF OneRunner, Runs
<1>3. Stage = "micro"
  BY <1>1, <1>2, StageIs DEF Stage
<1>4. ~suspended /\ ~continuation
  BY <1>1, <1>3 DEF ProtocolInv, StackInv
<1> QED
  BY <1>1, <1>4 DEF GoneInv

\* The end of doWork leaves a thread that has checked out as it is.
LEMMA DoneWorkingGone ==
  ASSUME GoneInv, NEW w \in Workers, NEW term, NEW q, DoneWorking(w, term, q),
         UNCHANGED <<activeCall, dead, phase, ctl, suspended, continuation>>
  PROVE  GoneInv'
<1>1. pendingCall' = pendingCall /\ crashed' = crashed
  BY DEF DoneWorking, GoneInv
<1> QED
  BY <1>1, Zenon DEF GoneInv

\* A thread that has checked out stays so: no call comes, nothing is resumed, and its
\* microthread only returns.
LEMMA GoneStep ==
  ASSUME TypeOK, DeathInv, GoneInv, [Next]_vars
  PROVE  GoneInv'
<1> DEFINE view == <<crashed, dead, phase, ctl, activeCall, pendingCall, suspended, continuation>>
<1>0. ASSUME UNCHANGED view PROVE GoneInv'
  BY <1>0, Zenon DEF GoneInv
<1>1. ~Client /\ ~Receive /\ ~NotifyDead
  <2>1. ~Client
    BY DEF GoneInv, Client, SendCall, Signal, Handler, ClientReceive, Awaited
  <2>2. ~Receive /\ ~NotifyDead
    BY Zenon DEF GoneInv, DeathInv, Receive, NotifyDead
  <2> QED
    BY <2>1, <2>2
<1>2. CASE Wake \/ FinishNotifyDead \/ Release \/ S2C \/ UNCHANGED vars
  <2>1. UNCHANGED view
    BY <1>2, Zenon DEF Wake, FinishNotifyDead, Release, S2C, vars
  <2> QED
    BY <1>0, <2>1, Zenon
<1>3. ASSUME NEW i \in Impersonators, Impersonate(i) PROVE GoneInv'
  BY <1>0, <1>3, Zenon DEF Impersonate
<1>4. ASSUME NEW w \in Workers, DoWork(w) PROVE GoneInv'
  <2>1. UNCHANGED <<dead, phase, ctl, suspended, continuation>>
    BY <1>4, Zenon DEF DoWork
  <2>2. CASE DoWorkTerminated(w)
    BY <2>1, <2>2, DoneWorkingGone, Zenon DEF DoWorkTerminated
  <2>3. CASE DoWorkDeferred(w) \/ DoWorkRunning(w) \/ DoWorkStart(w)
    BY <1>0, <2>1, <2>3, Zenon DEF DoWorkDeferred, DoWorkRunning, DoWorkStart
  <2> QED
    BY <1>4, <2>2, <2>3, Zenon DEF DoWork
<1>5. ASSUME NEW w \in Workers, Dispatch(w) PROVE GoneInv'
  <2>1. NothingToDo(w) /\ UNCHANGED <<dead, phase>>
    BY <1>5, Zenon DEF Dispatch, StartInterrupt, ResumeMicrothread, StartCall, DispatchInterrupt,
                       DispatchResume, GoneInv
  <2> QED
    BY <2>1, DoneWorkingGone, Zenon DEF NothingToDo
<1>6. ASSUME NEW w \in Workers, BackToTop(w) PROVE GoneInv'
  BY <1>6, DoneWorkingGone, Zenon DEF BackToTop
<1>7. ASSUME NEW w \in Workers, FinishDoWork(w) PROVE GoneInv'
  BY <1>0, <1>7, Zenon DEF FinishDoWork
<1>8. ASSUME NEW w \in Workers, Microthread(w) PROVE GoneInv'
  <2>1. ReturnToTop(w)
    BY <1>8, Zenon DEF GoneInv, Microthread, MakePendingCallActive, Reply, AssertWait,
       SuspendUnlocked, SuspendLocked, InterruptEnter1, InterruptEnter2, ReplyInterrupted,
       InterruptEnter3, InterruptEnter4, InterruptExit1, InterruptExit2
  <2> QED
    BY <1>0, <1>8, <2>1, Zenon DEF Microthread, ReturnToTop
<1>9. ASSUME NEW w \in Workers PROVE ~Checkout(w) /\ ~SuspendTwice(w)
  BY Zenon DEF GoneInv, Checkout, SuspendTwice
<1> QED
  BY <1>1, <1>2, <1>3, <1>4, <1>5, <1>6, <1>7, <1>8, <1>9, Zenon DEF Next, Quiet

\* The second insertion into a queue ends the server, as a throw does.
LEMMA SuspendTwiceProtocol ==
  ASSUME ProtocolInv, NEW w \in Workers, SuspendTwice(w)
  PROVE  ProtocolInv'
<1>1. crashed = "no" /\ crashed' = "queue" /\ UNCHANGED <<dead, phase>>
  BY Zenon DEF SuspendTwice, Throw
<1>2. UNCHANGED serverView
  BY Zenon DEF SuspendTwice, Throw, serverView, Stage
<1>3. StackInv' /\ ServeInv' /\ PendingInv'
  BY <1>1, <1>2, ServerKept DEF ProtocolInv
<1> QED
  BY <1>1, <1>3 DEF ProtocolInv

-----------------------------------------------------------------------------
(* The protocol: what follows from it *)

\* The client and its thread keep to the protocol until the thread checks out.
WholeInv == ProtocolInv \/ GoneInv

\* Initially there is no call.
LEMMA ProtocolInit == Init => ProtocolInv
<1> SUFFICES ASSUME Init PROVE ProtocolInv OBVIOUS
<1>1. Stage = "rest"
  <2>1. \A v \in Workers : pc[v] \notin {"dispatch", "micro", "top"}
    BY DEF Init
  <2> QED
    BY <2>1, StageRest DEF Stage
<1>2. interrupts = <<>> /\ ~Nested /\ Interrupted = None /\ Saved = None
  BY DEF Init, Nested, Interrupted, Saved, CallOf, SavedOf
<1>3. Len(interrupts) = 0
  BY <1>2
<1>4. StackInv
  BY <1>1, Zenon DEF Init, StackInv
<1>5. ServeInv
  <2>1. ~Serving /\ activeCall = None /\ ctl # "exit2" /\ Settled
    BY <1>1, <1>2 DEF Init, Serving, Settled, Plain
  <2> QED
    BY <1>3, <2>1 DEF ServeInv
<1>6. PendingInv
  BY <1>2 DEF Init, PendingInv
<1>7. RunInv
  BY <1>2 DEF Init, RunInv, Direct, Leaving, Holds
<1>8. PhaseInv
  BY <1>7 DEF Init, PhaseInv
<1>9. DeferInv
  BY <1>2 DEF Init, DeferInv
<1> QED
  BY <1>1, <1>4, <1>5, <1>6, <1>8, <1>9 DEF Init, ProtocolInv

\* Signals or S2C calls, but not both, keep the protocol.
LEMMA ProtocolStep ==
  ASSUME MaxSignals = 0 \/ MaxS2C = 0, TypeOK, OneRunner, DeathInv, WholeInv, [Next]_vars
  PROVE  WholeInv'
<1>0. CASE GoneInv
  BY <1>0, GoneStep DEF WholeInv
<1> SUFFICES ASSUME ProtocolInv PROVE ProtocolInv' \/ GoneInv'
  BY <1>0, Zenon DEF WholeInv
<1>1. CASE Client
  BY <1>1, ClientProtocol
<1>2. CASE Receive
  BY <1>2, ReceiveProtocol
<1>3. CASE Wake \/ NotifyDead \/ FinishNotifyDead \/ Release
           \/ \E i \in Impersonators : Impersonate(i)
  BY <1>3, AsideProtocol
<1>4. CASE S2C
  BY <1>4, S2CProtocol
<1>5. ASSUME NEW w \in Workers, DoWork(w) \/ Dispatch(w) \/ BackToTop(w) \/ FinishDoWork(w)
      PROVE  ProtocolInv'
  BY <1>5, WorkProtocol
<1>6. ASSUME NEW w \in Workers, Microthread(w) PROVE ProtocolInv'
  BY <1>6, MicrothreadProtocol
<1>7. CASE UNCHANGED vars
  <2>1. UNCHANGED serverView /\ UNCHANGED clientView
    BY <1>7, Zenon DEF vars, serverView, clientView, Stage, StageOf
  <2> QED
    BY <2>1, ViewKept
<1>8. ASSUME NEW w \in Workers, Checkout(w) PROVE GoneInv'
  BY <1>8, CheckoutGone
<1>9. ASSUME NEW w \in Workers, SuspendTwice(w) PROVE ProtocolInv'
  BY <1>9, SuspendTwiceProtocol
<1> QED
  BY <1>1, <1>2, <1>3, <1>4, <1>5, <1>6, <1>7, <1>8, <1>9, Zenon DEF Next, Quiet

\* The invariant excludes the throws of doWork and of the microthread.
LEMMA ProtocolBookkeeping == TypeOK /\ OneRunner /\ WholeInv => BookkeepingSound
<1>0. ASSUME GoneInv PROVE BookkeepingSound
  <2>1. ~DispatchFails /\ ~MicrothreadFails /\ crashed = "no"
    BY <1>0, Zenon DEF GoneInv, DispatchFails, DispatchResume, MicrothreadFails
  <2> QED
    BY <2>1, Zenon DEF BookkeepingSound
<1> SUFFICES ASSUME TypeOK, OneRunner, ProtocolInv PROVE BookkeepingSound
  BY <1>0, Zenon DEF WholeInv
<1>1. ASSUME NEW w \in Workers, pc[w] \in {"dispatch", "micro"}
      PROVE  Stage = pc[w] /\ StackInv /\ ServeInv /\ PendingInv
  <2>1. Stage = pc[w]
    <3>1. \A v \in Workers : pc[v] \in {"dispatch", "micro", "top"} => v = w
      BY <1>1, Zenon DEF OneRunner, Runs
    <3> QED
      BY <1>1, <3>1, StageIs DEF Stage
  <2> QED
    BY <1>1, <2>1 DEF ProtocolInv
<1>2. ASSUME NEW w \in Workers, pc[w] = "dispatch" PROVE ~DispatchFails
  <2>1. Stage = "dispatch" /\ StackInv /\ ServeInv /\ PendingInv
    BY <1>1, <1>2
  <2>2. suspended => (continuation <=> ~stack)
    BY <2>1 DEF StackInv
  <2>3. ~DispatchInterrupt => ~(continuation /\ pendingCall # None)
    <3> SUFFICES ASSUME continuation, pendingCall # None PROVE DispatchInterrupt
      OBVIOUS
    <3>1. suspended /\ ctl = "call"
      BY <2>1, Zenon DEF StackInv
    <3>2. activeCall # None /\ ~pendingCallOverride
      BY <2>1, <3>1, Zenon DEF ServeInv, Serving, Settled, Plain
    <3>3. pendingCall = "ie"
      BY <2>1, <3>2, Zenon DEF PendingInv, TypeOK
    <3> QED
      BY <3>2, <3>3 DEF DispatchInterrupt
  <2> QED
    BY <2>2, <2>3 DEF DispatchFails, DispatchResume, TypeOK
<1>3. ASSUME NEW w \in Workers, pc[w] = "micro" PROVE ~MicrothreadFails
  <2>1. Stage = "micro" /\ Serving /\ StackInv /\ ServeInv /\ PendingInv
    BY <1>1, <1>3, Zenon DEF Serving
  <2>2. ctl \in {"icall", "enter1"} => Top.call = Interrupted /\ Top.saved = Saved
    BY <2>1, TopFacts, Zenon DEF ServeInv
  <2>3. ctl = "call" => ~interruptedForSignal /\ activeCall \in Ordinary
    BY <2>1, Zenon DEF ServeInv, Settled, Plain
  <2>4. ctl = "enter4" => ~interruptedForSignal /\ activeCall = "ie"
    BY <2>1, Zenon DEF ServeInv, Plain
  <2>5. ctl = "exit1" => ~interruptedForSignal /\ activeCall = "ix"
    BY <2>1, Zenon DEF ServeInv, Settled, Plain
  <2>6. ctl = "icall" => Top.call \in Ordinary /\ Top.saved = None
    BY <2>1, <2>2, Zenon DEF ServeInv
  <2>7. ctl = "enter1" /\ pendingSavedReply # None => Top.saved = None
    BY <2>1, <2>2, Zenon DEF ServeInv
  <2>8. ctl = "exit2" => interrupts # <<>>
    BY <2>1 DEF ServeInv, Nested
  <2> QED
    BY <2>3, <2>4, <2>5, <2>6, <2>7, <2>8 DEF MicrothreadFails
<1> QED
  BY <1>2, <1>3 DEF BookkeepingSound, ProtocolInv

\* The throws of doWork, of pushCallReply and of _handleInterruptEnterForCurrentThread
\* are unreachable, for any number of workers and any kind of wait.
THEOREM BookkeepingCorrect ==
  ASSUME MaxSignals = 0 \/ MaxS2C = 0
  PROVE  Spec => []BookkeepingSound
<1>1. TypeOK /\ OneRunner /\ DeathInv /\ WholeInv /\ [Next]_vars => WholeInv'
  BY ProtocolStep
<1>0. Init => WholeInv
  BY ProtocolInit, Zenon DEF WholeInv
<1> QED
  BY <1>0, <1>1, ProtocolBookkeeping, DeathInit, DeathStep, TypeCorrect,
     RunnerExclusive, PTL DEF Spec

\* No wrapper of the client ever fails on a reply that is not its own.
THEOREM ClientInStep ==
  ASSUME MaxSignals = 0 \/ MaxS2C = 0
  PROVE  Spec => []ClientSynchronised
<1>1. TypeOK /\ OneRunner /\ DeathInv /\ WholeInv /\ [Next]_vars => WholeInv'
  BY ProtocolStep
<1>0. Init => WholeInv
  BY ProtocolInit, Zenon DEF WholeInv
<1>2. WholeInv => ClientSynchronised
  BY DEF WholeInv, ProtocolInv, GoneInv, ClientSynchronised
<1> QED
  BY <1>0, <1>1, <1>2, DeathInit, DeathStep, TypeCorrect, RunnerExclusive, PTL DEF Spec

-----------------------------------------------------------------------------
(* Pending calls *)

\* A worker has taken the thread from the queue and will find the pending call.
Taken == \E w \in Workers : pc[w] = "dispatch" \/ (pc[w] = "micro" /\ ctl = "activate")

\* A pending call is taken or scheduled; an impersonator keeps what is scheduled.
SchedInv ==
  /\ \A i \in Impersonators : imp[i] \in {"deferring", "impersonating"} => deferral # "no"
  /\ (pendingCall # None /\ ~dead /\ crashed = "no") => Taken \/ Scheduled

\* Initially no call is pending.
LEMMA SchedInit == Init => SchedInv
  BY Zenon DEF Init, SchedInv

\* The end of doWork: a pending interrupt takes a queue entry of its own, and no
\* entry is lost.
LEMMA DoneWorkingSched ==
  ASSUME TypeOK, SchedInv, crashed = "no", NEW w \in Workers, NEW term \in BOOLEAN,
         DoneWorking(w, term, queued), \/ pendingCall = None \/ pc[w] = "top",
         \A v \in Workers : v = w, UNCHANGED <<imp, deferral, dead>>
  PROVE  SchedInv'
<1>0. queued \in Nat
  BY Zenon DEF TypeOK
<1>1. /\ queued > 0 => queued' > 0
      /\ pendingCall' # pendingCall => queued' > 0
  BY <1>0 DEF DoneWorking
<1>2. pendingCall # None => ~Taken
  BY DEF Taken
<1>3. (pendingCall # None /\ ~dead) => queued > 0 \/ deferral = "pending"
  BY <1>2, Zenon DEF SchedInv, Scheduled
<1> QED
  BY <1>1, <1>3, Zenon DEF SchedInv, Scheduled

\* A single worker and a single impersonator never drop the entry of a pending call.
LEMMA SchedStep ==
  ASSUME \A v, w \in Workers : v = w, \A i, j \in Impersonators : i = j,
         TypeOK, OneRunner, DeathInv, WholeInv, SchedInv, [Next]_vars
  PROVE  SchedInv'
<1>0. queued \in Nat
  BY Zenon DEF TypeOK
<1>1. ASSUME UNCHANGED <<imp, deferral, pc, ctl>>, queued > 0 => queued' > 0,
             crashed' = "no" => crashed = "no", dead => dead',
             (pendingCall' # None /\ ~dead' /\ crashed' = "no") => pendingCall # None \/ queued' > 0
      PROVE  SchedInv'
  <2>1. Taken' = Taken
    BY <1>1, Zenon DEF Taken
  <2>2. Scheduled => Scheduled'
    BY <1>1 DEF Scheduled
  <2>3. queued' > 0 => Scheduled'
    BY Zenon DEF Scheduled
  <2>4. /\ \A i \in Impersonators : imp'[i] \in {"deferring", "impersonating"} => deferral' # "no"
        /\ (pendingCall # None /\ ~dead /\ crashed = "no") => Taken \/ Scheduled
    BY <1>1, Zenon DEF SchedInv
  <2> QED
    BY <1>1, <2>1, <2>2, <2>3, <2>4, Zenon DEF SchedInv, TypeOK
<1>2. CASE Client \/ Release \/ S2C \/ NotifyDead \/ UNCHANGED vars
  <2>1. /\ UNCHANGED <<imp, deferral, pc, ctl, queued, crashed, pendingCall>>
        /\ dead => dead'
    <3>1. CASE Client
      BY <3>1, Zenon DEF Client
    <3>2. CASE Release
      BY <3>2, Zenon DEF Release
    <3>3. CASE S2C
      BY <3>3, Zenon DEF S2C
    <3>4. CASE NotifyDead
      BY <3>4, Zenon DEF NotifyDead
    <3>5. CASE UNCHANGED vars
      BY <3>5, Zenon DEF vars
    <3> QED
      BY <1>2, <3>1, <3>2, <3>3, <3>4, <3>5
  <2> QED
    BY <1>1, <2>1, Zenon
<1>3. CASE Receive
  <2>1. crashed = "no"
    BY <1>3, Zenon DEF Receive
  <2>2. /\ UNCHANGED <<imp, deferral, pc, ctl, dead>> /\ (queued > 0 => queued' > 0)
        /\ pendingCall' # pendingCall => queued' > 0
    <3>1. CASE \E c \in Kinds : ReceiveCall(c)
      BY <1>0, <3>1 DEF ReceiveCall
    <3>2. CASE ReceivePush
      BY <3>2, Zenon DEF ReceivePush, TypeOK
    <3>3. CASE Throw(Head(requests))
      BY <3>3, Zenon DEF Throw
    <3> QED
      BY <1>3, <3>1, <3>2, <3>3, Zenon DEF Receive
  <2> QED
    BY <1>1, <2>1, <2>2
<1>4. CASE Wake \/ FinishNotifyDead
  <2>1. /\ UNCHANGED <<imp, deferral, pc, ctl, crashed, dead, pendingCall>>
        /\ queued' = queued \/ queued' = queued + Resumed
    BY <1>4, Zenon DEF Wake, FinishNotifyDead
  <2>2. queued > 0 => queued' > 0
    BY <1>0, <2>1 DEF Resumed
  <2> QED
    BY <1>1, <2>1, <2>2, Zenon
<1>5. ASSUME NEW i \in Impersonators, Impersonate(i) PROVE SchedInv'
  <2>1. UNCHANGED <<pc, ctl, crashed, dead, pendingCall>>
    BY <1>5 DEF Impersonate
  <2>2. \A j \in Impersonators : j = i
    OBVIOUS
  <2>3. Taken' = Taken
    BY <2>1, Zenon DEF Taken
  <2>4. CASE ImpersonateDefer(i) \/ ImpersonateEnter(i)
    <3>1. queued' = queued /\ (deferral = "pending" => deferral' = "pending")
      BY <2>4 DEF ImpersonateDefer, ImpersonateEnter
    <3>2. deferral' # "no"
      BY <2>4, Zenon DEF ImpersonateDefer, ImpersonateEnter, SchedInv
    <3> QED
      BY <2>1, <2>3, <3>1, <3>2 DEF SchedInv, Scheduled
  <2>5. CASE ImpersonateLeave(i)
    <3>1. imp'[i] = "left"
      BY <2>5, Zenon DEF ImpersonateLeave, TypeOK
    <3>2. Scheduled => queued' > 0
      BY <1>0, <2>5 DEF ImpersonateLeave, Scheduled, Resumed
    <3> QED
      BY <2>1, <2>2, <2>3, <3>1, <3>2, Zenon DEF SchedInv, Scheduled
  <2> QED
    BY <1>5, <2>4, <2>5, Zenon DEF Impersonate
<1>6. ASSUME NEW w \in Workers, DoWork(w) PROVE SchedInv'
  <2>1. UNCHANGED <<imp, dead, ctl>> /\ crashed = "no" /\ pc[w] = "idle" /\ queued > 0
    BY <1>6 DEF DoWork
  <2>2. CASE DoWorkDeferred(w)
    BY <2>1, <2>2 DEF DoWorkDeferred, SchedInv, Scheduled
  <2>3. ~DoWorkRunning(w)
    <3>1. ~\E v \in Workers : Runs(v)
      BY <2>1, Zenon DEF Runs
    <3> QED
      BY <3>1 DEF DoWorkRunning, OneRunner, Impersonates, SchedInv
  <2>4. CASE DoWorkTerminated(w)
    BY <2>1, <2>4 DEF DoWorkTerminated, DeathInv, SchedInv
  <2>5. CASE DoWorkStart(w)
    <3>1. pc'[w] = "dispatch" /\ deferral' = deferral
      BY <2>5, Zenon DEF DoWorkStart, TypeOK
    <3> QED
      BY <2>1, <3>1, ZenonT(30) DEF SchedInv, Taken
  <2> QED
    BY <1>6, <2>2, <2>3, <2>4, <2>5, Zenon DEF DoWork
<1>7. ASSUME NEW w \in Workers, Dispatch(w) PROVE SchedInv'
  <2>1. UNCHANGED <<imp, deferral, dead>> /\ crashed = "no" /\ pc[w] = "dispatch"
    BY <1>7, Zenon DEF Dispatch
  <2>2. CASE StartInterrupt(w) \/ StartCall(w)
    <3>1. pc'[w] = "micro" /\ ctl' = "activate"
      BY <2>2, Zenon DEF StartInterrupt, StartCall, TypeOK
    <3> QED
      BY <2>1, <3>1, Zenon DEF SchedInv, Taken
  <2>3. CASE ResumeMicrothread(w)
    <3>1. suspended /\ (pendingCallOverride \/ pendingCall = None) /\ pendingCall' = pendingCall
      BY <2>3 DEF ResumeMicrothread, DispatchResume
    <3>2. ServeInv
      BY <2>1, <3>1 DEF WholeInv, ProtocolInv, GoneInv
    <3>3. pendingCall = None
      BY <3>1, <3>2, Zenon DEF ServeInv, Serving, Settled, Plain, TypeOK
    <3> QED
      BY <2>1, <3>1, <3>3 DEF SchedInv
  <2>4. CASE NothingToDo(w)
    <3>1. pendingCall = None /\ DoneWorking(w, terminating, queued)
      BY <2>4, Zenon DEF NothingToDo
    <3>2. terminating \in BOOLEAN
      BY DEF TypeOK
    <3> QED
      BY <2>1, <3>1, <3>2, DoneWorkingSched
  <2> QED
    BY <1>7, <2>2, <2>3, <2>4, Zenon DEF Dispatch
<1>8. ASSUME NEW w \in Workers, BackToTop(w) PROVE SchedInv'
  <2>1. /\ UNCHANGED <<imp, deferral, dead>> /\ crashed = "no" /\ pc[w] = "top"
        /\ DoneWorking(w, terminating, queued) /\ terminating \in BOOLEAN
    BY <1>8, Zenon DEF BackToTop, TypeOK
  <2> QED
    BY <2>1, DoneWorkingSched
<1>9. ASSUME NEW w \in Workers, FinishDoWork(w) PROVE SchedInv'
  <2>1. /\ UNCHANGED <<imp, deferral, dead, crashed, pendingCall, queued, ctl>>
        /\ pc[w] \in {"done", "release"}
    BY <1>9 DEF FinishDoWork
  <2>2. ~Taken
    BY <2>1 DEF Taken
  <2> QED
    BY <2>1, <2>2, Zenon DEF SchedInv, Scheduled
<1>10. ASSUME NEW w \in Workers, Microthread(w) PROVE SchedInv'
  <2>1. UNCHANGED <<imp, deferral, dead, crashed, queued>> /\ pc[w] = "micro"
    BY <1>10 DEF Microthread
  <2>2. CASE MakePendingCallActive(w)
    BY <2>1, <2>2 DEF MakePendingCallActive, SchedInv
  <2>3. ASSUME pendingCall' = pendingCall, ctl # "activate" PROVE SchedInv'
    <3>1. ~Taken
      BY <2>1, <2>3 DEF Taken
    <3> QED
      BY <2>1, <2>3, <3>1 DEF SchedInv, Scheduled
  <2>4. \/ MakePendingCallActive(w)
        \/ pendingCall' = pendingCall /\ ctl # "activate"
    BY <1>10, Zenon DEF Microthread, Reply, PushCallReply, ReturnToTop, AssertWait, SuspendUnlocked,
                 SuspendLocked, InterruptEnter1, InterruptEnter2, ReplyInterrupted,
                 InterruptEnter3, InterruptEnter4, InterruptExit1, InterruptExit2
  <2> QED
    BY <2>2, <2>3, <2>4, Zenon
<1>11. ASSUME NEW w \in Workers, Checkout(w) \/ SuspendTwice(w) PROVE SchedInv'
  <2>1. UNCHANGED <<imp, deferral>> /\ (dead' \/ crashed' # "no")
    BY <1>11, Zenon DEF Checkout, SuspendTwice, Throw
  <2> QED
    BY <2>1, Zenon DEF SchedInv
<1> QED
  BY <1>2, <1>3, <1>4, <1>5, <1>6, <1>7, <1>8, <1>9, <1>10, <1>11, Zenon DEF Next, Quiet

\* With a single worker, and one thread at a time that impersonates this one, a call
\* handed to an idle thread is always scheduled.
THEOREM PendingCallsScheduled ==
  ASSUME \A v, w \in Workers : v = w, \A i, j \in Impersonators : i = j,
         MaxSignals = 0 \/ MaxS2C = 0
  PROVE  Spec => []PendingCallScheduled
<1>1. TypeOK /\ OneRunner /\ DeathInv /\ WholeInv /\ [Next]_vars => WholeInv'
  BY ProtocolStep
<1>0. Init => WholeInv
  BY ProtocolInit, Zenon DEF WholeInv
<1>2. TypeOK /\ OneRunner /\ DeathInv /\ WholeInv /\ SchedInv /\ [Next]_vars => SchedInv'
  BY SchedStep, Zenon
<1>3. OneRunner /\ SchedInv => PendingCallScheduled
  BY DEF OneRunner, Runs, SchedInv, Taken, PendingCallScheduled
<1> QED
  BY <1>0, <1>1, <1>2, <1>3, SchedInit, DeathInit, DeathStep, TypeCorrect,
     RunnerExclusive, PTL DEF Spec

-----------------------------------------------------------------------------
(* Calls are conserved *)

\* Through any number of signals, or of S2C calls, the client's call or its reply is
\* in exactly one place until the client has the reply.
THEOREM CallsConserved ==
  ASSUME MaxSignals = 0 \/ MaxS2C = 0
  PROVE  Spec => []CallConserved
<1>2. TypeOK /\ WholeInv => CallConserved
  BY ProtocolConserved, Zenon DEF WholeInv, GoneInv, CallConserved
<1>1. TypeOK /\ OneRunner /\ DeathInv /\ WholeInv /\ [Next]_vars => WholeInv'
  BY ProtocolStep
<1>0. Init => WholeInv
  BY ProtocolInit, Zenon DEF WholeInv
<1> QED
  BY <1>0, <1>1, <1>2, DeathInit, DeathStep, TypeCorrect,
     RunnerExclusive, PTL DEF Spec
=============================================================================
