------------------------------ MODULE Monitor ------------------------------
(***************************************************************************)
(* What dtape_mutex and dtape_condvar promise together: one holder at a    *)
(* time, a wait that releases the mutex and starts waiting in one step, so *)
(* that a later signal cannot miss it, and signals that end waits in the   *)
(* order they began.                                                       *)
(***************************************************************************)
EXTENDS Naturals, Sequences

CONSTANTS Threads,  \* microthreads
          Natives   \* OS threads that run no microthread

VARIABLES holder, waiters

Free == "free"

Init == holder = Free /\ waiters = <<>>

Acquire(a) ==
  /\ holder = Free
  /\ \A k \in DOMAIN waiters : waiters[k] # a
  /\ holder' = a
  /\ UNCHANGED waiters

Release(a) ==
  /\ holder = a
  /\ holder' = Free
  /\ UNCHANGED waiters

Wait(t) ==
  /\ holder = t
  /\ holder' = Free
  /\ waiters' = Append(waiters, t)

Signal(n) ==
  /\ waiters' = SubSeq(waiters, n + 1, Len(waiters))
  /\ UNCHANGED holder

Next ==
  \/ \E a \in Threads \cup Natives : Acquire(a) \/ Release(a)
  \/ \E t \in Threads : Wait(t)
  \/ \E n \in 0 .. Len(waiters) : Signal(n)

Spec == Init /\ [][Next]_<<holder, waiters>>
=============================================================================
