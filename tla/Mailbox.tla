------------------------------ MODULE Mailbox ------------------------------
(***************************************************************************)
(* What the outbox and the event loop promise together to whoever calls    *)
(* Server::sendMessage: messages reach a peer in the order they were       *)
(* posted, each once, and only those of a dead peer are given up.          *)
(***************************************************************************)
EXTENDS Naturals, Sequences

CONSTANTS Peers, MaxPosts

VARIABLES posted,      \* messages posted so far; a message is its number
          mail,        \* what is posted for each peer and not yet sent
          delivered,   \* what has reached each peer
          dead

vars == <<posted, mail, delivered, dead>>

Init ==
  /\ posted = 0 /\ dead = {}
  /\ mail = [p \in Peers |-> {}] /\ delivered = [p \in Peers |-> <<>>]

Post(p) ==
  /\ posted < MaxPosts
  /\ posted' = posted + 1
  /\ mail' = [mail EXCEPT ![p] = @ \cup {posted + 1}]
  /\ UNCHANGED <<delivered, dead>>

\* The message posted first of those for p.
First(p, n) == n \in mail[p] /\ \A k \in mail[p] : n <= k

Deliver(p, n) ==
  /\ p \notin dead /\ First(p, n)
  /\ delivered' = [delivered EXCEPT ![p] = Append(@, n)]
  /\ mail' = [mail EXCEPT ![p] = @ \ {n}]
  /\ UNCHANGED <<posted, dead>>

GiveUp(p, n) ==
  /\ p \in dead /\ First(p, n)
  /\ mail' = [mail EXCEPT ![p] = @ \ {n}]
  /\ UNCHANGED <<posted, delivered, dead>>

Die(p) ==
  /\ p \notin dead
  /\ dead' = dead \cup {p}
  /\ UNCHANGED <<posted, mail, delivered>>

Next ==
  \E p \in Peers : Post(p) \/ Die(p) \/ \E n \in mail[p] : Deliver(p, n) \/ GiveUp(p, n)

Spec == Init /\ [][Next]_vars

=============================================================================
