---------------------------- MODULE FifoBroadcast ---------------------------
(***************************************************************************)
(* What the chat servers promise in FIFO mode: the lines a client multi-   *)
(* casts to a room form a sequence, and what a server has delivered of     *)
(* them is a prefix of it.  Lines of different clients, or for different   *)
(* rooms, are not ordered with respect to each other.                      *)
(***************************************************************************)
EXTENDS Integers, Sequences

CONSTANTS Server, Sender, Room

VARIABLES
  cast,  \* cast[c][g]: the lines c has multicast to room g, in order
  log    \* log[s][c][g]: those of them that server s has delivered, in order

Prefix(p, q) == Len(p) <= Len(q) /\ \A i \in 1 .. Len(p) : p[i] = q[i]

Init ==
  /\ cast = [c \in Sender |-> [g \in Room |-> <<>>]]
  /\ log  = [s \in Server |-> [c \in Sender |-> [g \in Room |-> <<>>]]]

Multicast(c, g) ==
  /\ Prefix(cast[c][g], cast'[c][g])
  /\ Len(cast'[c][g]) = Len(cast[c][g]) + 1
  /\ cast' = [cast EXCEPT ![c][g] = cast'[c][g]]
  /\ UNCHANGED log

Deliver(s, c, g) ==
  /\ Prefix(log'[s][c][g], cast[c][g])
  /\ Len(log[s][c][g]) < Len(log'[s][c][g])
  /\ log' = [log EXCEPT ![s][c][g] = log'[s][c][g]]
  /\ UNCHANGED cast

Next ==
  \/ \E c \in Sender, g \in Room : Multicast(c, g)
  \/ \E s \in Server, c \in Sender, g \in Room : Deliver(s, c, g)

Spec == Init /\ [][Next]_<<cast, log>>
=============================================================================
