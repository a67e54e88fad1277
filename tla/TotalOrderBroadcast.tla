------------------------ MODULE TotalOrderBroadcast -------------------------
(***************************************************************************)
(* What the chat servers promise in total-order mode: atomic broadcast in  *)
(* every room.  Messages are multicast; each server delivers messages that *)
(* were multicast to the room, none of them twice, one or several at a     *)
(* time, and so that of two servers' sequences for a room one is always a  *)
(* prefix of the other.  Nothing is said of when a message is delivered.   *)
(***************************************************************************)
EXTENDS Integers, Sequences

CONSTANTS Server, Room,
          Message  \* records with a field room

VARIABLES
  cast,  \* the messages multicast so far
  log    \* log[s][g]: what server s has delivered in room g, in order

Agree(p, q) == \A i \in DOMAIN p \cap DOMAIN q : p[i] = q[i]

NoRepeat(p) == \A i, j \in DOMAIN p : p[i] = p[j] => i = j

Init ==
  /\ cast = {}
  /\ log = [s \in Server |-> [g \in Room |-> <<>>]]

Multicast ==
  /\ \E m \in cast' \ cast : m \in Message /\ cast' = cast \cup {m}
  /\ UNCHANGED log

(***************************************************************************)
(* Server s extends its sequence of room g.                                *)
(***************************************************************************)
Deliver(s, g) ==
  LET old == log[s][g]
      new == log'[s][g]
  IN  /\ log' = [log EXCEPT ![s][g] = new]
      /\ Len(old) < Len(new)
      /\ Agree(old, new)
      /\ \A i \in DOMAIN new : new[i] \in cast /\ new[i].room = g
      /\ NoRepeat(new)
      /\ \A t \in Server : Agree(new, log'[t][g])
      /\ UNCHANGED cast

Next ==
  \/ Multicast
  \/ \E s \in Server, g \in Room : Deliver(s, g)

Spec == Init /\ [][Next]_<<cast, log>>
=============================================================================
