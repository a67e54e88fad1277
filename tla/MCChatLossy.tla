---------------------------- MODULE MCChatLossy -----------------------------
(***************************************************************************)
(* The instance of ChatTotal whose network loses datagrams, with a record  *)
(* of the rooms that have lost one.                                        *)
(***************************************************************************)
EXTENDS MCChatTotal

VARIABLE hurt  \* the rooms a datagram was lost of

Arrives(s) == Recv(s) /\ UNCHANGED hurt

LossyNext ==
  \/ \E c \in Client, g \in Room : Join(c, g) /\ UNCHANGED hurt
  \/ \E c \in Client : (Leave(c) \/ ClientMsg(c)) /\ UNCHANGED hurt
  \/ \E s \in Server : Arrives(s)
  \/ \E d \in InFlight : Lose(d) /\ hurt' = hurt \cup {d.m.room}

(***************************************************************************)
(* Every server keeps running its receive loop; what is lost is lost.      *)
(***************************************************************************)
LossySpec ==
  /\ Init /\ hurt = {}
  /\ [][LossyNext]_<<vars, hurt>>
  /\ \A s \in Server : WF_<<vars, hurt>>(Arrives(s))

(***************************************************************************)
(* Nothing is sent again, so that one lost datagram may silence a room for *)
(* good; but it silences no other: in a room that has lost nothing, every  *)
(* line is delivered by every server in the end.                           *)
(***************************************************************************)
OtherRoomsDeliver ==
  []<>(\A m \in Cast, s \in Server :
         m.room \in hurt \/ \E k \in DOMAIN log[s][m.room] : log[s][m.room][k] = m)
=============================================================================
