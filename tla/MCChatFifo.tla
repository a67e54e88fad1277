----------------------------- MODULE MCChatFifo -----------------------------
(***************************************************************************)
(* Instances of ChatFifo for TLC.  Client 2 uses server 2, the others use  *)
(* server 1.                                                               *)
(***************************************************************************)
EXTENDS ChatFifo

HomeOf == [c \in Client |-> IF c = 2 THEN 2 ELSE 1]

ThreeOfOne == [c \in Client |-> [g \in Room |-> IF c = 1 THEN 3 ELSE 0]]

\* Two lines in one room and one in the other.
TwoAndOne ==
  [c \in Client |-> [g \in Room |-> IF c # 1 THEN 0 ELSE IF g = 1 THEN 2 ELSE 1]]
=============================================================================
