---------------------------- MODULE MCChatTotal -----------------------------
(***************************************************************************)
(* Instances of ChatTotal for TLC.  Client 1 and client 3 use server 1,    *)
(* client 2 uses server 2.                                                 *)
(***************************************************************************)
EXTENDS ChatTotalInv

HomeOf == [c \in Client |-> IF c = 2 THEN 2 ELSE 1]

OneEach == [s \in Server |-> 1]
TwoAtFirst == [s \in Server |-> IF s = 1 THEN 2 ELSE 1]
=============================================================================
