---------------------------- MODULE MCChatSession ---------------------------
(***************************************************************************)
(* Instances of ChatSession for TLC.  Client 4 uses server 2, the others   *)
(* use server 1.                                                           *)
(***************************************************************************)
EXTENDS ChatSession

HomeOf == [c \in Client |-> IF c = 4 THEN 2 ELSE 1]

NickOfTwo == [c \in Client |-> IF c = 2 THEN {9} ELSE {}]

OneOfOne == [c \in Client |-> IF c = 1 THEN 1 ELSE 0]
=============================================================================
