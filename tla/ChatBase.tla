------------------------------ MODULE ChatBase ------------------------------
(***************************************************************************)
(* What the three delivery modes of the HW3 chat server share: the server  *)
(* group of the config file, the clients and the rooms.                    *)
(*                                                                         *)
(* Every server of the group reads the same config file, so Server is the  *)
(* vector servers_ of every ServerNode.  A chatclient is started with the  *)
(* address of one server and sends there only: Home is that choice.  A     *)
(* client stands for its UDP address; addresses are numbered in the order  *)
(* std::string::operator< gives them, the order Message::operator< falls   *)
(* back on.                                                                *)
(***************************************************************************)
EXTENDS Integers, FiniteSets, Sequences

CONSTANTS
  Server,  \* the servers of the config file
  Client,  \* client addresses, numbered in string order
  Room,    \* the room numbers clients may join; Join rejects room <= 0
  Home     \* the server each client talks to

ASSUME ServerAssumption == IsFiniteSet(Server) /\ Server # {}
ASSUME ClientAssumption == Client \subseteq Nat
ASSUME RoomAssumption   == Room \subseteq Nat \ {0}
ASSUME HomeAssumption   == Home \in [Client -> Server]

(***************************************************************************)
(* Client::room_ is 0 for a new client and -1 after LeaveRoom; InRoom()    *)
(* tests room_ > 0, and no message ever carries a room <= 0, so both       *)
(* values are the one value NoRoom.  A client the server has not heard of  *)
(* yet, or has erased in Quit, is a NoRoom client too: its next datagram   *)
(* adds a Client with room_ 0.                                             *)
(***************************************************************************)
NoRoom == 0

(***************************************************************************)
(* A chat line as the servers identify it: "addr, room and id", the key of *)
(* TotalOrder::GetMsg.  Nick and text ride along and decide nothing.       *)
(***************************************************************************)
MsgId == [addr : Client, room : Room, id : Nat]
=============================================================================
