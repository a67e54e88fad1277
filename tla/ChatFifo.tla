------------------------------ MODULE ChatFifo ------------------------------
(***************************************************************************)
(* The chat server in FIFO mode: ServerNode with order_ FIFO, its          *)
(* HoldbackQueueFIFO and the counters on both sides of a line: the one in  *)
(* the Client record of the sender's server, and the one every server      *)
(* keeps of what it expects next of a client in a room.                    *)
(*                                                                         *)
(* A handler is one action, as in ChatTotal, and the network is the same:  *)
(* it reorders and may lose datagrams between servers.                     *)
(***************************************************************************)
EXTENDS ChatBase, Listing

CONSTANTS
  MaxLines,  \* bound: how many lines a client types in a room
  MayQuit    \* the clients that may use /quit

ASSUME MaxLinesAssumption == MaxLines \in [Client -> [Room -> Nat]]
ASSUME MayQuitAssumption  == MayQuit \subseteq Client

VARIABLES
  room,      \* room[c]: Client::room_ at c's server
  seqs,      \* seqs[c][g]: Client::seqs_, the number of c's next line in g
  cast,      \* cast[c][g]: the lines multicast for c in room g, in order
  hbq,       \* hbq[s]: HoldbackQueueFIFO::queue_
  expected,  \* expected[s][c][g]: ServerNode::seq_fifo_
  sent,      \* every datagram ever sent between servers
  gone,      \* the datagrams handled or lost
  lost,      \* those of them that are lost
  log,       \* log[s][c][g]: what s passed to Deliver of c's lines in g
  inbox      \* inbox[c]: the lines sent to client c, in order

vars == <<room, seqs, cast, hbq, expected, sent, gone, lost, log, inbox>>

-----------------------------------------------------------------------------
(***************************************************************************)
(* A line carries its sender, its room and the sequence number; nth stands *)
(* for its text, which tells apart all the lines of a client in a room.    *)
(***************************************************************************)
Line == [addr : Client, room : Room, seq : Nat, nth : Nat]

Datagram == [dst : Server, line : Line]

InFlight == sent \ gone

(***************************************************************************)
(* HoldbackQueueFIFO::GetMsgIndex: the first entry with the sender, room   *)
(* and number, if there is one.                                            *)
(***************************************************************************)
Matches(q, c, g, n) ==
  {i \in DOMAIN q : q[i].addr = c /\ q[i].room = g /\ q[i].seq = n}

GetMsg(q, c, g, n) ==
  LET I == Matches(q, c, g, n)
  IN  q[CHOOSE i \in I : \A j \in I : i <= j]

(***************************************************************************)
(* The delivery loop: from number n on, as many lines as the queue holds   *)
(* without a gap.                                                          *)
(***************************************************************************)
\* Faulty: the loop delivers whatever the queue holds, gap or no gap.
DeliverableAll(q, c, g, n) ==
  LET Own(x) == x.addr = c /\ x.room = g
  IN  SelectSeq(q, Own)

\* Faulty: one line per datagram, without the loop.
DeliverableOne(q, c, g, n) ==
  IF Matches(q, c, g, n) = {} THEN <<>> ELSE <<GetMsg(q, c, g, n)>>

Deliverable(q, c, g, n) ==
  LET k == CHOOSE k \in 0 .. Len(q) :
             /\ \A j \in 0 .. k - 1 : Matches(q, c, g, n + j) # {}
             /\ Matches(q, c, g, n + k) = {}
  IN  [i \in 1 .. k |-> GetMsg(q, c, g, n + i - 1)]

(***************************************************************************)
(* What RemoveByIndex leaves: the lines that were not delivered, in their  *)
(* order.  No line is in a queue twice: a line is sent to each server      *)
(* once.                                                                   *)
(***************************************************************************)
\* Faulty: nothing is removed.
LeftAll(q, batch) == q

Left(q, batch) == AtPlaces(q, {i \in DOMAIN q : \A j \in DOMAIN batch : batch[j] # q[i]})

-----------------------------------------------------------------------------
Init ==
  /\ room     = [c \in Client |-> NoRoom]
  /\ seqs     = [c \in Client |-> [g \in Room |-> 0]]
  /\ cast     = [c \in Client |-> [g \in Room |-> <<>>]]
  /\ hbq      = [s \in Server |-> <<>>]
  /\ expected = [s \in Server |-> [c \in Client |-> [g \in Room |-> 0]]]
  /\ sent     = {}
  /\ gone     = {}
  /\ lost     = {}
  /\ log      = [s \in Server |-> [c \in Client |-> [g \in Room |-> <<>>]]]
  /\ inbox    = [c \in Client |-> <<>>]

Join(c, g) ==
  /\ room[c] = NoRoom
  /\ room' = [room EXCEPT ![c] = g]
  /\ UNCHANGED <<seqs, cast, hbq, expected, sent, gone, lost, log, inbox>>

(***************************************************************************)
(* /part keeps the Client record, and the numbers in it.                   *)
(***************************************************************************)
\* Faulty: the numbers start again in the next room joined.
PartForgets(c) ==
  /\ room[c] # NoRoom
  /\ room' = [room EXCEPT ![c] = NoRoom]
  /\ seqs' = [seqs EXCEPT ![c] = [g \in Room |-> 0]]
  /\ UNCHANGED <<cast, hbq, expected, sent, gone, lost, log, inbox>>

Part(c) ==
  /\ room[c] # NoRoom
  /\ room' = [room EXCEPT ![c] = NoRoom]
  /\ UNCHANGED <<seqs, cast, hbq, expected, sent, gone, lost, log, inbox>>

(***************************************************************************)
(* /quit erases the Client record; the next datagram from the address      *)
(* makes a new one, whose numbers start at 0.                              *)
(***************************************************************************)
\* Faulty: the numbers of a new record start below 0, like the room left.
QuitBelowZero(c) ==
  /\ c \in MayQuit
  /\ room' = [room EXCEPT ![c] = NoRoom]
  /\ seqs' = [seqs EXCEPT ![c] = [g \in Room |-> -1]]
  /\ UNCHANGED <<cast, hbq, expected, sent, gone, lost, log, inbox>>

Quit(c) ==
  /\ c \in MayQuit
  /\ room' = [room EXCEPT ![c] = NoRoom]
  /\ seqs' = [seqs EXCEPT ![c] = [g \in Room |-> 0]]
  /\ UNCHANGED <<cast, hbq, expected, sent, gone, lost, log, inbox>>

(***************************************************************************)
(* A line of text: it takes the next number of the client in its room, and *)
(* goes to all servers, the sender's own included.                         *)
(***************************************************************************)
ClientMsg(c) ==
  LET g == room[c]
      x == [addr |-> c, room |-> g, seq |-> seqs[c][g], nth |-> Len(cast[c][g]) + 1]
  IN  /\ g # NoRoom
      /\ Len(cast[c][g]) < MaxLines[c][g]
      /\ seqs' = [seqs EXCEPT ![c][g] = @ + 1]
      /\ cast' = [cast EXCEPT ![c][g] = Append(@, x)]
      /\ sent' = sent \cup {[dst |-> t, line |-> x] : t \in Server}
      /\ UNCHANGED <<room, hbq, expected, gone, lost, log, inbox>>

(***************************************************************************)
(* A line comes in from a server: it is queued, and then everything that   *)
(* has become deliverable of its sender in its room is delivered.          *)
(***************************************************************************)
FifoDeliver(s, x) ==
  LET c     == x.addr
      g     == x.room
      q     == Append(hbq[s], x)
      batch == Deliverable(q, c, g, expected[s][c][g])
  IN  /\ hbq'      = [hbq EXCEPT ![s] = Left(q, batch)]
      /\ expected' = [expected EXCEPT ![s][c][g] = @ + Len(batch)]
      /\ log'      = [log EXCEPT ![s][c][g] = @ \o batch]
      /\ inbox'    = [r \in Client |-> IF Home[r] = s /\ room[r] = g
                                       THEN inbox[r] \o batch
                                       ELSE inbox[r]]

Recv(s) ==
  \E d \in InFlight :
    /\ d.dst = s
    /\ gone' = gone \cup {d}
    /\ FifoDeliver(s, d.line)
    /\ UNCHANGED <<room, seqs, cast, sent, lost>>

Lose(d) ==
  /\ gone' = gone \cup {d}
  /\ lost' = lost \cup {d}
  /\ UNCHANGED <<room, seqs, cast, hbq, expected, sent, log, inbox>>

Next ==
  \/ \E c \in Client : \E g \in Room : Join(c, g)
  \/ \E c \in Client : Part(c) \/ Quit(c) \/ ClientMsg(c)
  \/ \E s \in Server : Recv(s)
  \/ \E d \in InFlight : Lose(d)

(***************************************************************************)
(* Every server keeps running its receive loop, and only so many datagrams *)
(* are ever sent: one that is not lost is received.                        *)
(***************************************************************************)
Fairness == \A s \in Server : WF_vars(Recv(s))

Spec == Init /\ [][Next]_vars /\ Fairness

-----------------------------------------------------------------------------
(***************************************************************************)
(* Type invariant.                                                         *)
(***************************************************************************)
TypeOK ==
  /\ room     \in [Client -> Room \cup {NoRoom}]
  /\ seqs     \in [Client -> [Room -> Nat]]
  /\ cast     \in [Client -> [Room -> Seq(Line)]]
  /\ hbq      \in [Server -> Seq(Line)]
  /\ expected \in [Server -> [Client -> [Room -> Nat]]]
  /\ sent     \subseteq Datagram
  /\ gone     \subseteq sent
  /\ lost     \subseteq gone
  /\ log      \in [Server -> [Client -> [Room -> Seq(Line)]]]
  /\ inbox    \in [Client -> Seq(Line)]

InTypedOrder(c) ==
  \A r \in Client : \A i, j \in DOMAIN inbox[r] :
    /\ i < j
    /\ inbox[r][i].addr = c /\ inbox[r][j].addr = c
    /\ inbox[r][i].room = inbox[r][j].room
    => inbox[r][i].nth < inbox[r][j].nth

(***************************************************************************)
(* The lines of a client that does not quit reach everybody in the order   *)
(* they were typed, room by room, and none of them twice: across /part and *)
(* /join of sender and receiver, and beside clients that do quit.          *)
(***************************************************************************)
Stayers == Client \ MayQuit

FifoOrder == \A c \in Stayers : InTypedOrder(c)

(***************************************************************************)
(* Nothing is held back for good on account of the counters: a line of a   *)
(* client that does not quit is in a queue only while an earlier one of    *)
(* the same client and room has not been delivered.                        *)
(***************************************************************************)
HeldForEarlierLine ==
  \A s \in Server : \A i \in DOMAIN hbq[s] :
    LET x == hbq[s][i]
    IN  x.addr \in Stayers => Len(log[s][x.addr][x.room]) + 1 < x.nth

(***************************************************************************)
(* What test/stresstest.cc asks of a FIFO run, of every client: "Client    *)
(* sent message ... before message ..., but client ... received them in    *)
(* the reverse order" is an error.                                         *)
(***************************************************************************)
FifoOrderOfAll == \A c \in Client : InTypedOrder(c)

(***************************************************************************)
(* The service, for the clients that do not quit: the deliveries of their  *)
(* lines implement FIFO broadcast.                                         *)
(***************************************************************************)
StayersLog == [s \in Server |-> [c \in Stayers |-> log[s][c]]]

StayersCast == [c \in Stayers |-> cast[c]]

Broadcast == INSTANCE FifoBroadcast
  WITH Sender <- Stayers, cast <- StayersCast, log <- StayersLog

ImplementsFifo == Broadcast!Spec

Delivered(s, c, g, n) == \E i \in DOMAIN log[s][c][g] : log[s][c][g][i].nth = n

LostUpTo(s, c, g, n) ==
  \E d \in lost :
    d.dst = s /\ d.line.addr = c /\ d.line.room = g /\ d.line.nth <= n

(***************************************************************************)
(* Every line of a client that does not quit is delivered by a server,     *)
(* unless the network has lost it, or an earlier one of the same client    *)
(* and room, on the way to that server: a gap in one stream holds up no    *)
(* other stream.                                                           *)
(***************************************************************************)
EventuallyDelivered ==
  \A s \in Server, c \in Stayers, g \in Room :
    \A n \in 1 .. MaxLines[c][g] :
      Len(cast[c][g]) >= n ~> (Delivered(s, c, g, n) \/ LostUpTo(s, c, g, n))
=============================================================================
