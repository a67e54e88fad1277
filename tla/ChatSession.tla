----------------------------- MODULE ChatSession ----------------------------
(***************************************************************************)
(* The sessions a chat server keeps for its clients, the commands that     *)
(* change them and the answers it gives, with lines delivered unordered:   *)
(* ServerNode with order_ UNORDERD.                                        *)
(*                                                                         *)
(* A client may send any datagram at any time, so a server may handle any  *)
(* of them at any time: this covers every order in which the network may   *)
(* bring a client's datagrams.  Those between servers may be lost.         *)
(***************************************************************************)
EXTENDS ChatBase

CONSTANTS
  Nick,     \* Nick[c]: the names client c may choose
  MaxLines  \* bound: how many lines each client types

ASSUME MaxLinesAssumption == MaxLines \in [Client -> Nat]

Names == Client \cup UNION {Nick[c] : c \in Client}

VARIABLES
  clients,  \* clients[s]: ServerNode::clients_
  typed,    \* typed[c]: how many lines the servers have multicast for c
  sent,     \* every datagram ever sent between servers
  gone,     \* the datagrams handled or lost
  lost,     \* those of them that are lost
  inbox,    \* inbox[c]: the lines sent to client c, in order
  told      \* told[c]: the room c must believe to be in after its answers

vars == <<clients, typed, sent, gone, lost, inbox, told>>

-----------------------------------------------------------------------------
(***************************************************************************)
(* Client::room_ of a new record, and after LeaveRoom.                     *)
(***************************************************************************)
Fresh == 0
Outside == -1

(***************************************************************************)
(* A record's nick is the address until /nick sets another.                *)
(***************************************************************************)
Record == [addr : Client, room : Room \cup {Fresh, Outside}, nick : Names]

(***************************************************************************)
(* A line: n tells apart the lines of a client.                            *)
(***************************************************************************)
Line == [addr : Client, n : Nat, room : Room, nick : Names]

Datagram == [dst : Server, line : Line]

InFlight == sent \ gone

InRoom(r) == r.room > 0

(***************************************************************************)
(* GetClientIndex: the first record with the address.                      *)
(***************************************************************************)
Known(t, c) == \E i \in DOMAIN t : t[i].addr = c

\* Faulty: the index of the newest record, outside the branch that adds it.
IndexNewest(t, c) == Len(t)

Index(t, c) == CHOOSE i \in DOMAIN t : t[i].addr = c /\ \A j \in 1 .. i - 1 : t[j].addr # c

(***************************************************************************)
(* The table a command of c works on: HandleClientMsg adds a record for an *)
(* address it does not know, before it looks at the command.               *)
(***************************************************************************)
\* Faulty: every datagram adds a record.
TableAlways(c) == Append(clients[Home[c]], [addr |-> c, room |-> Fresh, nick |-> c])

Table(c) ==
  LET t == clients[Home[c]]
  IN  IF Known(t, c) THEN t ELSE Append(t, [addr |-> c, room |-> Fresh, nick |-> c])

Mine(c) == Table(c)[Index(Table(c), c)]

(***************************************************************************)
(* c's record becomes r.                                                   *)
(***************************************************************************)
Update(c, r) ==
  clients' = [clients EXCEPT ![Home[c]] = [Table(c) EXCEPT ![Index(Table(c), c)] = r]]

(***************************************************************************)
(* An answer after which c believes to be in room g.                       *)
(***************************************************************************)
Answer(c, g) == told' = [told EXCEPT ![c] = g]

(***************************************************************************)
(* std::remove(begin, end, client) as Quit calls it: client is a reference *)
(* to record k of the vector itself, so that from the first move on it is  *)
(* the record that followed.  Everything that differs from it is moved     *)
(* down; out is where the next record goes, and erase cuts there.          *)
(***************************************************************************)
\* Faulty: everything from the record on is erased.
RemovedToEnd(t, k) == SubSeq(t, 1, k - 1)

\* Faulty: std::remove without erase; the last record is there twice.
RemovedNotErased(t, k) ==
  [i \in DOMAIN t |-> IF i < k THEN t[i] ELSE IF i < Len(t) THEN t[i + 1] ELSE t[i]]

Removed(t, k) ==
  LET moved[i \in k .. Len(t)] ==
        IF i = k THEN [v |-> t, out |-> k]
        ELSE LET was == moved[i - 1]
             IN  IF t[i].addr = was.v[k].addr THEN was
                 ELSE [v |-> [was.v EXCEPT ![was.out] = t[i]], out |-> was.out + 1]
      end == moved[Len(t)]
  IN  SubSeq(end.v, 1, end.out - 1)

-----------------------------------------------------------------------------
Init ==
  /\ clients = [s \in Server |-> <<>>]
  /\ typed   = [c \in Client |-> 0]
  /\ sent    = {}
  /\ gone    = {}
  /\ lost    = {}
  /\ inbox   = [c \in Client |-> <<>>]
  /\ told    = [c \in Client |-> NoRoom]

(***************************************************************************)
(* /join; every number Join rejects is room 0 here.                        *)
(***************************************************************************)
Join(c, g) ==
  /\ \/ /\ g <= 0
        /\ Update(c, Mine(c))
        /\ Answer(c, told[c])
     \/ /\ g > 0
        /\ InRoom(Mine(c))
        /\ Update(c, Mine(c))
        /\ Answer(c, Mine(c).room)
     \/ /\ g > 0
        /\ ~ InRoom(Mine(c))
        /\ Update(c, [Mine(c) EXCEPT !.room = g])
        /\ Answer(c, g)
  /\ UNCHANGED <<typed, sent, gone, lost, inbox>>

(***************************************************************************)
(* /nick, with a name or without one.                                      *)
(***************************************************************************)
SetNick(c, m) ==
  /\ Update(c, [Mine(c) EXCEPT !.nick = m])
  /\ Answer(c, told[c])
  /\ UNCHANGED <<typed, sent, gone, lost, inbox>>

EmptyNick(c) ==
  /\ Update(c, Mine(c))
  /\ Answer(c, told[c])
  /\ UNCHANGED <<typed, sent, gone, lost, inbox>>

(***************************************************************************)
(* /part: the answer depends on what LeaveRoom returns, but each answer    *)
(* leaves the client in no room.                                           *)
(***************************************************************************)
Part(c) ==
  /\ Update(c, [Mine(c) EXCEPT !.room = Outside])
  /\ Answer(c, NoRoom)
  /\ UNCHANGED <<typed, sent, gone, lost, inbox>>

(***************************************************************************)
(* /quit is not answered; the client knows it is in no room any more.      *)
(***************************************************************************)
Quit(c) ==
  /\ clients' = [clients EXCEPT ![Home[c]] = Removed(Table(c), Index(Table(c), c))]
  /\ Answer(c, NoRoom)
  /\ UNCHANGED <<typed, sent, gone, lost, inbox>>

BadCommand(c) ==
  /\ Update(c, Mine(c))
  /\ Answer(c, told[c])
  /\ UNCHANGED <<typed, sent, gone, lost, inbox>>

(***************************************************************************)
(* A line of text goes to all servers, the sender's own included; without  *)
(* a room it only leaves a record behind.                                  *)
(***************************************************************************)
\* Faulty: the line goes out although its sender is in no room.
ClientMsgAnywhere(c) ==
  LET r == Mine(c)
      x == [addr |-> c, n |-> typed[c] + 1, room |-> r.room, nick |-> r.nick]
  IN  /\ typed[c] < MaxLines[c]
      /\ Update(c, r)
      /\ typed' = [typed EXCEPT ![c] = @ + 1]
      /\ sent'  = sent \cup {[dst |-> t, line |-> x] : t \in Server}
      /\ UNCHANGED <<gone, lost, inbox, told>>

\* Faulty: the sender is shown its line at once, besides the delivery.
ClientMsgEcho(c) ==
  LET r == Mine(c)
      x == [addr |-> c, n |-> typed[c] + 1, room |-> r.room, nick |-> r.nick]
  IN  /\ typed[c] < MaxLines[c]
      /\ Update(c, r)
      /\ InRoom(r)
      /\ typed' = [typed EXCEPT ![c] = @ + 1]
      /\ sent'  = sent \cup {[dst |-> t, line |-> x] : t \in Server}
      /\ inbox' = [inbox EXCEPT ![c] = Append(@, x)]
      /\ UNCHANGED <<gone, lost, told>>

ClientMsg(c) ==
  LET r == Mine(c)
      x == [addr |-> c, n |-> typed[c] + 1, room |-> r.room, nick |-> r.nick]
  IN  /\ typed[c] < MaxLines[c]
      /\ Update(c, r)
      /\ IF InRoom(r)
           THEN /\ typed' = [typed EXCEPT ![c] = @ + 1]
                /\ sent'  = sent \cup {[dst |-> t, line |-> x] : t \in Server}
           ELSE UNCHANGED <<typed, sent>>
      /\ UNCHANGED <<gone, lost, inbox, told>>

(***************************************************************************)
(* Deliver: the loop over clients_, one datagram per record in the room.   *)
(***************************************************************************)
\* Faulty: the loop ends with the first record in the room.
CopiesFirst(s, x) ==
  [c \in Client |->
     LET inRoom == {i \in DOMAIN clients[s] : clients[s][i].room = x.room}
     IN  IF \E i \in inRoom : clients[s][i].addr = c /\ \A j \in inRoom : i <= j
           THEN <<x>> ELSE <<>>]

Copies(s, x) ==
  [c \in Client |->
     LET due == {i \in DOMAIN clients[s] :
                   clients[s][i].addr = c /\ clients[s][i].room = x.room}
     IN  [i \in 1 .. Cardinality(due) |-> x]]

UnorderedDeliver(s, x) ==
  inbox' = [c \in Client |-> inbox[c] \o Copies(s, x)[c]]

Recv(s) ==
  \E d \in InFlight :
    /\ d.dst = s
    /\ gone' = gone \cup {d}
    /\ UnorderedDeliver(s, d.line)
    /\ UNCHANGED <<clients, typed, sent, lost, told>>

Lose(d) ==
  /\ gone' = gone \cup {d}
  /\ lost' = lost \cup {d}
  /\ UNCHANGED <<clients, typed, sent, inbox, told>>

Command(c) ==
  \/ \E g \in Room \cup {0} : Join(c, g)
  \/ \E m \in Nick[c] : SetNick(c, m)
  \/ EmptyNick(c)
  \/ Part(c)
  \/ Quit(c)
  \/ BadCommand(c)

Next ==
  \/ \E c \in Client : Command(c) \/ ClientMsg(c)
  \/ \E s \in Server : Recv(s)
  \/ \E d \in InFlight : Lose(d)

(***************************************************************************)
(* Every server keeps running its receive loop, and only so many lines are *)
(* typed: a datagram that is not lost is received.                         *)
(***************************************************************************)
Fairness == \A s \in Server : WF_vars(Recv(s))

Spec == Init /\ [][Next]_vars /\ Fairness

-----------------------------------------------------------------------------
(***************************************************************************)
(* Type invariant.                                                         *)
(***************************************************************************)
TypeOK ==
  /\ clients \in [Server -> Seq(Record)]
  /\ typed   \in [Client -> Nat]
  /\ sent    \subseteq Datagram
  /\ gone    \subseteq sent
  /\ lost    \subseteq gone
  /\ inbox   \in [Client -> Seq(Line)]
  /\ told    \in [Client -> Room \cup {NoRoom}]

(***************************************************************************)
(* A server has at most one record of a client, at the client's server     *)
(* only.  GetClientIndex and Deliver depend on it, and so does Quit: the   *)
(* reference it gives std::remove refers to another record while           *)
(* std::remove still compares with it.                                     *)
(***************************************************************************)
OneRecordEach ==
  \A s \in Server : \A i, j \in DOMAIN clients[s] :
    /\ Home[clients[s][i].addr] = s
    /\ clients[s][i].addr = clients[s][j].addr => i = j

RoomOf(c) ==
  LET t == clients[Home[c]]
  IN  IF Known(t, c) /\ InRoom(t[Index(t, c)]) THEN t[Index(t, c)].room ELSE NoRoom

(***************************************************************************)
(* The answers keep a client informed: the room it must believe to be in,  *)
(* from the answers to /join and /part and from its own /quit, is the room *)
(* its server has it in.                                                   *)
(***************************************************************************)
ToldTheTruth == \A c \in Client : told[c] = RoomOf(c)

(***************************************************************************)
(* Without duplicates on the network, a client receives no line twice,     *)
(* whatever it joins, parts and quits in between.                          *)
(***************************************************************************)
AtMostOnce ==
  \A c \in Client : \A i, j \in DOMAIN inbox[c] :
    /\ inbox[c][i].addr = inbox[c][j].addr
    /\ inbox[c][i].n = inbox[c][j].n
    => i = j

RecordsOf(t, c) == {t[i] : i \in {j \in DOMAIN t : t[j].addr = c}}

(***************************************************************************)
(* A client's datagram changes no record but its own: the others keep      *)
(* their room and nick through the joins and quits of their neighbours in  *)
(* the vector.                                                             *)
(***************************************************************************)
OthersUntouched ==
  [][\A c \in Client : Command(c) \/ ClientMsg(c) =>
       \A s \in Server, d \in Client \ {c} :
         RecordsOf(clients'[s], d) = RecordsOf(clients[s], d)]_vars

Received(c, x) == \E i \in DOMAIN inbox[c] : inbox[c][i] = x

(***************************************************************************)
(* A line on its way to a server reaches each client the server has in the *)
(* room, unless the network loses it or the client leaves first.           *)
(***************************************************************************)
EventuallyReceived ==
  \A c, d \in Client, g \in Room :
    \A m \in Nick[c] \cup {c}, n \in 1 .. MaxLines[c] :
    LET x    == [addr |-> c, n |-> n, room |-> g, nick |-> m]
        toMe == [dst |-> Home[d], line |-> x]
    IN  toMe \in InFlight /\ RoomOf(d) = g
          ~> Received(d, x) \/ toMe \in lost \/ RoomOf(d) # g
=============================================================================
