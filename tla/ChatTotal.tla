----------------------------- MODULE ChatTotal ------------------------------
(***************************************************************************)
(* The chat server in total-order mode: ServerNode with order_ TOTAL, the  *)
(* class TotalOrder it keeps, and the network between the servers.         *)
(*                                                                         *)
(* A line typed by a client is multicast as NORMAL.  Every server answers  *)
(* with a PROPOSE carrying a number; the server the line came from takes   *)
(* the maximum of all proposals and multicasts it as DELIVER.  A server    *)
(* holds a message back until every message in front of it is deliverable  *)
(* too.                                                                    *)
(*                                                                         *)
(* A ServerNode is one thread that handles one datagram at a time, so a    *)
(* handler is one action.  The network reorders datagrams without limit    *)
(* and may lose them, as test/proxy.cc does; it does not duplicate them.   *)
(***************************************************************************)
EXTENDS ChatBase

CONSTANTS
  Garbage,  \* what an uninitialised Message::seq may hold
  MaxId     \* bound: how many lines each server accepts from its clients

ASSUME GarbageAssumption == Garbage \subseteq Int /\ Garbage # {}
ASSUME MaxIdAssumption   == MaxId \in [Server -> Nat]

VARIABLES
  room,    \* room[c]: Client::room_ at c's server
  nextId,  \* nextId[s]: the static counter Client::id of process s
  hbq,     \* hbq[s]: the entries of TotalOrder::hbq_, all rooms together
  Pg,      \* Pg[s][g]: TotalOrder::Pg_
  Ag,      \* Ag[s][g]: TotalOrder::Ag_
  up,      \* up[s]: FALSE once a CHECK_F has failed and aborted process s
  sent,    \* every datagram ever sent between servers
  gone,    \* the datagrams handled or lost
  log,     \* log[s][g]: the messages s passed to Deliver for room g, in order
  inbox    \* inbox[c]: the messages sent to client c, in order

vars == <<room, nextId, hbq, Pg, Ag, up, sent, gone, log, inbox>>

-----------------------------------------------------------------------------
(***************************************************************************)
(* Datagrams and holdback-queue entries.                                   *)
(***************************************************************************)
Normal(s, t, m)     == [type |-> "NORMAL",  src |-> s, dst |-> t, m |-> m]
Propose(s, t, m, n) == [type |-> "PROPOSE", src |-> s, dst |-> t, m |-> m, seq |-> n]
Final(s, t, m, n)   == [type |-> "DELIVER", src |-> s, dst |-> t, m |-> m, seq |-> n]

Datagram ==
  [type : {"NORMAL"}, src : Server, dst : Server, m : MsgId] \cup
  [type : {"PROPOSE", "DELIVER"}, src : Server, dst : Server, m : MsgId, seq : Nat]

InFlight == sent \ gone

(***************************************************************************)
(* Message::status takes the value DELIVERED only between the delivery     *)
(* loop and RemoveDelivered, inside one handler.  The vector `proposed' is *)
(* read through its size and its maximum only; here it is the set of its   *)
(* numbers, each tagged with the server it came from so that equal numbers *)
(* of two servers count twice, as they do in the vector.                   *)
(***************************************************************************)
Entry == [m        : MsgId,
          seq      : Int,
          status   : {"NOTDELIVERABLE", "DELIVERABLE"},
          proposed : SUBSET (Server \X Nat)]

NewEntry(m, n) ==
  [m |-> m, seq |-> n, status |-> "NOTDELIVERABLE", proposed |-> {}]

Mark(e, n, status) ==
  [m |-> e.m, seq |-> n, status |-> status, proposed |-> e.proposed]

(***************************************************************************)
(* Message::operator<: sequence number, then address, then id.             *)
(***************************************************************************)
Less(a, b) ==
  \/ a.seq < b.seq
  \/ /\ a.seq = b.seq
     /\ \/ a.m.addr < b.m.addr
        \/ a.m.addr = b.m.addr /\ a.m.id < b.m.id

Larger(i, j) == IF i < j THEN j ELSE i

(***************************************************************************)
(* TotalOrder::NewProposed: the number returned is above Pg and Ag, and    *)
(* Pg itself is only incremented (see NextPg).                             *)
(***************************************************************************)
\* Faulty: the agreed numbers seen are forgotten.
NewProposedFromPgOnly(s, g) == Pg[s][g] + 1

NewProposed(s, g) == Larger(Pg[s][g], Ag[s][g]) + 1

\* Faulty: the counter runs down.
NextPgDown(s, g)  == [Pg EXCEPT ![s][g] = @ - 1]

NextPg(s, g)      == [Pg EXCEPT ![s][g] = @ + 1]

(***************************************************************************)
(* TotalOrder::GetMsg looks the key up, and CHECK_F aborts the process when *)
(* it is not there.  Every handler calls it but one: the NORMAL of another *)
(* server's message, which is new here.                                    *)
(***************************************************************************)
HasMsg(s, m) == \E e \in hbq[s] : e.m = m

CheckHolds(s, d) == (d.type = "NORMAL" /\ d.src # s) \/ HasMsg(s, d.m)

Replace(q, old, new) == (q \ {old}) \cup {new}

(***************************************************************************)
(* Message::MaxProposed, as the set that holds this one number.            *)
(***************************************************************************)
\* Faulty: the smallest proposal is taken.
MinProposed(props) ==
  {n \in {p[2] : p \in props} : \A p \in props : n <= p[2]}

MaxProposed(props) ==
  {n \in {p[2] : p \in props} : \A p \in props : p[2] <= n}

(***************************************************************************)
(* The delivery loop: with room g's entries sorted, the deliverable ones   *)
(* up to the first that is not, and the order they are delivered in.       *)
(***************************************************************************)
\* Faulty: the loop goes on past an undeliverable message.
ReadyPastHeld(q, g) == {a \in q : a.m.room = g /\ a.status = "DELIVERABLE"}

\* Faulty: the loop stops after one message.
ReadyFirstOnly(q, g) ==
  {a \in q : /\ a.m.room = g
             /\ a.status = "DELIVERABLE"
             /\ \A b \in q : b.m.room = g /\ b # a => Less(a, b)}

\* Faulty: a message of another room holds the queue too.
ReadyAnyRoom(q, g) ==
  {a \in q : /\ a.m.room = g
             /\ a.status = "DELIVERABLE"
             /\ \A b \in q : b.status = "NOTDELIVERABLE" => Less(a, b)}

Ready(q, g) ==
  {a \in q : /\ a.m.room = g
             /\ a.status = "DELIVERABLE"
             /\ \A b \in q : b.m.room = g /\ b.status = "NOTDELIVERABLE" => Less(a, b)}

Sorted(S) ==
  {f \in [1 .. Cardinality(S) -> S] :
     /\ \A i, j \in 1 .. Cardinality(S) : i < j => Less(f[i], f[j])
     /\ \A a \in S : \E i \in 1 .. Cardinality(S) : f[i] = a}

Messages(batch) == [i \in DOMAIN batch |-> batch[i].m]

-----------------------------------------------------------------------------
Init ==
  /\ room   = [c \in Client |-> NoRoom]
  /\ nextId = [s \in Server |-> 0]
  /\ hbq    = [s \in Server |-> {}]
  /\ Pg     = [s \in Server |-> [g \in Room |-> 0]]
  /\ Ag     = [s \in Server |-> [g \in Room |-> 0]]
  /\ up     = [s \in Server |-> TRUE]
  /\ sent   = {}
  /\ gone   = {}
  /\ log    = [s \in Server |-> [g \in Room |-> <<>>]]
  /\ inbox  = [c \in Client |-> <<>>]

protocol == <<nextId, hbq, Pg, Ag, up, sent, gone, log, inbox>>

(***************************************************************************)
(* Client commands.  /join moves a client that is in no room; /part and    *)
(* /quit both leave it in none.  /nick, and the commands answered with an  *)
(* error, change nothing the ordering depends on.                          *)
(***************************************************************************)
Join(c, g) ==
  /\ up[Home[c]]
  /\ room[c] = NoRoom
  /\ room' = [room EXCEPT ![c] = g]
  /\ UNCHANGED protocol

Leave(c) ==
  /\ up[Home[c]]
  /\ room[c] # NoRoom
  /\ room' = [room EXCEPT ![c] = NoRoom]
  /\ UNCHANGED protocol

(***************************************************************************)
(* A line of text from client c.  The server puts the message into its own *)
(* holdback queue at once, with a sequence number nobody has assigned yet, *)
(* and multicasts it to all servers, itself included.                      *)
(***************************************************************************)
\* Faulty: the message is queued when its NORMAL comes back, not at once.
ClientMsgNotQueued(c) ==
  LET s == Home[c]
      m == [addr |-> c, room |-> room[c], id |-> nextId[s]]
  IN  /\ up[s]
      /\ room[c] # NoRoom
      /\ nextId[s] < MaxId[s]
      /\ nextId' = [nextId EXCEPT ![s] = @ + 1]
      /\ sent' = sent \cup {Normal(s, t, m) : t \in Server}
      /\ UNCHANGED <<room, hbq, Pg, Ag, up, gone, log, inbox>>

ClientMsg(c) ==
  LET s == Home[c]
      m == [addr |-> c, room |-> room[c], id |-> nextId[s]]
  IN  /\ up[s]
      /\ room[c] # NoRoom
      /\ nextId[s] < MaxId[s]
      /\ nextId' = [nextId EXCEPT ![s] = @ + 1]
      /\ \E junk \in Garbage :
            hbq' = [hbq EXCEPT ![s] = @ \cup {NewEntry(m, junk)}]
      /\ sent' = sent \cup {Normal(s, t, m) : t \in Server}
      /\ UNCHANGED <<room, Pg, Ag, up, gone, log, inbox>>

(***************************************************************************)
(* NORMAL: propose a number.  A message of another server is queued, the   *)
(* server's own is already in the queue and gets its number.               *)
(***************************************************************************)
RecvNormal(s, d) ==
  /\ d.type = "NORMAL"
  /\ LET g == d.m.room
         n == NewProposed(s, g)
     IN  /\ Pg' = NextPg(s, g)
         /\ sent' = sent \cup {Propose(s, d.src, d.m, n)}
         /\ \/ /\ d.src # s
               /\ hbq' = [hbq EXCEPT ![s] = @ \cup {NewEntry(d.m, n)}]
            \/ /\ d.src = s
               /\ \E e \in hbq[s] :
                     /\ e.m = d.m
                     /\ hbq' = [hbq EXCEPT ![s] = Replace(@, e,
                                     Mark(e, n, "NOTDELIVERABLE"))]
  /\ UNCHANGED <<room, nextId, Ag, up, log, inbox>>

(***************************************************************************)
(* PROPOSE: collect the number; when there are as many as servers, the     *)
(* largest becomes the agreed number and is multicast.                     *)
(***************************************************************************)
RecvPropose(s, d) ==
  /\ d.type = "PROPOSE"
  /\ \E e \in hbq[s] :
        LET props == e.proposed \cup {<<d.src, d.seq>>}
        IN  /\ e.m = d.m
            /\ hbq' = [hbq EXCEPT ![s] = Replace(@, e, [e EXCEPT !.proposed = props])]
            /\ IF Cardinality(props) = Cardinality(Server)
               THEN \E n \in MaxProposed(props) :
                       sent' = sent \cup {Final(s, t, d.m, n) : t \in Server}
               ELSE sent' = sent
  /\ UNCHANGED <<room, nextId, Pg, Ag, up, log, inbox>>

(***************************************************************************)
(* DELIVER: the message takes its agreed number, the agreed number of the  *)
(* room is raised, the room's queue is sorted, and the deliverable         *)
(* messages at its front are sent to the clients of the room and removed.  *)
(***************************************************************************)
RecvFinal(s, d) ==
  /\ d.type = "DELIVER"
  /\ \E e \in hbq[s] :
        LET g == d.m.room
            q == Replace(hbq[s], e, Mark(e, d.seq, "DELIVERABLE"))
            ready == Ready(q, g)
        IN  /\ e.m = d.m
            /\ Ag' = [Ag EXCEPT ![s][g] = Larger(@, d.seq)]
            /\ hbq' = [hbq EXCEPT ![s] = q \ ready]
            /\ \E batch \in Sorted(ready) :
                 /\ log' = [log EXCEPT ![s][g] = @ \o Messages(batch)]
                 /\ inbox' = [c \in Client |->
                      IF Home[c] = s /\ room[c] = g
                      THEN inbox[c] \o Messages(batch)
                      ELSE inbox[c]]
  /\ UNCHANGED <<room, nextId, Pg, up, sent>>

(***************************************************************************)
(* The receive loop of server s: one datagram, handled to the end, unless  *)
(* the message it names is not in the queue and the process aborts.        *)
(***************************************************************************)
Abort(s) ==
  /\ up' = [up EXCEPT ![s] = FALSE]
  /\ UNCHANGED <<room, nextId, hbq, Pg, Ag, sent, log, inbox>>

Recv(s) ==
  /\ up[s]
  /\ \E d \in InFlight :
        /\ d.dst = s
        /\ gone' = gone \cup {d}
        /\ IF CheckHolds(s, d)
           THEN RecvNormal(s, d) \/ RecvPropose(s, d) \/ RecvFinal(s, d)
           ELSE Abort(s)

(***************************************************************************)
(* A datagram that never arrives.                                          *)
(***************************************************************************)
Lose(d) ==
  /\ gone' = gone \cup {d}
  /\ UNCHANGED <<room, nextId, hbq, Pg, Ag, up, sent, log, inbox>>

ReliableNext ==
  \/ \E c \in Client : \E g \in Room : Join(c, g)
  \/ \E c \in Client : Leave(c) \/ ClientMsg(c)
  \/ \E s \in Server : Recv(s)

Next ==
  \/ ReliableNext
  \/ \E d \in InFlight : Lose(d)

Spec == Init /\ [][Next]_vars

(***************************************************************************)
(* Without losses, every server keeps running its receive loop.            *)
(***************************************************************************)
ReliableSpec ==
  /\ Init
  /\ [][ReliableNext]_vars
  /\ \A s \in Server : WF_vars(Recv(s))

-----------------------------------------------------------------------------
(***************************************************************************)
(* Type invariant.                                                         *)
(***************************************************************************)
TypeOK ==
  /\ room   \in [Client -> Room \cup {NoRoom}]
  /\ nextId \in [Server -> Nat]
  /\ hbq    \in [Server -> SUBSET Entry]
  /\ \A s \in Server : IsFiniteSet(hbq[s])
  /\ Pg     \in [Server -> [Room -> Nat]]
  /\ Ag     \in [Server -> [Room -> Nat]]
  /\ up     \in [Server -> BOOLEAN]
  /\ sent   \subseteq Datagram
  /\ gone   \subseteq sent
  /\ log    \in [Server -> [Room -> Seq(MsgId)]]
  /\ inbox  \in [Client -> Seq(MsgId)]

(***************************************************************************)
(* The CHECK_F of TotalOrder::GetMsg never fails: however datagrams are    *)
(* reordered or lost, a server never receives a proposal, an agreed number *)
(* or its own line for a message that is not in its queue.                 *)
(***************************************************************************)
NoCheckFails == \A s \in Server : up[s]

(***************************************************************************)
(* What test/stresstest.cc checks of a TOTAL run: two clients that both    *)
(* received two lines of a room received them in the same order, whatever  *)
(* servers they use and however often they left and came back.  With both  *)
(* clients the same, no line is received twice.                            *)
(***************************************************************************)
SameOrder ==
  \A c1, c2 \in Client :
    \A i, j \in DOMAIN inbox[c1], k, l \in DOMAIN inbox[c2] :
      /\ i < j
      /\ inbox[c1][i] = inbox[c2][k]
      /\ inbox[c1][j] = inbox[c2][l]
      /\ inbox[c1][i].room = inbox[c1][j].room
      => k < l

(***************************************************************************)
(* A message that is deliverable is normally gone when the handler that    *)
(* made it so returns.  One that is kept waits for a line of its own room, *)
(* whatever is lost in other rooms, and for one in front of it.  The one   *)
(* exception comes from the entry a server queues before it has a number:  *)
(* it may block the queue with whatever number it holds, and when it gets  *)
(* its real one the queue is not walked.  So a message that is not behind  *)
(* the line it waits for waits for a line of the server's own clients.     *)
(***************************************************************************)
HeldByItsRoom ==
  \A s \in Server : \A a \in hbq[s] :
    a.status = "DELIVERABLE" =>
      \E b \in hbq[s] : /\ b.m.room = a.m.room
                        /\ b.status = "NOTDELIVERABLE"
                        /\ Less(b, a) \/ Home[b.m.addr] = s

(***************************************************************************)
(* The service: atomic broadcast per room, a line being broadcast when its *)
(* NORMAL is multicast and delivered by a server when it calls Deliver.    *)
(***************************************************************************)
Cast == {d.m : d \in {e \in sent : e.type = "NORMAL"}}

Broadcast == INSTANCE TotalOrderBroadcast WITH Message <- MsgId, cast <- Cast

ImplementsBroadcast == Broadcast!Spec

(***************************************************************************)
(* Without losses, every line a server accepts from a client is delivered  *)
(* by every server of the group.                                           *)
(***************************************************************************)
EventuallyDelivered ==
  \A s \in Server, c \in Client, g \in Room :
    \A i \in 0 .. MaxId[Home[c]] - 1 :
    LET m == [addr |-> c, room |-> g, id |-> i]
    IN  m \in Cast ~> \E k \in DOMAIN log[s][g] : log[s][g][k] = m
=============================================================================
