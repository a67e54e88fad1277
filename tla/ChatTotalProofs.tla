-------------------------- MODULE ChatTotalProofs ---------------------------
(***************************************************************************)
(* Machine-checked proofs about the chat server in total-order mode, for   *)
(* any number of servers, clients and rooms, any value of an uninitialised *)
(* sequence number, and any reordering and loss of datagrams.              *)
(***************************************************************************)
EXTENDS ChatTotalInv, FiniteSetTheorems, SequenceTheorems, TLAPS

-----------------------------------------------------------------------------
(***************************************************************************)
(* Facts about the operators.                                              *)
(***************************************************************************)

LEMMA MsgIdType ==
  ASSUME NEW m \in MsgId
  PROVE  /\ m.addr \in Client /\ m.addr \in Nat /\ m.id \in Nat /\ m.room \in Room
         /\ Origin(m) \in Server
BY ClientAssumption, HomeAssumption DEF MsgId, Origin

LEMMA MsgIdEqual ==
  ASSUME NEW m \in MsgId, NEW n \in MsgId,
         m.addr = n.addr, m.room = n.room, m.id = n.id
  PROVE  m = n
BY DEF MsgId

(* Message::operator< is a strict total order on entries and datagrams of  *)
(* one room that carry a number and name different messages.               *)
LEMMA LessIrreflexive ==
  ASSUME NEW a, a.seq \in Int, a.m \in MsgId
  PROVE  ~Less(a, a)
<1>1. a.m.addr \in Nat /\ a.m.id \in Nat BY MsgIdType
<1> QED BY <1>1 DEF Less

LEMMA LessTransitive ==
  ASSUME NEW a, NEW b, NEW c,
         a.seq \in Int, b.seq \in Int, c.seq \in Int,
         a.m \in MsgId, b.m \in MsgId, c.m \in MsgId,
         Less(a, b), Less(b, c)
  PROVE  Less(a, c)
<1>1. /\ a.m.addr \in Nat /\ a.m.id \in Nat
      /\ b.m.addr \in Nat /\ b.m.id \in Nat
      /\ c.m.addr \in Nat /\ c.m.id \in Nat
  BY MsgIdType
<1> QED BY <1>1 DEF Less

LEMMA LessTotal ==
  ASSUME NEW a, NEW b,
         a.seq \in Int, b.seq \in Int, a.m \in MsgId, b.m \in MsgId,
         a.m.room = b.m.room, a.m # b.m, ~Less(a, b)
  PROVE  Less(b, a)
<1>1. /\ a.m.addr \in Nat /\ a.m.id \in Nat
      /\ b.m.addr \in Nat /\ b.m.id \in Nat
  BY MsgIdType
<1>2. a.m.addr # b.m.addr \/ a.m.id # b.m.id BY MsgIdEqual
<1> QED BY <1>1, <1>2 DEF Less

(* The messages of a delivery batch, in a sequence.                        *)
LEMMA BatchIsSeq ==
  ASSUME NEW S \in SUBSET Entry, IsFiniteSet(S), NEW batch \in Sorted(S)
  PROVE  /\ Cardinality(S) \in Nat
         /\ DOMAIN batch = 1 .. Cardinality(S)
         /\ Messages(batch) \in Seq(MsgId)
         /\ Len(Messages(batch)) = Cardinality(S)
         /\ \A i \in DOMAIN batch : batch[i] \in S /\ Messages(batch)[i] = batch[i].m
         /\ \A i, j \in DOMAIN batch : i < j => Less(batch[i], batch[j])
         /\ \A a \in S : \E i \in DOMAIN batch : batch[i] = a
<1>1. Cardinality(S) \in Nat BY FS_CardinalityType
<1>2. /\ batch \in [1 .. Cardinality(S) -> S]
      /\ \A i, j \in 1 .. Cardinality(S) : i < j => Less(batch[i], batch[j])
      /\ \A a \in S : \E i \in 1 .. Cardinality(S) : batch[i] = a
  BY DEF Sorted
<1>3. DOMAIN batch = 1 .. Cardinality(S) BY <1>2
<1>4. \A i \in 1 .. Cardinality(S) : batch[i] \in S /\ batch[i].m \in MsgId
  BY <1>2 DEF Entry
<1>5. Messages(batch) = [i \in 1 .. Cardinality(S) |-> batch[i].m] BY <1>3 DEF Messages
<1>6. Messages(batch) \in Seq(MsgId) BY <1>1, <1>4, <1>5, IsASeq
<1>7. Len(Messages(batch)) = Cardinality(S) BY <1>1, <1>5, <1>6, LenProperties
<1> QED BY <1>1, <1>2, <1>3, <1>4, <1>5, <1>6, <1>7

LEMMA ReadyFinite ==
  ASSUME NEW q \in SUBSET Entry, IsFiniteSet(q), NEW g
  PROVE  Ready(q, g) \in SUBSET Entry /\ IsFiniteSet(Ready(q, g))
BY FS_Subset DEF Ready

LEMMA LargerType == ASSUME NEW i \in Nat, NEW j \in Nat
                    PROVE  Larger(i, j) \in Nat /\ i <= Larger(i, j) /\ j <= Larger(i, j)
BY DEF Larger

LEMMA MaxProposedType ==
  ASSUME NEW props \in SUBSET (Server \X Nat), NEW n \in MaxProposed(props)
  PROVE  /\ n \in Nat
         /\ \E p \in props : p[2] = n
         /\ \A p \in props : p[2] <= n
<1>1. /\ \E p \in props : p[2] = n
      /\ \A p \in props : p[2] <= n
  BY DEF MaxProposed
<1>2. \A p \in props : p[2] \in Nat OBVIOUS
<1> QED BY <1>1, <1>2

LEMMA ReplaceType ==
  ASSUME NEW q \in SUBSET Entry, IsFiniteSet(q), NEW old, NEW new \in Entry
  PROVE  Replace(q, old, new) \in SUBSET Entry /\ IsFiniteSet(Replace(q, old, new))
<1>1. IsFiniteSet(q \ {old}) BY FS_RemoveElement
<1>2. IsFiniteSet((q \ {old}) \cup {new}) BY <1>1, FS_AddElement
<1> QED BY <1>2 DEF Replace

(***************************************************************************)
(* Type correctness.                                                       *)
(***************************************************************************)

LEMMA DatagramTypes ==
  ASSUME NEW s \in Server, NEW t \in Server, NEW m \in MsgId, NEW n \in Nat
  PROVE  /\ Normal(s, t, m) \in Datagram
         /\ Propose(s, t, m, n) \in Datagram
         /\ Final(s, t, m, n) \in Datagram
BY DEF Normal, Propose, Final, Datagram

LEMMA DatagramFields ==
  ASSUME NEW d \in Datagram
  PROVE  /\ d.type \in {"NORMAL", "PROPOSE", "DELIVER"}
         /\ d.src \in Server /\ d.dst \in Server /\ d.m \in MsgId
         /\ d.type # "NORMAL" => d.seq \in Nat
BY DEF Datagram

LEMMA TypeInit == Init => TypeOK
<1> SUFFICES ASSUME Init PROVE TypeOK OBVIOUS
<1>1. IsFiniteSet({}) BY FS_EmptySet
<1>2. log \in [Server -> [Room -> Seq(MsgId)]] BY DEF Init
<1>3. inbox \in [Client -> Seq(MsgId)] BY DEF Init
<1> QED BY <1>1, <1>2, <1>3 DEF Init, TypeOK, NoRoom

LEMMA JoinType ==
  ASSUME TypeOK, NEW c \in Client, NEW g \in Room, Join(c, g)
  PROVE  TypeOK'
BY DEF TypeOK, Join, protocol

LEMMA LeaveType ==
  ASSUME TypeOK, NEW c \in Client, Leave(c)
  PROVE  TypeOK'
BY DEF TypeOK, Leave, protocol

LEMMA ClientMsgType ==
  ASSUME TypeOK, NEW c \in Client, ClientMsg(c)
  PROVE  TypeOK'
<1> DEFINE s == Home[c]
           m == [addr |-> c, room |-> room[c], id |-> nextId[s]]
<1>1. s \in Server BY HomeAssumption
<1>2. m \in MsgId BY <1>1 DEF ClientMsg, TypeOK, MsgId
<1>3. PICK junk \in Garbage : hbq' = [hbq EXCEPT ![s] = @ \cup {NewEntry(m, junk)}]
  BY DEF ClientMsg
<1>4. NewEntry(m, junk) \in Entry
  BY <1>2, GarbageAssumption DEF NewEntry, Entry
<1>5. /\ hbq' \in [Server -> SUBSET Entry]
      /\ \A t \in Server : IsFiniteSet(hbq'[t])
  <2>1. IsFiniteSet(hbq[s] \cup {NewEntry(m, junk)}) BY <1>1, FS_AddElement DEF TypeOK
  <2> QED BY <2>1, <1>1, <1>3, <1>4 DEF TypeOK
<1>6. sent' \subseteq Datagram
  <2>1. \A t \in Server : Normal(s, t, m) \in Datagram BY <1>1, <1>2, DatagramTypes
  <2> QED BY <2>1 DEF ClientMsg, TypeOK
<1>7. nextId' \in [Server -> Nat] BY <1>1 DEF ClientMsg, TypeOK
<1> QED BY <1>5, <1>6, <1>7 DEF ClientMsg, TypeOK

LEMMA NewProposedType ==
  ASSUME TypeOK, NEW s \in Server, NEW g \in Room
  PROVE  /\ NewProposed(s, g) \in Nat
         /\ Ag[s][g] \in Nat /\ Ag[s][g] < NewProposed(s, g)
<1>1. Pg[s] \in [Room -> Nat] /\ Ag[s] \in [Room -> Nat] BY DEF TypeOK
<1>2. Pg[s][g] \in Nat /\ Ag[s][g] \in Nat BY <1>1
<1>3. Larger(Pg[s][g], Ag[s][g]) \in Nat /\ Ag[s][g] <= Larger(Pg[s][g], Ag[s][g])
  BY <1>2, LargerType
<1> QED BY <1>2, <1>3 DEF NewProposed

(* What every handler is given: a datagram in flight to s.                 *)
LEMMA NormalType ==
  ASSUME TypeOK, NEW s \in Server, NEW d \in sent, d.dst = s, gone' = gone \cup {d},
         RecvNormal(s, d)
  PROVE  TypeOK'
<1>1. d \in Datagram /\ d.m \in MsgId /\ d.src \in Server
  BY DatagramFields DEF TypeOK
<1> DEFINE g == d.m.room
           n == NewProposed(s, g)
<1>2. g \in Room BY <1>1, MsgIdType
<1>3. n \in Nat BY <1>2, NewProposedType
<1> HIDE DEF g, n
<1>4. Pg' \in [Server -> [Room -> Nat]]
  <2>1. Pg' = [Pg EXCEPT ![s][g] = @ + 1] BY DEF RecvNormal, NextPg, g
  <2> QED BY <2>1, <1>2 DEF TypeOK
<1>5. sent' \subseteq Datagram /\ sent \subseteq sent'
  <2>1. Propose(s, d.src, d.m, n) \in Datagram BY <1>1, <1>3, DatagramTypes
  <2> QED BY <2>1 DEF RecvNormal, TypeOK, g, n
<1>6. /\ hbq' \in [Server -> SUBSET Entry]
      /\ \A t \in Server : IsFiniteSet(hbq'[t])
  <2>1. CASE d.src # s
    <3>1. NewEntry(d.m, n) \in Entry BY <1>1, <1>3 DEF NewEntry, Entry
    <3>2. hbq' = [hbq EXCEPT ![s] = @ \cup {NewEntry(d.m, n)}]
      BY <2>1 DEF RecvNormal, g, n
    <3>3. IsFiniteSet(hbq[s] \cup {NewEntry(d.m, n)}) BY FS_AddElement DEF TypeOK
    <3> QED BY <3>1, <3>2, <3>3 DEF TypeOK
  <2>2. CASE d.src = s
    <3>1. PICK e \in hbq[s] : hbq' = [hbq EXCEPT ![s] = Replace(@, e,
                 Mark(e, n, "NOTDELIVERABLE"))]
      BY <2>2 DEF RecvNormal, g, n
    <3>2. e \in Entry BY DEF TypeOK
    <3>3. Mark(e, n, "NOTDELIVERABLE") \in Entry
      BY <3>2, <1>3 DEF Entry, Mark
    <3>4. /\ Replace(hbq[s], e, Mark(e, n, "NOTDELIVERABLE")) \in SUBSET Entry
          /\ IsFiniteSet(Replace(hbq[s], e, Mark(e, n, "NOTDELIVERABLE")))
      BY <3>3, ReplaceType DEF TypeOK
    <3> QED BY <3>1, <3>4 DEF TypeOK
  <2> QED BY <2>1, <2>2
<1>7. UNCHANGED <<room, nextId, Ag, up, log, inbox>> BY DEF RecvNormal
<1> QED BY <1>4, <1>5, <1>6, <1>7 DEF TypeOK

(* What a PROPOSE does: to the entry of its message, and to the network    *)
(* when it was the last one.                                               *)
Props(e, d)      == e.proposed \cup {<<d.src, d.seq>>}
Collected(e, d)  == [e EXCEPT !.proposed = Props(e, d)]
Finals(s, m, n)  == {Final(s, t, m, n) : t \in Server}

LEMMA ProposeStep ==
  ASSUME NEW s \in Server, NEW d \in sent, RecvPropose(s, d)
  PROVE  \E e \in hbq[s] :
           /\ e.m = d.m
           /\ hbq' = [hbq EXCEPT ![s] = Replace(@, e, Collected(e, d))]
           /\ \/ sent' = sent
              \/ /\ Cardinality(Props(e, d)) = Cardinality(Server)
                 /\ \E n \in MaxProposed(Props(e, d)) :
                       sent' = sent \cup Finals(s, d.m, n)
BY DEF RecvPropose, Props, Collected, Finals

LEMMA ProposeType ==
  ASSUME TypeOK, NEW s \in Server, NEW d \in sent, d.dst = s, gone' = gone \cup {d},
         RecvPropose(s, d)
  PROVE  TypeOK'
<1>1. d \in Datagram /\ d.m \in MsgId /\ d.src \in Server /\ d.seq \in Nat
  BY DatagramFields DEF TypeOK, RecvPropose
<1>2. PICK e \in hbq[s] :
        /\ hbq' = [hbq EXCEPT ![s] = Replace(@, e, Collected(e, d))]
        /\ \/ sent' = sent
           \/ \E n \in MaxProposed(Props(e, d)) : sent' = sent \cup Finals(s, d.m, n)
  BY ProposeStep
<1>3. e \in Entry BY DEF TypeOK
<1>4. Props(e, d) \in SUBSET (Server \X Nat) BY <1>1, <1>3 DEF Entry, Props
<1>5. Collected(e, d) \in Entry BY <1>3, <1>4 DEF Entry, Collected
<1>6. /\ Replace(hbq[s], e, Collected(e, d)) \in SUBSET Entry
      /\ IsFiniteSet(Replace(hbq[s], e, Collected(e, d)))
  BY <1>5, ReplaceType DEF TypeOK
<1>7. sent' \subseteq Datagram /\ sent \subseteq sent'
  <2>1. \A n \in MaxProposed(Props(e, d)) : n \in Nat BY <1>4, MaxProposedType
  <2>2. \A n \in Nat : Finals(s, d.m, n) \subseteq Datagram
    BY <1>1, DatagramTypes DEF Finals
  <2> QED BY <1>2, <2>1, <2>2 DEF TypeOK
<1>8. /\ hbq' \in [Server -> SUBSET Entry]
      /\ \A t \in Server : IsFiniteSet(hbq'[t])
  BY <1>2, <1>6 DEF TypeOK
<1>9. UNCHANGED <<room, nextId, Pg, Ag, up, log, inbox>> BY DEF RecvPropose
<1> QED BY <1>7, <1>8, <1>9 DEF TypeOK

(* What a DELIVER does: the updated queue, the deliverable messages at its *)
(* front, and the order in which they are delivered.                       *)
Updated(s, d, e) == Replace(hbq[s], e, Mark(e, d.seq, "DELIVERABLE"))
Front(s, d, e)   == Ready(Updated(s, d, e), d.m.room)

LEMMA FinalStep ==
  ASSUME NEW s \in Server, NEW d \in sent, RecvFinal(s, d)
  PROVE  \E e \in hbq[s] : \E batch \in Sorted(Front(s, d, e)) :
           /\ e.m = d.m
           /\ Ag' = [Ag EXCEPT ![s][d.m.room] = Larger(@, d.seq)]
           /\ hbq' = [hbq EXCEPT ![s] = Updated(s, d, e) \ Front(s, d, e)]
           /\ log' = [log EXCEPT ![s][d.m.room] = @ \o Messages(batch)]
           /\ inbox' = [c \in Client |->
                IF Home[c] = s /\ room[c] = d.m.room
                THEN inbox[c] \o Messages(batch)
                ELSE inbox[c]]
BY DEF RecvFinal, Updated, Front

LEMMA FinalType ==
  ASSUME TypeOK, NEW s \in Server, NEW d \in sent, d.dst = s, gone' = gone \cup {d},
         RecvFinal(s, d)
  PROVE  TypeOK'
<1>1. d \in Datagram /\ d.m \in MsgId /\ d.src \in Server /\ d.seq \in Nat
  BY DatagramFields DEF TypeOK, RecvFinal
<1> DEFINE g == d.m.room
<1>2. g \in Room BY <1>1, MsgIdType
<1>3. PICK e \in hbq[s] : \E batch \in Sorted(Front(s, d, e)) :
           /\ e.m = d.m
           /\ Ag' = [Ag EXCEPT ![s][d.m.room] = Larger(@, d.seq)]
           /\ hbq' = [hbq EXCEPT ![s] = Updated(s, d, e) \ Front(s, d, e)]
           /\ log' = [log EXCEPT ![s][d.m.room] = @ \o Messages(batch)]
           /\ inbox' = [c \in Client |->
                IF Home[c] = s /\ room[c] = d.m.room
                THEN inbox[c] \o Messages(batch)
                ELSE inbox[c]]
  BY FinalStep
<1>4. e \in Entry BY DEF TypeOK
<1> DEFINE q == Updated(s, d, e)
           ready == Front(s, d, e)
<1>5. q \in SUBSET Entry /\ IsFiniteSet(q)
  <2>1. Mark(e, d.seq, "DELIVERABLE") \in Entry BY <1>1, <1>4 DEF Mark, Entry
  <2> QED BY <2>1, ReplaceType DEF TypeOK, Updated
<1>6. ready \in SUBSET Entry /\ IsFiniteSet(ready) BY <1>5, ReadyFinite DEF Front
<1> HIDE DEF q, ready
<1>7. PICK batch \in Sorted(ready) :
        /\ Ag' = [Ag EXCEPT ![s][g] = Larger(@, d.seq)]
        /\ hbq' = [hbq EXCEPT ![s] = q \ ready]
        /\ log' = [log EXCEPT ![s][g] = @ \o Messages(batch)]
        /\ inbox' = [c \in Client |->
             IF Home[c] = s /\ room[c] = g
             THEN inbox[c] \o Messages(batch)
             ELSE inbox[c]]
  BY <1>3 DEF q, ready
<1>8. Messages(batch) \in Seq(MsgId) BY <1>6, <1>7, BatchIsSeq
<1>9. log' \in [Server -> [Room -> Seq(MsgId)]]
  <2>1. log[s][g] \o Messages(batch) \in Seq(MsgId)
    BY <1>2, <1>8, ConcatProperties DEF TypeOK
  <2> QED BY <1>2, <1>7, <2>1 DEF TypeOK
<1>10. inbox' \in [Client -> Seq(MsgId)]
  <2>1. \A c \in Client : inbox[c] \o Messages(batch) \in Seq(MsgId)
    BY <1>8, ConcatProperties DEF TypeOK
  <2> QED BY <1>7, <2>1 DEF TypeOK
<1>11. Ag' \in [Server -> [Room -> Nat]]
  <2>1. Larger(Ag[s][g], d.seq) \in Nat BY <1>1, <1>2, LargerType DEF TypeOK
  <2> QED BY <1>2, <1>7, <2>1 DEF TypeOK
<1>12. /\ hbq' \in [Server -> SUBSET Entry]
       /\ \A t \in Server : IsFiniteSet(hbq'[t])
  <2>1. q \ ready \in SUBSET Entry /\ IsFiniteSet(q \ ready) BY <1>5, FS_Subset
  <2> QED BY <1>7, <2>1 DEF TypeOK
<1>13. UNCHANGED <<room, nextId, Pg, up, sent>> BY DEF RecvFinal
<1> QED BY <1>9, <1>10, <1>11, <1>12, <1>13 DEF TypeOK

LEMMA AbortType ==
  ASSUME TypeOK, NEW s \in Server, NEW d \in sent, gone' = gone \cup {d}, Abort(s)
  PROVE  TypeOK'
BY DEF TypeOK, Abort

LEMMA LoseType ==
  ASSUME TypeOK, NEW d \in sent, Lose(d)
  PROVE  TypeOK'
BY DEF TypeOK, Lose

LEMMA TypeStep == TypeOK /\ [Next]_vars => TypeOK'
<1> SUFFICES ASSUME TypeOK, [Next]_vars PROVE TypeOK' OBVIOUS
<1>1. ASSUME NEW c \in Client, NEW g \in Room, Join(c, g) PROVE TypeOK'
  BY <1>1, JoinType
<1>2. ASSUME NEW c \in Client, Leave(c) PROVE TypeOK' BY <1>2, LeaveType
<1>3. ASSUME NEW c \in Client, ClientMsg(c) PROVE TypeOK' BY <1>3, ClientMsgType
<1>4. ASSUME NEW s \in Server, Recv(s) PROVE TypeOK'
  <2>1. PICK d \in InFlight :
          /\ d.dst = s
          /\ gone' = gone \cup {d}
          /\ RecvNormal(s, d) \/ RecvPropose(s, d) \/ RecvFinal(s, d) \/ Abort(s)
    BY <1>4 DEF Recv
  <2>2. d \in sent BY DEF InFlight
  <2> QED BY <2>1, <2>2, NormalType, ProposeType, FinalType, AbortType
<1>5. ASSUME NEW d \in InFlight, Lose(d) PROVE TypeOK'
  BY <1>5, LoseType DEF InFlight
<1>6. CASE UNCHANGED vars BY <1>6 DEF vars, TypeOK
<1> QED BY <1>1, <1>2, <1>3, <1>4, <1>5, <1>6 DEF Next, ReliableNext

(* The variables keep their types, however datagrams are reordered or lost:*)
(* in particular the numbers a server proposes are natural numbers.        *)
THEOREM TypeCorrect == Spec => []TypeOK
<1>1. Init => TypeOK BY TypeInit
<1>2. TypeOK /\ [Next]_vars => TypeOK' BY TypeStep
<1> QED BY <1>1, <1>2, PTL DEF Spec

-----------------------------------------------------------------------------
(***************************************************************************)
(* Consequences of the invariant.                                          *)
(***************************************************************************)

(* An agreed number implies every server's proposal.                       *)
LEMMA FinalImpliesProposed ==
  ASSUME TypeOK, FinalInv, NEW s \in Server, NEW f \in sent, f.type = "DELIVER"
  PROVE  HasProposed(s, f.m)
BY DEF TypeOK, FinalInv, HasProposed

(* A server that has proposed a number, or multicast the message, has it.  *)
LEMMA ProposedImpliesKept ==
  ASSUME KeptInv, NEW s \in Server, NEW m, HasProposed(s, m)
  PROVE  HasMsg(s, m) \/ InLog(s, m)
BY DEF KeptInv, HasProposed

LEMMA LoggedIsAgreed ==
  ASSUME TypeOK, LogInv, NEW s \in Server, NEW m \in MsgId, InLog(s, m)
  PROVE  /\ ~HasMsg(s, m)
         /\ \E f \in gone : /\ f.type = "DELIVER" /\ f.m = m /\ f.dst = s
                            /\ f.seq <= Ag[s][m.room]
<1>1. m.room \in Room BY MsgIdType
<1>2. PICK i \in DOMAIN log[s][m.room] : log[s][m.room][i] = m BY DEF InLog
<1> QED BY <1>1, <1>2 DEF LogInv

(* The server that receives a NORMAL has not proposed a number yet.        *)
LEMMA NormalNotProposed ==
  ASSUME TypeOK, NormalInv, ProposeInv,
         NEW d \in InFlight, d.type = "NORMAL"
  PROVE  ~HasProposed(d.dst, d.m)
<1> SUFFICES ASSUME HasProposed(d.dst, d.m) PROVE FALSE OBVIOUS
<1>1. PICK p \in sent : p.type = "PROPOSE" /\ p.m = d.m /\ p.src = d.dst
  BY DEF HasProposed
<1>2. PICK e \in gone : e.type = "NORMAL" /\ e.m = d.m /\ e.dst = d.dst
  BY <1>1 DEF ProposeInv
<1>3. e = d BY <1>2 DEF NormalInv, InFlight, TypeOK
<1> QED BY <1>2, <1>3 DEF InFlight

(* While a proposal is under way no number has been agreed.                *)
LEMMA ProposeNotFinal ==
  ASSUME TypeOK, ProposeInv, FinalInv,
         NEW d \in InFlight, d.type = "PROPOSE",
         NEW f \in sent, f.type = "DELIVER", f.m = d.m
  PROVE  FALSE
<1>1. d \in sent /\ d \notin gone BY DEF InFlight
<1>2. d.src \in Server BY <1>1, DatagramFields DEF TypeOK
<1>3. PICK p \in gone : p.type = "PROPOSE" /\ p.m = d.m /\ p.src = d.src
  BY <1>2 DEF FinalInv
<1>4. p = d BY <1>1, <1>3 DEF ProposeInv, TypeOK
<1> QED BY <1>1, <1>3, <1>4

(* While a DELIVER is under way to a server it has not logged the message. *)
LEMMA FinalNotLogged ==
  ASSUME TypeOK, FinalInv, LogInv,
         NEW d \in InFlight, d.type = "DELIVER"
  PROVE  ~InLog(d.dst, d.m)
<1> SUFFICES ASSUME InLog(d.dst, d.m) PROVE FALSE OBVIOUS
<1>1. d \in sent /\ d \notin gone BY DEF InFlight
<1>2. d.dst \in Server /\ d.m \in MsgId BY <1>1, DatagramFields DEF TypeOK
<1>3. PICK f \in gone : f.type = "DELIVER" /\ f.m = d.m /\ f.dst = d.dst
  BY <1>2, LoggedIsAgreed
<1>4. f = d BY <1>1, <1>3 DEF FinalInv, TypeOK
<1> QED BY <1>1, <1>3, <1>4

(* The CHECK_F holds for every datagram that can arrive.                   *)
LEMMA CheckPasses ==
  ASSUME Inv, NEW s \in Server, NEW d \in InFlight, d.dst = s
  PROVE  CheckHolds(s, d)
<1> USE DEF Inv
<1>1. /\ d \in sent /\ d \notin gone
      /\ d.src \in Server /\ d.m \in MsgId
      /\ d.type \in {"NORMAL", "PROPOSE", "DELIVER"}
  BY DatagramFields DEF InFlight, TypeOK
<1>2. CASE d.type = "NORMAL"
  <2> SUFFICES ASSUME d.src = s PROVE HasMsg(s, d.m) BY <1>2 DEF CheckHolds
  <2>1. HasMsg(s, d.m) \/ InLog(s, d.m) BY <1>1, <1>2 DEF KeptInv
  <2>2. ASSUME InLog(s, d.m) PROVE FALSE
    <3>1. PICK f \in gone : f.type = "DELIVER" /\ f.m = d.m
      BY <1>1, <2>2, LoggedIsAgreed
    <3>2. HasProposed(s, d.m) BY <3>1, FinalImpliesProposed DEF TypeOK
    <3> QED BY <1>2, <3>2, NormalNotProposed
  <2> QED BY <2>1, <2>2
<1>3. CASE d.type = "PROPOSE"
  <2>1. PICK e \in gone : e.type = "NORMAL" /\ e.m = d.m
    BY <1>1, <1>3 DEF ProposeInv
  <2>2. e \in sent /\ e.src = s
    BY <1>1, <1>3, <2>1 DEF ProposeInv, NormalInv, TypeOK
  <2>3. HasMsg(s, d.m) \/ InLog(s, d.m) BY <2>1, <2>2 DEF KeptInv
  <2>4. ASSUME InLog(s, d.m) PROVE FALSE
    <3>1. PICK f \in gone : f.type = "DELIVER" /\ f.m = d.m
      BY <1>1, <2>4, LoggedIsAgreed
    <3> QED BY <1>3, <3>1, ProposeNotFinal DEF TypeOK
  <2> QED BY <2>3, <2>4 DEF CheckHolds
<1>4. CASE d.type = "DELIVER"
  <2>1. HasProposed(s, d.m) BY <1>1, <1>4, FinalImpliesProposed
  <2>2. HasMsg(s, d.m) \/ InLog(s, d.m) BY <2>1, ProposedImpliesKept
  <2> QED BY <1>4, <2>2, FinalNotLogged DEF CheckHolds
<1> QED BY <1>1, <1>2, <1>3, <1>4

-----------------------------------------------------------------------------
(***************************************************************************)
(* The invariant, action by action.                                        *)
(***************************************************************************)

LEMMA InvInit == Init => Inv
<1> SUFFICES ASSUME Init PROVE Inv OBVIOUS
<1>1. TypeOK BY TypeInit
<1>2. NoCheckFails BY DEF Init, NoCheckFails
<1>3. NormalInv /\ ProposeInv /\ FinalInv /\ KeptInv
  BY DEF Init, NormalInv, ProposeInv, FinalInv, KeptInv
<1>4. EntryInv BY DEF Init, EntryInv
<1>5. LogInv
  <2>1. \A s \in Server, g \in Room : log[s][g] = <<>> BY DEF Init
  <2>2. \A s \in Server, g \in Room : DOMAIN log[s][g] = {} BY <2>1
  <2> QED BY <2>2 DEF LogInv
<1>6. InboxInv
  <2>1. \A c \in Client : inbox[c] = <<>> BY DEF Init
  <2>2. \A c \in Client : DOMAIN inbox[c] = {} BY <2>1
  <2> QED BY <2>2 DEF InboxInv
<1> QED BY <1>1, <1>2, <1>3, <1>4, <1>5, <1>6 DEF Inv

(* /join, /part and /quit touch nothing the protocol depends on.           *)
LEMMA RoomStep ==
  ASSUME Inv, TypeOK', UNCHANGED protocol
  PROVE  Inv'
<1> USE DEF protocol
<1>1. NoCheckFails' BY DEF Inv, NoCheckFails
<1>2. NormalInv' BY DEF Inv, NormalInv
<1>3. ProposeInv' BY DEF Inv, ProposeInv
<1>4. FinalInv' BY DEF Inv, FinalInv
<1>5. EntryInv' BY DEF Inv, EntryInv, HasProposed
<1>6. KeptInv' BY DEF Inv, KeptInv, HasMsg, InLog
<1>7. LogInv' BY DEF Inv, LogInv, HasMsg, HasProposed
<1>8. InboxInv' BY DEF Inv, InboxInv, InLog
<1> QED BY <1>1, <1>2, <1>3, <1>4, <1>5, <1>6, <1>7, <1>8 DEF Inv

(* A lost datagram only adds to gone.                                      *)
LEMMA LoseStep ==
  ASSUME Inv, TypeOK', NEW d \in InFlight, Lose(d)
  PROVE  Inv'
<1>1. /\ gone \subseteq gone'
      /\ UNCHANGED <<room, nextId, hbq, Pg, Ag, sent, log, inbox, up>>
  BY DEF Lose
<1>2. NoCheckFails' BY <1>1 DEF Inv, NoCheckFails
<1>3. NormalInv' BY <1>1 DEF Inv, NormalInv
<1>4. ProposeInv' BY <1>1 DEF Inv, ProposeInv
<1>5. FinalInv' BY <1>1 DEF Inv, FinalInv
<1>6. EntryInv' BY <1>1 DEF Inv, EntryInv, HasProposed
<1>7. KeptInv' BY <1>1 DEF Inv, KeptInv, HasMsg, InLog
<1>8. LogInv' BY <1>1 DEF Inv, LogInv, HasMsg, HasProposed
<1>9. InboxInv' BY <1>1 DEF Inv, InboxInv, InLog
<1> QED BY <1>2, <1>3, <1>4, <1>5, <1>6, <1>7, <1>8, <1>9 DEF Inv

(* A key the server has not given out yet appears in no datagram.          *)
LEMMA FreshMsg ==
  ASSUME Inv, NEW m \in MsgId, m.id = nextId[Origin(m)], NEW d \in sent
  PROVE  d.m # m
<1> SUFFICES ASSUME d.m = m PROVE FALSE OBVIOUS
<1> USE DEF Inv
<1>1. Origin(m) \in Server BY MsgIdType
<1>2. nextId[Origin(m)] \in Nat BY <1>1 DEF TypeOK
<1>3. d.type \in {"NORMAL", "PROPOSE", "DELIVER"} BY DatagramFields DEF TypeOK
<1>4. \E e \in sent : e.type = "NORMAL" /\ e.m = m
  <2>1. CASE d.type = "NORMAL" BY <2>1
  <2>2. CASE d.type = "PROPOSE" BY <2>2 DEF ProposeInv, TypeOK
  <2>3. CASE d.type = "DELIVER"
    <3>1. HasProposed(Origin(m), m) BY <1>1, <2>3, FinalImpliesProposed
    <3>2. PICK p \in sent : p.type = "PROPOSE" /\ p.m = m BY <3>1 DEF HasProposed
    <3>3. \E e \in gone : e.type = "NORMAL" /\ e.m = m BY <3>2 DEF ProposeInv
    <3> QED BY <3>3 DEF TypeOK
  <2> QED BY <1>3, <2>1, <2>2, <2>3
<1> QED BY <1>2, <1>4 DEF NormalInv

LEMMA ClientMsgStep ==
  ASSUME Inv, TypeOK', NEW c \in Client, ClientMsg(c)
  PROVE  Inv'
<1> USE DEF Inv
<1>0. PICK s, m : s = Home[c] /\ m = [addr |-> c, room |-> room[c], id |-> nextId[s]]
  OBVIOUS
<1>1. /\ nextId' = [nextId EXCEPT ![s] = @ + 1]
      /\ sent' = sent \cup {Normal(s, t, m) : t \in Server}
      /\ UNCHANGED <<room, Pg, Ag, up, gone, log, inbox>>
  BY <1>0 DEF ClientMsg
<1>2. PICK junk \in Garbage : hbq' = [hbq EXCEPT ![s] = @ \cup {NewEntry(m, junk)}]
  BY <1>0 DEF ClientMsg
<1>3. s \in Server /\ s = Origin(m) BY <1>0, HomeAssumption DEF Origin
<1>4. m \in MsgId /\ m.id = nextId[s] BY <1>0, <1>3 DEF ClientMsg, TypeOK, MsgId
<1>5. \A d \in sent : d.m # m BY <1>3, <1>4, FreshMsg
<1>6. \A t \in Server : /\ Normal(s, t, m).type = "NORMAL"
                        /\ Normal(s, t, m).src = s
                        /\ Normal(s, t, m).dst = t
                        /\ Normal(s, t, m).m = m
  BY DEF Normal
<1>7. /\ sent \subseteq sent'
      /\ \A d \in sent' : d \in sent \/ (d.m = m /\ d.type = "NORMAL" /\ d.src = s)
      /\ \A d, e \in sent' : d.m = m /\ e.m = m /\ d.dst = e.dst => d = e
  BY <1>1, <1>5, <1>6
<1>8. NoCheckFails' BY <1>1 DEF NoCheckFails
<1>9. NormalInv'
  <2>1. /\ \A t \in Server : nextId[t] \in Nat /\ nextId[t] <= nextId'[t]
        /\ m.id < nextId'[s]
    BY <1>1, <1>3, <1>4 DEF TypeOK
  <2>2. ASSUME NEW d \in sent', d.type = "NORMAL"
        PROVE  d.src = Origin(d.m) /\ d.m.id < nextId'[d.src]
    <3>1. CASE d \in sent
      <4>1. d.src \in Server /\ d.m.id \in Nat
        BY <3>1, DatagramFields, MsgIdType DEF TypeOK
      <4>2. d.src = Origin(d.m) /\ d.m.id < nextId[d.src]
        BY <3>1, <2>2 DEF NormalInv
      <4>3. /\ nextId[d.src] \in Nat /\ nextId'[d.src] \in Nat
            /\ nextId[d.src] <= nextId'[d.src]
        BY <4>1, <2>1 DEF TypeOK
      <4> QED BY <4>1, <4>2, <4>3
    <3>2. CASE d \notin sent BY <3>2, <1>7, <1>3, <2>1
    <3> QED BY <3>1, <3>2
  <2>3. ASSUME NEW d \in sent', NEW e \in sent', d.type = "NORMAL", e.type = "NORMAL",
               e.m = d.m, e.dst = d.dst
        PROVE  e = d
    BY <2>3, <1>5, <1>7 DEF NormalInv
  <2> QED BY <2>2, <2>3 DEF NormalInv
<1>10. \A d \in sent' : d.type # "NORMAL" => d \in sent BY <1>7
<1>11. ProposeInv' BY <1>1, <1>10 DEF ProposeInv
<1>12. FinalInv' BY <1>1, <1>10 DEF FinalInv
<1>13. \A t \in Server, n \in MsgId : HasProposed(t, n)' <=> HasProposed(t, n)
  BY <1>7, <1>10 DEF HasProposed
<1>14. /\ \A t \in Server : t # s => hbq'[t] = hbq[t]
       /\ hbq'[s] = hbq[s] \cup {NewEntry(m, junk)}
       /\ NewEntry(m, junk).m = m
       /\ NewEntry(m, junk).status = "NOTDELIVERABLE"
       /\ NewEntry(m, junk).proposed = {}
  BY <1>2, <1>3 DEF TypeOK, NewEntry
<1>15. EntryInv'
  <2> SUFFICES ASSUME NEW t \in Server, NEW e \in hbq'[t] PROVE
      /\ \A x \in hbq'[t] : x.m = e.m => x = e
      /\ \E d \in sent' : d.type = "NORMAL" /\ d.m = e.m
      /\ t # Origin(e.m) => HasProposed(t, e.m)'
      /\ e.status = "NOTDELIVERABLE" =>
           \A p \in sent' : p.type = "PROPOSE" /\ p.m = e.m /\ p.src = t => p.seq = e.seq
      /\ e.status = "DELIVERABLE" =>
           /\ e.seq <= Ag'[t][e.m.room]
           /\ \E f \in gone' :
                f.type = "DELIVER" /\ f.m = e.m /\ f.dst = t /\ f.seq = e.seq
      /\ \A x \in e.proposed : \E p \in gone' :
           p.type = "PROPOSE" /\ p.m = e.m /\ p.src = x[1] /\ p.seq = x[2]
    BY DEF EntryInv
  <2>1. \A x \in hbq[t] : x.m # m /\ x.m \in MsgId
    <3>1. \A x \in hbq[t] : x.m # m BY <1>5 DEF EntryInv
    <3>2. \A x \in hbq[t] : x \in Entry BY DEF TypeOK
    <3> QED BY <3>1, <3>2 DEF Entry
  <2>2. CASE e \in hbq[t]
    <3>1. \A x \in hbq'[t] : x.m = e.m => x = e
      BY <1>14, <2>1, <2>2 DEF EntryInv
    <3>2. t # Origin(e.m) => HasProposed(t, e.m)'
      BY <1>13, <2>1, <2>2 DEF EntryInv
    <3> QED BY <1>1, <1>7, <1>10, <2>2, <3>1, <3>2 DEF EntryInv
  <2>3. CASE e \notin hbq[t]
    <3>1. t = s /\ e = NewEntry(m, junk) BY <1>14, <2>3
    <3>2. \A x \in hbq'[t] : x.m = e.m => x = e BY <1>14, <2>1, <3>1
    <3>3. \E d \in sent' : d.type = "NORMAL" /\ d.m = e.m
      BY <1>1, <1>3, <1>6, <1>14, <3>1
    <3> QED BY <1>3, <1>5, <1>10, <1>14, <3>1, <3>2, <3>3
  <2> QED BY <2>2, <2>3
<1>16. KeptInv'
  <2>1. \A t \in Server : \A n : HasMsg(t, n) => HasMsg(t, n)' BY <1>14 DEF HasMsg
  <2>2. \A t \in Server : \A n : InLog(t, n) => InLog(t, n)' BY <1>1 DEF InLog
  <2>3. \E x \in hbq'[s] : x.m = m BY <1>14
  <2> SUFFICES ASSUME NEW d \in sent', d.type \in {"NORMAL", "PROPOSE"}
               PROVE  (HasMsg(d.src, d.m) \/ InLog(d.src, d.m))'
    BY DEF KeptInv
  <2>4. CASE d \in sent
    <3>1. d.src \in Server BY <2>4, DatagramFields DEF TypeOK
    <3> QED BY <2>1, <2>2, <2>4, <3>1 DEF KeptInv
  <2>5. CASE d \notin sent BY <1>7, <2>3, <2>5 DEF HasMsg
  <2> QED BY <2>4, <2>5
<1>17. LogInv'
  <2>1. \A t \in Server, n \in MsgId : InLog(t, n) => n # m
    <3> SUFFICES ASSUME NEW t \in Server, InLog(t, m) PROVE FALSE BY <1>4
    <3>1. \E f \in gone : f.m = m BY <1>4, LoggedIsAgreed
    <3> QED BY <3>1, <1>5 DEF TypeOK
  <2>2. \A t \in Server, n \in MsgId : n # m => (HasMsg(t, n)' <=> HasMsg(t, n))
    BY <1>14 DEF HasMsg
  <2>3. ~HasProposed(s, m)'
    <3>1. ~HasProposed(s, m) BY <1>5 DEF HasProposed
    <3> QED BY <3>1, <1>3, <1>4, <1>13
  <2> SUFFICES ASSUME NEW t \in Server, NEW g \in Room, NEW i \in DOMAIN log[t][g],
                      NEW n, n = log[t][g][i]
               PROVE  /\ ~HasMsg(t, n)'
                      /\ \A e \in hbq'[t] : e.m.room = g /\ HasProposed(t, e.m)' =>
                           \A f \in sent : f.type = "DELIVER" /\ f.m = n => Less(f, e)
    BY <1>1, <1>10 DEF LogInv
  <2>4. n \in MsgId /\ n.room = g BY DEF TypeOK, LogInv
  <2>5. n # m
    <3>1. InLog(t, n) BY <2>4 DEF InLog
    <3> QED BY <2>1, <2>4, <3>1
  <2>6. ~HasMsg(t, n)'
    <3>1. ~HasMsg(t, n) BY DEF LogInv
    <3> QED BY <3>1, <2>2, <2>4, <2>5
  <2>7. ASSUME NEW e \in hbq'[t], e.m.room = g, HasProposed(t, e.m)',
               NEW f \in sent, f.type = "DELIVER", f.m = n
        PROVE  Less(f, e)
    <3>1. e \in hbq[t]
      <4> SUFFICES ASSUME e \notin hbq[t] PROVE FALSE OBVIOUS
      <4>1. t = s /\ e.m = m BY <1>14, <2>7
      <4> QED BY <4>1, <2>3, <2>7
    <3>2. e.m \in MsgId BY <3>1 DEF TypeOK, Entry
    <3>3. HasProposed(t, e.m) BY <1>13, <2>7, <3>2
    <3> QED BY <2>7, <3>1, <3>3 DEF LogInv
  <2> QED BY <2>6, <2>7
<1>18. InboxInv' BY <1>1, <1>10 DEF InboxInv, InLog
<1> QED BY <1>8, <1>9, <1>11, <1>12, <1>15, <1>16, <1>17, <1>18

(* The proposal is above every number the server has seen agreed, so the   *)
(* message sorts after everything the server has delivered.                *)
LEMMA NormalStep ==
  ASSUME Inv, TypeOK', NEW s \in Server, NEW d \in InFlight, d.dst = s,
         gone' = gone \cup {d}, RecvNormal(s, d)
  PROVE  Inv'
<1> USE DEF Inv
<1>1. /\ d \in sent /\ d \notin gone /\ d.type = "NORMAL"
      /\ d.src \in Server /\ d.m \in MsgId
  BY DatagramFields DEF InFlight, TypeOK, RecvNormal
<1>2. PICK m, g, n, p :
        m = d.m /\ g = m.room /\ n = NewProposed(s, g) /\ p = Propose(s, d.src, m, n)
  OBVIOUS
<1>3. /\ m \in MsgId /\ g \in Room /\ n \in Nat
      /\ Ag[s][g] \in Nat /\ Ag[s][g] < n
  <2>1. m \in MsgId /\ g \in Room BY <1>1, <1>2, MsgIdType
  <2> QED BY <1>2, <2>1, NewProposedType
<1>4. /\ sent' = sent \cup {p}
      /\ UNCHANGED <<room, nextId, Ag, up, log, inbox>>
  BY <1>2 DEF RecvNormal
<1>5. p.type = "PROPOSE" /\ p.src = s /\ p.dst = d.src /\ p.m = m /\ p.seq = n
  BY <1>2 DEF Propose
<1>6. ~HasProposed(s, m) BY <1>1, <1>2, NormalNotProposed
<1>7. \A f \in sent : f.type = "DELIVER" => f.m # m BY <1>6, FinalImpliesProposed
<1>8. \A t \in Server : ~InLog(t, m)
  <2>1. \A t \in Server : InLog(t, m) => \E f \in gone : f.type = "DELIVER" /\ f.m = m
    BY <1>3, LoggedIsAgreed
  <2>2. gone \subseteq sent BY DEF TypeOK
  <2> QED BY <2>1, <2>2, <1>7
<1>9. PICK x \in Entry :
        /\ x.m = m /\ x.seq = n /\ x.status = "NOTDELIVERABLE"
        /\ x \in hbq'[s]
        /\ \A e \in hbq'[s] : e = x \/ (e \in hbq[s] /\ e.m # m)
        /\ \A e \in hbq[s] : e.m = m \/ e \in hbq'[s]
        /\ \A y \in x.proposed : \E r \in gone' :
             r.type = "PROPOSE" /\ r.m = m /\ r.src = y[1] /\ r.seq = y[2]
        /\ d.src = s \/ HasProposed(s, m)'
  <2>1. gone \subseteq gone' OBVIOUS
  <2>2. CASE d.src # s
    <3>1. hbq' = [hbq EXCEPT ![s] = @ \cup {NewEntry(m, n)}]
      BY <1>2, <2>2 DEF RecvNormal
    <3>2. hbq'[s] = hbq[s] \cup {NewEntry(m, n)} BY <3>1 DEF TypeOK
    <3>3. /\ NewEntry(m, n) \in Entry
          /\ NewEntry(m, n).m = m /\ NewEntry(m, n).seq = n
          /\ NewEntry(m, n).status = "NOTDELIVERABLE" /\ NewEntry(m, n).proposed = {}
      BY <1>3 DEF NewEntry, Entry
    <3>4. s # Origin(m) BY <1>1, <1>2, <2>2 DEF NormalInv
    <3>5. \A e \in hbq[s] : e.m # m BY <1>6, <3>4 DEF EntryInv
    <3>6. HasProposed(s, m)' BY <1>4, <1>5 DEF HasProposed
    <3> QED BY <3>2, <3>3, <3>5, <3>6
  <2>3. CASE d.src = s
    <3>1. PICK e \in hbq[s] :
            e.m = m /\ hbq' = [hbq EXCEPT ![s] = Replace(@, e, Mark(e, n, "NOTDELIVERABLE"))]
      BY <1>2, <2>3 DEF RecvNormal
    <3>2. PICK x : x = Mark(e, n, "NOTDELIVERABLE") OBVIOUS
    <3>3. hbq'[s] = (hbq[s] \ {e}) \cup {x} BY <3>1, <3>2 DEF TypeOK, Replace
    <3>4. /\ x \in Entry
          /\ x.m = m /\ x.seq = n /\ x.status = "NOTDELIVERABLE"
          /\ x.proposed = e.proposed
      <4>1. e \in Entry BY DEF TypeOK
      <4> QED BY <1>3, <3>1, <3>2, <4>1 DEF Mark, Entry
    <3>5. \A y \in hbq[s] : y.m = m => y = e BY <3>1 DEF EntryInv
    <3>6. \A y \in x.proposed : \E r \in gone' :
             r.type = "PROPOSE" /\ r.m = m /\ r.src = y[1] /\ r.seq = y[2]
      BY <2>1, <3>1, <3>4 DEF EntryInv
    <3>7. /\ x \in hbq'[s]
          /\ \A y \in hbq'[s] : y = x \/ (y \in hbq[s] /\ y.m # m)
          /\ \A y \in hbq[s] : y.m = m \/ y \in hbq'[s]
      BY <3>1, <3>3, <3>5
    <3> QED BY <2>3, <3>4, <3>6, <3>7
  <2> QED BY <2>2, <2>3
<1>10. \A t \in Server : t # s => hbq'[t] = hbq[t]
  BY DEF RecvNormal, TypeOK
<1>11. NoCheckFails' BY <1>4 DEF NoCheckFails
<1>12. NormalInv' BY <1>4, <1>5 DEF NormalInv
<1>13. \A f \in sent' : f.type = "DELIVER" => f \in sent BY <1>4, <1>5
<1>14. gone \subseteq gone' /\ d \in gone' /\ sent \subseteq sent' BY <1>4
<1>15. d.src = Origin(m) BY <1>1, <1>2 DEF NormalInv
<1>16. ProposeInv'
  <2>1. \A q \in sent : q.type = "PROPOSE" /\ q.m = m => q.src # s
    BY <1>6 DEF HasProposed
  <2> SUFFICES ASSUME NEW q \in sent', q.type = "PROPOSE"
               PROVE  /\ q.dst = Origin(q.m)
                      /\ \E r \in gone' : r.type = "NORMAL" /\ r.m = q.m /\ r.dst = q.src
                      /\ \A r \in sent' : r.type = "PROPOSE" /\ r.m = q.m /\ r.src = q.src
                                          => r = q
    BY DEF ProposeInv
  <2>2. CASE q \in sent BY <1>4, <1>5, <1>14, <2>1, <2>2 DEF ProposeInv
  <2>3. CASE q = p BY <1>1, <1>2, <1>4, <1>5, <1>14, <1>15, <2>1, <2>3
  <2> QED BY <1>4, <2>2, <2>3
<1>17. FinalInv' BY <1>13, <1>14 DEF FinalInv
<1>18. /\ \A t \in Server : \A k : HasProposed(t, k) => HasProposed(t, k)'
       /\ \A t \in Server : \A k : HasProposed(t, k)' /\ ~(t = s /\ k = m) => HasProposed(t, k)
  BY <1>4, <1>5 DEF HasProposed
<1>19. EntryInv'
  <2> SUFFICES ASSUME NEW t \in Server, NEW e \in hbq'[t] PROVE
      /\ \A y \in hbq'[t] : y.m = e.m => y = e
      /\ \E r \in sent' : r.type = "NORMAL" /\ r.m = e.m
      /\ t # Origin(e.m) => HasProposed(t, e.m)'
      /\ e.status = "NOTDELIVERABLE" =>
           \A r \in sent' : r.type = "PROPOSE" /\ r.m = e.m /\ r.src = t => r.seq = e.seq
      /\ e.status = "DELIVERABLE" =>
           /\ e.seq <= Ag'[t][e.m.room]
           /\ \E f \in gone' :
                f.type = "DELIVER" /\ f.m = e.m /\ f.dst = t /\ f.seq = e.seq
      /\ \A y \in e.proposed : \E r \in gone' :
           r.type = "PROPOSE" /\ r.m = e.m /\ r.src = y[1] /\ r.seq = y[2]
    BY DEF EntryInv
  <2>1. CASE t = s /\ e = x
    <3>1. \A y \in hbq'[t] : y.m = e.m => y = e BY <1>9, <2>1
    <3>2. \A r \in sent' : r.type = "PROPOSE" /\ r.m = m /\ r.src = s => r.seq = n
      BY <1>4, <1>5, <1>6 DEF HasProposed
    <3>3. s # Origin(m) => HasProposed(s, m)' BY <1>9, <1>15
    <3> QED BY <1>1, <1>2, <1>9, <1>14, <2>1, <3>1, <3>2, <3>3
  <2>2. CASE e \in hbq[t] /\ ~(t = s /\ e.m = m)
    <3>1. \A y \in hbq'[t] : y.m = e.m => y = e
      BY <1>9, <1>10, <2>2 DEF EntryInv
    <3>2. \A r \in sent' : r.type = "PROPOSE" /\ r.m = e.m /\ r.src = t => r \in sent
      BY <1>4, <1>5, <2>2
    <3>3. t # Origin(e.m) => HasProposed(t, e.m)' BY <1>18, <2>2 DEF EntryInv
    <3> QED BY <1>4, <1>14, <2>2, <3>1, <3>2, <3>3 DEF EntryInv
  <2> QED BY <1>9, <1>10, <2>1, <2>2
<1>20. KeptInv'
  <2>1. \A t \in Server : \A k : HasMsg(t, k) => HasMsg(t, k)' BY <1>9, <1>10 DEF HasMsg
  <2>2. \A t \in Server : \A k : InLog(t, k) => InLog(t, k)' BY <1>4 DEF InLog
  <2>3. HasMsg(s, m)' BY <1>9 DEF HasMsg
  <2> SUFFICES ASSUME NEW q \in sent', q.type \in {"NORMAL", "PROPOSE"}
               PROVE  (HasMsg(q.src, q.m) \/ InLog(q.src, q.m))'
    BY DEF KeptInv
  <2>4. CASE q \in sent
    <3>1. q.src \in Server BY <2>4, DatagramFields DEF TypeOK
    <3> QED BY <2>1, <2>2, <2>4, <3>1 DEF KeptInv
  <2>5. CASE q = p BY <1>5, <2>3, <2>5
  <2> QED BY <1>4, <2>4, <2>5
<1>21. LogInv'
  <2> SUFFICES ASSUME NEW t \in Server, NEW h \in Room, NEW i \in DOMAIN log[t][h],
                      NEW k, k = log[t][h][i]
               PROVE  /\ ~HasMsg(t, k)'
                      /\ \A e \in hbq'[t] : e.m.room = h /\ HasProposed(t, e.m)' =>
                           \A f \in sent : f.type = "DELIVER" /\ f.m = k => Less(f, e)
    BY <1>4, <1>13, <1>14 DEF LogInv
  <2>1. k \in MsgId /\ k.room = h BY DEF TypeOK, LogInv
  <2>2. k # m BY <1>8, <2>1 DEF InLog
  <2>3. ~HasMsg(t, k)'
    <3>1. ~HasMsg(t, k) BY DEF LogInv
    <3> QED BY <3>1, <1>9, <1>10, <2>2 DEF HasMsg
  <2>4. ASSUME NEW e \in hbq'[t], e.m.room = h, HasProposed(t, e.m)',
               NEW f \in sent, f.type = "DELIVER", f.m = k
        PROVE  Less(f, e)
    <3>1. CASE t = s /\ e = x
      <4>1. h = g BY <1>2, <1>9, <2>4, <3>1
      <4>2. PICK f0 \in gone : f0.type = "DELIVER" /\ f0.m = k /\ f0.seq <= Ag[s][g]
        BY <3>1, <4>1 DEF LogInv
      <4>3. f.seq <= Ag[s][g] BY <2>4, <4>2 DEF FinalInv, TypeOK
      <4>4. f.seq \in Nat BY <2>4, DatagramFields DEF TypeOK
      <4>5. f.seq < e.seq BY <1>3, <1>9, <3>1, <4>3, <4>4
      <4> QED BY <4>5 DEF Less
    <3>2. CASE e \in hbq[t] /\ ~(t = s /\ e.m = m)
      <4>1. HasProposed(t, e.m) BY <1>18, <2>4, <3>2
      <4> QED BY <2>4, <3>2, <4>1 DEF LogInv
    <3> QED BY <1>9, <1>10, <3>1, <3>2
  <2> QED BY <2>3, <2>4
<1>22. InboxInv' BY <1>4, <1>13 DEF InboxInv, InLog
<1> QED BY <1>11, <1>12, <1>16, <1>17, <1>19, <1>20, <1>21, <1>22

(* As many numbers as servers, no two of one server: every server is in.   *)
LEMMA EveryServer ==
  ASSUME NEW props \in SUBSET (Server \X Nat), Cardinality(props) = Cardinality(Server),
         \A p, q \in props : p[1] = q[1] => p = q
  PROVE  \A s \in Server : \E p \in props : p[1] = s
<1> DEFINE f == [p \in props |-> p[1]]
<1>1. f \in Injection(props, Server)
  BY DEF Injection, IsInjective
<1>2. f \in Surjection(props, Server)
  BY <1>1, FS_Injection, ServerAssumption
<1> QED BY <1>2 DEF Surjection

(* The agreed number is the largest of all proposals, and is sent once.    *)
LEMMA ProposeInvStep ==
  ASSUME Inv, TypeOK', NEW s \in Server, NEW d \in InFlight, d.dst = s,
         gone' = gone \cup {d}, RecvPropose(s, d)
  PROVE  Inv'
<1> USE DEF Inv
<1>1. /\ d \in sent /\ d \notin gone /\ d.type = "PROPOSE"
      /\ d.src \in Server /\ d.m \in MsgId /\ d.seq \in Nat
  BY DatagramFields DEF InFlight, TypeOK, RecvPropose
<1>2. PICK m : m = d.m OBVIOUS
<1>3. m \in MsgId /\ s = Origin(m) BY <1>1, <1>2 DEF ProposeInv
<1>4. UNCHANGED <<room, nextId, Pg, Ag, up, log, inbox>> BY DEF RecvPropose
<1>4a. PICK e \in hbq[s] :
        /\ e.m = d.m
        /\ hbq' = [hbq EXCEPT ![s] = Replace(@, e, Collected(e, d))]
        /\ \/ sent' = sent
           \/ /\ Cardinality(Props(e, d)) = Cardinality(Server)
              /\ \E n \in MaxProposed(Props(e, d)) :
                    sent' = sent \cup Finals(s, d.m, n)
  BY <1>1, ProposeStep
<1>5. PICK props, x :
        /\ props = Props(e, d)
        /\ x = Collected(e, d)
  OBVIOUS
<1>5a. /\ e \in hbq[s] /\ e.m = m
       /\ props = e.proposed \cup {<<d.src, d.seq>>}
       /\ x.m = e.m /\ x.seq = e.seq /\ x.status = e.status /\ x.proposed = props
  <2>1. e \in Entry BY DEF TypeOK
  <2> QED BY <1>2, <1>4a, <1>5, <2>1 DEF Entry, Props, Collected
<1>5b. /\ hbq'[s] = (hbq[s] \ {e}) \cup {x}
       /\ \A t \in Server : t # s => hbq'[t] = hbq[t]
  BY <1>4a, <1>5 DEF TypeOK, Replace
<1>6. gone \subseteq gone' /\ d \in gone' /\ gone \subseteq sent BY DEF TypeOK
<1>7. props \in SUBSET (Server \X Nat)
  <2>1. e \in Entry BY DEF TypeOK
  <2> QED BY <1>1, <1>5a, <2>1 DEF Entry
<1>8. \A z \in props : \E p \in gone' :
         p.type = "PROPOSE" /\ p.m = m /\ p.src = z[1] /\ p.seq = z[2]
  <2>1. \A z \in e.proposed : \E p \in gone :
         p.type = "PROPOSE" /\ p.m = m /\ p.src = z[1] /\ p.seq = z[2]
    BY <1>5a DEF EntryInv
  <2> QED BY <1>1, <1>2, <1>5a, <1>6, <2>1
<1>9. \A y, z \in props : y[1] = z[1] => y = z
  <2> SUFFICES ASSUME NEW y \in props, NEW z \in props, y[1] = z[1] PROVE y = z OBVIOUS
  <2>1. PICK p \in gone' : p.type = "PROPOSE" /\ p.m = m /\ p.src = y[1] /\ p.seq = y[2]
    BY <1>8
  <2>2. PICK q \in gone' : q.type = "PROPOSE" /\ q.m = m /\ q.src = z[1] /\ q.seq = z[2]
    BY <1>8
  <2>3. p = q BY <1>1, <1>6, <2>1, <2>2 DEF ProposeInv
  <2> QED BY <1>7, <2>1, <2>2, <2>3
<1>10. PICK F, n :
         /\ sent' = sent \cup F
         /\ \A f \in F : f.type = "DELIVER" /\ f.src = s /\ f.m = m /\ f.seq = n
         /\ \A f, h \in F : f.dst = h.dst => f = h
         /\ F # {} => \A t \in Server : \E z \in props : z[1] = t /\ z[2] <= n
  <2>1. CASE sent' = sent
    <3> SUFFICES sent' = sent \cup {} OBVIOUS
    <3> QED BY <2>1
  <2>2. CASE sent' # sent
    <3>1. PICK n \in MaxProposed(props) : sent' = sent \cup Finals(s, m, n)
      BY <1>2, <1>4a, <1>5, <2>2
    <3>2. Cardinality(props) = Cardinality(Server) BY <1>4a, <1>5, <2>2
    <3>3. \A z \in props : z[2] <= n BY <1>7, <3>1, MaxProposedType
    <3>4. \A t \in Server : \E z \in props : z[1] = t BY <1>7, <1>9, <3>2, EveryServer
    <3>5. \A t \in Server : /\ Final(s, t, m, n).type = "DELIVER"
                            /\ Final(s, t, m, n).src = s
                            /\ Final(s, t, m, n).dst = t
                            /\ Final(s, t, m, n).m = m
                            /\ Final(s, t, m, n).seq = n
      BY DEF Final
    <3>6. PICK F : F = Finals(s, m, n) OBVIOUS
    <3>7. /\ sent' = sent \cup F
          /\ \A f \in F : f.type = "DELIVER" /\ f.src = s /\ f.m = m /\ f.seq = n
          /\ \A f, h \in F : f.dst = h.dst => f = h
      BY <3>1, <3>5, <3>6 DEF Finals
    <3>8. \A t \in Server : \E z \in props : z[1] = t /\ z[2] <= n BY <3>3, <3>4
    <3> QED BY <3>7, <3>8
  <2> QED BY <2>1, <2>2
<1>11. \A f \in sent : f.type = "DELIVER" => f.m # m BY <1>1, <1>2, ProposeNotFinal
<1>12. /\ sent \subseteq sent'
       /\ \A f \in sent' : f.type # "DELIVER" \/ f.m # m => f \in sent
  BY <1>10
<1>13. \A t \in Server : ~InLog(t, m)
  <2>1. \A t \in Server : InLog(t, m) => \E f \in gone : f.type = "DELIVER" /\ f.m = m
    BY <1>3, LoggedIsAgreed
  <2> QED BY <2>1, <1>6, <1>11
<1>14. /\ x.m = m /\ x.seq = e.seq /\ x.status = e.status /\ x.proposed = props
       /\ x \in hbq'[s]
       /\ \A y \in hbq'[s] : y = x \/ (y \in hbq[s] /\ y.m # m)
       /\ \A y \in hbq[s] : y.m = m \/ y \in hbq'[s]
  <2>1. \A y \in hbq[s] : y.m = m => y = e BY <1>5a DEF EntryInv
  <2> QED BY <1>5a, <1>5b, <2>1
<1>15. \A t \in Server : t # s => hbq'[t] = hbq[t] BY <1>5b
<1>16. NoCheckFails' BY <1>4 DEF NoCheckFails
<1>17. NormalInv' BY <1>4, <1>12 DEF NormalInv
<1>18. ProposeInv' BY <1>6, <1>12 DEF ProposeInv
<1>19. FinalInv'
  <2> SUFFICES ASSUME NEW f \in sent', f.type = "DELIVER"
               PROVE  /\ f.src = Origin(f.m)
                      /\ \A t \in Server : \E p \in gone' :
                            p.type = "PROPOSE" /\ p.m = f.m /\ p.src = t /\ p.seq <= f.seq
                      /\ \A h \in sent' : h.type = "DELIVER" /\ h.m = f.m =>
                            h.seq = f.seq /\ (h.dst = f.dst => h = f)
    BY DEF FinalInv
  <2>1. CASE f \in sent BY <1>6, <1>11, <1>12, <2>1 DEF FinalInv
  <2>2. CASE f \in F
    <3>1. f.src = s /\ f.m = m /\ f.seq = n BY <1>10, <2>2
    <3>2. \A t \in Server : \E p \in gone' :
                p.type = "PROPOSE" /\ p.m = f.m /\ p.src = t /\ p.seq <= f.seq
      <4> SUFFICES ASSUME NEW t \in Server
                   PROVE  \E p \in gone' :
                            p.type = "PROPOSE" /\ p.m = m /\ p.src = t /\ p.seq <= n
        BY <3>1
      <4>1. PICK z \in props : z[1] = t /\ z[2] <= n BY <1>10, <2>2
      <4>2. PICK p \in gone' : p.type = "PROPOSE" /\ p.m = m /\ p.src = z[1] /\ p.seq = z[2]
        BY <1>8
      <4> QED BY <4>1, <4>2
    <3>3. \A h \in sent' : h.type = "DELIVER" /\ h.m = m => h \in F
      BY <1>10, <1>11
    <3> QED BY <1>3, <1>10, <2>2, <3>1, <3>2, <3>3
  <2> QED BY <1>10, <2>1, <2>2
<1>20. \A t \in Server : \A k : HasProposed(t, k)' <=> HasProposed(t, k)
  BY <1>12 DEF HasProposed
<1>21. \A t \in Server : \A k : HasMsg(t, k)' <=> HasMsg(t, k)
  BY <1>5a, <1>14, <1>15 DEF HasMsg
<1>22. EntryInv'
  <2> SUFFICES ASSUME NEW t \in Server, NEW a \in hbq'[t] PROVE
      /\ \A y \in hbq'[t] : y.m = a.m => y = a
      /\ \E r \in sent' : r.type = "NORMAL" /\ r.m = a.m
      /\ t # Origin(a.m) => HasProposed(t, a.m)'
      /\ a.status = "NOTDELIVERABLE" =>
           \A r \in sent' : r.type = "PROPOSE" /\ r.m = a.m /\ r.src = t => r.seq = a.seq
      /\ a.status = "DELIVERABLE" =>
           /\ a.seq <= Ag'[t][a.m.room]
           /\ \E f \in gone' :
                f.type = "DELIVER" /\ f.m = a.m /\ f.dst = t /\ f.seq = a.seq
      /\ \A y \in a.proposed : \E r \in gone' :
           r.type = "PROPOSE" /\ r.m = a.m /\ r.src = y[1] /\ r.seq = y[2]
    BY DEF EntryInv
  <2>1. \A r \in sent' : r.type = "PROPOSE" => r \in sent BY <1>12
  <2>2. PICK b \in hbq[t] : /\ b.m = a.m /\ b.seq = a.seq /\ b.status = a.status
                            /\ b = a \/ (t = s /\ a = x)
    <3>1. CASE t = s /\ a = x BY <1>5a, <1>14, <3>1
    <3>2. CASE a \in hbq[t] BY <3>2
    <3> QED BY <1>14, <1>15, <3>1, <3>2
  <2>3. \A y \in hbq'[t] : y.m = a.m => y = a
    BY <1>5a, <1>14, <1>15 DEF EntryInv
  <2>4. \A y \in a.proposed : \E r \in gone' :
           r.type = "PROPOSE" /\ r.m = a.m /\ r.src = y[1] /\ r.seq = y[2]
    <3>1. CASE b = a BY <1>6, <3>1 DEF EntryInv
    <3>2. CASE a = x BY <1>5a, <1>8, <1>14, <3>2
    <3> QED BY <2>2, <3>1, <3>2
  <2>5. t # Origin(a.m) => HasProposed(t, a.m)' BY <1>20, <2>2 DEF EntryInv
  <2> QED BY <1>4, <1>6, <1>12, <2>1, <2>2, <2>3, <2>4, <2>5 DEF EntryInv
<1>23. KeptInv'
  <2>1. \A t \in Server : \A k : InLog(t, k) => InLog(t, k)' BY <1>4 DEF InLog
  <2> SUFFICES ASSUME NEW q \in sent', q.type \in {"NORMAL", "PROPOSE"}
               PROVE  (HasMsg(q.src, q.m) \/ InLog(q.src, q.m))'
    BY DEF KeptInv
  <2>2. q \in sent BY <1>12
  <2>3. q.src \in Server BY <2>2, DatagramFields DEF TypeOK
  <2> QED BY <1>21, <2>1, <2>2, <2>3 DEF KeptInv
<1>24. LogInv'
  <2> SUFFICES ASSUME NEW t \in Server, NEW h \in Room, NEW i \in DOMAIN log[t][h],
                      NEW k, k = log[t][h][i]
               PROVE  /\ k.room = h
                      /\ ~HasMsg(t, k)'
                      /\ \E f \in gone' : /\ f.type = "DELIVER" /\ f.m = k /\ f.dst = t
                                          /\ f.seq <= Ag[t][h]
                      /\ \A a \in hbq'[t] : a.m.room = h /\ HasProposed(t, a.m)' =>
                           \A f \in sent' : f.type = "DELIVER" /\ f.m = k => Less(f, a)
                      /\ \A j \in DOMAIN log[t][h] : i < j =>
                           \A f, o \in sent' :
                             /\ f.type = "DELIVER" /\ f.m = k
                             /\ o.type = "DELIVER" /\ o.m = log[t][h][j]
                             => Less(f, o)
    BY <1>4 DEF LogInv
  <2>1. k.room = h /\ k # m BY <1>13 DEF InLog, LogInv
  <2>2. ~HasMsg(t, k)' BY <1>21 DEF LogInv
  <2>3. ASSUME NEW a \in hbq'[t], a.m.room = h, HasProposed(t, a.m)',
               NEW f \in sent', f.type = "DELIVER", f.m = k
        PROVE  Less(f, a)
    <3>1. f \in sent BY <1>12, <2>1, <2>3
    <3>2. PICK b \in hbq[t] : b.m = a.m /\ b.seq = a.seq BY <1>5a, <1>14, <1>15
    <3>3. HasProposed(t, b.m) BY <1>20, <2>3, <3>2
    <3>4. Less(f, b) BY <2>3, <3>1, <3>2, <3>3 DEF LogInv
    <3> QED BY <3>2, <3>4 DEF Less
  <2>4. ASSUME NEW j \in DOMAIN log[t][h], i < j, NEW f \in sent', NEW o \in sent',
               f.type = "DELIVER", f.m = k, o.type = "DELIVER", o.m = log[t][h][j]
        PROVE  Less(f, o)
    <3>1. o.m # m
      <4>1. o.m.room = h BY <2>4 DEF LogInv
      <4> QED BY <1>13, <2>4, <4>1 DEF InLog
    <3>2. f \in sent /\ o \in sent BY <1>12, <2>1, <2>4, <3>1
    <3> QED BY <2>4, <3>2 DEF LogInv
  <2> QED BY <1>6, <2>1, <2>2, <2>3, <2>4 DEF LogInv
<1>25. InboxInv'
  <2>1. \A c \in Client : \A i \in DOMAIN inbox[c] : inbox[c][i] # m
    BY <1>13, HomeAssumption DEF InboxInv
  <2>2. \A c \in Client : \A i \in DOMAIN inbox[c] :
          \A f \in sent' : f.type = "DELIVER" /\ f.m = inbox[c][i] => f \in sent
    BY <2>1, <1>12
  <2> QED BY <1>4, <2>2 DEF InboxInv, InLog
<1> QED BY <1>16, <1>17, <1>18, <1>19, <1>22, <1>23, <1>24, <1>25

(* What stays in the queue sorts after what leaves it.                     *)
LEMMA ReadySplit ==
  ASSUME NEW q \in SUBSET Entry, NEW g,
         \A y, z \in q : y.m = z.m => y = z,
         NEW a \in Ready(q, g), NEW x \in q, x \notin Ready(q, g), x.m.room = g
  PROVE  Less(a, x)
<1>1. a \in q /\ a.m.room = g BY DEF Ready
<1>2. CASE x.status = "NOTDELIVERABLE" BY <1>2 DEF Ready
<1>3. CASE x.status = "DELIVERABLE"
  <2>1. PICK b \in q : b.m.room = g /\ b.status = "NOTDELIVERABLE" /\ ~Less(x, b)
    BY <1>3 DEF Ready
  <2>2. Less(a, b) BY <2>1 DEF Ready
  <2>3. \A y \in q : y.seq \in Int /\ y.m \in MsgId BY DEF Entry
  <2>4. x.m # b.m BY <1>3, <2>1
  <2>5. Less(b, x) BY <2>1, <2>3, <2>4, LessTotal
  <2> QED BY <1>1, <2>1, <2>2, <2>3, <2>5, LessTransitive
<1>4. x.status \in {"NOTDELIVERABLE", "DELIVERABLE"} BY DEF Entry
<1> QED BY <1>2, <1>3, <1>4

(* The messages of a batch are those of the set, in order.                 *)
LEMMA BatchOrder ==
  ASSUME NEW S \in SUBSET Entry, IsFiniteSet(S), NEW batch \in Sorted(S)
  PROVE  /\ Messages(batch) \in Seq(MsgId)
         /\ \A k \in DOMAIN Messages(batch) : \E a \in S : Messages(batch)[k] = a.m
         /\ \A a \in S : \E k \in DOMAIN Messages(batch) : Messages(batch)[k] = a.m
         /\ \A j, k \in DOMAIN Messages(batch) : j < k =>
               \E a, b \in S : /\ Messages(batch)[j] = a.m /\ Messages(batch)[k] = b.m
                               /\ Less(a, b)
<1>1. /\ Messages(batch) \in Seq(MsgId)
      /\ \A i \in DOMAIN batch : batch[i] \in S /\ Messages(batch)[i] = batch[i].m
      /\ \A i, j \in DOMAIN batch : i < j => Less(batch[i], batch[j])
      /\ \A a \in S : \E i \in DOMAIN batch : batch[i] = a
  BY BatchIsSeq
<1>2. DOMAIN Messages(batch) = DOMAIN batch BY DEF Messages
<1> QED BY <1>1, <1>2

(* Where the elements of a concatenation come from.                        *)
FromParts(L, M, N) ==
  /\ \A i \in DOMAIN L : i \in DOMAIN N /\ N[i] = L[i]
  /\ \A k \in DOMAIN M : \E i \in DOMAIN N : N[i] = M[k]
  /\ \A i \in DOMAIN N : \/ i \in DOMAIN L /\ N[i] = L[i]
                         \/ \E k \in DOMAIN M : N[i] = M[k]
  /\ \A i, j \in DOMAIN N : i < j =>
        \/ i \in DOMAIN L /\ j \in DOMAIN L /\ N[i] = L[i] /\ N[j] = L[j]
        \/ i \in DOMAIN L /\ N[i] = L[i] /\ \E k \in DOMAIN M : N[j] = M[k]
        \/ \E h, k \in DOMAIN M : h < k /\ N[i] = M[h] /\ N[j] = M[k]

LEMMA Appended ==
  ASSUME NEW L \in Seq(MsgId), NEW M \in Seq(MsgId)
  PROVE  FromParts(L, M, L \o M)
<1>0. PICK N : N = L \o M OBVIOUS
<1>1. /\ DOMAIN L = 1 .. Len(L) /\ DOMAIN M = 1 .. Len(M)
      /\ Len(L) \in Nat /\ Len(M) \in Nat
  OBVIOUS
<1>2. /\ DOMAIN N = 1 .. Len(L) + Len(M)
      /\ \A i \in 1 .. Len(L) + Len(M) :
            N[i] = IF i <= Len(L) THEN L[i] ELSE M[i - Len(L)]
  BY <1>0, <1>1
<1>3. \A i \in DOMAIN L : i \in DOMAIN N /\ N[i] = L[i] BY <1>1, <1>2
<1>4. \A i \in DOMAIN N : i \notin DOMAIN L =>
         i - Len(L) \in DOMAIN M /\ N[i] = M[i - Len(L)] /\ i > Len(L)
  BY <1>1, <1>2
<1>5. \A k \in DOMAIN M : \E i \in DOMAIN N : N[i] = M[k]
  <2> SUFFICES ASSUME NEW k \in DOMAIN M PROVE \E i \in DOMAIN N : N[i] = M[k] OBVIOUS
  <2>1. Len(L) + k \in DOMAIN N /\ Len(L) + k > Len(L) /\ (Len(L) + k) - Len(L) = k
    BY <1>1, <1>2
  <2> QED BY <1>1, <1>2, <2>1
<1>6. \A i, j \in DOMAIN N : i < j /\ i \notin DOMAIN L => j \notin DOMAIN L
  BY <1>1, <1>2
<1>7. \A i, j \in DOMAIN N : i < j => i - Len(L) < j - Len(L)
  BY <1>1, <1>2
<1>8. FromParts(L, M, N) BY <1>3, <1>4, <1>5, <1>6, <1>7 DEF FromParts
<1> QED BY <1>0, <1>8

(* What a DELIVER leaves behind: the entry e becomes u in the queue q, the *)
(* entries R leave it, and M is the sequence of their messages.            *)
FinalEffect(s, d, e, u, q, R, M) ==
  /\ e \in hbq[s] /\ e.m = d.m
  /\ u \in Entry /\ u.m = d.m /\ u.seq = d.seq /\ u.status = "DELIVERABLE"
  /\ u.proposed = e.proposed
  /\ q \in SUBSET Entry
  /\ q = (hbq[s] \ {e}) \cup {u}
  /\ R = Ready(q, d.m.room)
  /\ hbq'[s] = q \ R
  /\ \A t \in Server : t # s => hbq'[t] = hbq[t] /\ Ag'[t] = Ag[t] /\ log'[t] = log[t]
  /\ Ag'[s][d.m.room] = Larger(Ag[s][d.m.room], d.seq)
  /\ log'[s][d.m.room] = log[s][d.m.room] \o M
  /\ \A h \in Room : h # d.m.room => Ag'[s][h] = Ag[s][h] /\ log'[s][h] = log[s][h]
  /\ \A c \in Client : \/ inbox'[c] = inbox[c]
                       \/ Home[c] = s /\ inbox'[c] = inbox[c] \o M
  /\ M \in Seq(MsgId)
  /\ \A k \in DOMAIN M : \E a \in R : M[k] = a.m
  /\ \A a \in R : \E k \in DOMAIN M : M[k] = a.m
  /\ \A j, k \in DOMAIN M : j < k =>
        \E a, b \in R : M[j] = a.m /\ M[k] = b.m /\ Less(a, b)

LEMMA FinalHasEffect ==
  ASSUME Inv, NEW s \in Server, NEW d \in InFlight, d.dst = s, RecvFinal(s, d)
  PROVE  \E e, u, q, R, M : FinalEffect(s, d, e, u, q, R, M)
<1> USE DEF Inv
<1>1. /\ d \in sent /\ d.m \in MsgId /\ d.m.room \in Room /\ d.seq \in Nat
  BY DatagramFields, MsgIdType DEF InFlight, TypeOK, RecvFinal
<1>2. PICK e \in hbq[s] : \E batch \in Sorted(Front(s, d, e)) :
           /\ e.m = d.m
           /\ Ag' = [Ag EXCEPT ![s][d.m.room] = Larger(@, d.seq)]
           /\ hbq' = [hbq EXCEPT ![s] = Updated(s, d, e) \ Front(s, d, e)]
           /\ log' = [log EXCEPT ![s][d.m.room] = @ \o Messages(batch)]
           /\ inbox' = [c \in Client |->
                IF Home[c] = s /\ room[c] = d.m.room
                THEN inbox[c] \o Messages(batch)
                ELSE inbox[c]]
  BY <1>1, FinalStep
<1>3. PICK batch \in Sorted(Front(s, d, e)) :
           /\ e.m = d.m
           /\ Ag' = [Ag EXCEPT ![s][d.m.room] = Larger(@, d.seq)]
           /\ hbq' = [hbq EXCEPT ![s] = Updated(s, d, e) \ Front(s, d, e)]
           /\ log' = [log EXCEPT ![s][d.m.room] = @ \o Messages(batch)]
           /\ inbox' = [c \in Client |->
                IF Home[c] = s /\ room[c] = d.m.room
                THEN inbox[c] \o Messages(batch)
                ELSE inbox[c]]
  BY <1>2
<1>4. PICK u, q, R, M :
        /\ u = Mark(e, d.seq, "DELIVERABLE")
        /\ q = Updated(s, d, e)
        /\ R = Front(s, d, e)
        /\ M = Messages(batch)
  OBVIOUS
<1>5. /\ u \in Entry
      /\ u.m = d.m /\ u.seq = d.seq /\ u.status = "DELIVERABLE" /\ u.proposed = e.proposed
  <2>1. e \in Entry BY DEF TypeOK
  <2> QED BY <1>1, <1>3, <1>4, <2>1 DEF Mark, Entry
<1>6. q = (hbq[s] \ {e}) \cup {u} BY <1>4 DEF Updated, Replace
<1>7. q \in SUBSET Entry /\ IsFiniteSet(q)
  <2>1. hbq[s] \in SUBSET Entry /\ IsFiniteSet(hbq[s]) BY DEF TypeOK
  <2>2. IsFiniteSet(hbq[s] \ {e}) BY <2>1, FS_RemoveElement
  <2>3. IsFiniteSet(q) BY <1>6, <2>2, FS_AddElement
  <2> QED BY <1>5, <1>6, <2>1, <2>3
<1>8. R = Ready(q, d.m.room) BY <1>4 DEF Front
<1>9. R \in SUBSET Entry /\ IsFiniteSet(R) BY <1>7, <1>8, ReadyFinite
<1>10. batch \in Sorted(R) BY <1>4
<1>11. /\ M \in Seq(MsgId)
       /\ \A k \in DOMAIN M : \E a \in R : M[k] = a.m
       /\ \A a \in R : \E k \in DOMAIN M : M[k] = a.m
       /\ \A j, k \in DOMAIN M : j < k =>
             \E a, b \in R : M[j] = a.m /\ M[k] = b.m /\ Less(a, b)
  <2>1. M = Messages(batch) BY <1>4
  <2>2. /\ Messages(batch) \in Seq(MsgId)
        /\ \A k \in DOMAIN Messages(batch) : \E a \in R : Messages(batch)[k] = a.m
        /\ \A a \in R : \E k \in DOMAIN Messages(batch) : Messages(batch)[k] = a.m
        /\ \A j, k \in DOMAIN Messages(batch) : j < k =>
              \E a, b \in R : /\ Messages(batch)[j] = a.m /\ Messages(batch)[k] = b.m
                              /\ Less(a, b)
    BY <1>9, <1>10, BatchOrder
  <2> QED BY <2>1, <2>2
<1>12. /\ hbq'[s] = q \ R
       /\ \A t \in Server : t # s => hbq'[t] = hbq[t]
  BY <1>3, <1>4 DEF TypeOK
<1>13. /\ Ag'[s][d.m.room] = Larger(Ag[s][d.m.room], d.seq)
       /\ \A t \in Server : t # s => Ag'[t] = Ag[t]
       /\ \A h \in Room : h # d.m.room => Ag'[s][h] = Ag[s][h]
  BY <1>1, <1>3 DEF TypeOK
<1>14. /\ log'[s][d.m.room] = log[s][d.m.room] \o M
       /\ \A t \in Server : t # s => log'[t] = log[t]
       /\ \A h \in Room : h # d.m.room => log'[s][h] = log[s][h]
  BY <1>1, <1>3, <1>4 DEF TypeOK
<1>15. \A c \in Client : \/ inbox'[c] = inbox[c]
                         \/ Home[c] = s /\ inbox'[c] = inbox[c] \o M
  BY <1>3, <1>4
<1>16. e \in hbq[s] /\ e.m = d.m BY <1>3
<1>17. FinalEffect(s, d, e, u, q, R, M)
  BY <1>5, <1>6, <1>7, <1>8, <1>11, <1>12, <1>13, <1>14, <1>15, <1>16
     DEF FinalEffect
<1> QED BY <1>17

(* What leaves the queue sorts after everything delivered and before       *)
(* everything that stays.                                                  *)
LEMMA FinalInvStep ==
  ASSUME Inv, TypeOK', NEW s \in Server, NEW d \in InFlight, d.dst = s,
         gone' = gone \cup {d}, RecvFinal(s, d)
  PROVE  Inv'
<1> USE DEF Inv
<1>1. /\ d \in sent /\ d \notin gone /\ d.type = "DELIVER"
      /\ d.src \in Server /\ d.m \in MsgId /\ d.m.room \in Room /\ d.seq \in Nat
  BY DatagramFields, MsgIdType DEF InFlight, TypeOK, RecvFinal
<1>2. UNCHANGED <<room, nextId, Pg, up, sent>> BY DEF RecvFinal
<1>3. PICK e, u, q, R, M : FinalEffect(s, d, e, u, q, R, M) BY FinalHasEffect
<1>4. PICK m, g : m = d.m /\ g = m.room OBVIOUS
<1>5. m \in MsgId /\ g \in Room BY <1>1, <1>4
<1>6. /\ e \in hbq[s] /\ e.m = m
      /\ u \in Entry /\ u.m = m /\ u.seq = d.seq /\ u.status = "DELIVERABLE"
      /\ u.proposed = e.proposed
      /\ q \in SUBSET Entry
      /\ q = (hbq[s] \ {e}) \cup {u}
      /\ R = Ready(q, g)
      /\ hbq'[s] = q \ R
      /\ \A t \in Server : t # s => hbq'[t] = hbq[t]
  BY <1>3, <1>4 DEF FinalEffect
<1>7. /\ log'[s][g] = log[s][g] \o M
      /\ \A t \in Server : t # s => log'[t] = log[t]
      /\ \A h \in Room : h # g => log'[s][h] = log[s][h]
      /\ log[s][g] \in Seq(MsgId)
  <2>1. log[s][g] \in Seq(MsgId) BY <1>5 DEF TypeOK
  <2> QED BY <1>3, <1>4, <2>1 DEF FinalEffect
<1>8. \A c \in Client : \/ inbox'[c] = inbox[c]
                        \/ Home[c] = s /\ inbox'[c] = inbox[c] \o M
  BY <1>3 DEF FinalEffect
<1>9. /\ M \in Seq(MsgId)
      /\ \A k \in DOMAIN M : \E a \in R : M[k] = a.m
      /\ \A a \in R : \E k \in DOMAIN M : M[k] = a.m
      /\ \A j, k \in DOMAIN M : j < k =>
            \E a, b \in R : M[j] = a.m /\ M[k] = b.m /\ Less(a, b)
  BY <1>3 DEF FinalEffect
<1>10. /\ \A t \in Server, h \in Room : Ag[t][h] \in Nat /\ Ag'[t][h] \in Nat
       /\ \A t \in Server, h \in Room : Ag[t][h] <= Ag'[t][h]
       /\ d.seq <= Ag'[s][g]
  <2>1. /\ Ag'[s][g] = Larger(Ag[s][g], d.seq)
        /\ \A t \in Server : t # s => Ag'[t] = Ag[t]
        /\ \A h \in Room : h # g => Ag'[s][h] = Ag[s][h]
    BY <1>3, <1>4 DEF FinalEffect
  <2>2. \A t \in Server, h \in Room : Ag[t][h] \in Nat /\ Ag'[t][h] \in Nat
    BY DEF TypeOK
  <2>3. Ag[s][g] <= Ag'[s][g] /\ d.seq <= Ag'[s][g]
    <3>1. Ag[s][g] \in Nat BY <1>5, <2>2
    <3>2. Ag[s][g] <= Larger(Ag[s][g], d.seq) /\ d.seq <= Larger(Ag[s][g], d.seq)
      BY <1>1, <3>1, LargerType
    <3> QED BY <2>1, <3>2
  <2>4. \A t \in Server, h \in Room : t # s \/ h # g => Ag[t][h] = Ag'[t][h]
    BY <2>1
  <2> QED BY <2>2, <2>3, <2>4
<1>11. gone \subseteq gone' /\ d \in gone' /\ gone' \subseteq sent
  BY <1>1 DEF TypeOK
<1>12. \A f \in sent : f.type = "DELIVER" => f.seq \in Nat /\ f.m \in MsgId
  BY DatagramFields DEF TypeOK
(* The entries of q: u, and the others with the messages they had.         *)
<1>13. /\ u \in q
       /\ \A y \in q : y = u \/ (y \in hbq[s] /\ y.m # m)
       /\ \A y \in hbq[s] : y.m # m => y \in q
       /\ \A y, z \in q : y.m = z.m => y = z
  <2>1. \A y \in hbq[s] : y.m = m => y = e BY <1>6 DEF EntryInv
  <2>2. \A y, z \in hbq[s] : y.m = z.m => y = z BY DEF EntryInv
  <2> QED BY <1>6, <2>1, <2>2
<1>14. /\ R \subseteq q
       /\ \A a \in R : a.m.room = g /\ a.status = "DELIVERABLE"
  BY <1>6 DEF Ready
<1>15. /\ \A t \in Server : \A k : HasProposed(t, k)' <=> HasProposed(t, k)
  BY <1>2 DEF HasProposed
<1>16. \A y \in q : y.status = "DELIVERABLE" =>
          /\ y.seq <= Ag'[s][y.m.room]
          /\ \E f \in gone' : f.type = "DELIVER" /\ f.m = y.m /\ f.dst = s /\ f.seq = y.seq
  <2> SUFFICES ASSUME NEW y \in q, y.status = "DELIVERABLE"
               PROVE  /\ y.seq <= Ag'[s][y.m.room]
                      /\ \E f \in gone' : /\ f.type = "DELIVER" /\ f.m = y.m
                                          /\ f.dst = s /\ f.seq = y.seq
    OBVIOUS
  <2>1. CASE y = u BY <1>1, <1>4, <1>6, <1>10, <1>11, <2>1
  <2>2. CASE y \in hbq[s]
    <3>1. /\ y.seq <= Ag[s][y.m.room]
          /\ \E f \in gone : f.type = "DELIVER" /\ f.m = y.m /\ f.dst = s /\ f.seq = y.seq
      BY <2>2 DEF EntryInv
    <3>2. y \in Entry BY <1>6
    <3>3. y.seq \in Int /\ y.m.room \in Room BY <3>2, MsgIdType DEF Entry
    <3>4. y.seq <= Ag'[s][y.m.room]
      <4>1. /\ Ag[s][y.m.room] \in Nat /\ Ag'[s][y.m.room] \in Nat
            /\ Ag[s][y.m.room] <= Ag'[s][y.m.room]
        BY <1>10, <3>3
      <4> QED BY <3>1, <3>3, <4>1
    <3> QED BY <1>11, <3>1, <3>4
  <2> QED BY <1>13, <2>1, <2>2
(* A batch message carries its agreed number, and s has proposed for it.   *)
<1>17. \A a \in R : /\ \A o \in sent : o.type = "DELIVER" /\ o.m = a.m => o.seq = a.seq
                    /\ HasProposed(s, a.m)
  <2> SUFFICES ASSUME NEW a \in R
               PROVE  /\ \A o \in sent : o.type = "DELIVER" /\ o.m = a.m => o.seq = a.seq
                      /\ HasProposed(s, a.m)
    OBVIOUS
  <2>1. PICK f \in sent : f.type = "DELIVER" /\ f.m = a.m /\ f.seq = a.seq
    BY <1>11, <1>14, <1>16
  <2>2. HasProposed(s, a.m) BY <2>1, FinalImpliesProposed
  <2> QED BY <2>1, <2>2 DEF FinalInv
(* What s had delivered in the room sorts before all of q.                 *)
<1>18. \A k \in MsgId : InLog(s, k) /\ k.room = g =>
          \A x \in q : x.m.room = g /\ HasProposed(s, x.m) =>
             \A f \in sent : f.type = "DELIVER" /\ f.m = k => Less(f, x)
  <2> SUFFICES ASSUME NEW k \in MsgId, InLog(s, k), k.room = g,
                      NEW x \in q, x.m.room = g, HasProposed(s, x.m),
                      NEW f \in sent, f.type = "DELIVER", f.m = k
               PROVE  Less(f, x)
    OBVIOUS
  <2>1. \A y \in hbq[s] : y.m.room = g /\ HasProposed(s, y.m) => Less(f, y)
    BY <1>5 DEF InLog, LogInv
  <2>2. CASE x = u
    <3>1. HasProposed(s, m) BY <1>1, <1>4, FinalImpliesProposed
    <3>2. Less(f, e) BY <1>4, <1>6, <2>1, <3>1
    <3>3. e.status = "NOTDELIVERABLE"
      <4> SUFFICES ASSUME e.status # "NOTDELIVERABLE" PROVE FALSE OBVIOUS
      <4>1. e \in Entry BY <1>6 DEF TypeOK
      <4>2. e.status = "DELIVERABLE" BY <4>1 DEF Entry
      <4>3. PICK h \in gone : h.type = "DELIVER" /\ h.m = m /\ h.dst = s
        BY <1>6, <4>2 DEF EntryInv
      <4>4. h \in sent BY <1>11
      <4>5. h = d BY <1>1, <1>4, <4>3, <4>4 DEF FinalInv
      <4> QED BY <1>1, <4>5
    <3>4. e.seq <= d.seq
      <4>1. PICK p \in gone : p.type = "PROPOSE" /\ p.m = m /\ p.src = s /\ p.seq <= d.seq
        BY <1>1, <1>4 DEF FinalInv
      <4>2. p.seq = e.seq BY <1>6, <1>11, <3>3, <4>1 DEF EntryInv
      <4> QED BY <4>1, <4>2
    <3>5. /\ e.seq \in Int /\ f.seq \in Nat
          /\ u.seq = d.seq /\ u.m = e.m
      <4>1. e \in Entry BY <1>6 DEF TypeOK
      <4> QED BY <1>6, <1>12, <4>1 DEF Entry
    <3> QED BY <1>1, <2>2, <3>2, <3>4, <3>5 DEF Less
  <2>3. CASE x \in hbq[s] BY <2>1, <2>3
  <2> QED BY <1>13, <2>2, <2>3
<1>19. \A a \in R, x \in q \ R : x.m.room = g => Less(a, x)
  BY <1>6, <1>13, ReadySplit
<1>20. \A k \in MsgId : InLog(s, k) /\ k.room = g =>
          \A j \in DOMAIN M, f, o \in sent :
             f.type = "DELIVER" /\ f.m = k /\ o.type = "DELIVER" /\ o.m = M[j] => Less(f, o)
  <2> SUFFICES ASSUME NEW k \in MsgId, InLog(s, k), k.room = g,
                      NEW j \in DOMAIN M, NEW f \in sent, NEW o \in sent,
                      f.type = "DELIVER", f.m = k, o.type = "DELIVER", o.m = M[j]
               PROVE  Less(f, o)
    OBVIOUS
  <2>1. PICK a \in R : M[j] = a.m BY <1>9
  <2>2. Less(f, a) BY <1>14, <1>17, <1>18
  <2>3. o.seq = a.seq /\ o.m = a.m BY <1>17, <2>1
  <2> QED BY <2>2, <2>3 DEF Less
<1>21. \A i, j \in DOMAIN M : i < j =>
          \A f, o \in sent :
             f.type = "DELIVER" /\ f.m = M[i] /\ o.type = "DELIVER" /\ o.m = M[j] => Less(f, o)
  <2> SUFFICES ASSUME NEW i \in DOMAIN M, NEW j \in DOMAIN M, i < j,
                      NEW f \in sent, NEW o \in sent,
                      f.type = "DELIVER", f.m = M[i], o.type = "DELIVER", o.m = M[j]
               PROVE  Less(f, o)
    OBVIOUS
  <2>1. PICK a \in R, b \in R : M[i] = a.m /\ M[j] = b.m /\ Less(a, b) BY <1>9
  <2>2. f.seq = a.seq /\ o.seq = b.seq BY <1>17, <2>1
  <2> QED BY <2>1, <2>2 DEF Less
<1>22. /\ \A t \in Server : \A k : HasMsg(t, k)' => HasMsg(t, k)
       /\ \A k : HasMsg(s, k) => HasMsg(s, k)' \/ \E a \in R : a.m = k
       /\ \A t \in Server : \A k : t # s /\ HasMsg(t, k) => HasMsg(t, k)'
       /\ \A a \in R : ~HasMsg(s, a.m)'
  <2>1. \A t \in Server : \A k : HasMsg(t, k)' => HasMsg(t, k)
    BY <1>6, <1>13 DEF HasMsg
  <2>2. \A k : HasMsg(s, k) => HasMsg(s, k)' \/ \E a \in R : a.m = k
    BY <1>6, <1>13 DEF HasMsg
  <2>3. \A t \in Server : \A k : t # s /\ HasMsg(t, k) => HasMsg(t, k)'
    BY <1>6 DEF HasMsg
  <2>4. \A a \in R : ~HasMsg(s, a.m)' BY <1>6, <1>13, <1>14 DEF HasMsg
  <2> QED BY <2>1, <2>2, <2>3, <2>4
<1>23. PICK L, N : L = log[s][g] /\ N = log'[s][g] OBVIOUS
<1>24. L \in Seq(MsgId) /\ N = L \o M BY <1>7, <1>23
<1>25. /\ \A i \in DOMAIN L : i \in DOMAIN N /\ N[i] = L[i]
       /\ \A k \in DOMAIN M : \E i \in DOMAIN N : N[i] = M[k]
       /\ \A i \in DOMAIN N : \/ i \in DOMAIN L /\ N[i] = L[i]
                              \/ \E k \in DOMAIN M : N[i] = M[k]
       /\ \A i, j \in DOMAIN N : i < j =>
             \/ i \in DOMAIN L /\ j \in DOMAIN L /\ N[i] = L[i] /\ N[j] = L[j]
             \/ i \in DOMAIN L /\ N[i] = L[i] /\ \E k \in DOMAIN M : N[j] = M[k]
             \/ \E h, k \in DOMAIN M : h < k /\ N[i] = M[h] /\ N[j] = M[k]
  <2>1. M \in Seq(MsgId) BY <1>9
  <2>2. FromParts(L, M, N) BY <1>24, <2>1, Appended
  <2> QED BY <2>2 DEF FromParts
<1>25a. /\ \A t \in Server, k \in MsgId : InLog(t, k) => InLog(t, k)'
        /\ \A a \in R : InLog(s, a.m)'
  <2>1. \A k \in MsgId : k.room = g /\ InLog(s, k) => InLog(s, k)'
    BY <1>23, <1>25 DEF InLog
  <2>2. \A t \in Server, k \in MsgId : t # s \/ k.room # g => log'[t][k.room] = log[t][k.room]
    BY <1>7, MsgIdType
  <2>3. \A a \in R : \E i \in DOMAIN N : N[i] = a.m
    <3> SUFFICES ASSUME NEW a \in R PROVE \E i \in DOMAIN N : N[i] = a.m OBVIOUS
    <3>1. PICK k \in DOMAIN M : M[k] = a.m BY <1>9
    <3>2. PICK i \in DOMAIN N : N[i] = M[k] BY <1>25
    <3> QED BY <3>1, <3>2
  <2>4. \A a \in R : InLog(s, a.m)' BY <1>14, <1>23, <2>3 DEF InLog
  <2> QED BY <2>1, <2>2, <2>4 DEF InLog
<1>26. NoCheckFails' BY <1>2 DEF NoCheckFails
<1>27. NormalInv' BY <1>2 DEF NormalInv
<1>28. ProposeInv' BY <1>2, <1>11 DEF ProposeInv
<1>29. FinalInv' BY <1>2, <1>11 DEF FinalInv
<1>30. EntryInv'
  <2> SUFFICES ASSUME NEW t \in Server, NEW a \in hbq'[t] PROVE
      /\ \A y \in hbq'[t] : y.m = a.m => y = a
      /\ \E r \in sent' : r.type = "NORMAL" /\ r.m = a.m
      /\ t # Origin(a.m) => HasProposed(t, a.m)'
      /\ a.status = "NOTDELIVERABLE" =>
           \A r \in sent' : r.type = "PROPOSE" /\ r.m = a.m /\ r.src = t => r.seq = a.seq
      /\ a.status = "DELIVERABLE" =>
           /\ a.seq <= Ag'[t][a.m.room]
           /\ \E f \in gone' :
                f.type = "DELIVER" /\ f.m = a.m /\ f.dst = t /\ f.seq = a.seq
      /\ \A y \in a.proposed : \E r \in gone' :
           r.type = "PROPOSE" /\ r.m = a.m /\ r.src = y[1] /\ r.seq = y[2]
    BY DEF EntryInv
  <2>1. PICK b \in hbq[t] : b.m = a.m /\ b.proposed = a.proposed /\ (b = a \/ (t = s /\ a = u))
    <3>1. CASE t = s BY <1>6, <1>13, <3>1
    <3>2. CASE t # s BY <1>6, <3>2
    <3> QED BY <3>1, <3>2
  <2>2. \A y \in hbq'[t] : y.m = a.m => y = a
    <3>1. CASE t = s BY <1>6, <1>13, <3>1
    <3>2. CASE t # s BY <1>6, <3>2 DEF EntryInv
    <3> QED BY <3>1, <3>2
  <2>3. t # Origin(a.m) => HasProposed(t, a.m)' BY <1>15, <2>1 DEF EntryInv
  <2>4. a.status = "NOTDELIVERABLE" =>
          \A r \in sent' : r.type = "PROPOSE" /\ r.m = a.m /\ r.src = t => r.seq = a.seq
    BY <1>2, <1>6, <2>1 DEF EntryInv
  <2>5. a.status = "DELIVERABLE" =>
          /\ a.seq <= Ag'[t][a.m.room]
          /\ \E f \in gone' :
               f.type = "DELIVER" /\ f.m = a.m /\ f.dst = t /\ f.seq = a.seq
    <3>1. CASE t = s BY <1>6, <1>16, <3>1
    <3>2. CASE t # s
      <4>1. a \in hbq[t] /\ Ag'[t] = Ag[t] BY <1>3, <1>6, <3>2 DEF FinalEffect
      <4> QED BY <1>11, <4>1 DEF EntryInv
    <3> QED BY <3>1, <3>2
  <2>6. \A y \in a.proposed : \E r \in gone' :
           r.type = "PROPOSE" /\ r.m = a.m /\ r.src = y[1] /\ r.seq = y[2]
    BY <1>11, <2>1 DEF EntryInv
  <2> QED BY <1>2, <2>1, <2>2, <2>3, <2>4, <2>5, <2>6 DEF EntryInv
<1>31. KeptInv'
  <2> SUFFICES ASSUME NEW r \in sent, r.type \in {"NORMAL", "PROPOSE"}
               PROVE  (HasMsg(r.src, r.m) \/ InLog(r.src, r.m))'
    BY <1>2 DEF KeptInv
  <2>1. r.src \in Server /\ r.m \in MsgId BY DatagramFields DEF TypeOK
  <2>2. HasMsg(r.src, r.m) \/ InLog(r.src, r.m) BY DEF KeptInv
  <2>3. CASE InLog(r.src, r.m) BY <1>25a, <2>1, <2>3
  <2>4. CASE HasMsg(r.src, r.m) /\ r.src # s BY <1>22, <2>1, <2>4
  <2>5. CASE HasMsg(s, r.m) /\ r.src = s
    <3>1. CASE HasMsg(s, r.m)' BY <2>5, <3>1
    <3>2. CASE ~HasMsg(s, r.m)'
      <4>1. PICK a \in R : a.m = r.m BY <1>22, <2>5, <3>2
      <4>2. InLog(s, r.m)' BY <1>25a, <4>1
      <4> QED BY <2>5, <4>2
    <3> QED BY <3>1, <3>2
  <2> QED BY <2>2, <2>3, <2>4, <2>5
<1>32. LogInv'
  <2> SUFFICES ASSUME NEW t \in Server, NEW h \in Room, NEW i \in DOMAIN log'[t][h],
                      NEW k, k = log'[t][h][i]
               PROVE  /\ k.room = h
                      /\ ~HasMsg(t, k)'
                      /\ \E f \in gone' : /\ f.type = "DELIVER" /\ f.m = k /\ f.dst = t
                                          /\ f.seq <= Ag'[t][h]
                      /\ \A x \in hbq'[t] : x.m.room = h /\ HasProposed(t, x.m)' =>
                           \A f \in sent : f.type = "DELIVER" /\ f.m = k => Less(f, x)
                      /\ \A j \in DOMAIN log'[t][h] : i < j =>
                           \A f, o \in sent :
                             /\ f.type = "DELIVER" /\ f.m = k
                             /\ o.type = "DELIVER" /\ o.m = log'[t][h][j]
                             => Less(f, o)
    BY <1>2 DEF LogInv
  <2>1. \/ k \in MsgId /\ InLog(t, k) /\ k.room = h
        \/ t = s /\ h = g /\ \E a \in R : a.m = k
    <3>1. CASE t = s /\ h = g
      <4>1. i \in DOMAIN N /\ k = N[i] BY <1>23, <3>1
      <4>2. CASE i \in DOMAIN L /\ N[i] = L[i]
        <5>1. k.room = h BY <1>5, <1>23, <3>1, <4>1, <4>2 DEF LogInv
        <5>2. k \in MsgId BY <1>24, <4>1, <4>2
        <5> QED BY <1>23, <3>1, <4>1, <4>2, <5>1, <5>2 DEF InLog
      <4>3. CASE \E j \in DOMAIN M : N[i] = M[j] BY <1>9, <3>1, <4>1, <4>3
      <4> QED BY <1>25, <4>1, <4>2, <4>3
    <3>2. CASE ~(t = s /\ h = g)
      <4>1. log'[t][h] = log[t][h] BY <1>7, <3>2
      <4>2. k.room = h BY <4>1 DEF LogInv
      <4>3. k \in MsgId BY <4>1 DEF TypeOK
      <4> QED BY <4>1, <4>2, <4>3 DEF InLog
    <3> QED BY <3>1, <3>2
  <2>2. k.room = h BY <1>14, <2>1
  <2>3. ~HasMsg(t, k)'
    <3>1. CASE k \in MsgId /\ InLog(t, k) BY <1>22, <3>1, LoggedIsAgreed
    <3>2. CASE t = s /\ \E a \in R : a.m = k BY <1>22, <3>2
    <3> QED BY <2>1, <3>1, <3>2
  <2>4. \E f \in gone' : f.type = "DELIVER" /\ f.m = k /\ f.dst = t /\ f.seq <= Ag'[t][h]
    <3>1. CASE k \in MsgId /\ InLog(t, k)
      <4>1. PICK f \in gone : f.type = "DELIVER" /\ f.m = k /\ f.dst = t /\ f.seq <= Ag[t][h]
        BY <2>2, <3>1, LoggedIsAgreed
      <4>2. f.seq \in Nat BY <1>11, <1>12, <4>1
      <4>3. /\ Ag[t][h] \in Nat /\ Ag'[t][h] \in Nat /\ Ag[t][h] <= Ag'[t][h]
        BY <1>10
      <4>4. f.seq <= Ag'[t][h] BY <4>1, <4>2, <4>3
      <4> QED BY <1>11, <4>1, <4>4
    <3>2. CASE t = s /\ h = g /\ \E a \in R : a.m = k
      <4>1. PICK a \in R : a.m = k BY <3>2
      <4> QED BY <1>14, <1>16, <2>2, <3>2, <4>1
    <3> QED BY <2>1, <3>1, <3>2
  <2>5. ASSUME NEW x \in hbq'[t], x.m.room = h, HasProposed(t, x.m)',
               NEW f \in sent, f.type = "DELIVER", f.m = k
        PROVE  Less(f, x)
    <3>1. HasProposed(t, x.m) BY <1>15, <2>5
    <3>2. CASE t = s /\ h = g /\ \E a \in R : a.m = k
      <4>1. PICK a \in R : a.m = k BY <3>2
      <4>2. Less(a, x) BY <1>6, <1>19, <2>5, <3>2
      <4>3. f.seq = a.seq BY <1>17, <2>5, <4>1
      <4> QED BY <2>5, <4>1, <4>2, <4>3 DEF Less
    <3>3. CASE k \in MsgId /\ InLog(t, k) /\ t = s /\ h = g
      <4>1. x \in q BY <1>6, <3>3
      <4> QED BY <1>18, <2>2, <2>5, <3>1, <3>3, <4>1
    <3>4. CASE k \in MsgId /\ InLog(t, k) /\ ~(t = s /\ h = g)
      <4>1. x \in hbq[t] BY <1>4, <1>6, <2>5, <3>4
      <4>2. PICK j \in DOMAIN log[t][h] : log[t][h][j] = k BY <2>2, <3>4 DEF InLog
      <4> QED BY <2>5, <3>1, <4>1, <4>2 DEF LogInv
    <3> QED BY <2>1, <3>2, <3>3, <3>4
  <2>6. ASSUME NEW j \in DOMAIN log'[t][h], i < j, NEW f \in sent, NEW o \in sent,
               f.type = "DELIVER", f.m = k, o.type = "DELIVER", o.m = log'[t][h][j]
        PROVE  Less(f, o)
    <3>1. CASE t = s /\ h = g
      <4>1. i \in DOMAIN N /\ j \in DOMAIN N /\ f.m = N[i] /\ o.m = N[j]
        BY <1>23, <2>6, <3>1
      <4>2. CASE i \in DOMAIN L /\ j \in DOMAIN L /\ N[i] = L[i] /\ N[j] = L[j]
        BY <1>5, <1>23, <2>6, <4>1, <4>2 DEF LogInv
      <4>3. CASE i \in DOMAIN L /\ N[i] = L[i] /\ \E a \in DOMAIN M : N[j] = M[a]
        <5>1. L[i] \in MsgId /\ L[i].room = g
          BY <1>5, <1>23, <1>24, <4>3 DEF LogInv
        <5>2. InLog(s, L[i]) BY <1>23, <4>3, <5>1 DEF InLog
        <5> QED BY <1>20, <2>6, <4>1, <4>3, <5>1, <5>2
      <4>4. CASE \E a, b \in DOMAIN M : a < b /\ N[i] = M[a] /\ N[j] = M[b]
        BY <1>21, <2>6, <4>1, <4>4
      <4> QED BY <1>25, <2>6, <4>1, <4>2, <4>3, <4>4
    <3>2. CASE ~(t = s /\ h = g)
      <4>1. log'[t][h] = log[t][h] BY <1>7, <3>2
      <4> QED BY <2>6, <4>1 DEF LogInv
    <3> QED BY <3>1, <3>2
  <2> QED BY <2>2, <2>3, <2>4, <2>5, <2>6
<1>33. InboxInv'
  <2> SUFFICES ASSUME NEW c \in Client, NEW K, K = inbox'[c], NEW i \in DOMAIN K
               PROVE  /\ K[i].room \in Room
                      /\ InLog(Home[c], K[i])'
                      /\ \A j \in DOMAIN K : i < j /\ K[i].room = K[j].room =>
                            \A f, o \in sent :
                              /\ f.type = "DELIVER" /\ f.m = K[i]
                              /\ o.type = "DELIVER" /\ o.m = K[j]
                              => Less(f, o)
    BY <1>2 DEF InboxInv, InLog
  <2>1. Home[c] \in Server BY HomeAssumption
  <2>2. PICK I : I = inbox[c] OBVIOUS
  <2>3. I \in Seq(MsgId) BY <2>2 DEF TypeOK
  <2>4. \A k \in DOMAIN I : /\ I[k] \in MsgId /\ I[k].room \in Room
                            /\ InLog(Home[c], I[k])
    BY <2>2, <2>3 DEF InboxInv
  <2>5. \A k \in DOMAIN I : InLog(Home[c], I[k])' BY <1>25a, <2>1, <2>4
  <2>6. \A k \in DOMAIN M : M[k].room = g /\ InLog(s, M[k])'
    <3> SUFFICES ASSUME NEW k \in DOMAIN M PROVE M[k].room = g /\ InLog(s, M[k])' OBVIOUS
    <3>1. PICK a \in R : M[k] = a.m BY <1>9
    <3> QED BY <1>14, <1>25a, <3>1
  <2>7. \A k, j \in DOMAIN I : k < j /\ I[k].room = I[j].room =>
          \A f, o \in sent : /\ f.type = "DELIVER" /\ f.m = I[k]
                             /\ o.type = "DELIVER" /\ o.m = I[j]
                             => Less(f, o)
    BY <2>2 DEF InboxInv
  <2>8. CASE K = I BY <2>4, <2>5, <2>7, <2>8
  <2>9. CASE Home[c] = s /\ K = I \o M
    <3>1. FromParts(I, M, K)
      <4>1. M \in Seq(MsgId) BY <1>9
      <4> QED BY <2>3, <2>9, <4>1, Appended
    <3>2. /\ K[i].room \in Room
          /\ InLog(Home[c], K[i])'
      <4>1. \/ i \in DOMAIN I /\ K[i] = I[i]
            \/ \E k \in DOMAIN M : K[i] = M[k]
        BY <2>2, <3>1 DEF FromParts
      <4>2. CASE i \in DOMAIN I /\ K[i] = I[i] BY <2>4, <2>5, <4>2
      <4>3. CASE \E k \in DOMAIN M : K[i] = M[k] BY <1>5, <2>6, <2>9, <4>3
      <4> QED BY <4>1, <4>2, <4>3
    <3>3. ASSUME NEW j \in DOMAIN K, i < j, K[i].room = K[j].room,
                 NEW f \in sent, NEW o \in sent,
                 f.type = "DELIVER", f.m = K[i], o.type = "DELIVER", o.m = K[j]
          PROVE  Less(f, o)
      <4>1. \/ i \in DOMAIN I /\ j \in DOMAIN I /\ K[i] = I[i] /\ K[j] = I[j]
            \/ i \in DOMAIN I /\ K[i] = I[i] /\ \E k \in DOMAIN M : K[j] = M[k]
            \/ \E h, k \in DOMAIN M : h < k /\ K[i] = M[h] /\ K[j] = M[k]
        BY <2>2, <3>1, <3>3 DEF FromParts
      <4>2. CASE i \in DOMAIN I /\ j \in DOMAIN I /\ K[i] = I[i] /\ K[j] = I[j]
        BY <2>7, <3>3, <4>2
      <4>3. CASE i \in DOMAIN I /\ K[i] = I[i] /\ \E k \in DOMAIN M : K[j] = M[k]
        <5>1. K[i].room = g BY <2>6, <3>3, <4>3
        <5>2. K[i] \in MsgId /\ InLog(s, K[i]) BY <2>4, <2>9, <4>3
        <5> QED BY <1>20, <3>3, <4>3, <5>1, <5>2
      <4>4. CASE \E h, k \in DOMAIN M : h < k /\ K[i] = M[h] /\ K[j] = M[k]
        BY <1>21, <3>3, <4>4
      <4> QED BY <4>1, <4>2, <4>3, <4>4
    <3> QED BY <3>2, <3>3
  <2> QED BY <1>8, <2>2, <2>8, <2>9
<1> QED BY <1>26, <1>27, <1>28, <1>29, <1>30, <1>31, <1>32, <1>33

LEMMA InvStep == Inv /\ [Next]_vars => Inv'
<1> SUFFICES ASSUME Inv, [Next]_vars PROVE Inv' OBVIOUS
<1>1. TypeOK' BY TypeStep DEF Inv
<1>2. ASSUME NEW c \in Client, NEW g \in Room, Join(c, g) PROVE Inv'
  BY <1>1, <1>2, RoomStep DEF Join
<1>3. ASSUME NEW c \in Client, Leave(c) PROVE Inv'
  BY <1>1, <1>3, RoomStep DEF Leave
<1>4. ASSUME NEW c \in Client, ClientMsg(c) PROVE Inv' BY <1>1, <1>4, ClientMsgStep
<1>5. ASSUME NEW s \in Server, Recv(s) PROVE Inv'
  <2>1. PICK d \in InFlight :
          /\ d.dst = s
          /\ gone' = gone \cup {d}
          /\ IF CheckHolds(s, d)
             THEN RecvNormal(s, d) \/ RecvPropose(s, d) \/ RecvFinal(s, d)
             ELSE Abort(s)
    BY <1>5 DEF Recv
  <2>2. CheckHolds(s, d) BY <2>1, CheckPasses
  <2>3. CASE RecvNormal(s, d) BY <1>1, <2>1, <2>3, NormalStep
  <2>4. CASE RecvPropose(s, d) BY <1>1, <2>1, <2>4, ProposeInvStep
  <2>5. CASE RecvFinal(s, d) BY <1>1, <2>1, <2>5, FinalInvStep
  <2> QED BY <2>1, <2>2, <2>3, <2>4, <2>5
<1>6. ASSUME NEW d \in InFlight, Lose(d) PROVE Inv' BY <1>1, <1>6, LoseStep
<1>7. CASE UNCHANGED vars BY <1>1, <1>7, RoomStep DEF vars, protocol
<1> QED BY <1>2, <1>3, <1>4, <1>5, <1>6, <1>7 DEF Next, ReliableNext

(* The two-phase agreement keeps its invariant through every interleaving, *)
(* reordering and loss.                                                    *)
THEOREM InvCorrect == Spec => []Inv
<1>1. Init => Inv BY InvInit
<1>2. Inv /\ [Next]_vars => Inv' BY InvStep
<1> QED BY <1>1, <1>2, PTL DEF Spec

(* No server ever aborts in TotalOrder::GetMsg: the message a datagram     *)
(* names is always in the queue.                                           *)
THEOREM NeverAborts == Spec => []NoCheckFails
<1>1. Inv => NoCheckFails BY DEF Inv
<1> QED BY <1>1, InvCorrect, PTL

-----------------------------------------------------------------------------
(***************************************************************************)
(* What holds a deliverable message back.                                  *)
(***************************************************************************)

Holds(s, b, a) ==
  /\ b.m.room = a.m.room
  /\ b.status = "NOTDELIVERABLE"
  /\ Less(b, a) \/ Home[b.m.addr] = s

(* A queue that gains an entry nobody has agreed on holds what it held.    *)
LEMMA HeldAdded ==
  ASSUME HeldByItsRoom, NEW s \in Server, s \in DOMAIN hbq, NEW x,
         x.status = "NOTDELIVERABLE",
         hbq' = [hbq EXCEPT ![s] = @ \cup {x}]
  PROVE  HeldByItsRoom'
<1>1. hbq'[s] = hbq[s] \cup {x} /\ \A t \in Server : t # s => hbq'[t] = hbq[t] OBVIOUS
<1> QED BY <1>1 DEF HeldByItsRoom, Less

(* So does one whose own line gets its number.                             *)
LEMMA HeldNumbered ==
  ASSUME HeldByItsRoom, NEW s \in Server, s \in DOMAIN hbq, NEW old \in hbq[s], NEW x,
         x.status = "NOTDELIVERABLE", x.m = old.m, Home[x.m.addr] = s,
         hbq' = [hbq EXCEPT ![s] = Replace(@, old, x)]
  PROVE  HeldByItsRoom'
<1>1. /\ hbq'[s] = (hbq[s] \ {old}) \cup {x}
      /\ \A t \in Server : t # s => hbq'[t] = hbq[t]
  BY DEF Replace
<1>2. ASSUME NEW a \in hbq'[s], a.status = "DELIVERABLE"
      PROVE  \E b \in hbq'[s] : Holds(s, b, a)
  <2>1. a \in hbq[s] BY <1>1, <1>2
  <2>2. PICK b \in hbq[s] : Holds(s, b, a) BY <1>2, <2>1 DEF HeldByItsRoom, Holds
  <2>3. CASE b = old
    <3>1. x \in hbq'[s] /\ Holds(s, x, a) BY <1>1, <2>2, <2>3 DEF Holds
    <3> QED BY <3>1
  <2>4. CASE b # old BY <1>1, <2>2, <2>4
  <2> QED BY <2>3, <2>4
<1>3. ASSUME NEW t \in Server, t # s, NEW a \in hbq'[t], a.status = "DELIVERABLE"
      PROVE  \E b \in hbq'[t] : Holds(t, b, a)
  BY <1>1, <1>3 DEF HeldByItsRoom, Holds
<1> QED BY <1>2, <1>3 DEF HeldByItsRoom, Holds, Less

(* And one whose own line collects a proposal.                             *)
LEMMA HeldCollected ==
  ASSUME HeldByItsRoom, NEW s \in Server, s \in DOMAIN hbq, NEW old \in hbq[s], NEW x,
         x.status = old.status, x.m = old.m, x.seq = old.seq,
         hbq' = [hbq EXCEPT ![s] = Replace(@, old, x)]
  PROVE  HeldByItsRoom'
<1>1. /\ hbq'[s] = (hbq[s] \ {old}) \cup {x}
      /\ \A t \in Server : t # s => hbq'[t] = hbq[t]
  BY DEF Replace
<1>2. ASSUME NEW a \in hbq'[s], a.status = "DELIVERABLE"
      PROVE  \E b \in hbq'[s] : Holds(s, b, a)
  <2>1. PICK c \in hbq[s] : c.status = a.status /\ c.m = a.m /\ c.seq = a.seq
    BY <1>1
  <2>2. PICK b \in hbq[s] : Holds(s, b, c) BY <1>2, <2>1 DEF HeldByItsRoom, Holds
  <2>3. Holds(s, b, a) BY <2>1, <2>2 DEF Holds, Less
  <2>4. CASE b = old
    <3>1. x \in hbq'[s] /\ Holds(s, x, a) BY <1>1, <2>3, <2>4 DEF Holds, Less
    <3> QED BY <3>1
  <2>5. CASE b # old BY <1>1, <2>3, <2>5
  <2> QED BY <2>4, <2>5
<1>3. ASSUME NEW t \in Server, t # s, NEW a \in hbq'[t], a.status = "DELIVERABLE"
      PROVE  \E b \in hbq'[t] : Holds(t, b, a)
  BY <1>1, <1>3 DEF HeldByItsRoom, Holds
<1> QED BY <1>2, <1>3 DEF HeldByItsRoom, Holds, Less

(* After the delivery loop has walked the queue, what is deliverable and   *)
(* was not delivered sorts after what it waits for.                        *)
LEMMA HeldWalked ==
  ASSUME Inv, HeldByItsRoom, NEW s \in Server, NEW d \in sent, RecvFinal(s, d)
  PROVE  HeldByItsRoom'
<1>1. d.m \in MsgId /\ d.seq \in Nat
  BY DatagramFields DEF Inv, TypeOK, RecvFinal
<1>2. PICK e \in hbq[s] :
        LET p == Replace(hbq[s], e, Mark(e, d.seq, "DELIVERABLE"))
        IN  e.m = d.m /\ hbq' = [hbq EXCEPT ![s] = p \ Ready(p, d.m.room)]
  BY DEF RecvFinal
<1> DEFINE q == Replace(hbq[s], e, Mark(e, d.seq, "DELIVERABLE"))
           ready == Ready(q, d.m.room)
<1>3. /\ hbq'[s] = q \ ready
      /\ \A t \in Server : t # s => hbq'[t] = hbq[t]
  BY <1>2 DEF Inv, TypeOK
<1>4. \A a \in q : a.m \in MsgId /\ a.seq \in Int
  <2>1. \A a \in hbq[s] : a.m \in MsgId /\ a.seq \in Int BY DEF Inv, TypeOK, Entry
  <2>2. LET x == Mark(e, d.seq, "DELIVERABLE") IN x.m \in MsgId /\ x.seq \in Int
    BY <1>1, <1>2 DEF Mark
  <2> QED BY <1>2, <2>1, <2>2 DEF Replace
<1>5. \A a, b \in q : a.m = b.m => a = b
  BY <1>2 DEF Inv, EntryInv, Replace, Mark
<1>6. ASSUME NEW a \in hbq'[s], a.status = "DELIVERABLE"
      PROVE  \E b \in hbq'[s] : Holds(s, b, a)
  <2>1. a \in q /\ a \notin ready BY <1>3, <1>6
  <2>2. CASE a.m.room = d.m.room
    <3>1. PICK b \in q : b.m.room = d.m.room /\ b.status = "NOTDELIVERABLE" /\ ~Less(a, b)
      BY <1>2, <1>6, <2>1, <2>2 DEF Ready
    <3>2. a.m # b.m BY <1>5, <1>6, <2>1, <3>1
    <3>3. Less(b, a) BY <1>4, <2>1, <2>2, <3>1, <3>2, LessTotal
    <3>4. b \in hbq'[s] BY <1>2, <1>3, <3>1 DEF Ready
    <3> QED BY <2>2, <3>1, <3>3, <3>4 DEF Holds
  <2>3. CASE a.m.room # d.m.room
    <3>1. a \in hbq[s] BY <1>2, <2>1, <2>3 DEF Replace, Mark
    <3>2. PICK b \in hbq[s] : Holds(s, b, a) BY <1>6, <3>1 DEF HeldByItsRoom, Holds
    <3>3. b \in hbq'[s] BY <1>2, <1>3, <2>3, <3>2 DEF Holds, Replace, Ready
    <3> QED BY <3>2, <3>3
  <2> QED BY <2>2, <2>3
<1>7. ASSUME NEW t \in Server, t # s, NEW a \in hbq'[t], a.status = "DELIVERABLE"
      PROVE  \E b \in hbq'[t] : Holds(t, b, a)
  BY <1>3, <1>7 DEF HeldByItsRoom, Holds
<1> QED BY <1>6, <1>7 DEF HeldByItsRoom, Holds, Less

LEMMA HeldStep == Inv /\ HeldByItsRoom /\ [Next]_vars => HeldByItsRoom'
<1> SUFFICES ASSUME Inv, HeldByItsRoom, [Next]_vars PROVE HeldByItsRoom' OBVIOUS
<1>1. DOMAIN hbq = Server BY DEF Inv, TypeOK
<1>2. CASE UNCHANGED hbq BY <1>2 DEF HeldByItsRoom, Less
<1>3. ASSUME NEW c \in Client, ClientMsg(c) PROVE HeldByItsRoom'
  <2>1. Home[c] \in Server BY HomeAssumption
  <2>2. PICK x : x.status = "NOTDELIVERABLE" /\ hbq' = [hbq EXCEPT ![Home[c]] = @ \cup {x}]
    BY <1>3 DEF ClientMsg, NewEntry
  <2> QED BY <1>1, <2>1, <2>2, HeldAdded
<1>4. ASSUME NEW s \in Server, Recv(s) PROVE HeldByItsRoom'
  <2>1. PICK d \in InFlight :
          /\ d.dst = s
          /\ RecvNormal(s, d) \/ RecvPropose(s, d) \/ RecvFinal(s, d) \/ Abort(s)
    BY <1>4 DEF Recv
  <2>2. d \in sent BY DEF InFlight
  <2>3. CASE RecvNormal(s, d)
    <3>1. d.src = Origin(d.m) BY <2>2, <2>3 DEF Inv, NormalInv, RecvNormal
    <3>2. CASE d.src # s
      <4>1. PICK x : x.status = "NOTDELIVERABLE" /\ hbq' = [hbq EXCEPT ![s] = @ \cup {x}]
        BY <2>3, <3>2 DEF RecvNormal, NewEntry
      <4> QED BY <1>1, <4>1, HeldAdded
    <3>3. CASE d.src = s
      <4>1. PICK e \in hbq[s] :
              /\ e.m = d.m
              /\ hbq' = [hbq EXCEPT ![s] = Replace(@, e,
                           Mark(e, NewProposed(s, d.m.room), "NOTDELIVERABLE"))]
        BY <2>3, <3>3 DEF RecvNormal
      <4> DEFINE x == Mark(e, NewProposed(s, d.m.room), "NOTDELIVERABLE")
      <4>2. x.status = "NOTDELIVERABLE" /\ x.m = e.m /\ Home[x.m.addr] = s
        BY <3>1, <3>3, <4>1 DEF Mark, Origin
      <4> QED BY <1>1, <4>1, <4>2, HeldNumbered
    <3> QED BY <3>2, <3>3
  <2>4. CASE RecvPropose(s, d)
    <3>1. PICK e \in hbq[s] : hbq' = [hbq EXCEPT ![s] = Replace(@, e, Collected(e, d))]
      BY <2>2, <2>4, ProposeStep
    <3>2. e \in Entry BY DEF Inv, TypeOK
    <3> DEFINE x == Collected(e, d)
    <3>3. x.status = e.status /\ x.m = e.m /\ x.seq = e.seq
      BY <3>2 DEF Collected, Entry
    <3> QED BY <1>1, <3>1, <3>3, HeldCollected
  <2>5. CASE RecvFinal(s, d) BY <2>2, <2>5, HeldWalked
  <2>6. CASE Abort(s) BY <1>2, <2>6 DEF Abort
  <2> QED BY <2>1, <2>3, <2>4, <2>5, <2>6
<1> QED BY <1>2, <1>3, <1>4 DEF Next, ReliableNext, Join, Leave, Lose, protocol, vars

(* Whatever is lost, a deliverable message is held back only by a line of  *)
(* its own room, in front of it or of the server's own clients.            *)
THEOREM HeldCorrect == Spec => []HeldByItsRoom
<1>1. Init => HeldByItsRoom BY DEF Init, HeldByItsRoom
<1> QED BY <1>1, HeldStep, InvCorrect, PTL DEF Spec

-----------------------------------------------------------------------------
(***************************************************************************)
(* The order of delivery.                                                  *)
(***************************************************************************)

LEMMA InvSameOrder == Inv => SameOrder
<1> SUFFICES ASSUME Inv,
                    NEW c1 \in Client, NEW c2 \in Client,
                    NEW i \in DOMAIN inbox[c1], NEW j \in DOMAIN inbox[c1],
                    NEW k \in DOMAIN inbox[c2], NEW l \in DOMAIN inbox[c2],
                    i < j, inbox[c1][i] = inbox[c2][k], inbox[c1][j] = inbox[c2][l],
                    inbox[c1][i].room = inbox[c1][j].room
             PROVE  k < l
  BY DEF SameOrder
<1> USE DEF Inv
<1>1. PICK a, b : a = inbox[c1][i] /\ b = inbox[c1][j] OBVIOUS
<1>2. /\ a \in MsgId /\ b \in MsgId
      /\ InLog(Home[c1], a) /\ InLog(Home[c1], b) /\ Home[c1] \in Server
      /\ k \in Nat /\ l \in Nat
  BY <1>1, HomeAssumption DEF TypeOK, InboxInv
<1>3. gone \subseteq sent BY DEF TypeOK
<1>4. PICK f \in sent : f.type = "DELIVER" /\ f.m = a BY <1>2, <1>3, LoggedIsAgreed
<1>5. PICK h \in sent : h.type = "DELIVER" /\ h.m = b BY <1>2, <1>3, LoggedIsAgreed
<1>6. Less(f, h) BY <1>1, <1>4, <1>5 DEF InboxInv
<1>7. f.seq \in Int /\ h.seq \in Int
  BY <1>4, <1>5, DatagramFields DEF TypeOK
<1>8. ~Less(h, f)
  <2>1. Less(h, f) => Less(f, f) BY <1>2, <1>4, <1>5, <1>6, <1>7, LessTransitive
  <2> QED BY <1>2, <1>4, <1>7, <2>1, LessIrreflexive
<1>9. ~(l < k) BY <1>1, <1>4, <1>5, <1>8 DEF InboxInv
<1>10. l # k
  <2> SUFFICES ASSUME l = k PROVE FALSE OBVIOUS
  <2>1. a = b BY <1>1
  <2>2. h.seq = f.seq BY <1>4, <1>5, <2>1 DEF FinalInv
  <2>3. Less(f, f) BY <1>4, <1>5, <1>6, <2>1, <2>2 DEF Less
  <2> QED BY <1>2, <1>4, <1>7, <2>3, LessIrreflexive
<1> QED BY <1>2, <1>9, <1>10

(* Two clients that both received two lines of a room received them in the *)
(* same order: what test/stresstest.cc compares, for any number of them.   *)
THEOREM SameOrderCorrect == Spec => []SameOrder
<1>1. Inv => SameOrder BY InvSameOrder
<1> QED BY <1>1, InvCorrect, PTL

(* No message is in a server's log twice.                                  *)
LEMMA LogNoRepeat ==
  ASSUME Inv, NEW s \in Server, NEW g \in Room,
         NEW i \in DOMAIN log[s][g], NEW j \in DOMAIN log[s][g],
         log[s][g][i] = log[s][g][j]
  PROVE  i = j
<1> USE DEF Inv
<1>1. gone \subseteq sent BY DEF TypeOK
<1>2. i \in Nat /\ j \in Nat /\ log[s][g][i] \in MsgId BY DEF TypeOK
<1>3. PICK f \in sent : f.type = "DELIVER" /\ f.m = log[s][g][i]
  BY <1>1 DEF LogInv
<1>4. ~Less(f, f)
  <2>1. f.seq \in Int BY <1>3, DatagramFields DEF TypeOK
  <2> QED BY <1>2, <1>3, <2>1, LessIrreflexive
<1> QED BY <1>2, <1>3, <1>4 DEF LogInv

(* What sorts before a message in q, and was delivered by another server,  *)
(* is in q too, and earlier.                                               *)
LEMMA DeliveredEarlier ==
  ASSUME Inv, NEW s \in Server, NEW t \in Server, NEW g \in Room,
         NEW k \in DOMAIN log[s][g], NEW i \in DOMAIN log[t][g],
         NEW f \in sent, f.type = "DELIVER", f.m = log[s][g][k],
         NEW h \in sent, h.type = "DELIVER", h.m = log[t][g][i],
         Less(f, h)
  PROVE  \E j \in DOMAIN log[t][g] : j < i /\ log[t][g][j] = f.m
<1> USE DEF Inv
<1>1. /\ f.seq \in Nat /\ h.seq \in Nat
      /\ f.m \in MsgId /\ h.m \in MsgId /\ f.m.room = g /\ h.m.room = g
  BY DatagramFields DEF TypeOK, LogInv
<1>2. ~Less(h, f)
  <2>1. Less(h, f) => Less(f, f) BY <1>1, LessTransitive
  <2> QED BY <1>1, <2>1, LessIrreflexive
<1>3. HasProposed(t, f.m) BY FinalImpliesProposed
<1>4. HasMsg(t, f.m) \/ InLog(t, f.m) BY <1>3, ProposedImpliesKept
<1>5. ~HasMsg(t, f.m)
  <2> SUFFICES ASSUME HasMsg(t, f.m) PROVE FALSE OBVIOUS
  <2>1. PICK e \in hbq[t] : e.m = f.m BY DEF HasMsg
  <2>2. Less(h, e) BY <1>1, <1>3, <2>1 DEF LogInv
  <2>3. e.seq <= f.seq
    <3>1. e \in Entry BY DEF TypeOK
    <3>2. gone \subseteq sent BY DEF TypeOK
    <3>3. CASE e.status = "NOTDELIVERABLE"
      <4>1. PICK p \in gone : /\ p.type = "PROPOSE" /\ p.m = f.m /\ p.src = t
                              /\ p.seq <= f.seq
        BY DEF FinalInv
      <4>2. p.seq = e.seq BY <2>1, <3>2, <3>3, <4>1 DEF EntryInv
      <4> QED BY <4>1, <4>2
    <3>4. CASE e.status = "DELIVERABLE"
      <4>1. PICK p \in gone : p.type = "DELIVER" /\ p.m = f.m /\ p.seq = e.seq
        BY <2>1, <3>4 DEF EntryInv
      <4>2. p.seq = f.seq BY <3>2, <4>1 DEF FinalInv
      <4> QED BY <1>1, <4>1, <4>2
    <3> QED BY <3>1, <3>3, <3>4 DEF Entry
  <2>4. e.seq \in Int
    <3>1. e \in Entry BY DEF TypeOK
    <3> QED BY <3>1 DEF Entry
  <2> QED BY <1>1, <1>2, <2>1, <2>2, <2>3, <2>4 DEF Less
<1>6. PICK j \in DOMAIN log[t][g] : log[t][g][j] = f.m BY <1>1, <1>4, <1>5 DEF InLog
<1>7. j # i
  <2> SUFFICES ASSUME j = i PROVE FALSE OBVIOUS
  <2>1. f.m = h.m BY <1>6
  <2>2. h.seq = f.seq BY <2>1 DEF FinalInv
  <2>3. Less(h, f) BY <2>1, <2>2 DEF Less
  <2> QED BY <1>2, <2>3
<1>8. ~(i < j) BY <1>2, <1>6 DEF LogInv
<1>9. i \in Nat /\ j \in Nat BY DEF TypeOK
<1> QED BY <1>6, <1>7, <1>8, <1>9

(* Two logs cannot differ at a place both have: all that the one has up to *)
(* there would have to fit into fewer places of the other.                 *)
LEMMA NoDisagreement ==
  ASSUME Inv, NEW s \in Server, NEW t \in Server, NEW g \in Room,
         NEW i \in DOMAIN log[s][g], i \in DOMAIN log[t][g],
         NEW f \in sent, f.type = "DELIVER", f.m = log[s][g][i],
         NEW h \in sent, h.type = "DELIVER", h.m = log[t][g][i],
         Less(f, h)
  PROVE  FALSE
<1> USE DEF Inv
<1>1. PICK p, q : p = log[s][g] /\ q = log[t][g] OBVIOUS
<1>2. /\ p \in Seq(MsgId) /\ q \in Seq(MsgId) /\ i \in Nat
      /\ \A k \in 1 .. i : k \in DOMAIN p
      /\ \A k \in 1 .. i : k \in DOMAIN q
  BY <1>1 DEF TypeOK
<1>3. \A k \in 1 .. i : \E j \in 1 .. (i - 1) : q[j] = p[k]
  <2> SUFFICES ASSUME NEW k \in 1 .. i PROVE \E j \in 1 .. (i - 1) : q[j] = p[k]
    OBVIOUS
  <2>1. gone \subseteq sent BY DEF TypeOK
  <2>2. k \in DOMAIN log[s][g] BY <1>1, <1>2
  <2>3. PICK o \in sent : o.type = "DELIVER" /\ o.m = log[s][g][k]
    BY <2>1, <2>2 DEF LogInv
  <2>4. Less(o, h)
    <3>1. CASE k = i
      <4>1. o.m = f.m BY <2>3, <3>1
      <4>2. o.seq = f.seq BY <2>3, <4>1 DEF FinalInv
      <4> QED BY <4>1, <4>2 DEF Less
    <3>2. CASE k # i
      <4>1. k < i BY <1>2, <3>2
      <4>2. Less(o, f) BY <2>2, <2>3, <4>1 DEF LogInv
      <4>3. /\ o.seq \in Int /\ f.seq \in Int /\ h.seq \in Int
            /\ o.m \in MsgId /\ f.m \in MsgId /\ h.m \in MsgId
        BY <2>3, DatagramFields DEF TypeOK
      <4> QED BY <4>2, <4>3, LessTransitive
    <3> QED BY <3>1, <3>2
  <2>5. PICK j \in DOMAIN log[t][g] : j < i /\ log[t][g][j] = o.m
    BY <2>2, <2>3, <2>4, DeliveredEarlier
  <2>6. j \in 1 .. (i - 1) BY <1>1, <1>2, <2>5
  <2> QED BY <1>1, <2>3, <2>5, <2>6
<1>4. PICK fn \in [1 .. i -> 1 .. (i - 1)] : \A k \in 1 .. i : q[fn[k]] = p[k]
  <2> DEFINE fun == [k \in 1 .. i |-> CHOOSE j \in 1 .. (i - 1) : q[j] = p[k]]
  <2>1. fun \in [1 .. i -> 1 .. (i - 1)] /\ \A k \in 1 .. i : q[fun[k]] = p[k]
    BY <1>3
  <2> QED BY <2>1
<1>5. PICK x, y \in 1 .. i : x # y /\ fn[x] = fn[y]
  <2>0. i \in Nat /\ i - 1 \in Nat /\ i > i - 1 BY <1>1, <1>2
  <2>1. \A b \in Int : IsFiniteSet(1 .. b) /\ Cardinality(1 .. b) = IF 1 > b THEN 0 ELSE b - 1 + 1
    BY FS_Interval
  <2>2. IsFiniteSet(1 .. i) /\ Cardinality(1 .. i) = i BY <2>0, <2>1
  <2>3. IsFiniteSet(1 .. (i - 1)) /\ Cardinality(1 .. (i - 1)) = i - 1 BY <2>0, <2>1
  <2>4. PICK A, B : A = 1 .. i /\ B = 1 .. (i - 1) OBVIOUS
  <2>5. IsFiniteSet(A) /\ IsFiniteSet(B) /\ Cardinality(B) < Cardinality(A)
    BY <2>0, <2>2, <2>3, <2>4
  <2>6. fn \in [A -> B] BY <1>4, <2>4
  <2>7. fn \notin Injection(A, B)
    <3> SUFFICES ASSUME fn \in Injection(A, B) PROVE FALSE OBVIOUS
    <3>1. IsFiniteSet(A) /\ Cardinality(A) <= Cardinality(B) BY <2>5, FS_Injection
    <3>2. Cardinality(A) = i /\ Cardinality(B) = i - 1 BY <2>2, <2>3, <2>4
    <3> QED BY <2>0, <3>1, <3>2
  <2> QED BY <2>4, <2>6, <2>7 DEF Injection, IsInjective
<1>6. p[x] = p[y] BY <1>4, <1>5
<1> QED BY <1>1, <1>2, <1>5, <1>6, LogNoRepeat

(* Of two servers' logs of a room one is a prefix of the other.            *)
LEMMA LogsAgree ==
  ASSUME Inv, NEW s \in Server, NEW t \in Server, NEW g \in Room
  PROVE  Broadcast!Agree(log[s][g], log[t][g])
<1> USE DEF Inv
<1> SUFFICES ASSUME NEW i \in DOMAIN log[s][g] \cap DOMAIN log[t][g],
                    log[s][g][i] # log[t][g][i]
             PROVE  FALSE
  BY DEF Broadcast!Agree
<1>1. gone \subseteq sent BY DEF TypeOK
<1>2. PICK f \in sent : f.type = "DELIVER" /\ f.m = log[s][g][i]
  BY <1>1 DEF LogInv
<1>3. PICK h \in sent : h.type = "DELIVER" /\ h.m = log[t][g][i]
  BY <1>1 DEF LogInv
<1>4. /\ f.seq \in Int /\ h.seq \in Int /\ f.m \in MsgId /\ h.m \in MsgId
      /\ f.m.room = h.m.room
  BY <1>2, <1>3, DatagramFields DEF TypeOK, LogInv
<1>5. Less(f, h) \/ Less(h, f) BY <1>2, <1>3, <1>4, LessTotal
<1> QED BY <1>2, <1>3, <1>5, NoDisagreement

-----------------------------------------------------------------------------
(***************************************************************************)
(* The refinement: atomic broadcast.                                       *)
(***************************************************************************)

LEMMA CastUnchanged ==
  ASSUME sent \subseteq sent', \A d \in sent' : d.type = "NORMAL" => d \in sent
  PROVE  Cast' = Cast
BY DEF Cast

(* What is in a log was multicast, for that room.                          *)
LEMMA LoggedWasCast ==
  ASSUME Inv, NEW s \in Server, NEW g \in Room, NEW i \in DOMAIN log[s][g]
  PROVE  log[s][g][i] \in Cast /\ log[s][g][i].room = g
<1> USE DEF Inv
<1>1. gone \subseteq sent BY DEF TypeOK
<1>2. PICK f \in sent : f.type = "DELIVER" /\ f.m = log[s][g][i]
  BY <1>1 DEF LogInv
<1>3. PICK p \in sent : p.type = "PROPOSE" /\ p.m = f.m
  BY <1>2, FinalImpliesProposed DEF HasProposed
<1>4. PICK d \in sent : d.type = "NORMAL" /\ d.m = p.m
  BY <1>1, <1>3 DEF ProposeInv
<1> QED BY <1>2, <1>3, <1>4 DEF Cast, LogInv

(* What the abstract specification asks of the logs.                       *)
LogsGood ==
  \A s \in Server, g \in Room :
    /\ \A i \in DOMAIN log[s][g] : log[s][g][i] \in Cast /\ log[s][g][i].room = g
    /\ Broadcast!NoRepeat(log[s][g])
    /\ \A t \in Server : Broadcast!Agree(log[s][g], log[t][g])

LEMMA InvLogsGood == Inv => LogsGood
<1> SUFFICES ASSUME Inv, NEW s \in Server, NEW g \in Room
             PROVE  /\ \A i \in DOMAIN log[s][g] :
                         log[s][g][i] \in Cast /\ log[s][g][i].room = g
                    /\ Broadcast!NoRepeat(log[s][g])
                    /\ \A t \in Server : Broadcast!Agree(log[s][g], log[t][g])
  BY DEF LogsGood
<1>1. Broadcast!NoRepeat(log[s][g]) BY LogNoRepeat DEF Broadcast!NoRepeat
<1>2. \A t \in Server : Broadcast!Agree(log[s][g], log[t][g]) BY LogsAgree
<1>3. \A i \in DOMAIN log[s][g] : log[s][g][i] \in Cast /\ log[s][g][i].room = g
  BY LoggedWasCast
<1> QED BY <1>1, <1>2, <1>3

LEMMA ClientMsgRefines ==
  ASSUME Inv, NEW c \in Client, ClientMsg(c)
  PROVE  Broadcast!Multicast
<1> USE DEF Inv
<1>1. PICK s, m : s = Home[c] /\ m = [addr |-> c, room |-> room[c], id |-> nextId[s]]
  OBVIOUS
<1>2. /\ sent' = sent \cup {Normal(s, t, m) : t \in Server}
      /\ UNCHANGED log
  BY <1>1 DEF ClientMsg
<1>3. s \in Server /\ s = Origin(m) BY <1>1, HomeAssumption DEF Origin
<1>4. m \in MsgId /\ m.id = nextId[s] BY <1>1, <1>3 DEF ClientMsg, TypeOK, MsgId
<1>5. \A d \in sent : d.m # m BY <1>3, <1>4, FreshMsg
<1>6. \A t \in Server : Normal(s, t, m).type = "NORMAL" /\ Normal(s, t, m).m = m
  BY DEF Normal
<1>7. m \notin Cast BY <1>5 DEF Cast
<1>8. Cast' = Cast \cup {m}
  <2>1. \A d \in sent' : d \in sent \/ (d.m = m /\ d.type = "NORMAL") BY <1>2, <1>6
  <2>2. \E d \in sent' : d.m = m /\ d.type = "NORMAL" BY <1>2, <1>3, <1>6
  <2>3. sent \subseteq sent' BY <1>2
  <2> QED BY <2>1, <2>2, <2>3 DEF Cast
<1>9. m \in Cast' \ Cast BY <1>7, <1>8
<1> QED BY <1>2, <1>4, <1>8, <1>9 DEF Broadcast!Multicast

LEMMA FinalRefines ==
  ASSUME Inv, TypeOK', LogsGood',
         NEW s \in Server, NEW d \in InFlight, d.dst = s, RecvFinal(s, d)
  PROVE  (\E g \in Room : Broadcast!Deliver(s, g)) \/ UNCHANGED <<Cast, log>>
<1> USE DEF Inv
<1>1. d \in sent /\ d.m.room \in Room /\ sent' = sent
  BY DatagramFields, MsgIdType DEF InFlight, TypeOK, RecvFinal
<1>2. Cast' = Cast BY <1>1, CastUnchanged
<1>3. PICK e, u, q, R, M : FinalEffect(s, d, e, u, q, R, M) BY FinalHasEffect
<1>4. PICK g \in Room : g = d.m.room BY <1>1
<1>5. PICK old, new : old = log[s][g] /\ new = log'[s][g] OBVIOUS
<1>6. /\ new = old \o M
      /\ M \in Seq(MsgId) /\ old \in Seq(MsgId)
      /\ \A t \in Server : t # s => log'[t] = log[t]
      /\ \A h \in Room : h # g => log'[s][h] = log[s][h]
  BY <1>3, <1>4, <1>5 DEF FinalEffect, TypeOK
<1>7. /\ log \in [Server -> [Room -> Seq(MsgId)]]
      /\ log' \in [Server -> [Room -> Seq(MsgId)]]
  BY DEF TypeOK
<1>8. CASE M = <<>>
  <2>1. new = old BY <1>6, <1>8
  <2>2. \A t \in Server, h \in Room : log'[t][h] = log[t][h] BY <1>5, <1>6, <2>1
  <2>3. log' = log BY <1>7, <2>2
  <2> QED BY <1>2, <2>3
<1>9. CASE M # <<>>
  <2>1. log' = [log EXCEPT ![s][g] = new]
    <3>1. log'[s] = [log[s] EXCEPT ![g] = new] BY <1>5, <1>6, <1>7
    <3>2. log' = [log EXCEPT ![s] = log'[s]] BY <1>6, <1>7
    <3> QED BY <1>7, <3>1, <3>2
  <2>2. Len(old) < Len(new)
    <3>1. Len(M) \in Nat /\ Len(M) # 0 BY <1>6, <1>9, EmptySeq
    <3>2. Len(new) = Len(old) + Len(M) /\ Len(old) \in Nat BY <1>6, ConcatProperties
    <3> QED BY <3>1, <3>2
  <2>3. Broadcast!Agree(old, new)
    <3>1. FromParts(old, M, new) BY <1>6, Appended
    <3> QED BY <3>1 DEF FromParts, Broadcast!Agree
  <2>4. /\ \A i \in DOMAIN new : new[i] \in Cast /\ new[i].room = g
        /\ Broadcast!NoRepeat(new)
        /\ \A r \in Server : Broadcast!Agree(new, log'[r][g])
    BY <1>2, <1>5 DEF LogsGood, Broadcast!NoRepeat, Broadcast!Agree
  <2>7. Broadcast!Deliver(s, g)
    BY <1>2, <1>5, <2>1, <2>2, <2>3, <2>4 DEF Broadcast!Deliver
  <2> QED BY <2>7
<1> QED BY <1>8, <1>9

LEMMA StepRefines ==
  Inv /\ TypeOK' /\ LogsGood' /\ [Next]_vars => [Broadcast!Next]_<<Cast, log>>
<1> SUFFICES ASSUME Inv, TypeOK', LogsGood', [Next]_vars
             PROVE  Broadcast!Next \/ UNCHANGED <<Cast, log>>
  OBVIOUS
<1>1. ASSUME NEW c \in Client, NEW g \in Room, Join(c, g) PROVE UNCHANGED <<Cast, log>>
  BY <1>1 DEF Join, protocol, Cast
<1>2. ASSUME NEW c \in Client, Leave(c) PROVE UNCHANGED <<Cast, log>>
  BY <1>2 DEF Leave, protocol, Cast
<1>3. ASSUME NEW c \in Client, ClientMsg(c) PROVE Broadcast!Next
  BY <1>3, ClientMsgRefines DEF Broadcast!Next
<1>4. ASSUME NEW s \in Server, Recv(s) PROVE Broadcast!Next \/ UNCHANGED <<Cast, log>>
  <2>1. PICK d \in InFlight :
          /\ d.dst = s
          /\ RecvNormal(s, d) \/ RecvPropose(s, d) \/ RecvFinal(s, d) \/ Abort(s)
    BY <1>4 DEF Recv
  <2>2. d \in sent BY DEF InFlight
  <2>3. CASE RecvNormal(s, d)
    <3>1. PICK p : p.type = "PROPOSE" /\ sent' = sent \cup {p}
      BY <2>3 DEF RecvNormal, Propose
    <3>2. Cast' = Cast BY <3>1, CastUnchanged
    <3> QED BY <2>3, <3>2 DEF RecvNormal
  <2>4. CASE RecvPropose(s, d)
    <3>1. sent \subseteq sent' /\ \A x \in sent' : x.type = "NORMAL" => x \in sent
      BY <2>2, <2>4, ProposeStep DEF Finals, Final
    <3>2. Cast' = Cast BY <3>1, CastUnchanged
    <3> QED BY <2>4, <3>2 DEF RecvPropose
  <2>5. CASE RecvFinal(s, d) BY <2>1, <2>5, FinalRefines DEF Broadcast!Next
  <2>6. CASE Abort(s) BY <2>6 DEF Abort, Cast
  <2> QED BY <2>1, <2>3, <2>4, <2>5, <2>6
<1>5. ASSUME NEW d \in InFlight, Lose(d) PROVE UNCHANGED <<Cast, log>>
  BY <1>5 DEF Lose, Cast
<1>6. CASE UNCHANGED vars BY <1>6 DEF vars, Cast
<1> QED BY <1>1, <1>2, <1>3, <1>4, <1>5, <1>6 DEF Next, ReliableNext

LEMMA InitRefines == Init => Broadcast!Init
<1> SUFFICES ASSUME Init PROVE Broadcast!Init OBVIOUS
<1>1. Cast = {} BY DEF Init, Cast
<1>2. log = [s \in Server |-> [g \in Room |-> <<>>]] BY DEF Init
<1> QED BY <1>1, <1>2 DEF Broadcast!Init

(* The servers implement atomic broadcast in every room: what they deliver *)
(* was multicast, comes once, and in one order for all of them.            *)
THEOREM Implements == Spec => ImplementsBroadcast
<1>1. Init => Broadcast!Init BY InitRefines
<1>2. Inv /\ TypeOK' /\ LogsGood' /\ [Next]_vars => [Broadcast!Next]_<<Cast, log>>
  BY StepRefines
<1>3. Inv => LogsGood BY InvLogsGood
<1> QED BY <1>1, <1>2, <1>3, InvCorrect, TypeCorrect, PTL DEF Spec, ImplementsBroadcast, Broadcast!Spec
=============================================================================
