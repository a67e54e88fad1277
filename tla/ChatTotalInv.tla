---------------------------- MODULE ChatTotalInv ----------------------------
(***************************************************************************)
(* The inductive invariant of ChatTotal: what makes the two-phase protocol *)
(* order the messages of a room.  TLC checks it on small instances, and    *)
(* ChatTotalProofs proves that every step preserves it.                    *)
(*                                                                         *)
(* A message is ordered by its agreed number, then address, then id.  The  *)
(* argument is that an agreed number is at least every number proposed for *)
(* the message, and that a server proposes only numbers above any agreed   *)
(* number it has seen: so what it still holds, and whatever is to come,    *)
(* sorts after everything it has delivered.                                *)
(***************************************************************************)
EXTENDS ChatTotal

Origin(m) == Home[m.addr]

InLog(s, m) == \E i \in DOMAIN log[s][m.room] : log[s][m.room][i] = m

HasProposed(s, m) == \E p \in sent : p.type = "PROPOSE" /\ p.m = m /\ p.src = s

(***************************************************************************)
(* A line is multicast once, by the server of its client.                  *)
(***************************************************************************)
NormalInv ==
  \A d \in sent : d.type = "NORMAL" =>
    /\ d.src = Origin(d.m)
    /\ d.m.id < nextId[d.src]
    /\ \A e \in sent : e.type = "NORMAL" /\ e.m = d.m /\ e.dst = d.dst => e = d

(***************************************************************************)
(* A server proposes one number for a message, after its NORMAL came in.   *)
(***************************************************************************)
ProposeInv ==
  \A p \in sent : p.type = "PROPOSE" =>
    /\ p.dst = Origin(p.m)
    /\ \E d \in gone : d.type = "NORMAL" /\ d.m = p.m /\ d.dst = p.src
    /\ \A q \in sent : q.type = "PROPOSE" /\ q.m = p.m /\ q.src = p.src => q = p

(***************************************************************************)
(* One number is agreed for a message, when the proposals of all servers   *)
(* have come in, and it is at least each of them.                          *)
(***************************************************************************)
FinalInv ==
  \A f \in sent : f.type = "DELIVER" =>
    /\ f.src = Origin(f.m)
    /\ \A s \in Server : \E p \in gone :
          p.type = "PROPOSE" /\ p.m = f.m /\ p.src = s /\ p.seq <= f.seq
    /\ \A h \in sent : h.type = "DELIVER" /\ h.m = f.m =>
          h.seq = f.seq /\ (h.dst = f.dst => h = f)

(***************************************************************************)
(* An entry of a holdback queue carries the number the server proposed for *)
(* it until the agreed one arrives; only a line of the server's own client *)
(* can be there before the server has proposed a number.                   *)
(***************************************************************************)
EntryInv ==
  \A s \in Server : \A e \in hbq[s] :
    /\ \A x \in hbq[s] : x.m = e.m => x = e
    /\ \E d \in sent : d.type = "NORMAL" /\ d.m = e.m
    /\ s # Origin(e.m) => HasProposed(s, e.m)
    /\ e.status = "NOTDELIVERABLE" =>
         \A p \in sent : p.type = "PROPOSE" /\ p.m = e.m /\ p.src = s => p.seq = e.seq
    /\ e.status = "DELIVERABLE" =>
         /\ e.seq <= Ag[s][e.m.room]
         /\ \E f \in gone :
              f.type = "DELIVER" /\ f.m = e.m /\ f.dst = s /\ f.seq = e.seq
    /\ \A x \in e.proposed : \E p \in gone :
         p.type = "PROPOSE" /\ p.m = e.m /\ p.src = x[1] /\ p.seq = x[2]

(***************************************************************************)
(* A server keeps a message it has multicast, or proposed a number for,    *)
(* until it delivers it.                                                   *)
(***************************************************************************)
KeptInv ==
  \A d \in sent :
    /\ d.type = "NORMAL"  => HasMsg(d.src, d.m) \/ InLog(d.src, d.m)
    /\ d.type = "PROPOSE" => HasMsg(d.src, d.m) \/ InLog(d.src, d.m)

(***************************************************************************)
(* What a server has delivered is agreed, is out of its queue, sorts       *)
(* before every queued message it has proposed a number for, and is        *)
(* sorted.                                                                 *)
(***************************************************************************)
LogInv ==
  \A s \in Server, g \in Room : \A i \in DOMAIN log[s][g] :
    LET m == log[s][g][i]
    IN  /\ m.room = g
        /\ ~HasMsg(s, m)
        /\ \E f \in gone :
             f.type = "DELIVER" /\ f.m = m /\ f.dst = s /\ f.seq <= Ag[s][g]
        /\ \A e \in hbq[s] : e.m.room = g /\ HasProposed(s, e.m) =>
             \A f \in sent : f.type = "DELIVER" /\ f.m = m => Less(f, e)
        /\ \A j \in DOMAIN log[s][g] : i < j =>
             \A f, h \in sent :
               /\ f.type = "DELIVER" /\ f.m = m
               /\ h.type = "DELIVER" /\ h.m = log[s][g][j]
               => Less(f, h)

(***************************************************************************)
(* A client has received messages its server delivered, sorted per room.   *)
(***************************************************************************)
InboxInv ==
  \A c \in Client : \A i \in DOMAIN inbox[c] :
    /\ inbox[c][i].room \in Room
    /\ InLog(Home[c], inbox[c][i])
    /\ \A j \in DOMAIN inbox[c] : i < j /\ inbox[c][i].room = inbox[c][j].room =>
         \A f, h \in sent :
           /\ f.type = "DELIVER" /\ f.m = inbox[c][i]
           /\ h.type = "DELIVER" /\ h.m = inbox[c][j]
           => Less(f, h)

Inv ==
  /\ TypeOK
  /\ NoCheckFails
  /\ NormalInv
  /\ ProposeInv
  /\ FinalInv
  /\ EntryInv
  /\ KeptInv
  /\ LogInv
  /\ InboxInv
=============================================================================
