------------------------------ MODULE MailStore -----------------------------
(***************************************************************************)
(* What the mail servers of HW2 promise for a mailbox: mail arrives at the *)
(* end of it, a reader marks some of it, and what is marked when the       *)
(* reader ends the session goes away, all at once.  None comes back, none  *)
(* changes its place, and no mail is lost otherwise, except by a server    *)
(* that ends in the middle of a removal: it may take away the last mails   *)
(* of the box it was at.                                                   *)
(***************************************************************************)
EXTENDS Listing

CONSTANT User

VARIABLES
  box,     \* box[u]: the mails of user u, in the order of their arrival
  marked,  \* marked[u]: those of them the reader has marked
  ending   \* the users whose removal is not finished

MailsOf(u) == {box[u][i] : i \in DOMAIN box[u]}

Init ==
  /\ marked = [u \in User |-> {}]
  /\ ending = {}
  /\ \A u \in User : \A i, j \in DOMAIN box[u] : box[u][i] = box[u][j] => i = j

Arrive(u) ==
  /\ \E m \in {box'[u][i] : i \in DOMAIN box'[u]} \ MailsOf(u) :
       box' = [box EXCEPT ![u] = Append(@, m)]
  /\ UNCHANGED <<marked, ending>>

Mark(u) ==
  /\ u \notin ending
  /\ marked'[u] \subseteq MailsOf(u)
  /\ marked' = [marked EXCEPT ![u] = marked'[u]]
  /\ UNCHANGED <<box, ending>>

Expunge(u) ==
  LET kept == {i \in DOMAIN box[u] : box[u][i] \notin marked[u]}
  IN  /\ u \notin ending
      /\ box'    = [box EXCEPT ![u] = AtPlaces(@, kept)]
      /\ marked' = [marked EXCEPT ![u] = {}]
      /\ ending' = ending \cup {u}

Finish(u) ==
  /\ u \in ending
  /\ ending' = ending \ {u}
  /\ UNCHANGED <<box, marked>>

Crash ==
  /\ DOMAIN box' = User
  /\ \A u \in User : \E n \in 0 .. Len(box[u]) :
       /\ box'[u] = SubSeq(box[u], 1, n)
       /\ u \notin ending => n = Len(box[u])
  /\ marked' = [u \in User |-> {}]
  /\ ending' = {}

Next ==
  \/ \E u \in User : Arrive(u) \/ Mark(u) \/ Expunge(u) \/ Finish(u)
  \/ Crash

Spec == Init /\ [][Next]_<<box, marked, ending>>
=============================================================================
