-------------------------- MODULE Pop3ServerProofs --------------------------
(***************************************************************************)
(* Machine-checked proofs about the POP3 server, for any users,            *)
(* connections and mailbox files, and any number of crashes.               *)
(***************************************************************************)
EXTENDS Pop3Server, ListingLemmas

-----------------------------------------------------------------------------
(***************************************************************************)
(* Type correctness.                                                       *)
(***************************************************************************)

(* The copy of a maildrop holds its mails, none of them marked.            *)
LEMMA CopyFacts ==
  ASSUME NEW f \in Seq(Line)
  PROVE  /\ Copy(f) \in Seq(Entry)
         /\ Mails(Copy(f)) = ReadMaildrop(f)
         /\ \A i \in DOMAIN Copy(f) : ~ Copy(f)[i].deleted
<1> DEFINE R == ReadMaildrop(f)
<1>1. R \in Seq(Mail) BY MaildropFacts
<1>2. Copy(f) = [i \in DOMAIN R |-> [mail |-> R[i], deleted |-> FALSE]] BY DEF Copy
<1> HIDE DEF R
<1>3. Len(R) \in Nat /\ DOMAIN R = 1 .. Len(R) /\ R \in [1 .. Len(R) -> Mail]
  BY <1>1, LenProperties
<1> DEFINE e(i) == [mail |-> R[i], deleted |-> FALSE]
<1>a. \A i \in 1 .. Len(R) : e(i) \in Entry BY <1>3 DEF Entry
<1>4. Copy(f) = [i \in 1 .. Len(R) |-> e(i)] BY <1>2, <1>3
<1>b. \A i \in 1 .. Len(R) : Copy(f)[i].mail = R[i] /\ ~ Copy(f)[i].deleted BY <1>4
<1>c. DOMAIN Copy(f) = 1 .. Len(R) BY <1>4
<1>5. Copy(f) \in Seq(Entry)
  <2> HIDE DEF e
  <2>1. Copy(f) \in [1 .. Len(R) -> Entry] BY <1>a, <1>4
  <2> QED BY <1>3, <2>1
<1>6. Mails(Copy(f)) = R
  <2>1. Mails(Copy(f)) = [i \in 1 .. Len(R) |-> Copy(f)[i].mail] BY <1>c DEF Mails
  <2>2. R = [i \in 1 .. Len(R) |-> R[i]] BY <1>3
  <2> QED BY <1>b, <2>1, <2>2
<1> QED BY <1>b, <1>c, <1>5, <1>6 DEF R

(* RSET leaves a copy without marks.                                       *)
LEMMA UnmarkedType ==
  ASSUME NEW d \in Seq(Entry)
  PROVE  [i \in DOMAIN d |-> [mail |-> d[i].mail, deleted |-> FALSE]] \in Seq(Entry)
<1>1. Len(d) \in Nat /\ DOMAIN d = 1 .. Len(d) BY LenProperties
<1>2. \A i \in 1 .. Len(d) : d[i] \in Entry BY <1>1
<1> DEFINE e == [i \in 1 .. Len(d) |-> [mail |-> d[i].mail, deleted |-> FALSE]]
<1>3. \A i \in 1 .. Len(d) : [mail |-> d[i].mail, deleted |-> FALSE] \in Entry
  BY <1>2 DEF Entry
<1>4. e \in [1 .. Len(d) -> Entry] BY <1>3
<1>5. e \in Seq(Entry)
  <2> HIDE DEF e
  <2> QED BY <1>1, <1>4
<1> QED BY <1>1, <1>5

LEMMA TypeInit == Init => TypeOK
<1> SUFFICES ASSUME Init PROVE TypeOK OBVIOUS
<1>1. file \in [User -> Seq(Line)] BY BoxesAssumption DEF Init
<1>2. Closed \in Session BY DEF Closed, Session
<1> QED BY <1>1, <1>2 DEF Init, TypeOK, Closed

LEMMA TypeStep == TypeOK /\ [Next]_vars => TypeOK'
<1> SUFFICES ASSUME TypeOK, [Next]_vars PROVE TypeOK' OBVIOUS
<1> USE DEF TypeOK
<1>a. Closed \in Session BY DEF Closed, Session
<1>1. ASSUME NEW p \in Conn, Connect(p) PROVE TypeOK'
  BY <1>1 DEF Connect, Session
<1>2. ASSUME NEW p \in Conn, NEW u \in User \cup {NoUser}, UserName(p, u) PROVE TypeOK'
  BY <1>2 DEF UserName, Session
<1>3. ASSUME NEW p \in Conn, PassRefused(p) PROVE TypeOK'
  <2> DEFINE r == [pop[p] EXCEPT !.st = "User", !.user = NoUser]
  <2>1. r \in Session /\ r.st = "User" BY DEF Session
  <2>2. pop' = [pop EXCEPT ![p] = r] /\ UNCHANGED <<file, mutex, deleted>>
    BY <1>3 DEF PassRefused
  <2> HIDE DEF r
  <2> QED BY <2>1, <2>2
<1>4. ASSUME NEW p \in Conn, PassOk(p) PROVE TypeOK'
  <2>1. pop[p].user \in User BY <1>4 DEF PassOk
  <2> DEFINE d == Copy(file[pop[p].user])
             r == [pop[p] EXCEPT !.st = "Trans", !.drop = d]
  <2>2. d \in Seq(Entry) BY <2>1, CopyFacts
  <2>3. /\ pop' = [pop EXCEPT ![p] = r] /\ mutex' = [mutex EXCEPT ![pop[p].user] = p]
        /\ UNCHANGED <<file, deleted>>
    BY <1>4 DEF PassOk
  <2> HIDE DEF d
  <2>4. r \in Session /\ r.st = "Trans" /\ r.user = pop[p].user BY <2>2 DEF Session
  <2> HIDE DEF r
  <2> QED BY <2>1, <2>3, <2>4
<1>5. ASSUME NEW p \in Conn, Dele(p) PROVE TypeOK'
  <2>1. PICK i \in DOMAIN pop[p].drop : pop' = [pop EXCEPT ![p].drop[i].deleted = TRUE]
    BY <1>5 DEF Dele
  <2> DEFINE d == pop[p].drop
  <2>2. d \in Seq(Entry) BY DEF Session
  <2>3. [d EXCEPT ![i].deleted = TRUE] \in Seq(Entry)
    <3>1. i \in 1 .. Len(d) /\ d[i] \in Entry BY <2>2, LenProperties
    <3>3. [d[i] EXCEPT !.deleted = TRUE] \in Entry BY <3>1 DEF Entry
    <3>2. [d EXCEPT ![i] = [d[i] EXCEPT !.deleted = TRUE]] \in Seq(Entry)
      BY <2>2, <3>1, <3>3, ExceptSeq
    <3> QED BY <3>2
  <2> QED BY <1>5, <2>1, <2>3 DEF Dele, Session
<1>6. ASSUME NEW p \in Conn, Rset(p) PROVE TypeOK'
  <2> DEFINE d == pop[p].drop
             e == [i \in DOMAIN d |-> [mail |-> d[i].mail, deleted |-> FALSE]]
  <2>1. d \in Seq(Entry) BY DEF Session
  <2>2. e \in Seq(Entry) BY <2>1, UnmarkedType
  <2> DEFINE r == [pop[p] EXCEPT !.drop = e]
  <2>3. pop' = [pop EXCEPT ![p] = r] /\ pop[p].st = "Trans" /\ UNCHANGED <<file, mutex, deleted>>
    BY <1>6 DEF Rset
  <2> HIDE DEF e
  <2>4. r \in Session /\ r.st = "Trans" /\ r.user = pop[p].user BY <2>2, <2>3 DEF Session
  <2> HIDE DEF r
  <2> QED BY <2>3, <2>4
<1>7. ASSUME NEW p \in Conn, QuitEarly(p) PROVE TypeOK'
  BY <1>a, <1>7 DEF QuitEarly, Closed
<1>8. ASSUME NEW p \in Conn, Quit(p) PROVE TypeOK'
  <2>1. MarkedIn(pop[p].drop) \subseteq Mail
    <3>1. pop[p].drop \in Seq(Entry) BY DEF Session
    <3>2. \A i \in DOMAIN pop[p].drop : pop[p].drop[i] \in Entry BY <3>1, LenProperties
    <3> QED BY <3>2 DEF MarkedIn, Entry
  <2>2. pop[p].user \in User BY <1>8 DEF Quit
  <2>3. <<>> \in Seq(Line) OBVIOUS
  <2>4. /\ pop' = [pop EXCEPT ![p].st = "Update", ![p].next = 1]
        /\ file' = [file EXCEPT ![pop[p].user] = <<>>]
        /\ mutex' = mutex
        /\ deleted' = [deleted EXCEPT ![pop[p].user] = @ \cup MarkedIn(pop[p].drop)]
    BY <1>8 DEF Quit
  <2>5. pop' \in [Conn -> Session]
    <3>1. pop[p] \in Session OBVIOUS
    <3>2. [pop[p] EXCEPT !.st = "Update", !.next = 1] \in Session BY <3>1 DEF Session
    <3> QED BY <2>4, <3>2
  <2>6. deleted' \in [User -> SUBSET Mail] BY <2>1, <2>2, <2>4
  <2>7. Len(pop[p].drop) \in Nat
    <3>1. pop[p].drop \in Seq(Entry) BY DEF Session
    <3> QED BY <3>1, LenProperties
  <2>8. \A q \in Conn : pop'[q].st = "Update" => pop'[q].next \in 1 .. Len(pop'[q].drop) + 1
    BY <2>4, <2>7
  <2>9. \A q \in Conn : pop'[q].st \in {"Pass", "Trans", "Update"} => pop'[q].user \in User
    BY <2>2, <2>4
  <2> QED BY <2>2, <2>3, <2>4, <2>5, <2>6, <2>8, <2>9
<1>9. ASSUME NEW p \in Conn, WriteBack(p) PROVE TypeOK'
  <2> DEFINE k == pop[p].next
             x == pop[p].drop[k]
  <2>1. /\ pop[p].user \in User
        /\ file' = IF x.deleted THEN file
                   ELSE [file EXCEPT ![pop[p].user] = WriteMail(@, x.mail)]
        /\ pop' = [pop EXCEPT ![p].next = k + 1]
        /\ UNCHANGED <<mutex, deleted>>
    BY <1>9 DEF WriteBack
  <2>2. file' \in [User -> Seq(Line)]
    <3>1. CASE x.deleted BY <2>1, <3>1
    <3>2. CASE ~ x.deleted
      <4>1. x.mail \in Mail
        <5>1. pop[p].drop \in Seq(Entry) BY DEF Session
        <5>2. Len(pop[p].drop) \in Nat BY <5>1, LenProperties
        <5>3. k \in 1 .. Len(pop[p].drop) BY <1>9, <5>2 DEF WriteBack, Session
        <5>4. x \in Entry BY <5>1, <5>3
        <5> QED BY <5>4 DEF Entry
      <4>2. WriteMail(file[pop[p].user], x.mail) \in Seq(Line) BY <2>1, <4>1, WrittenType
      <4> HIDE DEF x
      <4> QED BY <2>1, <3>2, <4>2
    <3> QED BY <3>1, <3>2
  <2>3. pop' \in [Conn -> Session]
    <3>1. pop[p] \in Session OBVIOUS
    <3>2. k + 1 \in Nat BY <3>1 DEF Session
    <3> DEFINE n == k + 1
    <3>4. n \in Nat BY <3>2
    <3> HIDE DEF n
    <3>3. [pop[p] EXCEPT !.next = n] \in Session BY <3>1, <3>4 DEF Session
    <3> QED BY <2>1, <3>3 DEF n
  <2>4. Len(pop[p].drop) \in Nat
    <3>1. pop[p].drop \in Seq(Entry) BY DEF Session
    <3> QED BY <3>1, LenProperties
  <2>5. pop[p].st = "Update" /\ k \in Nat /\ k <= Len(pop[p].drop)
    BY <1>9 DEF WriteBack, Session
  <2>6. \A q \in Conn : pop'[q].st = "Update" => pop'[q].next \in 1 .. Len(pop'[q].drop) + 1
    BY <2>1, <2>4, <2>5
  <2>7. \A q \in Conn : pop'[q].st \in {"Pass", "Trans", "Update"} => pop'[q].user \in User
    BY <2>1
  <2> QED BY <2>1, <2>2, <2>3, <2>6, <2>7
<1>10. ASSUME NEW p \in Conn, Leave(p) PROVE TypeOK'
  BY <1>a, <1>10 DEF Leave, Closed
<1>11. CASE Crash BY <1>a, <1>11 DEF Crash, Closed
<1>12. CASE UNCHANGED vars BY <1>12 DEF vars
<1> QED BY <1>1, <1>2, <1>3, <1>4, <1>5, <1>6, <1>7, <1>8, <1>9, <1>10, <1>11, <1>12
        DEF Next, Serve, Request, Update

(* Every variable keeps its type: in particular a thread that holds a copy *)
(* or writes it back knows its user, and the loop of QUIT never leaves the *)
(* copy.                                                                   *)
THEOREM TypeCorrect == Spec => []TypeOK
<1> QED BY TypeInit, TypeStep, PTL DEF Spec

-----------------------------------------------------------------------------
(***************************************************************************)
(* The copy and the mailbox.                                               *)
(***************************************************************************)

(* A thread between PASS and the end of QUIT holds the mutex of its user,  *)
(* and so is the only one that writes the file of this user.               *)
LockHeld == \A p \in Conn : pop[p].st \in {"Trans", "Update"} => mutex[pop[p].user] = p

IInv == TypeOK /\ LockHeld /\ CopyIsMailbox

LEMMA InvInit == Init => IInv
<1> SUFFICES ASSUME Init PROVE LockHeld /\ CopyIsMailbox BY TypeInit DEF IInv
<1>1. \A p \in Conn : pop[p].st = "Closed" BY DEF Init, Closed
<1> QED BY <1>1 DEF LockHeld, CopyIsMailbox

LEMMA LockStep == TypeOK /\ LockHeld /\ [Next]_vars => LockHeld'
<1> SUFFICES ASSUME TypeOK, LockHeld, [Next]_vars, NEW q \in Conn,
                    pop'[q].st \in {"Trans", "Update"}
             PROVE  mutex'[pop'[q].user] = q
  BY DEF LockHeld
<1> USE DEF TypeOK, LockHeld
<1>1. ASSUME NEW p \in Conn, Connect(p) PROVE mutex'[pop'[q].user] = q
  BY <1>1 DEF Connect
<1>2. ASSUME NEW p \in Conn, NEW u \in User \cup {NoUser}, UserName(p, u)
      PROVE mutex'[pop'[q].user] = q
  BY <1>2 DEF UserName
<1>3. ASSUME NEW p \in Conn, PassRefused(p) PROVE mutex'[pop'[q].user] = q
  BY <1>3 DEF PassRefused
<1>4. ASSUME NEW p \in Conn, PassOk(p) PROVE mutex'[pop'[q].user] = q
  <2>1. pop[p].user \in User BY <1>4 DEF PassOk
  <2>2. CASE q = p BY <1>4, <2>1, <2>2 DEF PassOk
  <2>3. CASE q # p
    <3>1. pop'[q] = pop[q] BY <1>4, <2>3 DEF PassOk
    <3>2. mutex[pop[q].user] = q /\ pop[q].user \in User BY <3>1
    <3>3. q # NoConn BY ConnAssumption DEF NoConn
    <3> QED BY <1>4, <2>1, <3>1, <3>2, <3>3 DEF PassOk
  <2> QED BY <2>2, <2>3
<1>5. ASSUME NEW p \in Conn, Dele(p) PROVE mutex'[pop'[q].user] = q
  BY <1>5 DEF Dele
<1>6. ASSUME NEW p \in Conn, Rset(p) PROVE mutex'[pop'[q].user] = q
  BY <1>6 DEF Rset
<1>7. ASSUME NEW p \in Conn, QuitEarly(p) PROVE mutex'[pop'[q].user] = q
  BY <1>7 DEF QuitEarly, Closed
<1>8. ASSUME NEW p \in Conn, Quit(p) PROVE mutex'[pop'[q].user] = q
  BY <1>8 DEF Quit
<1>9. ASSUME NEW p \in Conn, WriteBack(p) PROVE mutex'[pop'[q].user] = q
  BY <1>9 DEF WriteBack
<1>10. ASSUME NEW p \in Conn, Leave(p) PROVE mutex'[pop'[q].user] = q
  <2>1. q # p /\ pop'[q] = pop[q] BY <1>10 DEF Leave, Closed
  <2>2. mutex[pop[p].user] = p /\ mutex[pop[q].user] = q BY <1>10, <2>1 DEF Leave
  <2> QED BY <1>10, <2>1, <2>2 DEF Leave
<1>11. CASE Crash BY <1>11 DEF Crash, Closed
<1>12. CASE UNCHANGED vars BY <1>12 DEF vars
<1> QED BY <1>1, <1>2, <1>3, <1>4, <1>5, <1>6, <1>7, <1>8, <1>9, <1>10, <1>11, <1>12
        DEF Next, Serve, Request, Update

(* What a step does to a connection that holds its lock, or has just got   *)
(* it: either the step is its own, or it touches neither the connection    *)
(* nor the file of its user.                                               *)
Stays(q) ==
  /\ pop[q].st \in {"Trans", "Update"}
  /\ pop'[q] = pop[q]
  /\ file'[pop[q].user] = file[pop[q].user]

LEMMA Moves ==
  ASSUME TypeOK, LockHeld, [Next]_vars,
         NEW q \in Conn, pop'[q].st \in {"Trans", "Update"}
  PROVE  Stays(q) \/ PassOk(q) \/ Dele(q) \/ Rset(q) \/ Quit(q) \/ WriteBack(q)
<1> DEFINE Goal == Stays(q) \/ PassOk(q) \/ Dele(q) \/ Rset(q) \/ Quit(q) \/ WriteBack(q)
<1>a. ASSUME pop'[q] = pop[q], file' = file PROVE Goal
  BY <1>a DEF Stays
<1>b. ASSUME NEW p \in Conn, p # q, pop[p].st \in {"Trans", "Update"}, pop'[q] = pop[q],
             \A u \in User : u # pop[p].user => file'[u] = file[u]
      PROVE  Goal
  <2>1. mutex[pop[p].user] = p /\ mutex[pop[q].user] = q BY <1>b DEF LockHeld
  <2>2. pop[q].user \in User BY <1>b DEF TypeOK
  <2>3. file'[pop[q].user] = file[pop[q].user] BY <1>b, <2>1, <2>2
  <2> QED BY <1>b, <2>3 DEF Stays
<1>1. ASSUME NEW p \in Conn, Connect(p) PROVE Goal
  <2>1. pop'[q] = pop[q] BY <1>1 DEF Connect, TypeOK
  <2> QED BY <1>1, <1>a, <2>1 DEF Connect
<1>2. ASSUME NEW p \in Conn, NEW u \in User \cup {NoUser}, UserName(p, u) PROVE Goal
  <2>1. pop'[q] = pop[q] BY <1>2 DEF UserName, TypeOK
  <2> QED BY <1>2, <1>a, <2>1 DEF UserName
<1>3. ASSUME NEW p \in Conn, PassRefused(p) PROVE Goal
  <2>1. pop'[q] = pop[q] BY <1>3 DEF PassRefused, TypeOK
  <2> QED BY <1>3, <1>a, <2>1 DEF PassRefused
<1>4. ASSUME NEW p \in Conn, p # q, PassOk(p) PROVE Goal
  <2>1. pop'[q] = pop[q] BY <1>4 DEF PassOk, TypeOK
  <2> QED BY <1>4, <1>a, <2>1 DEF PassOk
<1>5. ASSUME NEW p \in Conn, p # q, Dele(p) PROVE Goal
  <2>1. pop'[q] = pop[q] BY <1>5 DEF Dele, TypeOK
  <2> QED BY <1>5, <1>a, <2>1 DEF Dele
<1>6. ASSUME NEW p \in Conn, p # q, Rset(p) PROVE Goal
  <2>1. pop'[q] = pop[q] BY <1>6 DEF Rset, TypeOK
  <2> QED BY <1>6, <1>a, <2>1 DEF Rset
<1>7. ASSUME NEW p \in Conn, QuitEarly(p) PROVE Goal
  <2>1. pop'[q] = pop[q] BY <1>7 DEF QuitEarly, TypeOK, Closed
  <2> QED BY <1>7, <1>a, <2>1 DEF QuitEarly
<1>8. ASSUME NEW p \in Conn, p # q, Quit(p) PROVE Goal
  <2>1. pop'[q] = pop[q] BY <1>8 DEF Quit, TypeOK
  <2> QED BY <1>8, <1>b, <2>1 DEF Quit, TypeOK
<1>9. ASSUME NEW p \in Conn, p # q, WriteBack(p) PROVE Goal
  <2>1. pop'[q] = pop[q] BY <1>9 DEF WriteBack, TypeOK
  <2>2. \A u \in User : u # pop[p].user => file'[u] = file[u] BY <1>9 DEF WriteBack, TypeOK
  <2> QED BY <1>9, <1>b, <2>1, <2>2 DEF WriteBack
<1>10. ASSUME NEW p \in Conn, Leave(p) PROVE Goal
  <2>1. pop'[q] = pop[q] BY <1>10 DEF Leave, TypeOK, Closed
  <2> QED BY <1>10, <1>a, <2>1 DEF Leave
<1>11. CASE Crash BY <1>11 DEF Crash, Closed
<1>12. CASE UNCHANGED vars BY <1>12, <1>a DEF vars
<1> QED BY <1>1, <1>2, <1>3, <1>4, <1>5, <1>6, <1>7, <1>8, <1>9, <1>10, <1>11, <1>12
        DEF Next, Serve, Request, Update

(* DELE and RSET change the marks of a copy, and not its mails.            *)
LEMMA MarksChange ==
  ASSUME TypeOK, NEW q \in Conn, Dele(q) \/ Rset(q)
  PROVE  /\ pop[q].st = "Trans" /\ pop'[q].st = "Trans" /\ pop'[q].user = pop[q].user
         /\ DOMAIN pop'[q].drop = DOMAIN pop[q].drop
         /\ \A i \in DOMAIN pop[q].drop : pop'[q].drop[i].mail = pop[q].drop[i].mail
         /\ Mails(pop'[q].drop) = Mails(pop[q].drop)
         /\ file' = file
<1> DEFINE d == pop[q].drop
<1>1. d \in Seq(Entry) BY DEF TypeOK, Session
<1>2. \A j \in DOMAIN d : d[j] \in Entry BY <1>1, LenProperties
<1>3. ASSUME NEW e, pop' = [pop EXCEPT ![q].drop = e], DOMAIN e = DOMAIN d,
             \A j \in DOMAIN d : e[j].mail = d[j].mail
      PROVE  /\ pop'[q].st = pop[q].st /\ pop'[q].user = pop[q].user
             /\ DOMAIN pop'[q].drop = DOMAIN pop[q].drop
             /\ \A i \in DOMAIN pop[q].drop : pop'[q].drop[i].mail = pop[q].drop[i].mail
             /\ Mails(pop'[q].drop) = Mails(pop[q].drop)
  <2>1. pop'[q].st = pop[q].st /\ pop'[q].user = pop[q].user /\ pop'[q].drop = e
    BY <1>3 DEF TypeOK, Session
  <2>2. Mails(e) = Mails(d) BY <1>3 DEF Mails
  <2> QED BY <1>3, <2>1, <2>2
<1>4. CASE Dele(q)
  <2>1. PICK i \in DOMAIN d : pop' = [pop EXCEPT ![q].drop[i].deleted = TRUE]
    BY <1>4 DEF Dele
  <2> DEFINE e == [d EXCEPT ![i].deleted = TRUE]
  <2>2. DOMAIN e = DOMAIN d /\ \A j \in DOMAIN d : e[j].mail = d[j].mail BY <1>2 DEF Entry
  <2>3. pop' = [pop EXCEPT ![q].drop = e] BY <2>1
  <2> HIDE DEF d, e
  <2> QED BY <1>3, <1>4, <2>2, <2>3 DEF Dele
<1>5. CASE Rset(q)
  <2> DEFINE e == [i \in DOMAIN d |-> [mail |-> d[i].mail, deleted |-> FALSE]]
  <2>1. DOMAIN e = DOMAIN d /\ \A j \in DOMAIN d : e[j].mail = d[j].mail OBVIOUS
  <2>2. pop' = [pop EXCEPT ![q].drop = e] BY <1>5 DEF Rset
  <2> HIDE DEF d, e
  <2> QED BY <1>3, <1>5, <2>1, <2>2 DEF Rset
<1> QED BY <1>4, <1>5

(* PASS, QUIT and the loop of QUIT, as far as their own connection goes.   *)
LEMMA PassFacts ==
  ASSUME TypeOK, NEW q \in Conn, PassOk(q)
  PROVE  /\ pop[q].st = "Pass" /\ pop'[q].st = "Trans" /\ pop'[q].user = pop[q].user
         /\ pop[q].user \in User /\ file[pop[q].user] \in Seq(Line)
         /\ pop'[q].drop = Copy(file[pop[q].user]) /\ file' = file
BY DEF PassOk, TypeOK, Session

LEMMA QuitFacts ==
  ASSUME TypeOK, NEW q \in Conn, Quit(q)
  PROVE  /\ pop[q].st = "Trans" /\ pop'[q].st = "Update" /\ pop'[q].user = pop[q].user
         /\ pop[q].user \in User /\ pop'[q].drop = pop[q].drop /\ pop'[q].next = 1
         /\ file' = [file EXCEPT ![pop[q].user] = <<>>]
         /\ file'[pop[q].user] = <<>>
BY DEF Quit, TypeOK, Session

LEMMA WriteBackFacts ==
  ASSUME TypeOK, NEW q \in Conn, WriteBack(q)
  PROVE  /\ pop[q].st = "Update" /\ pop'[q].st = "Update" /\ pop'[q].user = pop[q].user
         /\ pop[q].user \in User /\ pop'[q].drop = pop[q].drop
         /\ pop[q].next \in 1 .. Len(pop[q].drop) /\ pop'[q].next = pop[q].next + 1
         /\ \A u \in User : u # pop[q].user => file'[u] = file[u]
         /\ file'[pop[q].user] =
              IF pop[q].drop[pop[q].next].deleted
                THEN file[pop[q].user]
                ELSE WriteMail(file[pop[q].user], pop[q].drop[pop[q].next].mail)
<1>1. Len(pop[q].drop) \in Nat
  <2>1. pop[q].drop \in Seq(Entry) BY DEF TypeOK, Session
  <2> QED BY <2>1, LenProperties
<1>2. pop[q].next \in Nat BY DEF TypeOK, Session
<1> QED BY <1>1, <1>2 DEF WriteBack, TypeOK

LEMMA CopyStep == IInv /\ [Next]_vars => CopyIsMailbox'
<1> SUFFICES ASSUME IInv, [Next]_vars, NEW q \in Conn, pop'[q].st = "Trans"
             PROVE  Mails(pop'[q].drop) = ReadMaildrop(file'[pop'[q].user])
  BY DEF CopyIsMailbox
<1>0. TypeOK /\ LockHeld /\ CopyIsMailbox BY DEF IInv
<1>1. CASE Stays(q) BY <1>0, <1>1 DEF Stays, CopyIsMailbox
<1>2. CASE PassOk(q) BY <1>0, <1>2, PassFacts, CopyFacts
<1>3. CASE Dele(q) \/ Rset(q) BY <1>0, <1>3, MarksChange DEF CopyIsMailbox
<1>4. CASE Quit(q) BY <1>0, <1>4, QuitFacts
<1>5. CASE WriteBack(q) BY <1>0, <1>5, WriteBackFacts
<1> QED BY <1>0, <1>1, <1>2, <1>3, <1>4, <1>5, Moves

(* The inductive invariant.                                                *)
THEOREM InvCorrect == Spec => []IInv
<1>1. IInv /\ [Next]_vars => IInv' BY TypeStep, LockStep, CopyStep DEF IInv
<1> QED BY InvInit, <1>1, PTL DEF Spec

(* The copy a client works on is the mailbox, from PASS to QUIT.           *)
THEOREM CopyIsMailboxCorrect == Spec => []CopyIsMailbox
<1>1. IInv => CopyIsMailbox BY DEF IInv
<1> QED BY <1>1, InvCorrect, PTL

-----------------------------------------------------------------------------
(***************************************************************************)
(* The sessions implement the mail store.                                  *)
(***************************************************************************)

(* The places of a copy which the loop of QUIT has written once it is at n.*)
Kept(drop, n) == {i \in DOMAIN drop : i < n /\ ~ drop[i].deleted}

(* A file in the middle of an update holds what was written of the copy.   *)
WrittenSoFar ==
  \A p \in Conn : pop[p].st = "Update" =>
    ReadMaildrop(file[pop[p].user]) = AtPlaces(Mails(pop[p].drop), Kept(pop[p].drop, pop[p].next))

(* No mail is twice in a file, or in a copy.                               *)
FilesDiffer == \A u \in User : Different(ReadMaildrop(file[u]))

(* The mails of a copy differ, and are read back as they are written.      *)
CopiesSound ==
  \A p \in Conn : pop[p].st \in {"Trans", "Update"} =>
    /\ Different(Mails(pop[p].drop))
    /\ \A i \in DOMAIN pop[p].drop : WellMade(pop[p].drop[i].mail)

StoreInv == IInv /\ CopiesSound /\ WrittenSoFar /\ FilesDiffer

LEMMA DropFacts ==
  ASSUME TypeOK, NEW p \in Conn
  PROVE  /\ pop[p].drop \in Seq(Entry) /\ Len(pop[p].drop) \in Nat
         /\ DOMAIN pop[p].drop = 1 .. Len(pop[p].drop)
         /\ \A i \in DOMAIN pop[p].drop : pop[p].drop[i] \in Entry /\ pop[p].drop[i].mail \in Mail
         /\ Mails(pop[p].drop) \in Seq(Mail)
         /\ Len(Mails(pop[p].drop)) = Len(pop[p].drop)
         /\ DOMAIN Mails(pop[p].drop) = DOMAIN pop[p].drop
         /\ \A i \in DOMAIN pop[p].drop : Mails(pop[p].drop)[i] = pop[p].drop[i].mail
<1> DEFINE d == pop[p].drop
<1>1. d \in Seq(Entry) BY DEF TypeOK, Session
<1> HIDE DEF d
<1>2. Len(d) \in Nat /\ DOMAIN d = 1 .. Len(d) BY <1>1, LenProperties
<1>3. \A i \in DOMAIN d : d[i] \in Entry BY <1>1, <1>2
<1>4. \A i \in DOMAIN d : d[i].mail \in Mail BY <1>3 DEF Entry
<1>5. Mails(d) = [i \in 1 .. Len(d) |-> d[i].mail] BY <1>2 DEF Mails
<1>6. Mails(d) \in [1 .. Len(d) -> Mail] BY <1>2, <1>4, <1>5
<1>7. Mails(d) \in Seq(Mail) /\ Len(Mails(d)) = Len(d) BY <1>2, <1>6
<1> QED BY <1>1, <1>2, <1>3, <1>4, <1>5, <1>7 DEF d

LEMMA NoPlaces ==
  ASSUME NEW s PROVE AtPlaces(s, {}) = <<>>
<1>1. Cardinality({}) = 0 BY FS_EmptySet
<1>2. DOMAIN AtPlaces(s, {}) = 1 .. 0 BY <1>1 DEF AtPlaces
<1> QED BY <1>1, <1>2 DEF AtPlaces

LEMMA CopiesStep == StoreInv /\ [Next]_vars => CopiesSound'
<1> SUFFICES ASSUME StoreInv, [Next]_vars, NEW q \in Conn, pop'[q].st \in {"Trans", "Update"}
             PROVE  /\ Different(Mails(pop'[q].drop))
                    /\ \A i \in DOMAIN pop'[q].drop : WellMade(pop'[q].drop[i].mail)
  BY DEF CopiesSound
<1>0. TypeOK /\ LockHeld /\ CopiesSound /\ FilesDiffer BY DEF StoreInv, IInv
<1>1. CASE Stays(q) BY <1>0, <1>1 DEF Stays, CopiesSound
<1>2. CASE PassOk(q)
  <2> DEFINE f == file[pop[q].user]
             R == ReadMaildrop(f)
  <2>1. f \in Seq(Line) /\ pop'[q].drop = Copy(f) /\ Different(R)
    BY <1>0, <1>2, PassFacts DEF FilesDiffer
  <2>2. Mails(Copy(f)) = R BY <2>1, CopyFacts
  <2>3. \A i \in DOMAIN R : WellMade(R[i])
    <3>1. /\ R \in Seq(Mail) /\ Len(R) = Cardinality(Heads(f))
          /\ \A k \in 1 .. Cardinality(Heads(f)) : WellMade(R[k])
      BY <2>1, MaildropFacts
    <3> QED BY <3>1, LenProperties
  <2>4. \A i \in DOMAIN Copy(f) : i \in DOMAIN R /\ Copy(f)[i].mail = R[i] BY <2>2 DEF Mails
  <2>5. \A i \in DOMAIN Copy(f) : WellMade(Copy(f)[i].mail)
    <3> HIDE DEF f, R
    <3> QED BY <2>3, <2>4
  <2>6. Different(Mails(Copy(f))) BY <2>1, <2>2
  <2> HIDE DEF f, R
  <2>7. pop'[q].drop = Copy(f) BY <2>1
  <2> QED BY <2>5, <2>6, <2>7
<1>3. CASE Dele(q) \/ Rset(q) BY <1>0, <1>3, MarksChange DEF CopiesSound
<1>4. CASE Quit(q) BY <1>0, <1>4, QuitFacts DEF CopiesSound
<1>5. CASE WriteBack(q) BY <1>0, <1>5, WriteBackFacts DEF CopiesSound
<1> QED BY <1>0, <1>1, <1>2, <1>3, <1>4, <1>5, Moves

LEMMA WrittenStep == StoreInv /\ [Next]_vars => WrittenSoFar'
<1> SUFFICES ASSUME StoreInv, [Next]_vars, NEW q \in Conn, pop'[q].st = "Update"
             PROVE  ReadMaildrop(file'[pop'[q].user]) =
                      AtPlaces(Mails(pop'[q].drop), Kept(pop'[q].drop, pop'[q].next))
  BY DEF WrittenSoFar
<1>0. TypeOK /\ LockHeld /\ CopiesSound /\ WrittenSoFar BY DEF StoreInv, IInv
<1>1. CASE Stays(q) BY <1>0, <1>1 DEF Stays, WrittenSoFar
<1>2. CASE PassOk(q) BY <1>0, <1>2, PassFacts
<1>3. CASE Dele(q) \/ Rset(q) BY <1>0, <1>3, MarksChange
<1>4. CASE Quit(q)
  <2>1. DOMAIN pop[q].drop = 1 .. Len(pop[q].drop) /\ Len(pop[q].drop) \in Nat
    BY <1>0, DropFacts
  <2>2. Kept(pop[q].drop, 1) = {} BY <2>1 DEF Kept
  <2>3. /\ pop'[q].user = pop[q].user /\ pop'[q].drop = pop[q].drop /\ pop'[q].next = 1
        /\ file'[pop[q].user] = <<>>
    BY <1>0, <1>4, QuitFacts
  <2>4. AtPlaces(Mails(pop[q].drop), {}) = <<>> BY NoPlaces
  <2>5. Kept(pop'[q].drop, pop'[q].next) = {} BY <2>2, <2>3
  <2> QED BY <2>3, <2>4, <2>5, EmptyFile
<1>5. CASE WriteBack(q)
  <2> DEFINE u == pop[q].user
             d == pop[q].drop
             k == pop[q].next
             M == Mails(d)
             K == Kept(d, k)
             f == file[u]
  <2>1. /\ pop'[q].user = u /\ pop'[q].drop = d /\ pop'[q].next = k + 1
        /\ k \in 1 .. Len(d) /\ u \in User /\ pop[q].st = "Update"
        /\ file'[u] = IF d[k].deleted THEN f ELSE WriteMail(f, d[k].mail)
    BY <1>0, <1>5, WriteBackFacts
  <2>2. /\ Len(d) \in Nat /\ DOMAIN d = 1 .. Len(d)
        /\ \A i \in DOMAIN d : d[i].mail \in Mail
        /\ M \in Seq(Mail) /\ DOMAIN M = DOMAIN d
        /\ \A i \in DOMAIN d : M[i] = d[i].mail
    BY <1>0, DropFacts
  <2>3. ReadMaildrop(f) = AtPlaces(M, K) BY <1>0, <2>1 DEF WrittenSoFar
  <2>4. k \in DOMAIN d /\ WellMade(d[k].mail) BY <1>0, <2>1, <2>2 DEF CopiesSound
  <2>5. f \in Seq(Line) BY <1>0, <2>1 DEF TypeOK
  <2>6. K \in SUBSET DOMAIN M /\ \A j \in K : j < k BY <2>2 DEF Kept
  <2> HIDE DEF u, d, k, M, K, f
  <2>7. CASE d[k].deleted
    <3>1. \A i \in DOMAIN d : (i < k + 1 /\ ~ d[i].deleted) <=> (i < k /\ ~ d[i].deleted)
      BY <2>1, <2>2, <2>7
    <3>2. Kept(d, k + 1) = K BY <3>1 DEF Kept, K
    <3> QED BY <2>1, <2>3, <2>7, <3>2 DEF M
  <2>8. CASE ~ d[k].deleted
    <3>1. \A i \in DOMAIN d : (i < k + 1 /\ ~ d[i].deleted) <=> ((i < k /\ ~ d[i].deleted) \/ i = k)
      BY <2>1, <2>2, <2>8
    <3>2. Kept(d, k + 1) = K \cup {k} BY <2>4, <3>1 DEF Kept, K
    <3>3. AtPlaces(M, K \cup {k}) = Append(AtPlaces(M, K), M[k])
      BY <2>2, <2>4, <2>6, AtPlacesBehind
    <3>4. ReadMaildrop(WriteMail(f, d[k].mail)) = Append(ReadMaildrop(f), d[k].mail)
      BY <2>2, <2>4, <2>5, WrittenBehind
    <3>5. M[k] = d[k].mail BY <2>2, <2>4
    <3> QED BY <2>1, <2>3, <2>8, <3>2, <3>3, <3>4, <3>5 DEF M
  <2> QED BY <2>7, <2>8
<1> QED BY <1>0, <1>1, <1>2, <1>3, <1>4, <1>5, Moves

(* What is in a file is what was there, nothing, or a part of a copy.      *)
LEMMA FilesStep ==
  StoreInv /\ TypeOK' /\ CopiesSound' /\ WrittenSoFar' /\ [Next]_vars => FilesDiffer'
<1> SUFFICES ASSUME StoreInv, TypeOK', CopiesSound', WrittenSoFar', [Next]_vars, NEW u \in User
             PROVE  Different(ReadMaildrop(file'[u]))
  BY DEF FilesDiffer
<1>0. TypeOK /\ FilesDiffer BY DEF StoreInv, IInv
<1>1. CASE file'[u] = file[u] BY <1>0, <1>1 DEF FilesDiffer
<1>2. ASSUME NEW p \in Conn, Quit(p), file'[u] # file[u] PROVE Different(ReadMaildrop(file'[u]))
  <2>1. file' = [file EXCEPT ![pop[p].user] = <<>>] BY <1>0, <1>2, QuitFacts
  <2>2. file'[u] = <<>> BY <1>0, <1>2, <2>1 DEF TypeOK
  <2>3. DOMAIN <<>> = {} OBVIOUS
  <2> QED BY <2>2, <2>3, EmptyFile DEF Different
<1>3. ASSUME NEW p \in Conn, WriteBack(p), file'[u] # file[u] PROVE Different(ReadMaildrop(file'[u]))
  <2>1. pop'[p].st = "Update" /\ u = pop'[p].user BY <1>0, <1>3, WriteBackFacts
  <2> DEFINE d == pop[p].drop
             K == Kept(d, pop'[p].next)
  <2>2. pop'[p].drop = d BY <1>0, <1>3, WriteBackFacts
  <2>3. ReadMaildrop(file'[u]) = AtPlaces(Mails(d), K) BY <2>1, <2>2 DEF WrittenSoFar
  <2>4. Different(Mails(d)) BY <2>1, <2>2 DEF CopiesSound
  <2>5. Mails(d) \in Seq(Mail) /\ DOMAIN Mails(d) = DOMAIN d BY <1>0, DropFacts
  <2>6. K \in SUBSET DOMAIN Mails(d) BY <2>5 DEF Kept
  <2> HIDE DEF d, K
  <2> QED BY <2>3, <2>4, <2>5, <2>6, AtPlacesDifferent
<1>4. file' = file \/ \E p \in Conn : Quit(p) \/ WriteBack(p)
  BY DEF Next, Serve, Request, Update, Connect, UserName, PassRefused, PassOk, Dele, Rset,
         QuitEarly, Leave, Crash, vars
<1> QED BY <1>1, <1>2, <1>3, <1>4

LEMMA StoreInvInit == Init => StoreInv
<1> SUFFICES ASSUME Init PROVE CopiesSound /\ WrittenSoFar /\ FilesDiffer
  BY InvInit DEF StoreInv
<1>1. \A p \in Conn : pop[p].st = "Closed" BY DEF Init, Closed
<1>2. \A u \in User : file[u] \in Boxes BY DEF Init
<1>3. FilesDiffer BY <1>2, MailsAssumption DEF FilesDiffer, Different
<1> QED BY <1>1, <1>3 DEF CopiesSound, WrittenSoFar

LEMMA StoreInvStep == StoreInv /\ [Next]_vars => StoreInv'
<1> SUFFICES ASSUME StoreInv, [Next]_vars PROVE StoreInv' OBVIOUS
<1>1. IInv' BY TypeStep, LockStep, CopyStep DEF StoreInv, IInv
<1>2. CopiesSound' /\ WrittenSoFar' BY CopiesStep, WrittenStep
<1>3. FilesDiffer' BY <1>1, <1>2, FilesStep DEF IInv
<1> QED BY <1>1, <1>2, <1>3 DEF StoreInv

(* What the refinement rests on: two sessions never hold one user, a copy  *)
(* is the mailbox, and a file that is being written again holds the first  *)
(* of the mails that stay.                                                 *)
THEOREM StoreInvCorrect == Spec => []StoreInv
<1> QED BY StoreInvInit, StoreInvStep, PTL DEF Spec

(* Of a user at most one connection reads or updates the mailbox.          *)
LEMMA OneHolder ==
  ASSUME LockHeld, NEW u \in User, NEW p \in Updating(u) \cup Reading(u)
  PROVE  Updating(u) \cup Reading(u) = {p}
<1>1. \A q \in Updating(u) \cup Reading(u) : mutex[u] = q BY DEF LockHeld, Updating, Reading
<1> QED BY <1>1

LEMMA WhenUpdating ==
  ASSUME LockHeld, NEW u \in User, NEW p \in Updating(u)
  PROVE  /\ Updating(u) = {p} /\ Reading(u) = {}
         /\ Box(u) = Undeleted(pop[p].drop) /\ Marked(u) = {}
<1>1. Updating(u) \cup Reading(u) = {p} BY OneHolder
<1>2. Updating(u) \cap Reading(u) = {} BY DEF Updating, Reading
<1>3. Updating(u) = {p} /\ Reading(u) = {} BY <1>1, <1>2
<1>4. (CHOOSE q \in Updating(u) : TRUE) = p BY <1>3
<1> QED BY <1>3, <1>4 DEF Box, Marked

LEMMA WhenReading ==
  ASSUME LockHeld, NEW u \in User, NEW p \in Reading(u)
  PROVE  /\ Reading(u) = {p} /\ Updating(u) = {}
         /\ Box(u) = ReadMaildrop(file[u]) /\ Marked(u) = MarkedIn(pop[p].drop)
<1>1. Updating(u) \cup Reading(u) = {p} BY OneHolder
<1>2. Updating(u) \cap Reading(u) = {} BY DEF Updating, Reading
<1>3. Reading(u) = {p} /\ Updating(u) = {} BY <1>1, <1>2
<1> QED BY <1>3 DEF Box, Marked

LEMMA WhenFree ==
  ASSUME NEW u \in User, Updating(u) = {}, Reading(u) = {}
  PROVE  Box(u) = ReadMaildrop(file[u]) /\ Marked(u) = {}
BY DEF Box, Marked

LEMMA StoreInit == Init => Store!Init
<1> SUFFICES ASSUME Init PROVE Store!Init OBVIOUS
<1>1. \A p \in Conn : pop[p].st = "Closed" BY DEF Init, Closed
<1>2. \A u \in User : Updating(u) = {} /\ Reading(u) = {} BY <1>1 DEF Updating, Reading
<1>3. \A u \in User : Box(u) = ReadMaildrop(file[u]) /\ Marked(u) = {} BY <1>2, WhenFree
<1>4. FilesDiffer BY StoreInvInit DEF StoreInv
<1>5. \A u \in User : Different(Box(u)) BY <1>3, <1>4 DEF FilesDiffer
<1>6. StoreMarked = [u \in User |-> {}] /\ StoreEnding = {}
  BY <1>2, <1>3 DEF StoreMarked, StoreEnding
<1>7. \A u \in User : StoreBox[u] = Box(u) BY DEF StoreBox
<1>8. \A u \in User : Different(StoreBox[u]) BY <1>5, <1>7
<1> QED BY <1>6, <1>8 DEF Store!Init, Different

(* The three cases, of this state and of the next.                         *)
View(u) ==
  /\ \A p \in Updating(u) : /\ Reading(u) = {} /\ Marked(u) = {}
                             /\ Box(u) = Undeleted(pop[p].drop)
  /\ \A p \in Reading(u) : /\ Updating(u) = {} /\ Marked(u) = MarkedIn(pop[p].drop)
                            /\ Box(u) = ReadMaildrop(file[u])
  /\ Updating(u) = {} /\ Reading(u) = {} => /\ Box(u) = ReadMaildrop(file[u])
                                            /\ Marked(u) = {}

LEMMA Views == LockHeld => \A u \in User : View(u)
<1> SUFFICES ASSUME LockHeld, NEW u \in User PROVE View(u) OBVIOUS
<1> QED BY WhenUpdating, WhenReading, WhenFree DEF View

LEMMA ViewsNext == LockHeld' => \A u \in User : View(u)'
<1>1. (LockHeld => \A u \in User : View(u))' BY Views, PTL
<1> QED BY <1>1

(* A step that is not at user u leaves the store of u as it is.            *)
Untouched(u) ==
  /\ file'[u] = file[u]
  /\ \A q \in Conn : \/ pop'[q] = pop[q]
                     \/ /\ q \notin Updating(u) \cup Reading(u)
                        /\ q \notin (Updating(u) \cup Reading(u))'

Same(u) == Box(u)' = Box(u) /\ Marked(u)' = Marked(u) /\ Updating(u)' = Updating(u)

LEMMA Elsewhere ==
  ASSUME LockHeld, LockHeld', NEW u \in User, Untouched(u)
  PROVE  Same(u)
<1>1. Updating(u)' = Updating(u) /\ Reading(u)' = Reading(u)
  BY DEF Untouched, Updating, Reading
<1>2. View(u) /\ View(u)' BY Views, ViewsNext
<1>3. ASSUME NEW p \in Updating(u) PROVE Same(u)
  <2>1. p \in Updating(u)' BY <1>1
  <2>2. pop'[p] = pop[p] BY <2>1 DEF Untouched, Updating
  <2>3. Box(u) = Undeleted(pop[p].drop) /\ Marked(u) = {} BY <1>2 DEF View
  <2>4. Box(u)' = Undeleted(pop'[p].drop) /\ Marked(u)' = {} BY <1>2, <2>1 DEF View
  <2> QED BY <1>1, <2>2, <2>3, <2>4 DEF Same
<1>4. ASSUME NEW p \in Reading(u) PROVE Same(u)
  <2>1. p \in Reading(u)' BY <1>1
  <2>2. pop'[p] = pop[p] /\ file'[u] = file[u] BY <2>1 DEF Untouched, Reading
  <2>3. Box(u) = ReadMaildrop(file[u]) /\ Marked(u) = MarkedIn(pop[p].drop) BY <1>2 DEF View
  <2>4. Box(u)' = ReadMaildrop(file'[u]) /\ Marked(u)' = MarkedIn(pop'[p].drop)
    BY <1>2, <2>1 DEF View
  <2> QED BY <1>1, <2>2, <2>3, <2>4 DEF Same
<1>5. CASE Updating(u) = {} /\ Reading(u) = {}
  <2>1. Box(u) = ReadMaildrop(file[u]) /\ Marked(u) = {} BY <1>2, <1>5 DEF View
  <2>2. Box(u)' = ReadMaildrop(file'[u]) /\ Marked(u)' = {} BY <1>1, <1>2, <1>5 DEF View
  <2> QED BY <1>1, <2>1, <2>2 DEF Same, Untouched
<1> QED BY <1>3, <1>4, <1>5

LEMMA AllSame ==
  ASSUME \A u \in User : Same(u)
  PROVE  UNCHANGED <<StoreBox, StoreMarked, StoreEnding>>
BY DEF Same, StoreBox, StoreMarked, StoreEnding

(* A request of p is one at its user.                                      *)
LEMMA OneUser ==
  ASSUME TypeOK, NEW p \in Conn, NEW u \in User, u # pop[p].user,
         PassOk(p) \/ Dele(p) \/ Rset(p) \/ Quit(p) \/ WriteBack(p) \/ Leave(p)
  PROVE  Untouched(u)
<1>1. pop[p].user \in User /\ p \notin Updating(u) \cup Reading(u)
  BY DEF PassOk, Dele, Rset, Quit, WriteBack, Leave, TypeOK, Updating, Reading
<1>2. \A q \in Conn : q # p => pop'[q] = pop[q]
  BY DEF PassOk, Dele, Rset, Quit, WriteBack, Leave, TypeOK
<1>3. file'[u] = file[u]
  BY <1>1 DEF PassOk, Dele, Rset, Quit, WriteBack, Leave, TypeOK
<1>4. p \notin (Updating(u) \cup Reading(u))'
  <2>1. CASE PassOk(p) BY <2>1, PassFacts DEF Updating, Reading
  <2>2. CASE Dele(p) \/ Rset(p) BY <2>2, MarksChange DEF Updating, Reading
  <2>3. CASE Quit(p) BY <2>3, QuitFacts DEF Updating, Reading
  <2>4. CASE WriteBack(p) BY <2>4, WriteBackFacts DEF Updating, Reading
  <2>5. CASE Leave(p)
    <3>1. pop'[p].st = "Closed" BY <2>5 DEF Leave, Closed, TypeOK
    <3> QED BY <3>1 DEF Updating, Reading
  <2> QED BY <2>1, <2>2, <2>3, <2>4, <2>5
<1> QED BY <1>1, <1>2, <1>3, <1>4 DEF Untouched

(* Requests of a connection without the lock are none of the store's.      *)
LEMMA RequestRefines ==
  ASSUME StoreInv, StoreInv', NEW p \in Conn,
         \/ Connect(p) \/ PassRefused(p) \/ QuitEarly(p)
         \/ \E w \in User \cup {NoUser} : UserName(p, w)
  PROVE  UNCHANGED <<StoreBox, StoreMarked, StoreEnding>>
<1>0. TypeOK /\ LockHeld /\ LockHeld' BY DEF StoreInv, IInv
<1>1. /\ file' = file /\ \A q \in Conn : q # p => pop'[q] = pop[q]
      /\ pop[p].st \notin {"Trans", "Update"} /\ pop'[p].st \notin {"Trans", "Update"}
  <2>1. CASE Connect(p) BY <1>0, <2>1 DEF Connect, TypeOK
  <2>2. CASE PassRefused(p) BY <1>0, <2>2 DEF PassRefused, TypeOK
  <2>3. CASE QuitEarly(p) BY <1>0, <2>3 DEF QuitEarly, TypeOK, Closed
  <2>4. ASSUME NEW w \in User \cup {NoUser}, UserName(p, w)
        PROVE  /\ file' = file /\ \A q \in Conn : q # p => pop'[q] = pop[q]
               /\ pop[p].st \notin {"Trans", "Update"} /\ pop'[p].st \notin {"Trans", "Update"}
    <3> DEFINE t == IF w \in User THEN "Pass" ELSE "User"
    <3>1. /\ pop[p].st = "User" /\ file' = file
          /\ pop' = [pop EXCEPT ![p].user = w, ![p].st = t]
      BY <2>4 DEF UserName
    <3>2. t \in {"Pass", "User"} OBVIOUS
    <3> HIDE DEF t
    <3>3. pop'[p].st = t BY <1>0, <3>1 DEF TypeOK, Session
    <3>4. \A q \in Conn : q # p => pop'[q] = pop[q] BY <1>0, <3>1 DEF TypeOK
    <3> QED BY <3>1, <3>2, <3>3, <3>4
  <2> QED BY <2>1, <2>2, <2>3, <2>4
<1>2. \A u \in User : Untouched(u) BY <1>1 DEF Untouched, Updating, Reading
<1> QED BY <1>0, <1>2, Elsewhere, AllSame

(* PASS: the copy has no mark yet.                                         *)
LEMMA PassRefines ==
  ASSUME StoreInv, StoreInv', NEW p \in Conn, PassOk(p)
  PROVE  UNCHANGED <<StoreBox, StoreMarked, StoreEnding>>
<1>0. TypeOK /\ LockHeld /\ LockHeld' BY DEF StoreInv, IInv
<1>u. PICK u \in User : u = pop[p].user BY <1>0, PassFacts
<1> DEFINE f == file[u]
<1>1. /\ u \in User /\ f \in Seq(Line) /\ file' = file
      /\ pop'[p].st = "Trans" /\ pop'[p].user = u /\ pop'[p].drop = Copy(f)
  BY <1>0, <1>u, PassFacts
<1>2. mutex[u] = NoConn BY <1>u DEF PassOk
<1>3. Updating(u) = {} /\ Reading(u) = {}
  BY <1>0, <1>2, ConnAssumption DEF LockHeld, Updating, Reading, NoConn
<1>4. Box(u) = ReadMaildrop(f) /\ Marked(u) = {} BY <1>0, <1>1, <1>3, Views DEF View
<1>5. p \in Reading(u)' BY <1>1 DEF Reading
<1>6. Updating(u)' = {} /\ Marked(u)' = MarkedIn(pop'[p].drop) /\ Box(u)' = ReadMaildrop(file'[u])
  BY <1>0, <1>1, <1>5, ViewsNext DEF View
<1>7. MarkedIn(Copy(f)) = {} BY <1>1, CopyFacts DEF MarkedIn
<1>8. Same(u) BY <1>1, <1>3, <1>4, <1>6, <1>7 DEF Same
<1>9. \A w \in User : w # u => Same(w) BY <1>0, <1>u, OneUser, Elsewhere
<1> QED BY <1>8, <1>9, AllSame

(* DELE and RSET: the marks are on mails of the mailbox.                   *)
LEMMA MarkRefines ==
  ASSUME StoreInv, StoreInv', NEW p \in Conn, Dele(p) \/ Rset(p)
  PROVE  \E u \in User : Store!Mark(u)
<1>0. TypeOK /\ LockHeld /\ LockHeld' /\ CopyIsMailbox BY DEF StoreInv, IInv
<1>u. PICK u \in User : u = pop[p].user BY <1>0, MarksChange DEF TypeOK
<1>1. /\ pop[p].st = "Trans" /\ pop'[p].st = "Trans" /\ pop'[p].user = u /\ file' = file
      /\ DOMAIN pop'[p].drop = DOMAIN pop[p].drop
      /\ \A i \in DOMAIN pop[p].drop : pop'[p].drop[i].mail = pop[p].drop[i].mail
  BY <1>0, <1>u, MarksChange
<1>2. u \in User OBVIOUS
<1>3. p \in Reading(u) /\ p \in Reading(u)' BY <1>u, <1>1 DEF Reading
<1>4. Updating(u) = {} /\ Box(u) = ReadMaildrop(file[u]) BY <1>0, <1>2, <1>3, Views DEF View
<1>5. /\ Updating(u)' = {} /\ Marked(u)' = MarkedIn(pop'[p].drop)
      /\ Box(u)' = ReadMaildrop(file'[u])
  BY <1>0, <1>2, <1>3, ViewsNext DEF View
<1>6. \A w \in User : w # u => Same(w) BY <1>0, <1>u, OneUser, Elsewhere
<1>7. Box(u) = Mails(pop[p].drop) BY <1>0, <1>u, <1>1, <1>4 DEF CopyIsMailbox
<1>8. StoreMarked'[u] \subseteq Store!MailsOf(u)
  <2>1. StoreMarked'[u] = MarkedIn(pop'[p].drop) BY <1>2, <1>5 DEF StoreMarked
  <2>2. StoreBox[u] = Mails(pop[p].drop) BY <1>2, <1>7 DEF StoreBox
  <2>3. \A i \in DOMAIN pop'[p].drop : /\ i \in DOMAIN Mails(pop[p].drop)
                                       /\ pop'[p].drop[i].mail = Mails(pop[p].drop)[i]
    BY <1>1 DEF Mails
  <2> QED BY <2>1, <2>2, <2>3 DEF MarkedIn, Store!MailsOf
<1>9. u \notin StoreEnding /\ StoreEnding' = StoreEnding
  BY <1>4, <1>5, <1>6 DEF StoreEnding, Same
<1>10. StoreBox' = StoreBox BY <1>1, <1>4, <1>5, <1>6 DEF StoreBox, Same
<1>11. StoreMarked' = [StoreMarked EXCEPT ![u] = StoreMarked'[u]]
  BY <1>6 DEF StoreMarked, Same
<1>12. Store!Mark(u) BY <1>8, <1>9, <1>10, <1>11 DEF Store!Mark
<1> QED BY <1>2, <1>12

(* The store's listing of a sequence is the model's.                       *)
LEMMA SameList ==
  ASSUME NEW s, NEW K PROVE AtPlaces(s, K) = Store!AtPlaces(s, K)
<1>1. \A T : Cardinality(T) = Store!Cardinality(T)
  <2> TAKE T
  <2> QED BY DEF Cardinality, Store!Cardinality
<1>2. \A i : Rank(K, i) = Store!Rank(K, i) BY <1>1 DEF Rank, Store!Rank
<1>3. \A k : Nth(K, k) = Store!Nth(K, k) BY <1>2 DEF Nth, Store!Nth
<1> QED BY <1>1, <1>3 DEF AtPlaces, Store!AtPlaces

(* QUIT: what is marked goes away at once.                                 *)
LEMMA QuitRefines ==
  ASSUME StoreInv, StoreInv', NEW p \in Conn, Quit(p)
  PROVE  \E u \in User : Store!Expunge(u)
<1>0. TypeOK /\ LockHeld /\ LockHeld' /\ CopyIsMailbox /\ CopiesSound BY DEF StoreInv, IInv
<1>u. PICK u \in User : u = pop[p].user BY <1>0, QuitFacts
<1> DEFINE d == pop[p].drop
<1>1. /\ pop[p].st = "Trans" /\ pop'[p].st = "Update" /\ pop'[p].user = u
      /\ u \in User /\ pop'[p].drop = d
  BY <1>0, <1>u, QuitFacts
<1>2. p \in Reading(u) /\ p \in Updating(u)' BY <1>u, <1>1 DEF Reading, Updating
<1>3. /\ Updating(u) = {} /\ Box(u) = ReadMaildrop(file[u]) /\ Marked(u) = MarkedIn(d)
  BY <1>0, <1>1, <1>2, Views DEF View
<1>4. Box(u)' = Undeleted(d) /\ Marked(u)' = {} BY <1>0, <1>1, <1>2, ViewsNext DEF View
<1>5. \A w \in User : w # u => Same(w) BY <1>0, <1>u, OneUser, Elsewhere
<1>6. Box(u) = Mails(d) BY <1>0, <1>u, <1>1, <1>3 DEF CopyIsMailbox
<1>7. {i \in DOMAIN Mails(d) : Mails(d)[i] \notin MarkedIn(d)} = {i \in DOMAIN d : ~ d[i].deleted}
  <2>1. DOMAIN Mails(d) = DOMAIN d /\ \A i \in DOMAIN d : Mails(d)[i] = d[i].mail
    BY <1>0, DropFacts
  <2>2. \A i, j \in DOMAIN d : d[i].mail = d[j].mail => i = j
    BY <1>0, <1>1, <2>1 DEF CopiesSound, Different
  <2> HIDE DEF d
  <2>3. \A i \in DOMAIN d : d[i].mail \in MarkedIn(d) <=> d[i].deleted BY <2>2 DEF MarkedIn
  <2> QED BY <2>1, <2>3
<1>8. StoreBox[u] = Mails(d) /\ StoreMarked[u] = MarkedIn(d)
  BY <1>1, <1>3, <1>6 DEF StoreBox, StoreMarked
<1>9. StoreBox' = [StoreBox EXCEPT ![u] = Undeleted(d)] BY <1>4, <1>5 DEF StoreBox, Same
<1>10. StoreMarked' = [StoreMarked EXCEPT ![u] = {}] BY <1>4, <1>5 DEF StoreMarked, Same
<1>11. u \notin StoreEnding /\ StoreEnding' = StoreEnding \cup {u}
  BY <1>1, <1>2, <1>3, <1>5 DEF StoreEnding, Same
<1>12. Store!Expunge(u)
  <2>1. Undeleted(d) = AtPlaces(Mails(d), {i \in DOMAIN Mails(d) : Mails(d)[i] \notin MarkedIn(d)})
    BY <1>7 DEF Undeleted
  <2> DEFINE kept == {i \in DOMAIN StoreBox[u] : StoreBox[u][i] \notin StoreMarked[u]}
  <2>2. AtPlaces(StoreBox[u], kept) = Undeleted(d)
    <3> HIDE DEF d
    <3> QED BY <1>8, <2>1
  <2> HIDE DEF d, kept
  <2>3. StoreBox' = [StoreBox EXCEPT ![u] = AtPlaces(StoreBox[u], kept)] BY <1>9, <2>2
  <2> QED
    <3>1. AtPlaces(StoreBox[u], kept) = Store!AtPlaces(StoreBox[u], kept)
      BY SameList
    <3> QED BY <1>10, <1>11, <2>3, <3>1 DEF Store!Expunge, kept
<1> QED BY <1>1, <1>12

(* The loop of QUIT: the file grows towards what the box is already.       *)
LEMMA WriteBackRefines ==
  ASSUME StoreInv, StoreInv', NEW p \in Conn, WriteBack(p)
  PROVE  UNCHANGED <<StoreBox, StoreMarked, StoreEnding>>
<1>0. TypeOK /\ LockHeld /\ LockHeld' BY DEF StoreInv, IInv
<1>u. PICK u \in User : u = pop[p].user BY <1>0, WriteBackFacts
<1>1. /\ pop[p].st = "Update" /\ pop'[p].st = "Update" /\ pop'[p].user = u
      /\ u \in User /\ pop'[p].drop = pop[p].drop
  BY <1>0, <1>u, WriteBackFacts
<1>2. p \in Updating(u) /\ p \in Updating(u)' BY <1>u, <1>1 DEF Updating
<1>3. Box(u) = Undeleted(pop[p].drop) /\ Marked(u) = {} BY <1>0, <1>1, <1>2, Views DEF View
<1>4. Box(u)' = Undeleted(pop[p].drop) /\ Marked(u)' = {}
  BY <1>0, <1>1, <1>2, ViewsNext DEF View
<1>5. Updating(u)' = Updating(u)
  <2>1. \A q \in Conn : q # p => pop'[q] = pop[q] BY <1>0 DEF WriteBack, TypeOK
  <2>2. \A q \in Conn : (pop'[q].st = "Update" /\ pop'[q].user = u)
                          <=> (pop[q].st = "Update" /\ pop[q].user = u)
    <3> TAKE q \in Conn
    <3>1. CASE q = p BY <1>u, <1>1, <3>1
    <3>2. CASE q # p BY <2>1, <3>2
    <3> QED BY <3>1, <3>2
  <2> QED BY <2>2 DEF Updating
<1>6. Same(u) BY <1>3, <1>4, <1>5 DEF Same
<1>7. \A w \in User : w # u => Same(w) BY <1>0, <1>u, OneUser, Elsewhere
<1> QED BY <1>6, <1>7, AllSame

(* The end of the loop: the file is the box.                               *)
LEMMA LeaveRefines ==
  ASSUME StoreInv, StoreInv', NEW p \in Conn, Leave(p)
  PROVE  \E u \in User : Store!Finish(u)
<1>0. TypeOK /\ LockHeld /\ LockHeld' /\ WrittenSoFar BY DEF StoreInv, IInv
<1>u. PICK u \in User : u = pop[p].user BY <1>0 DEF Leave, TypeOK
<1> DEFINE d == pop[p].drop
<1>1. /\ pop[p].st = "Update" /\ u \in User /\ pop'[p].st = "Closed" /\ file' = file
      /\ pop[p].next > Len(d) /\ \A q \in Conn : q # p => pop'[q] = pop[q]
  BY <1>0, <1>u DEF Leave, Closed, TypeOK
<1>2. p \in Updating(u) BY <1>u, <1>1 DEF Updating
<1>3. Updating(u) = {p} /\ Reading(u) = {} /\ Box(u) = Undeleted(d) /\ Marked(u) = {}
  BY <1>0, <1>1, <1>2, WhenUpdating
<1>4. Updating(u)' = {} /\ Reading(u)' = {} BY <1>1, <1>3 DEF Updating, Reading
<1>5. Box(u)' = ReadMaildrop(file[u]) /\ Marked(u)' = {}
  BY <1>0, <1>1, <1>4, ViewsNext DEF View
<1>6. Kept(d, pop[p].next) = {i \in DOMAIN d : ~ d[i].deleted}
  <2>1. Len(d) \in Nat /\ DOMAIN d = 1 .. Len(d) BY <1>0, DropFacts
  <2>2. pop[p].next \in Nat BY <1>0 DEF TypeOK, Session
  <2> HIDE DEF d
  <2>3. \A i \in DOMAIN d : i < pop[p].next BY <1>1, <2>1, <2>2
  <2> QED BY <2>3 DEF Kept
<1>7. ReadMaildrop(file[u]) = Undeleted(d) BY <1>0, <1>u, <1>1, <1>6 DEF WrittenSoFar, Undeleted
<1>8. \A w \in User : w # u => Same(w) BY <1>0, <1>u, OneUser, Elsewhere
<1>9. u \in StoreEnding /\ StoreEnding' = StoreEnding \ {u}
  BY <1>1, <1>2, <1>4, <1>8 DEF StoreEnding, Same
<1>10. StoreBox' = StoreBox /\ StoreMarked' = StoreMarked
  BY <1>3, <1>5, <1>7, <1>8 DEF StoreBox, StoreMarked, Same
<1>11. Store!Finish(u) BY <1>9, <1>10 DEF Store!Finish
<1> QED BY <1>1, <1>11

(* A crash: a box in the middle of a removal keeps what is written of it.  *)
LEMMA CrashRefines ==
  ASSUME StoreInv, StoreInv', Crash
  PROVE  Store!Crash
<1>0. TypeOK /\ LockHeld /\ LockHeld' /\ WrittenSoFar /\ CopiesSound BY DEF StoreInv, IInv
<1>1. file' = file /\ \A q \in Conn : pop'[q].st = "Closed" BY DEF Crash, Closed
<1>2. ASSUME NEW u \in User
      PROVE  Updating(u)' = {} /\ Box(u)' = ReadMaildrop(file[u]) /\ Marked(u)' = {}
  <2>1. Updating(u)' = {} /\ Reading(u)' = {} BY <1>1 DEF Updating, Reading
  <2>2. Box(u)' = ReadMaildrop(file'[u]) /\ Marked(u)' = {} BY <1>0, <2>1, ViewsNext DEF View
  <2> QED BY <1>1, <2>1, <2>2
<1>3. StoreMarked' = [u \in User |-> {}] /\ StoreEnding' = {}
  BY <1>2 DEF StoreMarked, StoreEnding
<1>4. ASSUME NEW u \in User
      PROVE  \E n \in 0 .. Len(Box(u)) : /\ Box(u)' = SubSeq(Box(u), 1, n)
                                         /\ Updating(u) = {} => n = Len(Box(u))
  <2>1. CASE Updating(u) = {}
    <3> DEFINE R == ReadMaildrop(file[u])
    <3>1. Box(u) = R BY <2>1 DEF Box
    <3>2. R \in Seq(Mail)
      <4>1. file[u] \in Seq(Line) BY <1>0 DEF TypeOK
      <4> QED BY <4>1, MaildropFacts
    <3> HIDE DEF R
    <3>3. Len(R) \in Nat /\ SubSeq(R, 1, Len(R)) = R BY <3>2, LenProperties, SubSeqFull
    <3> QED BY <1>2, <3>1, <3>3 DEF R
  <2>2. ASSUME NEW p \in Updating(u)
        PROVE  \E n \in 0 .. Len(Box(u)) : Box(u)' = SubSeq(Box(u), 1, n)
    <3> DEFINE d == pop[p].drop
               M == Mails(d)
               K == {i \in DOMAIN d : ~ d[i].deleted}
               m == pop[p].next
               L == {j \in K : j < m}
    <3>1. p \in Conn /\ pop[p].st = "Update" /\ pop[p].user = u BY DEF Updating
    <3>2. Box(u) = AtPlaces(M, K) BY <1>0, WhenUpdating DEF Undeleted
    <3>3. ReadMaildrop(file[u]) = AtPlaces(M, Kept(d, m)) BY <1>0, <3>1 DEF WrittenSoFar
    <3>4. Kept(d, m) = L BY DEF Kept
    <3>5. M \in Seq(Mail) /\ DOMAIN M = DOMAIN d BY <1>0, <3>1, DropFacts
    <3>6. K \in SUBSET DOMAIN M BY <3>5
    <3>7. m \in Int BY <1>0, <3>1 DEF TypeOK, Session
    <3> HIDE DEF M, K, m
    <3>8. /\ Cardinality(L) \in 0 .. Len(AtPlaces(M, K))
          /\ AtPlaces(M, L) = SubSeq(AtPlaces(M, K), 1, Cardinality(L))
      BY <3>5, <3>6, <3>7, AtPlacesFront
    <3> HIDE DEF L
    <3> QED BY <1>2, <3>2, <3>3, <3>4, <3>8
  <2> QED BY <2>1, <2>2
<1>5. \A u \in User : /\ StoreBox[u] = Box(u) /\ StoreBox'[u] = Box(u)'
                      /\ u \notin StoreEnding => Updating(u) = {}
  BY DEF StoreBox, StoreEnding
<1>6. \A u \in User : \E n \in 0 .. Len(StoreBox[u]) :
        /\ StoreBox'[u] = SubSeq(StoreBox[u], 1, n)
        /\ u \notin StoreEnding => n = Len(StoreBox[u])
  BY <1>4, <1>5
<1>7. DOMAIN StoreBox' = User BY DEF StoreBox
<1> QED BY <1>3, <1>6, <1>7 DEF Store!Crash

LEMMA StepRefines ==
  StoreInv /\ StoreInv' /\ [Next]_vars => [Store!Next]_<<StoreBox, StoreMarked, StoreEnding>>
<1> SUFFICES ASSUME StoreInv, StoreInv', [Next]_vars
             PROVE  [Store!Next]_<<StoreBox, StoreMarked, StoreEnding>>
  OBVIOUS
<1>1. ASSUME NEW p \in Conn, Request(p) PROVE [Store!Next]_<<StoreBox, StoreMarked, StoreEnding>>
  <2>1. CASE PassOk(p) BY <2>1, PassRefines
  <2>2. CASE Dele(p) \/ Rset(p) BY <2>2, MarkRefines DEF Store!Next
  <2>3. CASE Quit(p) BY <2>3, QuitRefines DEF Store!Next
  <2>4. CASE \/ Connect(p) \/ PassRefused(p) \/ QuitEarly(p)
             \/ \E w \in User \cup {NoUser} : UserName(p, w)
    BY <2>4, RequestRefines
  <2> QED BY <1>1, <2>1, <2>2, <2>3, <2>4 DEF Request
<1>2. ASSUME NEW p \in Conn, Update(p) PROVE [Store!Next]_<<StoreBox, StoreMarked, StoreEnding>>
  <2>1. CASE WriteBack(p) BY <2>1, WriteBackRefines
  <2>2. CASE Leave(p) BY <2>2, LeaveRefines DEF Store!Next
  <2> QED BY <1>2, <2>1, <2>2 DEF Update
<1>3. CASE Crash BY <1>3, CrashRefines DEF Store!Next
<1>4. CASE UNCHANGED vars
  BY <1>4 DEF vars, StoreBox, StoreMarked, StoreEnding, Box, Marked, Updating, Reading
<1> QED BY <1>1, <1>2, <1>3, <1>4 DEF Next, Serve

(* The sessions implement the mail store: what a client has marked goes    *)
(* away at once when it quits, and a crash takes no mail but the last ones *)
(* of a mailbox that was being written again.                              *)
THEOREM Implements == Spec => ImplementsStore
<1>1. Init => Store!Init BY StoreInit
<1>2. StoreInv /\ StoreInv' /\ [Next]_vars => [Store!Next]_<<StoreBox, StoreMarked, StoreEnding>>
  BY StepRefines
<1> QED BY <1>1, <1>2, StoreInvCorrect, PTL DEF Spec, ImplementsStore, Store!Spec
=============================================================================
