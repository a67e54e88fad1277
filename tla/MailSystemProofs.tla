-------------------------- MODULE MailSystemProofs --------------------------
(***************************************************************************)
(* Machine-checked proofs about the SMTP server, and then about the two    *)
(* mail servers on one mailbox, for any users and connections, any number  *)
(* and length of mails, and any number of crashes of either server.        *)
(***************************************************************************)
EXTENDS MailSystem, ListingLemmas

-----------------------------------------------------------------------------
(***************************************************************************)
(* Types, and the mail of a session by its state.                          *)
(***************************************************************************)

Idle(r) == r.st \in {"Closed", "Wait"}

(* What the state of a session says of its mail: there is none before      *)
(* MAIL, no text before DATA, and no recipient is served before the dot.   *)
(* That the lines are as many as the client has typed keeps their number   *)
(* in its bounds.                                                          *)
SessionOK(s) ==
  /\ Idle(smtp[s]) => EmptyMail(smtp[s])
  /\ ~ Idle(smtp[s]) => smtp[s].tx \in 1 .. begun /\ Len(smtp[s].lines) = asked[s].n
  /\ smtp[s].st \in {"Mail", "Rcpt"} => smtp[s].lines = <<>>
  /\ smtp[s].st # "Send" => smtp[s].todo = <<>>

IInv == TypeOK /\ \A s \in Conn : SessionOK(s)

LEMMA InvInit == Init => IInv
<1> SUFFICES ASSUME Init PROVE IInv OBVIOUS
<1>1. /\ Closed \in Session /\ EmptyMail(Closed) /\ Closed.todo = <<>> /\ Idle(Closed)
      /\ Closed.st = "Closed"
  BY BoundsAssumption DEF Closed, Session, EmptyMail, Idle
<1>2. TypeOK BY <1>1, BoundsAssumption DEF Init, TypeOK, NothingAsked
<1>3. \A s \in Conn : SessionOK(s) BY <1>1 DEF Init, SessionOK
<1> QED BY <1>2, <1>3 DEF IInv

(* A step of connection p: it gets the session r and the text q, and the   *)
(* others keep theirs.                                                     *)
LEMMA InvFrame ==
  ASSUME IInv, NEW p \in Conn, NEW r \in Session, NEW q \in [to : SUBSET User, n : 0 .. MaxLines],
         smtp' = [smtp EXCEPT ![p] = r], asked' = [asked EXCEPT ![p] = q],
         begun' \in 0 .. MaxMails, begun <= begun',
         file' \in [User -> Seq(Line)], mutex' \in [User -> Conn \cup {NoConn}],
         acked' \subseteq [tx : 1 .. MaxMails, said : [to : SUBSET User, n : 0 .. MaxLines]],
         Idle(r) => EmptyMail(r),
         ~ Idle(r) => r.tx \in 1 .. begun' /\ Len(r.lines) = q.n,
         r.st \in {"Mail", "Rcpt"} => r.lines = <<>>,
         r.st # "Send" => r.todo = <<>>
  PROVE  IInv'
<1>1. TypeOK' BY DEF IInv, TypeOK
<1>2. smtp'[p] = r /\ asked'[p] = q BY DEF IInv, TypeOK
<1>3. ASSUME NEW s \in Conn PROVE SessionOK(s)'
  <2>1. CASE s = p BY <1>2, <2>1 DEF SessionOK
  <2>2. CASE s # p
    <3>1. smtp'[s] = smtp[s] /\ asked'[s] = asked[s] BY <2>2 DEF IInv, TypeOK
    <3>2. begun \in Nat /\ begun' \in Nat BY BoundsAssumption DEF IInv, TypeOK
    <3>3. SessionOK(s) BY DEF IInv
    <3>4. smtp[s].tx \in 1 .. begun => smtp[s].tx \in 1 .. begun' BY <3>2
    <3> QED BY <3>1, <3>3, <3>4 DEF SessionOK
  <2> QED BY <2>1, <2>2
<1> QED BY <1>1, <1>3 DEF IInv

LEMMA SessionFields ==
  ASSUME IInv, NEW p \in Conn
  PROVE  /\ smtp[p] \in Session /\ SessionOK(p)
         /\ smtp[p].st \in {"Closed", "Wait", "Mail", "Rcpt", "Data", "Send"}
         /\ smtp[p].tx \in Nat /\ smtp[p].tx <= MaxMails
         /\ smtp[p].rcpts \in Seq(User) /\ smtp[p].lines \in Seq(Line)
         /\ smtp[p].todo \in Seq(User)
         /\ asked[p] \in [to : SUBSET User, n : 0 .. MaxLines]
         /\ begun \in Nat /\ begun <= MaxMails /\ MaxMails \in Nat /\ MaxLines \in Nat
BY BoundsAssumption DEF IInv, TypeOK, Session

(* A session that waits for MAIL.                                          *)
Waiting == [st |-> "Wait", tx |-> 0, rcpts |-> <<>>, lines |-> <<>>, todo |-> <<>>]

LEMMA WaitingFacts ==
  /\ Waiting \in Session /\ EmptyMail(Waiting) /\ Waiting.todo = <<>> /\ Waiting.st = "Wait"
  /\ [Closed EXCEPT !.st = "Wait"] = Waiting
<1>1. Waiting \in Session BY BoundsAssumption DEF Waiting, Session
<1> QED BY <1>1 DEF Waiting, EmptyMail, Closed

LEMMA ClearedFacts ==
  ASSUME NEW r \in Session, r.todo = <<>>
  PROVE  [Cleared(r) EXCEPT !.st = "Wait"] = Waiting
<1> DEFINE rec(a, b, c, l) == [st |-> a, tx |-> b, rcpts |-> c, lines |-> l, todo |-> <<>>]
<1>1. ASSUME NEW a, NEW b, NEW c, NEW l
      PROVE  [Cleared(rec(a, b, c, l)) EXCEPT !.st = "Wait"] = Waiting
  <2>1. Cleared(rec(a, b, c, l)) = rec(a, 0, <<>>, <<>>)
    <3>1. [rec(a, b, c, l) EXCEPT !.tx = 0] = rec(a, 0, c, l) OBVIOUS
    <3>2. [rec(a, 0, c, l) EXCEPT !.rcpts = <<>>] = rec(a, 0, <<>>, l) OBVIOUS
    <3>3. [rec(a, 0, <<>>, l) EXCEPT !.lines = <<>>] = rec(a, 0, <<>>, <<>>) OBVIOUS
    <3> HIDE DEF rec
    <3> QED BY <3>1, <3>2, <3>3 DEF Cleared
  <2>2. [rec(a, 0, <<>>, <<>>) EXCEPT !.st = "Wait"] = rec("Wait", 0, <<>>, <<>>) OBVIOUS
  <2>3. rec("Wait", 0, <<>>, <<>>) = Waiting BY DEF Waiting
  <2> HIDE DEF rec
  <2> QED BY <2>1, <2>2, <2>3
<1>2. \E a, b, c, l : r = rec(a, b, c, l)
  <2>1. r = [st |-> r.st, tx |-> r.tx, rcpts |-> r.rcpts, lines |-> r.lines, todo |-> r.todo]
    BY DEF Session
  <2>2. r = rec(r.st, r.tx, r.rcpts, r.lines) BY <2>1
  <2> HIDE DEF rec
  <2> QED BY <2>2
<1> HIDE DEF rec
<1> QED BY <1>1, <1>2

(* The mail that a session writes.                                         *)
TheMail(s) == [from |-> FirstLine(smtp[s].tx), lines |-> smtp[s].lines]

LEMMA TheMailType ==
  ASSUME IInv, NEW s \in Conn
  PROVE  TheMail(s) \in Mail
<1>1. smtp[s].tx \in Nat /\ smtp[s].lines \in Seq(Line) BY SessionFields
<1>2. FirstLine(smtp[s].tx) \in Line BY <1>1 DEF FirstLine, Line
<1> QED BY <1>1, <1>2 DEF TheMail, Mail

LEMMA RequestInv ==
  ASSUME IInv, NEW p \in Conn, Request(p)
  PROVE  IInv'
<1> DEFINE r == smtp[p]
           q == asked[p]
<1>0. TypeOK BY DEF IInv
<1>a. /\ r \in Session /\ SessionOK(p) /\ q \in [to : SUBSET User, n : 0 .. MaxLines]
      /\ r.st \in {"Closed", "Wait", "Mail", "Rcpt", "Data", "Send"}
      /\ r.tx \in Nat /\ r.tx <= MaxMails
      /\ r.rcpts \in Seq(User) /\ r.lines \in Seq(Line) /\ r.todo \in Seq(User)
      /\ begun \in Nat /\ begun <= MaxMails /\ MaxMails \in Nat /\ MaxLines \in Nat
  BY SessionFields
<1>b. /\ begun \in 0 .. MaxMails /\ begun <= begun /\ file \in [User -> Seq(Line)]
      /\ mutex \in [User -> Conn \cup {NoConn}]
      /\ acked \subseteq [tx : 1 .. MaxMails, said : [to : SUBSET User, n : 0 .. MaxLines]]
      /\ asked = [asked EXCEPT ![p] = q]
  BY <1>0, <1>a DEF TypeOK
<1>1. CASE Connect(p)
  <2> DEFINE x == [Closed EXCEPT !.st = "Wait"]
  <2>1. /\ x \in Session /\ EmptyMail(x) /\ x.todo = <<>> /\ x.st = "Wait"
    BY WaitingFacts
  <2>2. smtp' = [smtp EXCEPT ![p] = x] /\ UNCHANGED <<file, mutex, begun, asked, acked>>
    BY <1>1 DEF Connect
  <2> HIDE DEF x
  <2> QED BY <1>a, <1>b, <2>1, <2>2, InvFrame DEF Idle
<1>2. CASE MailFrom(p)
  <2> DEFINE x == [r EXCEPT !.st = "Mail", !.tx = begun + 1]
  <2>1. /\ r.st = "Wait" /\ begun < MaxMails /\ begun' = begun + 1
        /\ smtp' = [smtp EXCEPT ![p] = x] /\ asked' = [asked EXCEPT ![p] = NothingAsked]
        /\ UNCHANGED <<file, mutex, acked>>
    BY <1>2 DEF MailFrom
  <2>2. begun + 1 \in 1 .. MaxMails /\ begun + 1 \in 0 .. MaxMails /\ begun <= begun + 1
    BY <1>a, <2>1
  <2>3. x \in Session /\ x.st = "Mail" /\ x.tx = begun + 1 /\ x.lines = r.lines /\ x.todo = r.todo
    BY <1>a, <2>2 DEF Session
  <2>4. r.lines = <<>> /\ r.todo = <<>> BY <1>a, <2>1 DEF SessionOK, Idle, EmptyMail
  <2>5. NothingAsked \in [to : SUBSET User, n : 0 .. MaxLines] /\ NothingAsked.n = 0
    BY <1>a DEF NothingAsked
  <2>6. Len(<<>>) = 0 /\ begun + 1 \in 1 .. begun + 1 BY <1>a
  <2> HIDE DEF x
  <2> QED BY <1>b, <2>1, <2>2, <2>3, <2>4, <2>5, <2>6, InvFrame DEF Idle
<1>3. CASE Rset(p)
  <2> DEFINE x == [Cleared(r) EXCEPT !.st = "Wait"]
  <2>1. /\ r.st \in {"Wait", "Mail", "Rcpt"} /\ smtp' = [smtp EXCEPT ![p] = x]
        /\ UNCHANGED <<file, mutex, begun, asked, acked>>
    BY <1>3 DEF Rset
  <2>2. r.todo = <<>> BY <1>a, <2>1 DEF SessionOK
  <2>3. /\ x \in Session /\ EmptyMail(x) /\ x.todo = <<>> /\ x.st = "Wait"
    BY <1>a, <2>2, ClearedFacts, WaitingFacts
  <2> HIDE DEF x
  <2> QED BY <1>a, <1>b, <2>1, <2>3, InvFrame DEF Idle
<1>4. CASE Data(p)
  <2> DEFINE x == [r EXCEPT !.st = "Data"]
  <2>1. /\ r.st = "Rcpt" /\ smtp' = [smtp EXCEPT ![p] = x]
        /\ UNCHANGED <<file, mutex, begun, asked, acked>>
    BY <1>4 DEF Data
  <2>2. x \in Session /\ x.st = "Data" /\ x.tx = r.tx /\ x.lines = r.lines /\ x.todo = r.todo
    BY <1>a DEF Session
  <2>3. r.todo = <<>> /\ r.tx \in 1 .. begun /\ Len(r.lines) = q.n
    BY <1>a, <2>1 DEF SessionOK, Idle
  <2> HIDE DEF x
  <2> QED BY <1>a, <1>b, <2>1, <2>2, <2>3, InvFrame DEF Idle
<1>5. CASE Text(p)
  <2>1. PICK h \in HeadLike : smtp' = [smtp EXCEPT ![p].lines =
                                 Append(@, [of |-> smtp[p].tx, at |-> asked[p].n + 1, head |-> h])]
    BY <1>5 DEF Text
  <2> DEFINE l == [of |-> r.tx, at |-> q.n + 1, head |-> h]
             L == Append(r.lines, l)
             x == [r EXCEPT !.lines = L]
             y == [q EXCEPT !.n = q.n + 1]
  <2>2. smtp' = [smtp EXCEPT ![p] = x] BY <2>1
  <2>3. /\ r.st = "Data" /\ Len(r.lines) < MaxLines /\ asked' = [asked EXCEPT ![p] = y]
        /\ UNCHANGED <<file, mutex, begun, acked>>
    BY <1>5 DEF Text
  <2>4. r.todo = <<>> /\ r.tx \in 1 .. begun /\ Len(r.lines) = q.n
    BY <1>a, <2>3 DEF SessionOK, Idle
  <2>5. q.n \in Nat /\ q.n + 1 \in 0 .. MaxLines BY <1>a, <2>3, <2>4
  <2>6. y \in [to : SUBSET User, n : 0 .. MaxLines] /\ y.n = q.n + 1 BY <1>a, <2>5
  <2>7. l \in Line BY <1>a, <2>5, HeadLikeAssumption DEF Line
  <2> HIDE DEF l
  <2>8. L \in Seq(Line) /\ Len(L) = q.n + 1 BY <1>a, <2>4, <2>7, AppendProperties
  <2> HIDE DEF L
  <2>9. x \in Session /\ x.st = "Data" /\ x.tx = r.tx /\ x.lines = L /\ x.todo = r.todo
    BY <1>a, <2>3, <2>8 DEF Session
  <2> HIDE DEF x, y
  <2> QED BY <1>b, <2>2, <2>3, <2>4, <2>6, <2>8, <2>9, InvFrame DEF Idle
<1>6. CASE Dot(p)
  <2> DEFINE x == [r EXCEPT !.st = "Send", !.todo = r.rcpts]
  <2>1. /\ r.st = "Data" /\ smtp' = [smtp EXCEPT ![p] = x]
        /\ UNCHANGED <<file, mutex, begun, asked, acked>>
    BY <1>6 DEF Dot
  <2>2. x \in Session /\ x.st = "Send" /\ x.tx = r.tx /\ x.lines = r.lines
    BY <1>a DEF Session
  <2>3. r.tx \in 1 .. begun /\ Len(r.lines) = q.n BY <1>a, <2>1 DEF SessionOK, Idle
  <2> HIDE DEF x
  <2> QED BY <1>a, <1>b, <2>1, <2>2, <2>3, InvFrame DEF Idle
<1>7. CASE Quit(p)
  <2>1. /\ Closed \in Session /\ EmptyMail(Closed) /\ Closed.todo = <<>> /\ Closed.st = "Closed"
    BY <1>a DEF Closed, Session, EmptyMail
  <2>2. smtp' = [smtp EXCEPT ![p] = Closed] /\ UNCHANGED <<file, mutex, begun, asked, acked>>
    BY <1>7 DEF Quit
  <2> QED BY <1>a, <1>b, <2>1, <2>2, InvFrame DEF Idle
<1>8. ASSUME NEW u \in User \cup {NoUser}, RcptTo(p, u) PROVE IInv'
  <2> DEFINE known == \E i \in DOMAIN r.rcpts : r.rcpts[i] = u
             R == IF known THEN r.rcpts ELSE Append(r.rcpts, u)
             x == [r EXCEPT !.st = "Rcpt", !.rcpts = R]
             y == [q EXCEPT !.to = q.to \cup {u}]
  <2>1. /\ u \in User /\ r.st \in {"Mail", "Rcpt"} /\ UNCHANGED <<file, mutex, begun, acked>>
        /\ smtp' = [smtp EXCEPT ![p] = x] /\ asked' = [asked EXCEPT ![p] = y]
    BY <1>8 DEF RcptTo
  <2>2. R \in Seq(User) BY <1>a, <2>1, AppendProperties
  <2>3. y \in [to : SUBSET User, n : 0 .. MaxLines] /\ y.n = q.n BY <1>a, <2>1
  <2> HIDE DEF R
  <2>4. x \in Session /\ x.st = "Rcpt" /\ x.tx = r.tx /\ x.lines = r.lines /\ x.todo = r.todo
    BY <1>a, <2>2 DEF Session
  <2>5. r.todo = <<>> /\ r.tx \in 1 .. begun /\ Len(r.lines) = q.n /\ r.lines = <<>>
    BY <1>a, <2>1 DEF SessionOK, Idle
  <2> HIDE DEF x, y
  <2> QED BY <1>b, <2>1, <2>3, <2>4, <2>5, InvFrame DEF Idle
<1> QED BY <1>1, <1>2, <1>3, <1>4, <1>5, <1>6, <1>7, <1>8 DEF Request

LEMMA SendInv ==
  ASSUME IInv, NEW p \in Conn, Send(p)
  PROVE  IInv'
<1> DEFINE r == smtp[p]
           q == asked[p]
<1>0. TypeOK BY DEF IInv
<1>a. /\ r \in Session /\ SessionOK(p) /\ q \in [to : SUBSET User, n : 0 .. MaxLines]
      /\ r.st \in {"Closed", "Wait", "Mail", "Rcpt", "Data", "Send"}
      /\ r.tx \in Nat /\ r.tx <= MaxMails
      /\ r.rcpts \in Seq(User) /\ r.lines \in Seq(Line) /\ r.todo \in Seq(User)
      /\ begun \in Nat /\ begun <= MaxMails /\ MaxMails \in Nat /\ MaxLines \in Nat
  BY SessionFields
<1>b. /\ begun \in 0 .. MaxMails /\ begun <= begun /\ file \in [User -> Seq(Line)]
      /\ mutex \in [User -> Conn \cup {NoConn}]
      /\ acked \subseteq [tx : 1 .. MaxMails, said : [to : SUBSET User, n : 0 .. MaxLines]]
      /\ asked = [asked EXCEPT ![p] = q] /\ smtp = [smtp EXCEPT ![p] = r]
  BY <1>0, <1>a DEF TypeOK
<1>1. CASE Lock(p)
  <2>1. mutex' = [mutex EXCEPT ![Head(r.todo)] = p] /\ UNCHANGED <<file, smtp, begun, asked, acked>>
    BY <1>1 DEF Lock
  <2>2. mutex' \in [User -> Conn \cup {NoConn}] BY <1>b, <2>1
  <2>3. /\ Idle(r) => EmptyMail(r)
        /\ ~ Idle(r) => r.tx \in 1 .. begun /\ Len(r.lines) = q.n
        /\ r.st \in {"Mail", "Rcpt"} => r.lines = <<>>
        /\ r.st # "Send" => r.todo = <<>>
    BY <1>a DEF SessionOK
  <2> HIDE DEF r, q
  <2> QED BY <1>a, <1>b, <2>1, <2>2, <2>3, InvFrame
<1>2. CASE Write(p)
  <2> DEFINE u == Head(r.todo)
             x == [r EXCEPT !.todo = Tail(r.todo)]
  <2>1. /\ r.todo # <<>> /\ smtp' = [smtp EXCEPT ![p] = x] /\ UNCHANGED <<begun, asked, acked>>
        /\ file' = [file EXCEPT ![u] = WriteMail(@, TheMail(p))]
        /\ mutex' = [mutex EXCEPT ![u] = NoConn]
    BY <1>2 DEF Write, TheMail
  <2>2. u \in User /\ Tail(r.todo) \in Seq(User) BY <1>a, <2>1, HeadTailProperties
  <2>3. r.st = "Send" BY <1>a, <2>1 DEF SessionOK
  <2>4. r.tx \in 1 .. begun /\ Len(r.lines) = q.n BY <1>a, <2>3 DEF SessionOK, Idle
  <2> HIDE DEF u
  <2>5. mutex' \in [User -> Conn \cup {NoConn}] BY <1>b, <2>1
  <2>6. file' \in [User -> Seq(Line)]
    <3>1. WriteMail(file[u], TheMail(p)) \in Seq(Line) BY <1>b, <2>2, TheMailType, WrittenType
    <3> QED BY <1>b, <2>1, <3>1
  <2>7. x \in Session /\ x.st = "Send" /\ x.tx = r.tx /\ x.lines = r.lines
    BY <1>a, <2>2, <2>3 DEF Session
  <2>8. /\ ~ Idle(x) /\ x.st \notin {"Mail", "Rcpt"}
        /\ x.tx \in 1 .. begun' /\ Len(x.lines) = q.n
    BY <2>1, <2>4, <2>7 DEF Idle
  <2>9. begun' \in 0 .. MaxMails /\ begun <= begun' /\ acked' = acked
    BY <1>b, <2>1
  <2>10. smtp' = [smtp EXCEPT ![p] = x] /\ asked' = [asked EXCEPT ![p] = q]
    BY <1>b, <2>1
  <2>11. q \in [to : SUBSET User, n : 0 .. MaxLines] BY <1>a
  <2> HIDE DEF x, r, q
  <2> QED BY <1>b, <2>5, <2>6, <2>7, <2>8, <2>9, <2>10, <2>11, InvFrame
<1>3. CASE Sent(p)
  <2> DEFINE x == [Cleared(r) EXCEPT !.st = "Wait"]
  <2>1. /\ r.st = "Send" /\ r.todo = <<>> /\ smtp' = [smtp EXCEPT ![p] = x]
        /\ acked' = acked \cup {[tx |-> r.tx, said |-> q]}
        /\ UNCHANGED <<file, mutex, begun, asked>>
    BY <1>3 DEF Sent
  <2>2. r.tx \in 1 .. MaxMails
    <3>1. r.tx \in 1 .. begun BY <1>a, <2>1 DEF SessionOK, Idle
    <3> QED BY <1>a, <3>1
  <2>3. /\ x \in Session /\ EmptyMail(x) /\ x.todo = <<>> /\ x.st = "Wait"
    BY <1>a, <2>1, ClearedFacts, WaitingFacts
  <2>4. acked' \subseteq [tx : 1 .. MaxMails, said : [to : SUBSET User, n : 0 .. MaxLines]]
    BY <1>a, <1>b, <2>1, <2>2
  <2> HIDE DEF x
  <2> QED BY <1>a, <1>b, <2>1, <2>3, <2>4, InvFrame DEF Idle
<1> QED BY <1>1, <1>2, <1>3 DEF Send

LEMMA InvStep == IInv /\ [Next]_vars => IInv'
<1> SUFFICES ASSUME IInv, [Next]_vars PROVE IInv' OBVIOUS
<1>1. ASSUME NEW p \in Conn, Request(p) \/ Send(p) PROVE IInv'
  BY <1>1, RequestInv, SendInv
<1>2. CASE Crash
  <2>1. /\ Closed \in Session /\ EmptyMail(Closed) /\ Closed.todo = <<>> /\ Idle(Closed)
        /\ Closed.st = "Closed"
    BY BoundsAssumption DEF Closed, Session, EmptyMail, Idle
  <2>2. TypeOK' BY <1>2, <2>1 DEF Crash, IInv, TypeOK
  <2>3. \A s \in Conn : SessionOK(s)' BY <1>2, <2>1 DEF Crash, SessionOK
  <2> QED BY <2>2, <2>3 DEF IInv
<1>3. CASE UNCHANGED vars BY <1>3 DEF vars, IInv, TypeOK, SessionOK
<1> QED BY <1>1, <1>2, <1>3 DEF Next, Serve

(* The inductive invariant: types and the mail of each session.            *)
THEOREM InvCorrect == Spec => []IInv
<1> QED BY InvInit, InvStep, PTL DEF Spec

(* Every variable keeps its type.                                          *)
THEOREM TypeCorrect == Spec => []TypeOK
<1>1. IInv => TypeOK BY DEF IInv
<1> QED BY <1>1, InvCorrect, PTL

(* Nothing of one mail gets into the next: a session that waits for MAIL   *)
(* holds an empty one, whatever brought it there.                          *)
THEOREM CleanAtWaitCorrect == Spec => []CleanAtWait
<1>1. IInv => CleanAtWait BY DEF IInv, SessionOK, Idle, CleanAtWait
<1> QED BY <1>1, InvCorrect, PTL

-----------------------------------------------------------------------------
(***************************************************************************)
(* A mail answered with 250 is in every mailbox it was for.                *)
(***************************************************************************)

Elements(q) == {q[i] : i \in DOMAIN q}

\* The places in file f of the mails from sender n, and that mail n with k
\* lines is there once.
FromIn(f, n) == {i \in DOMAIN ReadMaildrop(f) : ReadMaildrop(f)[i].from.of = n}

ThereOnce(f, n, k) ==
  /\ Cardinality(FromIn(f, n)) = 1
  /\ \A i \in FromIn(f, n) : ReadMaildrop(f)[i] = PlainMail(n, k)

(* What a session has been told: the recipients, each once, and the lines  *)
(* the client has typed; those still to be served are recipients.          *)
Told(s) ==
  /\ smtp[s].lines = PlainMail(smtp[s].tx, asked[s].n).lines
  /\ Different(smtp[s].rcpts) /\ Elements(smtp[s].rcpts) = asked[s].to
  /\ Different(smtp[s].todo) /\ Elements(smtp[s].todo) \subseteq asked[s].to

(* A mail that is not answered yet is in the mailboxes that are written,   *)
(* and in no other.                                                        *)
Served(s) ==
  \A u \in User :
    IF smtp[s].st = "Send" /\ u \in asked[s].to \ Elements(smtp[s].todo)
      THEN ThereOnce(file[u], smtp[s].tx, asked[s].n)
      ELSE FromIn(file[u], smtp[s].tx) = {}

(* No two sessions have one mail, nor has one a mail that is answered.     *)
Apart ==
  /\ \A s, t \in Conn : s # t /\ ~ Idle(smtp[s]) /\ ~ Idle(smtp[t]) => smtp[s].tx # smtp[t].tx
  /\ \A a \in acked : /\ a.tx \in 1 .. begun
                       /\ \A s \in Conn : ~ Idle(smtp[s]) => a.tx # smtp[s].tx

NotBegun == \A u \in User : \A n \in 1 .. MaxMails : n > begun => FromIn(file[u], n) = {}

Answered ==
  \A a \in acked : \A u \in User :
    IF u \in a.said.to THEN ThereOnce(file[u], a.tx, a.said.n) ELSE FromIn(file[u], a.tx) = {}

(* What each session has been told, and that they are about different      *)
(* mails; no word of the mailboxes.                                        *)
Telling == (\A s \in Conn : ~ Idle(smtp[s]) => Told(s)) /\ Apart

MailInv ==
  /\ Telling
  /\ \A s \in Conn : ~ Idle(smtp[s]) => Served(s)
  /\ NotBegun
  /\ Answered

LEMMA AnsweredIsAcked == Answered => AckedIsWritten
BY DEF Answered, AckedIsWritten, FromIn, ThereOnce, MailsFrom

(* No line of the mails the servers are given looks like a first one: the  *)
(* other case is the finding of run smtp_head.                             *)
PlainText == HeadLike \subseteq {FALSE}

(* One more line.                                                          *)
LEMMA PlainMailLonger ==
  ASSUME NEW n \in Nat, NEW k \in Nat
  PROVE  PlainMail(n, k + 1).lines =
           Append(PlainMail(n, k).lines, [of |-> n, at |-> k + 1, head |-> FALSE])
<1> DEFINE l(i) == [of |-> n, at |-> i, head |-> FALSE]
           A == PlainMail(n, k).lines
           B == PlainMail(n, k + 1).lines
<1>1. k + 1 \in Nat /\ l(k + 1) \in Line BY DEF Line
<1>2. A \in Seq(Line) /\ Len(A) = k /\ B \in Seq(Line) /\ Len(B) = k + 1
  BY <1>1, PlainMailFacts
<1>3. /\ A = [i \in 1 .. k |-> l(i)] /\ B = [i \in 1 .. k + 1 |-> l(i)] BY DEF PlainMail
<1> HIDE DEF A, B, l
<1>4. /\ Append(A, l(k + 1)) \in Seq(Line) /\ Len(Append(A, l(k + 1))) = k + 1
      /\ \A i \in 1 .. k : Append(A, l(k + 1))[i] = A[i]
      /\ Append(A, l(k + 1))[k + 1] = l(k + 1)
  BY <1>1, <1>2, AppendProperties
<1>5. \A i \in 1 .. k + 1 : B[i] = Append(A, l(k + 1))[i]
  <2> TAKE i \in 1 .. k + 1
  <2>1. CASE i = k + 1 BY <1>3, <1>4, <2>1
  <2>2. CASE i # k + 1
    <3>1. i \in 1 .. k BY <2>2
    <3> QED BY <1>3, <1>4, <3>1
  <2> QED BY <2>1, <2>2
<1>6. B = Append(A, l(k + 1)) BY <1>2, <1>4, <1>5, SeqEqual
<1> QED BY <1>6 DEF A, B, l

(* What writing a mail does to the mails of one sender in the file.        *)
LEMMA WrittenFrom ==
  ASSUME NEW f \in Seq(Line), NEW n \in Nat, NEW k \in Nat
  PROVE  LET g == WriteMail(f, PlainMail(n, k))
         IN  /\ g \in Seq(Line)
             /\ FromIn(f, n) = {} => ThereOnce(g, n, k)
             /\ \A x : x # n => /\ FromIn(g, x) = FromIn(f, x)
                               /\ \A j : ThereOnce(f, x, j) => ThereOnce(g, x, j)
<1> DEFINE m == PlainMail(n, k)
           g == WriteMail(f, m)
           R == ReadMaildrop(f)
           G == ReadMaildrop(g)
           e == Len(R) + 1
<1>1. m \in Mail /\ WellMade(m) /\ m.from.of = n BY PlainMailFacts
<1>2. R \in Seq(Mail) /\ Len(R) \in Nat /\ DOMAIN R = 1 .. Len(R)
  <2>1. R \in Seq(Mail) BY MaildropFacts
  <2> HIDE DEF R
  <2> QED BY <2>1, LenProperties
<1>3. g \in Seq(Line) /\ G = Append(R, m)
  <2> HIDE DEF m
  <2> QED BY <1>1, WrittenBehind
<1> HIDE DEF m, R, G
<1>4. /\ DOMAIN G = 1 .. e /\ G[e] = m
      /\ \A i \in 1 .. Len(R) : G[i] = R[i]
  <2>1. /\ Append(R, m) \in Seq(Mail) /\ Len(Append(R, m)) = Len(R) + 1
        /\ \A i \in 1 .. Len(R) : Append(R, m)[i] = R[i]
        /\ Append(R, m)[Len(R) + 1] = m
    BY <1>1, <1>2, AppendProperties
  <2>2. DOMAIN Append(R, m) = 1 .. Len(R) + 1 BY <2>1, LenProperties
  <2> QED BY <1>3, <2>1, <2>2
<1>5. e \in 1 .. e /\ 1 .. e = (1 .. Len(R)) \cup {e} /\ e \notin 1 .. Len(R) BY <1>2
<1> HIDE DEF e, g
<1>6. /\ \A x : FromIn(f, x) = {i \in 1 .. Len(R) : R[i].from.of = x}
      /\ \A x : FromIn(g, x) = {i \in 1 .. e : G[i].from.of = x}
  BY <1>2, <1>4 DEF FromIn, R, G
<1>7. ASSUME FromIn(f, n) = {} PROVE ThereOnce(g, n, k)
  <2>1. FromIn(g, n) = {e}
    <3>1. \A i \in 1 .. Len(R) : G[i].from.of # n BY <1>4, <1>6, <1>7
    <3>2. \A i \in 1 .. e : G[i].from.of = n <=> i = e BY <1>1, <1>4, <1>5, <3>1
    <3> QED BY <1>5, <1>6, <3>2
  <2>2. Cardinality({e}) = 1 BY FS_Singleton
  <2>3. G[e] = PlainMail(n, k) BY <1>4 DEF m
  <2> QED BY <2>1, <2>2, <2>3 DEF ThereOnce, G
<1>8. ASSUME NEW x, x # n PROVE FromIn(g, x) = FromIn(f, x)
  <2>1. \A i \in 1 .. e : G[i].from.of = x <=> i \in 1 .. Len(R) /\ R[i].from.of = x
    BY <1>1, <1>4, <1>5, <1>8
  <2>2. 1 .. Len(R) \subseteq 1 .. e BY <1>5
  <2> QED BY <1>6, <2>1, <2>2
<1>9. ASSUME NEW x, x # n, NEW j, ThereOnce(f, x, j) PROVE ThereOnce(g, x, j)
  <2>1. FromIn(g, x) = FromIn(f, x) BY <1>8, <1>9
  <2>2. \A i \in FromIn(f, x) : G[i] = R[i] BY <1>4, <1>6
  <2> QED BY <1>9, <2>1, <2>2 DEF ThereOnce, R, G
<1> QED BY <1>3, <1>7, <1>8, <1>9 DEF g, m

LEMMA MailInvInit == Init => MailInv
<1> SUFFICES ASSUME Init PROVE MailInv OBVIOUS
<1>1. \A s \in Conn : Idle(smtp[s]) BY DEF Init, Closed, Idle
<1>2. ASSUME NEW u \in User, NEW n PROVE FromIn(file[u], n) = {}
  <2>1. file[u] = <<>> BY DEF Init
  <2>2. DOMAIN <<>> = {} OBVIOUS
  <2> QED BY <2>1, <2>2, EmptyFile DEF FromIn
<1>3. acked = {} BY DEF Init
<1>4. Telling /\ Answered BY <1>1, <1>3 DEF Telling, Apart, Answered
<1>5. NotBegun BY <1>2 DEF NotBegun
<1> QED BY <1>1, <1>4, <1>5 DEF MailInv

(* The mail of a session is the one that WriteMail is given.               *)
LEMMA TheMailIsPlain ==
  ASSUME IInv, NEW s \in Conn, ~ Idle(smtp[s]), Told(s)
  PROVE  /\ TheMail(s) = PlainMail(smtp[s].tx, asked[s].n)
         /\ smtp[s].tx \in Nat /\ asked[s].n \in Nat
<1>1. smtp[s].tx \in Nat /\ asked[s].n \in Nat BY SessionFields
<1>2. PlainMail(smtp[s].tx, asked[s].n)
        = [from |-> FirstLine(smtp[s].tx), lines |-> PlainMail(smtp[s].tx, asked[s].n).lines]
  BY <1>1, PlainMailFacts
<1> QED BY <1>1, <1>2 DEF TheMail, Told

(* What a request makes of the session and of what it was told: r and q.   *)
(* Nothing is written, and a mail is the one before or a new one.          *)
NextMail(p, r, q) ==
  /\ smtp' = [smtp EXCEPT ![p] = r] /\ asked' = [asked EXCEPT ![p] = q]
  /\ begun' \in Nat /\ begun <= begun' /\ begun' <= MaxMails
  /\ file' = file /\ acked' = acked
  /\ ~ Idle(r) =>
       /\ \/ ~ Idle(smtp[p]) /\ smtp[p].st # "Send" /\ r.tx = smtp[p].tx
          \/ r.tx = begun + 1 /\ begun' = begun + 1
       /\ r.lines = PlainMail(r.tx, q.n).lines
       /\ Different(r.rcpts) /\ Elements(r.rcpts) = q.to
       /\ Different(r.todo) /\ Elements(r.todo) \subseteq q.to
       /\ r.st = "Send" => Elements(r.todo) = q.to

LEMMA RequestIsNextMail ==
  ASSUME PlainText, IInv, Telling, NEW p \in Conn, Request(p)
  PROVE  \E r, q : NextMail(p, r, q)
<1> DEFINE Goal == \E r, q : NextMail(p, r, q)
<1>g. ASSUME NEW r, NEW q, NextMail(p, r, q) PROVE Goal BY <1>g
<1> HIDE DEF Goal
<1> DEFINE r == smtp[p]
           q == asked[p]
<1>a. /\ r \in Session /\ SessionOK(p) /\ q \in [to : SUBSET User, n : 0 .. MaxLines]
      /\ r.tx \in Nat /\ r.rcpts \in Seq(User) /\ r.lines \in Seq(Line)
      /\ begun \in Nat /\ begun <= begun /\ begun <= MaxMails
      /\ MaxLines \in Nat /\ MaxMails \in Nat /\ q.n \in Nat
  BY SessionFields
<1>b. asked = [asked EXCEPT ![p] = q] BY DEF IInv, TypeOK
<1>c. ~ Idle(r) => Told(p) BY DEF Telling
<1>e. ~ Idle(r) => /\ r.lines = PlainMail(r.tx, q.n).lines
                   /\ Different(r.rcpts) /\ Elements(r.rcpts) = q.to
                   /\ Different(r.todo) /\ Elements(r.todo) \subseteq q.to
  BY <1>c DEF Told
<1>f. Different(<<>>) /\ Elements(<<>>) = {}
  <2>1. DOMAIN <<>> = {} OBVIOUS
  <2> QED BY <2>1 DEF Different, Elements
<1>1. CASE Connect(p)
  <2>1. smtp' = [smtp EXCEPT ![p] = Waiting] /\ UNCHANGED <<file, mutex, begun, asked, acked>>
    BY <1>1, WaitingFacts DEF Connect
  <2>2. Idle(Waiting) BY DEF Waiting, Idle
  <2>n. NextMail(p, Waiting, q) BY <1>a, <1>b, <2>1, <2>2 DEF NextMail
  <2> QED BY <1>g, <2>n
<1>2. CASE MailFrom(p)
  <2> DEFINE x == [r EXCEPT !.st = "Mail", !.tx = begun + 1]
  <2>1. /\ r.st = "Wait" /\ begun < MaxMails /\ begun' = begun + 1
        /\ smtp' = [smtp EXCEPT ![p] = x] /\ asked' = [asked EXCEPT ![p] = NothingAsked]
        /\ UNCHANGED <<file, mutex, acked>>
    BY <1>2 DEF MailFrom
  <2>2. r.lines = <<>> /\ r.todo = <<>> /\ r.rcpts = <<>>
    BY <1>a, <2>1 DEF SessionOK, Idle, EmptyMail
  <2>3. x.tx = begun + 1 /\ x.lines = <<>> /\ x.todo = <<>> /\ x.rcpts = <<>> /\ x.st = "Mail"
    BY <1>a, <2>2 DEF Session
  <2>4. NothingAsked.n = 0 /\ NothingAsked.to = {} BY DEF NothingAsked
  <2>5. PlainMail(begun + 1, 0).lines = <<>>
    <3>1. begun + 1 \in Nat /\ 0 \in Nat BY <1>a
    <3>2. /\ PlainMail(begun + 1, 0).lines \in Seq(Line)
          /\ Len(PlainMail(begun + 1, 0).lines) = 0
      BY <3>1, PlainMailFacts
    <3> QED BY <3>2, EmptySeq
  <2>6. begun + 1 <= MaxMails BY <1>a, <2>1
  <2>7. begun + 1 \in Nat /\ begun <= begun + 1 BY <1>a
  <2> HIDE DEF x
  <2>n. NextMail(p, x, NothingAsked) BY <1>f, <2>1, <2>3, <2>4, <2>5, <2>6, <2>7 DEF NextMail
  <2> QED BY <1>g, <2>n
<1>3. CASE Rset(p)
  <2>1. /\ r.st \in {"Wait", "Mail", "Rcpt"} /\ UNCHANGED <<file, mutex, begun, asked, acked>>
        /\ smtp' = [smtp EXCEPT ![p] = [Cleared(r) EXCEPT !.st = "Wait"]]
    BY <1>3 DEF Rset
  <2>2. r.todo = <<>> BY <1>a, <2>1 DEF SessionOK
  <2>3. smtp' = [smtp EXCEPT ![p] = Waiting] BY <1>a, <2>1, <2>2, ClearedFacts
  <2>4. Idle(Waiting) BY DEF Waiting, Idle
  <2>n. NextMail(p, Waiting, q) BY <1>a, <1>b, <2>1, <2>3, <2>4 DEF NextMail
  <2> QED BY <1>g, <2>n
<1>4. CASE Data(p)
  <2> DEFINE x == [r EXCEPT !.st = "Data"]
  <2>1. /\ r.st = "Rcpt" /\ smtp' = [smtp EXCEPT ![p] = x]
        /\ UNCHANGED <<file, mutex, begun, asked, acked>>
    BY <1>4 DEF Data
  <2>2. /\ x.st = "Data" /\ x.tx = r.tx /\ x.lines = r.lines /\ x.todo = r.todo
        /\ x.rcpts = r.rcpts
    BY <1>a DEF Session
  <2>3. ~ Idle(r) /\ r.st # "Send" BY <2>1 DEF Idle
  <2> HIDE DEF x
  <2>n. NextMail(p, x, q) BY <1>a, <1>b, <1>e, <2>1, <2>2, <2>3 DEF NextMail
  <2> QED BY <1>g, <2>n
<1>5. CASE Text(p)
  <2>1. PICK h \in HeadLike : smtp' = [smtp EXCEPT ![p].lines =
                                 Append(@, [of |-> smtp[p].tx, at |-> asked[p].n + 1, head |-> h])]
    BY <1>5 DEF Text
  <2> DEFINE L == Append(r.lines, [of |-> r.tx, at |-> q.n + 1, head |-> FALSE])
             x == [r EXCEPT !.lines = L]
             y == [q EXCEPT !.n = q.n + 1]
  <2>2. h = FALSE BY DEF PlainText
  <2>3. smtp' = [smtp EXCEPT ![p] = x] BY <2>1, <2>2
  <2>4. /\ r.st = "Data" /\ asked' = [asked EXCEPT ![p] = y]
        /\ UNCHANGED <<file, mutex, begun, acked>>
    BY <1>5 DEF Text
  <2>5. ~ Idle(r) /\ r.st # "Send" BY <2>4 DEF Idle
  <2>6. L = PlainMail(r.tx, q.n + 1).lines
    <3>1. r.tx \in Nat /\ q.n \in Nat /\ r.lines = PlainMail(r.tx, q.n).lines BY <1>a, <1>e, <2>5
    <3> HIDE DEF r, q
    <3> QED BY <3>1, PlainMailLonger
  <2> HIDE DEF L
  <2>7. x.st = "Data" /\ x.tx = r.tx /\ x.lines = L /\ x.todo = r.todo /\ x.rcpts = r.rcpts
    BY <1>a, <2>4 DEF Session
  <2>8. y.n = q.n + 1 /\ y.to = q.to BY <1>a
  <2> HIDE DEF x, y
  <2>n. NextMail(p, x, y) BY <1>a, <1>e, <2>3, <2>4, <2>5, <2>6, <2>7, <2>8 DEF NextMail
  <2> QED BY <1>g, <2>n
<1>6. CASE Dot(p)
  <2> DEFINE x == [r EXCEPT !.st = "Send", !.todo = r.rcpts]
  <2>1. /\ r.st = "Data" /\ smtp' = [smtp EXCEPT ![p] = x]
        /\ UNCHANGED <<file, mutex, begun, asked, acked>>
    BY <1>6 DEF Dot
  <2>2. /\ x.st = "Send" /\ x.tx = r.tx /\ x.lines = r.lines /\ x.todo = r.rcpts
        /\ x.rcpts = r.rcpts
    BY <1>a DEF Session
  <2>3. ~ Idle(r) /\ r.st # "Send" BY <2>1 DEF Idle
  <2>4. x.lines = PlainMail(x.tx, q.n).lines BY <1>e, <2>2, <2>3
  <2>5. /\ Different(x.rcpts) /\ Elements(x.rcpts) = q.to
        /\ Different(x.todo) /\ Elements(x.todo) = q.to
    BY <1>e, <2>2, <2>3
  <2> HIDE DEF x
  <2>n. NextMail(p, x, q) BY <1>a, <1>b, <2>1, <2>2, <2>3, <2>4, <2>5 DEF NextMail
  <2> QED BY <1>g, <2>n
<1>7. CASE Quit(p)
  <2>1. smtp' = [smtp EXCEPT ![p] = Closed] /\ UNCHANGED <<file, mutex, begun, asked, acked>>
    BY <1>7 DEF Quit
  <2>2. Idle(Closed) BY DEF Closed, Idle
  <2>n. NextMail(p, Closed, q) BY <1>a, <1>b, <2>1, <2>2 DEF NextMail
  <2> QED BY <1>g, <2>n
<1>8. ASSUME NEW v \in User \cup {NoUser}, RcptTo(p, v) PROVE Goal
  <2> DEFINE known == \E i \in DOMAIN r.rcpts : r.rcpts[i] = v
             R == IF known THEN r.rcpts ELSE Append(r.rcpts, v)
             x == [r EXCEPT !.st = "Rcpt", !.rcpts = R]
             y == [q EXCEPT !.to = q.to \cup {v}]
  <2>1. /\ v \in User /\ r.st \in {"Mail", "Rcpt"} /\ UNCHANGED <<file, mutex, begun, acked>>
        /\ smtp' = [smtp EXCEPT ![p] = x] /\ asked' = [asked EXCEPT ![p] = y]
    BY <1>8 DEF RcptTo
  <2>2. ~ Idle(r) /\ r.st # "Send" BY <2>1 DEF Idle
  <2>3. Different(R) /\ Elements(R) = q.to \cup {v}
    <3>1. CASE known BY <1>e, <2>2, <3>1 DEF Elements
    <3>2. CASE ~ known
      <4> DEFINE Q == r.rcpts
      <4>1. Q \in Seq(User) /\ Different(Q) /\ Elements(Q) = q.to BY <1>a, <1>e, <2>2
      <4>2. \A i \in DOMAIN Q : Q[i] # v BY <3>2
      <4> HIDE DEF Q
      <4>3. Len(Q) \in Nat /\ DOMAIN Q = 1 .. Len(Q) BY <4>1, LenProperties
      <4>4. /\ Append(Q, v) \in Seq(User) /\ Len(Append(Q, v)) = Len(Q) + 1
            /\ \A i \in 1 .. Len(Q) : Append(Q, v)[i] = Q[i]
            /\ Append(Q, v)[Len(Q) + 1] = v
        BY <2>1, <4>1, AppendProperties
      <4>5. DOMAIN Append(Q, v) = 1 .. Len(Q) + 1 BY <4>4, LenProperties
      <4>6. 1 .. Len(Q) + 1 = (DOMAIN Q) \cup {Len(Q) + 1} BY <4>3
      <4>7. Different(Append(Q, v)) BY <4>1, <4>2, <4>3, <4>4, <4>5, <4>6 DEF Different
      <4>8. Elements(Append(Q, v)) = Elements(Q) \cup {v} BY <4>3, <4>4, <4>5, <4>6 DEF Elements
      <4>9. R = Append(Q, v) BY <3>2 DEF Q
      <4> QED BY <4>1, <4>7, <4>8, <4>9
    <3> QED BY <3>1, <3>2
  <2> HIDE DEF R
  <2>4. x.st = "Rcpt" /\ x.tx = r.tx /\ x.lines = r.lines /\ x.todo = r.todo /\ x.rcpts = R
    BY <1>a DEF Session
  <2>5. y.n = q.n /\ y.to = q.to \cup {v} BY <1>a
  <2>6. Elements(r.todo) \subseteq y.to BY <1>e, <2>2, <2>5
  <2>7. x.lines = PlainMail(x.tx, y.n).lines BY <1>e, <2>2, <2>4, <2>5
  <2>8. Different(x.rcpts) /\ Elements(x.rcpts) = y.to /\ Different(x.todo) BY <1>e, <2>2, <2>3, <2>4, <2>5
  <2> HIDE DEF x, y
  <2>n. NextMail(p, x, y) BY <1>a, <2>1, <2>2, <2>4, <2>6, <2>7, <2>8 DEF NextMail
  <2> QED BY <1>g, <2>n
<1>9. Goal
  <2>1. \/ Connect(p) \/ MailFrom(p) \/ Rset(p) \/ Data(p) \/ Text(p) \/ Dot(p) \/ Quit(p)
        \/ \E v \in User \cup {NoUser} : RcptTo(p, v)
    BY DEF Request
  <2> HIDE DEF r, q
  <2> QED BY <1>1, <1>2, <1>3, <1>4, <1>5, <1>6, <1>7, <1>8, <2>1 DEF Goal
<1> QED BY <1>9 DEF Goal

(* What a session is told stays true of it, and no two get one mail.       *)
LEMMA RequestTelling ==
  ASSUME IInv, Telling, NEW p \in Conn, NEW r, NEW q, NextMail(p, r, q)
  PROVE  Telling'
<1>0. TypeOK /\ Apart BY DEF IInv, Telling
<1>1. /\ smtp'[p] = r /\ asked'[p] = q /\ acked' = acked
      /\ \A s \in Conn : s # p => smtp'[s] = smtp[s] /\ asked'[s] = asked[s]
  BY <1>0 DEF TypeOK, NextMail
<1>2. begun \in Nat /\ \A s \in Conn : ~ Idle(smtp[s]) => smtp[s].tx \in 1 .. begun
  BY SessionFields DEF SessionOK
<1>3. begun' \in Nat /\ begun <= begun' BY DEF NextMail
<1>4. ~ Idle(r) => \/ ~ Idle(smtp[p]) /\ r.tx = smtp[p].tx
                   \/ r.tx = begun + 1
  BY DEF NextMail
<1>5. ASSUME NEW s \in Conn, ~ Idle(smtp'[s]) PROVE Told(s)'
  <2>1. CASE s = p BY <1>1, <1>5, <2>1 DEF Told, NextMail
  <2>2. CASE s # p
    <3>1. smtp'[s] = smtp[s] /\ asked'[s] = asked[s] BY <1>1, <2>2
    <3>2. Told(s) BY <1>5, <3>1 DEF Telling
    <3> QED BY <3>1, <3>2 DEF Told
  <2> QED BY <2>1, <2>2
<1>6. Apart'
  <2>1. ASSUME NEW s \in Conn, s # p, ~ Idle(smtp'[s]), ~ Idle(r) PROVE smtp'[s].tx # r.tx
    <3>1. smtp'[s] = smtp[s] /\ smtp[s].tx \in 1 .. begun BY <1>1, <1>2, <2>1
    <3>2. CASE ~ Idle(smtp[p]) /\ r.tx = smtp[p].tx BY <1>0, <2>1, <3>1, <3>2 DEF Apart
    <3>3. CASE r.tx = begun + 1 BY <1>2, <3>1, <3>3
    <3> QED BY <1>4, <2>1, <3>2, <3>3
  <2>2. ASSUME NEW a \in acked, ~ Idle(r) PROVE a.tx # r.tx
    <3>1. a.tx \in 1 .. begun BY <1>0 DEF Apart
    <3>2. CASE ~ Idle(smtp[p]) /\ r.tx = smtp[p].tx BY <1>0, <3>2 DEF Apart
    <3>3. CASE r.tx = begun + 1 BY <1>2, <3>1, <3>3
    <3> QED BY <1>4, <2>2, <3>2, <3>3
  <2>3. ASSUME NEW s \in Conn, NEW t \in Conn, s # t, ~ Idle(smtp'[s]), ~ Idle(smtp'[t])
        PROVE  smtp'[s].tx # smtp'[t].tx
    <3>1. CASE s = p BY <1>1, <2>1, <2>3, <3>1
    <3>2. CASE t = p BY <1>1, <2>1, <2>3, <3>2
    <3>3. CASE s # p /\ t # p BY <1>0, <1>1, <2>3, <3>3 DEF Apart
    <3> QED BY <3>1, <3>2, <3>3
  <2>4. ASSUME NEW a \in acked
        PROVE  a.tx \in 1 .. begun' /\ \A s \in Conn : ~ Idle(smtp'[s]) => a.tx # smtp'[s].tx
    <3>1. a.tx \in 1 .. begun BY <1>0 DEF Apart
    <3>2. a.tx \in 1 .. begun' BY <1>2, <1>3, <3>1
    <3>3. ASSUME NEW s \in Conn, ~ Idle(smtp'[s]) PROVE a.tx # smtp'[s].tx
      <4>1. CASE s = p BY <1>1, <2>2, <3>3, <4>1
      <4>2. CASE s # p BY <1>0, <1>1, <3>3, <4>2 DEF Apart
      <4> QED BY <4>1, <4>2
    <3> QED BY <3>2, <3>3
  <2> QED BY <1>1, <2>3, <2>4 DEF Apart
<1> QED BY <1>5, <1>6 DEF Telling

(* Where the mails are stays true: nothing is written, and a new mail is   *)
(* nowhere.                                                                *)
LEMMA RequestMail ==
  ASSUME PlainText, IInv, MailInv, NEW p \in Conn, Request(p)
  PROVE  MailInv'
<1>0. TypeOK /\ Telling /\ NotBegun /\ Answered BY DEF IInv, MailInv
<1>1. PICK r, q : NextMail(p, r, q) BY <1>0, RequestIsNextMail
<1>2. /\ smtp'[p] = r /\ asked'[p] = q
      /\ \A s \in Conn : s # p => smtp'[s] = smtp[s] /\ asked'[s] = asked[s]
  BY <1>0, <1>1 DEF TypeOK, NextMail
<1>3. /\ file' = file /\ acked' = acked /\ begun \in Nat /\ begun' \in Nat
      /\ begun <= begun' /\ begun' <= MaxMails
  BY <1>1, SessionFields DEF NextMail
<1>4. ~ Idle(r) => /\ \/ ~ Idle(smtp[p]) /\ smtp[p].st # "Send" /\ r.tx = smtp[p].tx
                      \/ r.tx = begun + 1 /\ begun' = begun + 1
                   /\ r.st = "Send" => Elements(r.todo) = q.to
  BY <1>1 DEF NextMail
<1>5. ~ Idle(r) => \A u \in User : FromIn(file[u], r.tx) = {}
  <2>1. CASE ~ Idle(smtp[p]) /\ smtp[p].st # "Send" /\ r.tx = smtp[p].tx
    BY <2>1 DEF MailInv, Served
  <2>2. CASE r.tx = begun + 1 /\ begun' = begun + 1
    <3>1. r.tx \in 1 .. MaxMails /\ r.tx > begun BY <1>3, <2>2, BoundsAssumption
    <3> QED BY <1>0, <3>1 DEF NotBegun
  <2> QED BY <1>4, <2>1, <2>2
<1>6. Telling' BY <1>0, <1>1, RequestTelling DEF MailInv
<1>7. ASSUME NEW s \in Conn, ~ Idle(smtp'[s]) PROVE Served(s)'
  <2>1. CASE s = p BY <1>2, <1>3, <1>4, <1>5, <1>7, <2>1 DEF Served
  <2>2. CASE s # p
    <3>1. smtp'[s] = smtp[s] /\ asked'[s] = asked[s] BY <1>2, <2>2
    <3>2. Served(s) BY <1>7, <3>1 DEF MailInv
    <3> QED BY <1>3, <3>1, <3>2 DEF Served
  <2> QED BY <2>1, <2>2
<1>8. NotBegun'
  <2>1. ASSUME NEW n \in 1 .. MaxMails, n > begun' PROVE n > begun
    BY <1>3, <2>1, BoundsAssumption
  <2> QED BY <1>0, <1>3, <2>1 DEF NotBegun
<1>9. Answered' BY <1>0, <1>3 DEF Answered
<1> QED BY <1>6, <1>7, <1>8, <1>9 DEF MailInv

(* The recipients that are left behind the first one.                      *)
LEMMA TailOfTodo ==
  ASSUME NEW S, NEW q \in Seq(S), q # <<>>, Different(q)
  PROVE  /\ Different(Tail(q)) /\ Head(q) \in Elements(q)
         /\ Elements(Tail(q)) = Elements(q) \ {Head(q)}
<1> DEFINE t == Tail(q)
<1>1. /\ Head(q) = q[1] /\ t \in Seq(S) /\ Len(t) = Len(q) - 1
      /\ \A i \in 1 .. Len(t) : t[i] = q[i + 1]
  BY HeadTailProperties
<1> HIDE DEF t
<1>2. Len(q) \in Nat /\ DOMAIN q = 1 .. Len(q) /\ Len(q) >= 1 /\ DOMAIN t = 1 .. Len(q) - 1
  <2>1. Len(q) \in Nat /\ DOMAIN q = 1 .. Len(q) /\ Len(q) # 0 BY LenProperties, EmptySeq
  <2>2. DOMAIN t = 1 .. Len(t) BY <1>1, LenProperties
  <2> QED BY <1>1, <2>1, <2>2
<1>3. \A i \in DOMAIN t : i + 1 \in DOMAIN q /\ t[i] = q[i + 1] /\ i + 1 # 1 BY <1>1, <1>2
<1>4. \A i \in DOMAIN q : i # 1 => i - 1 \in DOMAIN t /\ t[i - 1] = q[i]
  <2> TAKE i \in DOMAIN q
  <2> HAVE i # 1
  <2>1. i - 1 \in DOMAIN t /\ (i - 1) + 1 = i BY <1>2
  <2> QED BY <1>3, <2>1
<1>5. \A i, j \in DOMAIN q : q[i] = q[j] => i = j BY DEF Different
<1>6. 1 \in DOMAIN q BY <1>2
<1>7. Different(t)
  <2> SUFFICES ASSUME NEW i \in DOMAIN t, NEW j \in DOMAIN t, t[i] = t[j] PROVE i = j
    BY DEF Different
  <2>1. i + 1 = j + 1 BY <1>3, <1>5
  <2> QED BY <1>2, <2>1
<1>8. Elements(t) = Elements(q) \ {Head(q)}
  <2>1. ASSUME NEW i \in DOMAIN t PROVE t[i] \in Elements(q) \ {Head(q)}
    BY <1>1, <1>3, <1>5, <1>6 DEF Elements
  <2>2. ASSUME NEW i \in DOMAIN q, q[i] # Head(q) PROVE q[i] \in Elements(t)
    <3>1. i # 1 BY <1>1, <2>2
    <3> QED BY <1>4, <3>1 DEF Elements
  <2> QED BY <2>1, <2>2 DEF Elements
<1> QED BY <1>1, <1>6, <1>7, <1>8 DEF Elements, t

(* A write leaves a session with the rest of its recipients.               *)
LEMMA WriteFacts ==
  ASSUME IInv, Telling, NEW p \in Conn, Write(p)
  PROVE  LET r == smtp[p]
             u == Head(r.todo)
         IN  /\ u \in User /\ r.st = "Send" /\ r.tx \in 1 .. begun
             /\ smtp'[p].st = "Send" /\ smtp'[p].tx = r.tx /\ smtp'[p].todo = Tail(r.todo)
             /\ smtp'[p].rcpts = r.rcpts /\ smtp'[p].lines = r.lines
             /\ \A s \in Conn : s # p => smtp'[s] = smtp[s]
             /\ Different(r.todo) /\ Different(Tail(r.todo)) /\ u \in Elements(r.todo)
             /\ Elements(Tail(r.todo)) = Elements(r.todo) \ {u}
             /\ Elements(r.todo) \subseteq asked[p].to
             /\ file'[u] = WriteMail(file[u], TheMail(p)) /\ file[u] \in Seq(Line)
             /\ \A w \in User : w # u => file'[w] = file[w]
             /\ UNCHANGED <<begun, asked, acked>>
<1> DEFINE r == smtp[p]
           x == [r EXCEPT !.todo = Tail(r.todo)]
<1>0. TypeOK BY DEF IInv
<1>1. r \in Session /\ SessionOK(p) /\ r.todo \in Seq(User) BY SessionFields
<1>2. /\ r.todo # <<>> /\ smtp' = [smtp EXCEPT ![p] = x] /\ UNCHANGED <<begun, asked, acked>>
      /\ file' = [file EXCEPT ![Head(r.todo)] = WriteMail(@, TheMail(p))]
  BY DEF Write, TheMail
<1>3. r.st = "Send" /\ ~ Idle(r) BY <1>1, <1>2 DEF SessionOK, Idle
<1>4. Told(p) /\ r.tx \in 1 .. begun BY <1>1, <1>3 DEF Telling, SessionOK
<1>5. Head(r.todo) \in User BY <1>1, <1>2, HeadTailProperties
<1>6. /\ Different(r.todo) /\ Different(Tail(r.todo)) /\ Head(r.todo) \in Elements(r.todo)
      /\ Elements(Tail(r.todo)) = Elements(r.todo) \ {Head(r.todo)}
      /\ Elements(r.todo) \subseteq asked[p].to
  BY <1>1, <1>2, <1>4, TailOfTodo DEF Told
<1>7. /\ smtp'[p] = x /\ \A s \in Conn : s # p => smtp'[s] = smtp[s]
  BY <1>0, <1>2 DEF TypeOK
<1>8. /\ x.st = r.st /\ x.tx = r.tx /\ x.lines = r.lines /\ x.rcpts = r.rcpts
      /\ x.todo = Tail(r.todo)
  BY <1>1 DEF Session
<1>9. /\ file'[Head(r.todo)] = WriteMail(file[Head(r.todo)], TheMail(p))
      /\ file[Head(r.todo)] \in Seq(Line)
      /\ \A w \in User : w # Head(r.todo) => file'[w] = file[w]
  BY <1>0, <1>2, <1>5 DEF TypeOK
<1> HIDE DEF x
<1> QED BY <1>2, <1>3, <1>4, <1>5, <1>6, <1>7, <1>8, <1>9

LEMMA WriteTelling ==
  ASSUME IInv, Telling, NEW p \in Conn, Write(p)
  PROVE  Telling'
<1>1. /\ smtp[p].st = "Send" /\ smtp'[p].st = "Send" /\ smtp'[p].tx = smtp[p].tx
      /\ smtp'[p].todo = Tail(smtp[p].todo)
      /\ smtp'[p].rcpts = smtp[p].rcpts /\ smtp'[p].lines = smtp[p].lines
      /\ \A s \in Conn : s # p => smtp'[s] = smtp[s]
      /\ Different(Tail(smtp[p].todo))
      /\ Elements(Tail(smtp[p].todo)) \subseteq asked[p].to
      /\ UNCHANGED <<begun, asked, acked>>
  BY WriteFacts
<1>2. \A s \in Conn : (~ Idle(smtp'[s]) <=> ~ Idle(smtp[s])) /\ smtp'[s].tx = smtp[s].tx
  BY <1>1 DEF Idle
<1>3. ASSUME NEW s \in Conn, ~ Idle(smtp'[s]) PROVE Told(s)'
  <2>1. Told(s) BY <1>2, <1>3 DEF Telling
  <2>2. CASE s = p BY <1>1, <2>1, <2>2 DEF Told
  <2>3. CASE s # p BY <1>1, <2>1, <2>3 DEF Told
  <2> QED BY <2>2, <2>3
<1>4. Apart' BY <1>1, <1>2 DEF Telling, Apart
<1> QED BY <1>3, <1>4 DEF Telling

LEMMA WriteMailStep ==
  ASSUME IInv, MailInv, NEW p \in Conn, Write(p)
  PROVE  MailInv'
<1> DEFINE r == smtp[p]
           q == asked[p]
<1>0. Telling /\ Apart /\ NotBegun /\ Answered BY DEF MailInv, Telling
<1>1. /\ Head(r.todo) \in User /\ r.st = "Send" /\ r.tx \in 1 .. begun
      /\ smtp'[p].st = "Send" /\ smtp'[p].tx = r.tx /\ smtp'[p].todo = Tail(r.todo)
      /\ \A s \in Conn : s # p => smtp'[s] = smtp[s]
      /\ Head(r.todo) \in Elements(r.todo)
      /\ Elements(Tail(r.todo)) = Elements(r.todo) \ {Head(r.todo)}
      /\ Elements(r.todo) \subseteq q.to
      /\ file'[Head(r.todo)] = WriteMail(file[Head(r.todo)], TheMail(p))
      /\ file[Head(r.todo)] \in Seq(Line)
      /\ \A w \in User : w # Head(r.todo) => file'[w] = file[w]
      /\ UNCHANGED <<begun, asked, acked>>
  BY <1>0, WriteFacts
<1>2. ~ Idle(r) BY <1>1 DEF Idle
<1>3. Told(p) /\ Served(p) BY <1>2 DEF MailInv, Telling
<1>a. begun \in Nat BY SessionFields
<1>u. PICK u \in User : u = Head(r.todo) BY <1>1
<1>n. PICK n \in Nat : n = r.tx BY <1>1, <1>a
<1>k. PICK k \in Nat : k = q.n BY <1>2, <1>3, TheMailIsPlain
<1>5. TheMail(p) = PlainMail(n, k) BY <1>2, <1>3, <1>n, <1>k, TheMailIsPlain
<1>6. /\ file'[u] = WriteMail(file[u], PlainMail(n, k)) /\ file[u] \in Seq(Line)
      /\ \A w \in User : w # u => file'[w] = file[w]
  BY <1>1, <1>5, <1>u
<1>7. /\ FromIn(file[u], n) = {} => ThereOnce(file'[u], n, k)
      /\ \A y : y # n => /\ FromIn(file'[u], y) = FromIn(file[u], y)
                       /\ \A j : ThereOnce(file[u], y, j) => ThereOnce(file'[u], y, j)
  <2> DEFINE g == WriteMail(file[u], PlainMail(n, k))
  <2>1. /\ FromIn(file[u], n) = {} => ThereOnce(g, n, k)
        /\ \A y : y # n => /\ FromIn(g, y) = FromIn(file[u], y)
                         /\ \A j : ThereOnce(file[u], y, j) => ThereOnce(g, y, j)
    BY <1>6, WrittenFrom
  <2>2. file'[u] = g BY <1>6
  <2> HIDE DEF g
  <2> QED BY <2>1, <2>2
<1>8. \A w \in User : \A y : y # n => /\ FromIn(file'[w], y) = FromIn(file[w], y)
                                    /\ \A j : ThereOnce(file[w], y, j) => ThereOnce(file'[w], y, j)
  BY <1>6, <1>7
<1>9. u \in Elements(r.todo) /\ Elements(Tail(r.todo)) = Elements(r.todo) \ {u}
  BY <1>1, <1>u
<1>10. /\ smtp'[p].st = "Send" /\ smtp'[p].tx = n /\ smtp'[p].todo = Tail(r.todo)
       /\ asked' = asked /\ \A s \in Conn : s # p => smtp'[s] = smtp[s]
  BY <1>1, <1>n
<1>11. Telling' BY <1>0, WriteTelling
<1>12. Served(p)'
  <2>1. ASSUME NEW w \in User
        PROVE  IF w \in q.to \ Elements(Tail(r.todo)) THEN ThereOnce(file'[w], n, k)
                                                      ELSE FromIn(file'[w], n) = {}
    <3>1. IF w \in q.to \ Elements(r.todo) THEN ThereOnce(file[w], n, k)
                                            ELSE FromIn(file[w], n) = {}
      <4>1. Served(p) /\ r.st = "Send" /\ r.tx = n /\ q.n = k BY <1>1, <1>3, <1>n, <1>k
      <4> QED BY <4>1 DEF Served
    <3>2. CASE w = u BY <1>1, <1>7, <1>9, <3>1, <3>2
    <3>3. CASE w # u BY <1>6, <1>9, <3>1, <3>3
    <3> QED BY <3>2, <3>3
  <2> HIDE DEF r, q
  <2> QED BY <1>10, <1>k, <2>1 DEF Served, q
<1>13. ASSUME NEW s \in Conn, s # p, ~ Idle(smtp'[s]) PROVE Served(s)'
  <2>1. smtp'[s] = smtp[s] /\ asked'[s] = asked[s] BY <1>10, <1>13
  <2>2. Served(s) /\ smtp[s].tx # n
    BY <1>0, <1>2, <1>13, <1>n, <2>1 DEF MailInv, Apart
  <2>4. Served(s)'
    <3> SUFFICES ASSUME NEW w \in User
                 PROVE  IF smtp[s].st = "Send" /\ w \in asked[s].to \ Elements(smtp[s].todo)
                          THEN ThereOnce(file'[w], smtp[s].tx, asked[s].n)
                          ELSE FromIn(file'[w], smtp[s].tx) = {}
      BY <2>1 DEF Served
    <3>1. IF smtp[s].st = "Send" /\ w \in asked[s].to \ Elements(smtp[s].todo)
            THEN ThereOnce(file[w], smtp[s].tx, asked[s].n)
            ELSE FromIn(file[w], smtp[s].tx) = {}
      BY <2>2 DEF Served
    <3>2. /\ FromIn(file'[w], smtp[s].tx) = FromIn(file[w], smtp[s].tx)
          /\ \A j : ThereOnce(file[w], smtp[s].tx, j) => ThereOnce(file'[w], smtp[s].tx, j)
      BY <1>8, <2>2
    <3>3. CASE smtp[s].st = "Send" /\ w \in asked[s].to \ Elements(smtp[s].todo)
      <4>1. ThereOnce(file[w], smtp[s].tx, asked[s].n) BY <3>1, <3>3
      <4>2. ThereOnce(file'[w], smtp[s].tx, asked[s].n) BY <3>2, <4>1
      <4> QED BY <3>3, <4>2
    <3>4. CASE ~(smtp[s].st = "Send" /\ w \in asked[s].to \ Elements(smtp[s].todo))
      BY <3>1, <3>2, <3>4
    <3> QED BY <3>3, <3>4
  <2> QED BY <2>4
<1>15. NotBegun'
  <2>1. \A y \in 1 .. MaxMails : y > begun => y # n BY <1>1, <1>a, <1>n, BoundsAssumption
  <2> QED BY <1>0, <1>1, <1>8, <2>1 DEF NotBegun
<1>16. Answered'
  <2> SUFFICES ASSUME NEW a \in acked, NEW w \in User
               PROVE  IF w \in a.said.to THEN ThereOnce(file'[w], a.tx, a.said.n)
                                         ELSE FromIn(file'[w], a.tx) = {}
    BY <1>1 DEF Answered
  <2>1. a.tx # n BY <1>0, <1>2, <1>n DEF Apart
  <2>2. IF w \in a.said.to THEN ThereOnce(file[w], a.tx, a.said.n)
                           ELSE FromIn(file[w], a.tx) = {}
    BY <1>0 DEF Answered
  <2> QED BY <1>8, <2>1, <2>2
<1>17. ASSUME NEW s \in Conn, ~ Idle(smtp'[s]) PROVE Served(s)'
  BY <1>12, <1>13, <1>17
<1> QED BY <1>11, <1>15, <1>16, <1>17 DEF MailInv

(* The answer ends a session's mail.                                       *)
LEMMA SentFacts ==
  ASSUME IInv, NEW p \in Conn, Sent(p)
  PROVE  /\ smtp[p].st = "Send" /\ smtp[p].todo = <<>> /\ smtp[p].tx \in 1 .. begun
         /\ Idle(smtp'[p]) /\ \A s \in Conn : s # p => smtp'[s] = smtp[s]
         /\ acked' = acked \cup {[tx |-> smtp[p].tx, said |-> asked[p]]}
         /\ UNCHANGED <<file, mutex, begun, asked>>
<1> DEFINE r == smtp[p]
<1>1. r \in Session /\ SessionOK(p) /\ TypeOK BY SessionFields DEF IInv
<1>2. /\ r.st = "Send" /\ r.todo = <<>> /\ UNCHANGED <<file, mutex, begun, asked>>
      /\ smtp' = [smtp EXCEPT ![p] = [Cleared(r) EXCEPT !.st = "Wait"]]
      /\ acked' = acked \cup {[tx |-> r.tx, said |-> asked[p]]}
  BY DEF Sent
<1>3. smtp' = [smtp EXCEPT ![p] = Waiting] BY <1>1, <1>2, ClearedFacts
<1>4. Idle(smtp'[p]) /\ \A s \in Conn : s # p => smtp'[s] = smtp[s]
  BY <1>1, <1>3 DEF TypeOK, Waiting, Idle
<1>5. r.tx \in 1 .. begun BY <1>1, <1>2 DEF SessionOK, Idle
<1> QED BY <1>2, <1>4, <1>5

LEMMA SentTelling ==
  ASSUME IInv, Telling, NEW p \in Conn, Sent(p)
  PROVE  Telling'
<1>1. /\ smtp[p].tx \in 1 .. begun /\ ~ Idle(smtp[p])
      /\ Idle(smtp'[p]) /\ \A s \in Conn : s # p => smtp'[s] = smtp[s]
      /\ acked' = acked \cup {[tx |-> smtp[p].tx, said |-> asked[p]]}
      /\ begun' = begun /\ asked' = asked
  BY SentFacts DEF Idle
<1>2. ASSUME NEW s \in Conn, ~ Idle(smtp'[s]) PROVE Told(s)'
  <2>1. smtp'[s] = smtp[s] /\ asked'[s] = asked[s] BY <1>1, <1>2
  <2>2. Told(s) BY <1>2, <2>1 DEF Telling
  <2> QED BY <2>1, <2>2 DEF Told
<1>3. Apart'
  <2>0. Apart BY DEF Telling
  <2>1. ASSUME NEW a \in acked'
        PROVE  a.tx \in 1 .. begun /\ \A s \in Conn : ~ Idle(smtp'[s]) => a.tx # smtp'[s].tx
    <3>1. CASE a \in acked BY <1>1, <2>0, <3>1 DEF Apart
    <3>2. CASE a = [tx |-> smtp[p].tx, said |-> asked[p]] BY <1>1, <2>0, <3>2 DEF Apart
    <3> QED BY <1>1, <2>1, <3>1, <3>2
  <2> QED BY <1>1, <2>0, <2>1 DEF Apart
<1> QED BY <1>2, <1>3 DEF Telling

(* Every step keeps what sessions were told.                               *)
LEMMA TellingStep ==
  ASSUME PlainText
  PROVE  IInv /\ Telling /\ [Next]_vars => Telling'
<1> SUFFICES ASSUME IInv, Telling, [Next]_vars PROVE Telling' OBVIOUS
<1>1. ASSUME NEW p \in Conn, Request(p) PROVE Telling'
  BY <1>1, RequestIsNextMail, RequestTelling
<1>2. ASSUME NEW p \in Conn, Lock(p) PROVE Telling'
  BY <1>2 DEF Lock, Telling, Told, Apart
<1>3. ASSUME NEW p \in Conn, Write(p) PROVE Telling' BY <1>3, WriteTelling
<1>4. ASSUME NEW p \in Conn, Sent(p) PROVE Telling' BY <1>4, SentTelling
<1>5. CASE Crash
  <2>1. (\A s \in Conn : Idle(smtp'[s])) /\ UNCHANGED <<begun, acked>>
    BY <1>5 DEF Crash, Closed, Idle
  <2> QED BY <2>1 DEF Telling, Apart
<1>6. CASE UNCHANGED vars BY <1>6 DEF vars, Telling, Told, Apart
<1> QED BY <1>1, <1>2, <1>3, <1>4, <1>5, <1>6 DEF Next, Serve, Send

LEMMA SentMailStep ==
  ASSUME IInv, MailInv, NEW p \in Conn, Sent(p)
  PROVE  MailInv'
<1> DEFINE r == smtp[p]
           q == asked[p]
<1>0. Telling /\ NotBegun /\ Answered BY DEF MailInv
<1>1. /\ r.st = "Send" /\ r.todo = <<>> /\ UNCHANGED <<file, mutex, begun, asked>>
      /\ Idle(smtp'[p]) /\ \A s \in Conn : s # p => smtp'[s] = smtp[s]
      /\ acked' = acked \cup {[tx |-> r.tx, said |-> q]}
  BY SentFacts
<1>5. Served(p) BY <1>1 DEF MailInv, Idle
<1>6. ASSUME NEW s \in Conn, ~ Idle(smtp'[s]) PROVE Served(s)'
  <2>1. smtp'[s] = smtp[s] /\ asked'[s] = asked[s] BY <1>1, <1>6
  <2>2. Served(s) BY <1>6, <2>1 DEF MailInv
  <2> QED BY <1>1, <2>1, <2>2 DEF Served
<1>7. Telling' BY <1>0, SentTelling
<1>8. NotBegun' BY <1>0, <1>1 DEF NotBegun
<1>9. Answered'
  <2> SUFFICES ASSUME NEW a \in acked', NEW w \in User
               PROVE  IF w \in a.said.to THEN ThereOnce(file[w], a.tx, a.said.n)
                                         ELSE FromIn(file[w], a.tx) = {}
    BY <1>1 DEF Answered
  <2>1. CASE a \in acked BY <1>0, <2>1 DEF Answered
  <2>2. CASE a = [tx |-> r.tx, said |-> q]
    <3>1. Elements(r.todo) = {}
      <4>1. DOMAIN <<>> = {} OBVIOUS
      <4> QED BY <1>1, <4>1 DEF Elements
    <3>2. IF w \in q.to THEN ThereOnce(file[w], r.tx, q.n) ELSE FromIn(file[w], r.tx) = {}
      BY <1>1, <1>5, <3>1 DEF Served
    <3> QED BY <2>2, <3>2
  <2> QED BY <1>1, <2>1, <2>2
<1> QED BY <1>6, <1>7, <1>8, <1>9 DEF MailInv

LEMMA MailInvStep ==
  ASSUME PlainText
  PROVE  IInv /\ MailInv /\ [Next]_vars => MailInv'
<1> SUFFICES ASSUME IInv, MailInv, [Next]_vars PROVE MailInv' OBVIOUS
<1>1. ASSUME NEW p \in Conn, Request(p) PROVE MailInv' BY <1>1, RequestMail
<1>2. ASSUME NEW p \in Conn, Lock(p) PROVE MailInv'
  BY <1>2 DEF Lock, MailInv, Telling, Told, Served, Apart, NotBegun, Answered
<1>3. ASSUME NEW p \in Conn, Write(p) PROVE MailInv' BY <1>3, WriteMailStep
<1>4. ASSUME NEW p \in Conn, Sent(p) PROVE MailInv' BY <1>4, SentMailStep
<1>5. CASE Crash
  <2>1. /\ \A s \in Conn : Idle(smtp'[s])
        /\ UNCHANGED <<file, begun, acked>>
    BY <1>5 DEF Crash, Closed, Idle
  <2> QED BY <2>1 DEF MailInv, Telling, Apart, NotBegun, Answered
<1>6. CASE UNCHANGED vars
  BY <1>6 DEF vars, MailInv, Telling, Told, Served, Apart, NotBegun, Answered
<1> QED BY <1>1, <1>2, <1>3, <1>4, <1>5, <1>6 DEF Next, Serve, Send

(* The inductive invariant: where the mail of each session, and each mail  *)
(* that was answered, is to be found.                                      *)
THEOREM MailInvCorrect ==
  ASSUME PlainText
  PROVE  Spec => []MailInv
<1>1. IInv /\ MailInv /\ [Next]_vars => MailInv' BY MailInvStep
<1> QED BY MailInvInit, <1>1, InvCorrect, PTL DEF Spec

(* A mail answered with 250 is in the mailbox of everybody it was for,     *)
(* once and with its lines, and in no other, whatever the other threads    *)
(* write there, and across crashes.                                        *)
THEOREM AckedIsWrittenCorrect ==
  ASSUME PlainText
  PROVE  Spec => []AckedIsWritten
<1>1. MailInv => AckedIsWritten BY AnsweredIsAcked DEF MailInv
<1> QED BY <1>1, MailInvCorrect, PTL

-----------------------------------------------------------------------------
(***************************************************************************)
(* The two servers together.                                               *)
(***************************************************************************)
Pop3P == INSTANCE Pop3ServerProofs
  WITH Conn <- PopConn, mutex <- popMutex, Boxes <- {<<>>}

(***************************************************************************)
(* Their inductive invariant.  A mail is known by the number in its first    *)
(* line, which SMTP gives to one mail only.                                *)
(***************************************************************************)
Numbers(f) == {ReadMaildrop(f)[i].from.of : i \in DOMAIN ReadMaildrop(f)}

NumbersDiffer(f) ==
  \A i, j \in DOMAIN ReadMaildrop(f) :
    ReadMaildrop(f)[i].from.of = ReadMaildrop(f)[j].from.of => i = j

Gone(u) == {m.from.of : m \in deleted[u]}

Holding(p) == pop[p].st \in {"Trans", "Update"}

Number(p, i) == pop[p].drop[i].mail.from.of

\* Mail n was in the mailbox of u, or is there.
Known(u, n) ==
  \/ n \in Numbers(file[u])
  \/ n \in Gone(u)
  \/ \E p \in PopConn : /\ Holding(p) /\ pop[p].user = u
                        /\ \E i \in DOMAIN pop[p].drop : Number(p, i) = n

(* The mails of a copy have numbers of their own and are read back as they *)
(* are written; none is deleted before the QUIT of its session, and those  *)
(* that the loop of QUIT has still to write are not in the file.           *)
Sound(p) ==
  /\ \A i \in DOMAIN pop[p].drop : WellMade(pop[p].drop[i].mail)
  /\ \A i, j \in DOMAIN pop[p].drop : Number(p, i) = Number(p, j) => i = j
  /\ \A i \in DOMAIN pop[p].drop :
       pop[p].st = "Trans" \/ ~ pop[p].drop[i].deleted => Number(p, i) \notin Gone(pop[p].user)
  /\ pop[p].st = "Update" =>
       \A i \in DOMAIN pop[p].drop :
         ~ pop[p].drop[i].deleted /\ i >= pop[p].next => Number(p, i) \notin Numbers(file[pop[p].user])

CopiesSound == \A p \in PopConn : Holding(p) => Sound(p)

FilesSound ==
  \A u \in User : NumbersDiffer(file[u]) /\ \A n \in Numbers(file[u]) : n \notin Gone(u)

\* The users whose mailbox the mail of s has still to come to.
Open(s) == smtp[s].st \notin {"Closed", "Wait"}

Ahead(s) ==
  {u \in User : smtp[s].st = "Send" => \E i \in DOMAIN smtp[s].todo : smtp[s].todo[i] = u}

(* A mail that is still to come to a mailbox was never there, and nothing  *)
(* was that is not begun.                                                  *)
Fresh ==
  /\ \A s \in Conn, n \in Nat :
       Open(s) /\ smtp[s].tx = n => \A u \in Ahead(s) : ~ Known(u, n)
  /\ \A u \in User : \A n : Known(u, n) => n \in 0 .. begun

ServersInv ==
  /\ IInv /\ Telling
  /\ Pop3P!TypeOK /\ Pop3P!LockHeld

SystemInv == ServersInv /\ CopiesSound /\ FilesSound /\ Fresh

-----------------------------------------------------------------------------
(***************************************************************************)
(* What writing and clearing a file does to the numbers in it.             *)
(***************************************************************************)
LEMMA NumbersBehind ==
  ASSUME NEW f \in Seq(Line), NEW m \in Mail, WellMade(m)
  PROVE  /\ Numbers(WriteMail(f, m)) = Numbers(f) \cup {m.from.of}
         /\ NumbersDiffer(f) /\ m.from.of \notin Numbers(f) => NumbersDiffer(WriteMail(f, m))
<1> DEFINE R == ReadMaildrop(f)
           W == ReadMaildrop(WriteMail(f, m))
<1>1. W = Append(R, m) BY WrittenBehind
<1>2. R \in Seq(Mail) BY MaildropFacts
<1> HIDE DEF R, W
<1>3. /\ Len(R) \in Nat /\ DOMAIN R = 1 .. Len(R)
      /\ W \in Seq(Mail) /\ Len(W) = Len(R) + 1
      /\ \A i \in 1 .. Len(R) : W[i] = R[i]
      /\ W[Len(R) + 1] = m
  BY <1>1, <1>2, AppendProperties, LenProperties
<1>4. DOMAIN W = 1 .. Len(R) + 1 BY <1>3, LenProperties
<1>5. DOMAIN W = DOMAIN R \cup {Len(R) + 1} BY <1>3, <1>4
<1>6. Numbers(WriteMail(f, m)) = Numbers(f) \cup {m.from.of}
  BY <1>3, <1>5 DEF Numbers, R, W
<1>7. NumbersDiffer(f) /\ m.from.of \notin Numbers(f) => NumbersDiffer(WriteMail(f, m))
  <2> SUFFICES ASSUME \A i, j \in DOMAIN R : R[i].from.of = R[j].from.of => i = j,
                      \A i \in DOMAIN R : R[i].from.of # m.from.of,
                      NEW i \in DOMAIN W, NEW j \in DOMAIN W, W[i].from.of = W[j].from.of
               PROVE  i = j
    BY DEF NumbersDiffer, Numbers, R, W
  <2>1. CASE i \in DOMAIN R /\ j \in DOMAIN R BY <1>3, <2>1
  <2>2. CASE i = Len(R) + 1 /\ j \in DOMAIN R BY <1>3, <2>2
  <2>3. CASE i \in DOMAIN R /\ j = Len(R) + 1 BY <1>3, <2>3
  <2> QED BY <1>5, <2>1, <2>2, <2>3
<1> QED BY <1>6, <1>7

LEMMA NoNumbers == Numbers(<<>>) = {} /\ NumbersDiffer(<<>>)
<1>1. DOMAIN ReadMaildrop(<<>>) = {} BY EmptyFile
<1> QED BY <1>1 DEF Numbers, NumbersDiffer

-----------------------------------------------------------------------------
(***************************************************************************)
(* The POP3 server of MailSystem is that of the proofs about it.           *)
(***************************************************************************)
LEMMA PopSame ==
  /\ \A f : Pop3P!ReadMaildrop(f) = ReadMaildrop(f)
  /\ \A f, m : Pop3P!WriteMail(f, m) = WriteMail(f, m)
  /\ Pop3P!Line = Line /\ Pop3P!Mail = Mail
<1>1. \A T : Cardinality(T) = Pop3P!Cardinality(T)
  <2> TAKE T
  <2> QED BY DEF Cardinality, Pop3P!Cardinality
<1>2. \A K, i : Rank(K, i) = Pop3P!Rank(K, i) BY <1>1 DEF Rank, Pop3P!Rank
<1>3. \A K, k : Nth(K, k) = Pop3P!Nth(K, k) BY <1>2 DEF Nth, Pop3P!Nth
<1>4. \A s, K : Pieces(s, K) = Pop3P!Pieces(s, K) BY <1>1, <1>3 DEF Pieces, Pop3P!Pieces
<1>5. \A f : Pop3P!ReadMaildrop(f) = ReadMaildrop(f) BY <1>4 DEF ReadMaildrop, Pop3P!ReadMaildrop
<1>6. \A f, m : Pop3P!WriteMail(f, m) = WriteMail(f, m) BY DEF WriteMail, Pop3P!WriteMail
<1>7. Pop3P!Line = Line /\ Pop3P!Mail = Mail BY DEF Line, Mail, Pop3P!Line, Pop3P!Mail
<1> QED BY <1>5, <1>6, <1>7

LEMMA PopMaildrop == \A f : Pop3!ReadMaildrop(f) = ReadMaildrop(f)
<1>1. \A T : Cardinality(T) = Pop3!Cardinality(T)
  <2> TAKE T
  <2> QED BY DEF Cardinality, Pop3!Cardinality
<1>2. \A K, i : Rank(K, i) = Pop3!Rank(K, i) BY <1>1 DEF Rank, Pop3!Rank
<1>3. \A K, k : Nth(K, k) = Pop3!Nth(K, k) BY <1>2 DEF Nth, Pop3!Nth
<1>4. \A s, K : Pieces(s, K) = Pop3!Pieces(s, K) BY <1>1, <1>3 DEF Pieces, Pop3!Pieces
<1> QED BY <1>4 DEF ReadMaildrop, Pop3!ReadMaildrop

LEMMA Inits == SystemInit => Init /\ Pop3P!Init
BY DEF SystemInit, Pop3!Init, Pop3P!Init, Pop3!Closed, Pop3P!Closed, Pop3!NoConn, Pop3P!NoConn,
       Pop3!NoUser, Pop3P!NoUser

LEMMA PopSteps == Pop3!Serve \/ Pop3!Crash => Pop3P!Next
<1> USE DEF Pop3!Closed, Pop3P!Closed, Pop3!NoConn, Pop3P!NoConn, Pop3!NoUser, Pop3P!NoUser
<1>c. \A f : Pop3!Copy(f) = Pop3P!Copy(f) BY PopSame, PopMaildrop DEF Pop3!Copy, Pop3P!Copy
<1>1. ASSUME NEW p \in PopConn, Pop3!Request(p) PROVE Pop3P!Request(p)
  <2>1. Pop3!Connect(p) => Pop3P!Connect(p) BY DEF Pop3!Connect, Pop3P!Connect
  <2>2. Pop3!PassRefused(p) => Pop3P!PassRefused(p) BY DEF Pop3!PassRefused, Pop3P!PassRefused
  <2>3. Pop3!PassOk(p) => Pop3P!PassOk(p) BY <1>c DEF Pop3!PassOk, Pop3P!PassOk
  <2>4. Pop3!Dele(p) => Pop3P!Dele(p) BY DEF Pop3!Dele, Pop3P!Dele
  <2>5. Pop3!Rset(p) => Pop3P!Rset(p) BY DEF Pop3!Rset, Pop3P!Rset
  <2>6. Pop3!QuitEarly(p) => Pop3P!QuitEarly(p) BY DEF Pop3!QuitEarly, Pop3P!QuitEarly
  <2>7. Pop3!Quit(p) => Pop3P!Quit(p) BY DEF Pop3!Quit, Pop3P!Quit, Pop3!MarkedIn, Pop3P!MarkedIn
  <2>8. \A u \in User \cup {Pop3!NoUser} : Pop3!UserName(p, u) => Pop3P!UserName(p, u)
    BY DEF Pop3!UserName, Pop3P!UserName
  <2> QED BY <1>1, <2>1, <2>2, <2>3, <2>4, <2>5, <2>6, <2>7, <2>8 DEF Pop3!Request, Pop3P!Request
<1>2. ASSUME NEW p \in PopConn, Pop3!Update(p) PROVE Pop3P!Update(p)
  <2>1. Pop3!WriteBack(p) => Pop3P!WriteBack(p)
    BY DEF Pop3!WriteBack, Pop3P!WriteBack, Pop3!WriteMail, Pop3P!WriteMail
  <2>2. Pop3!Leave(p) => Pop3P!Leave(p) BY DEF Pop3!Leave, Pop3P!Leave
  <2> QED BY <1>2, <2>1, <2>2 DEF Pop3!Update, Pop3P!Update
<1>3. Pop3!Crash => Pop3P!Crash BY DEF Pop3!Crash, Pop3P!Crash
<1> QED BY <1>1, <1>2, <1>3 DEF Pop3!Serve, Pop3P!Serve, Pop3P!Next

(* A step of the system is one of either server, or none.                  *)
LEMMA Steps ==
  [SystemNext]_systemVars => \/ Next /\ UNCHANGED popVars
                             \/ Pop3P!Next /\ UNCHANGED smtpVars
                             \/ UNCHANGED systemVars
BY PopSteps DEF SystemNext, SystemServe, Next

(* What the module of the POP3 server assumes of its constants.            *)
LEMMA PopGiven ==
  /\ User # {} /\ "" \notin User
  /\ Pop3P!IsFiniteSet(PopConn) /\ 0 \notin PopConn
  /\ {<<>>} \subseteq Seq(Pop3P!Line) /\ \A f \in {<<>>} : Pop3P!Headed(f)
  /\ \A f \in {<<>>} : \A i, j \in DOMAIN Pop3P!ReadMaildrop(f) :
       Pop3P!ReadMaildrop(f)[i] = Pop3P!ReadMaildrop(f)[j] => i = j
<1>1. Pop3P!IsFiniteSet(PopConn)
  BY PopConnAssumption DEF IsFiniteSet, Pop3P!IsFiniteSet
<1>2. DOMAIN Pop3P!ReadMaildrop(<<>>) = {}
  <2>1. DOMAIN <<>> = {} OBVIOUS
  <2> QED BY <2>1, EmptyFile, PopSame
<1>3. \A f \in {<<>>} : Pop3P!Headed(f) BY DEF Pop3P!Headed
<1>4. \A f \in {<<>>} : \A i, j \in DOMAIN Pop3P!ReadMaildrop(f) :
        Pop3P!ReadMaildrop(f)[i] = Pop3P!ReadMaildrop(f)[j] => i = j
  BY <1>2
<1>5. {<<>>} \subseteq Seq(Pop3P!Line) OBVIOUS
<1> QED BY <1>1, <1>3, <1>4, <1>5, UserAssumption, PopConnAssumption

(* Each server keeps its own invariants.                                   *)
LEMMA SmtpKeeps ==
  ASSUME PlainText, IInv, Telling, [Next]_vars
  PROVE  IInv' /\ Telling'
BY InvStep, TellingStep

LEMMA PopKeeps ==
  ASSUME Pop3P!TypeOK, Pop3P!LockHeld, [Pop3P!Next]_(Pop3P!vars)
  PROVE  Pop3P!TypeOK' /\ Pop3P!LockHeld'
BY PopGiven, Pop3P!TypeStep, Pop3P!LockStep

LEMMA ServersInit == SystemInit => ServersInv
<1>1. Init => IInv BY InvInit
<1>2. Init => Telling
  BY DEF Init, Telling, Apart, Closed, Idle
<1>3. Pop3P!Init => Pop3P!TypeOK BY PopGiven, Pop3P!TypeInit
<1>4. Pop3P!Init => Pop3P!LockHeld BY DEF Pop3P!Init, Pop3P!Closed, Pop3P!LockHeld
<1> QED BY Inits, <1>1, <1>2, <1>3, <1>4 DEF ServersInv

LEMMA ServersStep ==
  ASSUME PlainText
  PROVE  ServersInv /\ [SystemNext]_systemVars => ServersInv'
<1> SUFFICES ASSUME ServersInv, [SystemNext]_systemVars PROVE ServersInv' OBVIOUS
<1> USE DEF ServersInv
<1>1. CASE Next /\ UNCHANGED popVars
  <2>1. IInv' /\ Telling' BY <1>1, SmtpKeeps
  <2>2. file' \in [User -> Seq(Pop3P!Line)]
    <3>1. file' \in [User -> Seq(Line)] BY <2>1 DEF IInv, TypeOK
    <3> QED BY <3>1, PopSame
  <2>3. UNCHANGED <<pop, popMutex, deleted>> BY <1>1 DEF popVars
  <2>4. Pop3P!TypeOK' BY <2>2, <2>3 DEF Pop3P!TypeOK
  <2>5. Pop3P!LockHeld' BY <2>3 DEF Pop3P!LockHeld
  <2> QED BY <2>1, <2>4, <2>5
<1>2. CASE Pop3P!Next /\ UNCHANGED smtpVars
  <2>1. Pop3P!TypeOK' /\ Pop3P!LockHeld' BY <1>2, PopKeeps
  <2>2. file' \in [User -> Seq(Line)]
    <3>1. file' \in [User -> Seq(Pop3P!Line)] BY <2>1 DEF Pop3P!TypeOK
    <3> QED BY <3>1, PopSame
  <2>3. UNCHANGED <<smtp, mutex, begun, asked, acked>> BY <1>2 DEF smtpVars
  <2>4. IInv' BY <2>2, <2>3 DEF IInv, TypeOK, SessionOK
  <2>5. Telling' BY <2>3 DEF Telling, Told, Apart
  <2> QED BY <2>1, <2>4, <2>5
<1>3. CASE UNCHANGED systemVars
  <2>1. UNCHANGED <<vars, Pop3P!vars>>
    BY <1>3 DEF systemVars, smtpVars, popVars, vars, Pop3P!vars
  <2> QED BY <2>1, SmtpKeeps, PopKeeps
<1> QED BY <1>1, <1>2, <1>3, Steps

-----------------------------------------------------------------------------
(***************************************************************************)
(* What a step of the SMTP server does: the files stay, and an open        *)
(* session has the mail it had or a new one; or one mail is written to one *)
(* mailbox it had still to come to.                                        *)
(***************************************************************************)
SameMail(s) == Open(s) /\ smtp'[s].tx = smtp[s].tx /\ Ahead(s)' \subseteq Ahead(s)

KeepsFiles ==
  /\ file' = file /\ begun' \in Nat /\ begun <= begun'
  /\ \A s \in Conn :
       Open(s)' => SameMail(s) \/ (smtp'[s].tx = begun + 1 /\ begun' = begun + 1)

Appends(s, u, n, k) ==
  /\ Open(s) /\ smtp[s].tx = n /\ n \in 1 .. begun /\ begun' = begun
  /\ u \in Ahead(s) /\ u \notin Ahead(s)'
  /\ file[u] \in Seq(Line) /\ file'[u] = WriteMail(file[u], PlainMail(n, k))
  /\ \A w \in User : w # u => file'[w] = file[w]
  /\ \A t \in Conn : Open(t)' => SameMail(t) /\ (t # s => smtp[t].tx # n)

LEMMA RequestMoves ==
  ASSUME PlainText, IInv, Telling, NEW p \in Conn, Request(p)
  PROVE  KeepsFiles
<1>1. PICK r, q : NextMail(p, r, q) BY RequestIsNextMail
<1>2. smtp \in [Conn -> Session] BY DEF IInv, TypeOK
<1>3. /\ smtp'[p] = r /\ \A s \in Conn : s # p => smtp'[s] = smtp[s]
      /\ file' = file /\ begun' \in Nat /\ begun <= begun'
      /\ ~ Idle(r) => \/ ~ Idle(smtp[p]) /\ smtp[p].st # "Send" /\ r.tx = smtp[p].tx
                      \/ r.tx = begun + 1 /\ begun' = begun + 1
  BY <1>1, <1>2 DEF NextMail
<1>4. ASSUME NEW s \in Conn, Open(s)'
      PROVE  SameMail(s) \/ (smtp'[s].tx = begun + 1 /\ begun' = begun + 1)
  <2>1. CASE s # p
    <3>1. smtp'[s] = smtp[s] BY <1>3, <2>1
    <3> QED BY <1>4, <3>1 DEF SameMail, Open, Ahead
  <2>2. CASE s = p
    <3>1. ~ Idle(r) BY <1>3, <1>4, <2>2 DEF Idle, Open
    <3>2. CASE ~ Idle(smtp[p]) /\ smtp[p].st # "Send" /\ r.tx = smtp[p].tx
      <4>1. Ahead(s) = User /\ Ahead(s)' \subseteq User BY <2>2, <3>2 DEF Ahead
      <4> QED BY <1>3, <2>2, <3>2, <4>1 DEF SameMail, Open, Idle
    <3> QED BY <1>3, <2>2, <3>1, <3>2
  <2> QED BY <2>1, <2>2
<1> QED BY <1>3, <1>4 DEF KeepsFiles

LEMMA WriteMoves ==
  ASSUME IInv, Telling, NEW p \in Conn, Write(p)
  PROVE  \E u \in User, n \in Nat, k \in Nat : Appends(p, u, n, k)
<1> DEFINE r == smtp[p]
<1>1. /\ Head(r.todo) \in User /\ r.st = "Send" /\ r.tx \in 1 .. begun
      /\ smtp'[p].st = "Send" /\ smtp'[p].tx = r.tx /\ smtp'[p].todo = Tail(r.todo)
      /\ \A s \in Conn : s # p => smtp'[s] = smtp[s]
      /\ Head(r.todo) \in Elements(r.todo)
      /\ Elements(Tail(r.todo)) = Elements(r.todo) \ {Head(r.todo)}
      /\ file'[Head(r.todo)] = WriteMail(file[Head(r.todo)], TheMail(p))
      /\ file[Head(r.todo)] \in Seq(Line)
      /\ \A w \in User : w # Head(r.todo) => file'[w] = file[w]
      /\ begun' = begun
  BY WriteFacts
<1>2. ~ Idle(r) BY <1>1 DEF Idle
<1>3. Told(p) BY <1>2 DEF Telling
<1>4. /\ TheMail(p) = PlainMail(r.tx, asked[p].n)
      /\ r.tx \in Nat /\ asked[p].n \in Nat
  BY <1>2, <1>3, TheMailIsPlain
<1>u. PICK u \in User : u = Head(r.todo) BY <1>1
<1>n. PICK n \in Nat : n = r.tx BY <1>4
<1>k. PICK k \in Nat : k = asked[p].n BY <1>4
<1>5. file'[u] = WriteMail(file[u], PlainMail(n, k)) /\ file[u] \in Seq(Line)
  BY <1>1, <1>4, <1>u, <1>n, <1>k
<1>6. /\ Ahead(p) = {w \in User : w \in Elements(r.todo)}
      /\ Ahead(p)' = {w \in User : w \in Elements(Tail(r.todo))}
  BY <1>1 DEF Ahead, Elements
<1>7. u \in Ahead(p) /\ u \notin Ahead(p)' /\ Ahead(p)' \subseteq Ahead(p)
  BY <1>1, <1>6, <1>u
<1>8. ASSUME NEW t \in Conn, Open(t)' PROVE SameMail(t) /\ (t # p => smtp[t].tx # n)
  <2>1. CASE t = p BY <1>1, <1>7, <2>1 DEF SameMail, Open
  <2>2. CASE t # p
    <3>1. smtp'[t] = smtp[t] BY <1>1, <2>2
    <3>2. ~ Idle(smtp[t]) BY <1>8, <3>1 DEF Idle, Open
    <3>3. smtp[t].tx # n BY <1>2, <1>n, <2>2, <3>2 DEF Telling, Apart
    <3> QED BY <1>8, <3>1, <3>3 DEF SameMail, Open, Ahead
  <2> QED BY <2>1, <2>2
<1>9. Open(p) BY <1>1 DEF Open
<1>10. Appends(p, u, n, k)
  <2>1. n \in 1 .. begun /\ begun' = begun /\ \A w \in User : w # u => file'[w] = file[w]
    BY <1>1, <1>u, <1>n
  <2> QED BY <1>n, <1>5, <1>7, <1>8, <1>9, <2>1 DEF Appends
<1> QED BY <1>10

LEMMA SmtpMoves ==
  ASSUME PlainText, IInv, Telling, Next
  PROVE  KeepsFiles \/ \E s \in Conn, u \in User, n \in Nat, k \in Nat : Appends(s, u, n, k)
<1>0. begun \in Nat
  <2>1. begun \in 0 .. MaxMails BY DEF IInv, TypeOK
  <2> QED BY <2>1, BoundsAssumption
<1>1. ASSUME NEW p \in Conn, Lock(p) PROVE KeepsFiles
  <2>1. UNCHANGED <<file, smtp, begun>> BY <1>1 DEF Lock
  <2> QED BY <1>0, <2>1 DEF KeepsFiles, SameMail, Open, Ahead
<1>2. ASSUME NEW p \in Conn, Sent(p) PROVE KeepsFiles
  <2>1. /\ UNCHANGED <<file, begun>> /\ Idle(smtp'[p])
        /\ \A s \in Conn : s # p => smtp'[s] = smtp[s]
    BY <1>2, SentFacts
  <2>2. ASSUME NEW s \in Conn, Open(s)' PROVE SameMail(s)
    <3>1. smtp'[s] = smtp[s] BY <2>1, <2>2 DEF Idle, Open
    <3> QED BY <2>2, <3>1 DEF SameMail, Open, Ahead
  <2> QED BY <1>0, <2>1, <2>2 DEF KeepsFiles
<1>3. CASE Crash
  <2>1. UNCHANGED <<file, begun>> /\ \A s \in Conn : ~ Open(s)'
    BY <1>3 DEF Crash, Closed, Open
  <2> QED BY <1>0, <2>1 DEF KeepsFiles
<1> QED BY <1>1, <1>2, <1>3, RequestMoves, WriteMoves DEF Next, Serve, Send

-----------------------------------------------------------------------------
(***************************************************************************)
(* A step of the SMTP server keeps what is said of the mailboxes.          *)
(***************************************************************************)
LEMMA SmtpKeepsFiles ==
  ASSUME SystemInv, KeepsFiles, UNCHANGED popVars
  PROVE  CopiesSound' /\ FilesSound' /\ Fresh'
<1>0. CopiesSound /\ FilesSound /\ Fresh BY DEF SystemInv
<1>1. UNCHANGED <<file, pop, popMutex, deleted>> BY DEF KeepsFiles, popVars
<1>2. CopiesSound' BY <1>0, <1>1 DEF CopiesSound, Sound, Holding, Number, Gone
<1>3. FilesSound' BY <1>0, <1>1 DEF FilesSound, Gone
<1>4. \A u, n : Known(u, n)' <=> Known(u, n) BY <1>1 DEF Known, Holding, Number, Gone
<1>5. begun \in Nat /\ begun' \in Nat /\ begun <= begun'
  <2>1. begun \in 0 .. MaxMails BY DEF SystemInv, ServersInv, IInv, TypeOK
  <2> QED BY <2>1, BoundsAssumption DEF KeepsFiles
<1>6. ASSUME NEW s \in Conn, NEW n \in Nat, Open(s)', smtp'[s].tx = n, NEW u \in Ahead(s)'
      PROVE  ~ Known(u, n)'
  <2>1. u \in User BY DEF Ahead
  <2>2. CASE SameMail(s)
    <3>1. Open(s) /\ smtp[s].tx = n /\ u \in Ahead(s) BY <1>6, <2>2 DEF SameMail
    <3>2. ~ Known(u, n) BY <1>0, <3>1 DEF Fresh
    <3> QED BY <1>4, <3>2
  <2>3. CASE smtp'[s].tx = begun + 1
    <3>1. n \notin 0 .. begun BY <1>5, <1>6, <2>3
    <3>2. ~ Known(u, n) BY <1>0, <2>1, <3>1 DEF Fresh
    <3> QED BY <1>4, <3>2
  <2> QED BY <1>6, <2>2, <2>3 DEF KeepsFiles
<1>7. ASSUME NEW u \in User, NEW n, Known(u, n)' PROVE n \in 0 .. begun'
  <2>1. n \in 0 .. begun BY <1>0, <1>4, <1>7 DEF Fresh
  <2> QED BY <1>5, <2>1
<1> QED BY <1>2, <1>3, <1>6, <1>7 DEF Fresh

LEMMA SmtpAppends ==
  ASSUME SystemInv, NEW s \in Conn, NEW u \in User, NEW n \in Nat, NEW k \in Nat,
         Appends(s, u, n, k), UNCHANGED popVars
  PROVE  CopiesSound' /\ FilesSound' /\ Fresh'
<1>0. CopiesSound /\ FilesSound /\ Fresh BY DEF SystemInv
<1>1. UNCHANGED <<pop, popMutex, deleted>> BY DEF popVars
<1>2. ~ Known(u, n)
  <2>1. Open(s) /\ smtp[s].tx = n /\ u \in Ahead(s) BY DEF Appends
  <2> QED BY <1>0, <2>1 DEF Fresh
<1>3. /\ Numbers(file'[u]) = Numbers(file[u]) \cup {n}
      /\ NumbersDiffer(file[u]) /\ n \notin Numbers(file[u]) => NumbersDiffer(file'[u])
  <2>1. PlainMail(n, k) \in Mail /\ WellMade(PlainMail(n, k)) /\ PlainMail(n, k).from.of = n
    BY PlainMailFacts
  <2> DEFINE m == PlainMail(n, k)
  <2>2. file[u] \in Seq(Line) /\ file'[u] = WriteMail(file[u], m) BY DEF Appends
  <2> HIDE DEF m
  <2> QED BY <2>1, <2>2, NumbersBehind DEF m
<1>4. \A w \in User : w # u => file'[w] = file[w] BY DEF Appends
<1>5. \A w \in User : \A x : Known(w, x)' <=> Known(w, x) \/ (w = u /\ x = n)
  <2> SUFFICES ASSUME NEW w \in User, NEW x
               PROVE  Known(w, x)' <=> Known(w, x) \/ (w = u /\ x = n)
    OBVIOUS
  <2>1. x \in Numbers(file'[w]) <=> x \in Numbers(file[w]) \/ (w = u /\ x = n) BY <1>3, <1>4
  <2> QED BY <1>1, <2>1 DEF Known, Holding, Number, Gone
<1>6. FilesSound'
  <2> SUFFICES ASSUME NEW w \in User
               PROVE  NumbersDiffer(file'[w]) /\ \A x \in Numbers(file'[w]) : x \notin Gone(w)'
    BY DEF FilesSound
  <2>1. Gone(w)' = Gone(w) BY <1>1 DEF Gone
  <2>2. CASE w = u
    <3>1. n \notin Numbers(file[u]) /\ n \notin Gone(u) BY <1>2 DEF Known
    <3> QED BY <1>0, <1>3, <2>1, <2>2, <3>1 DEF FilesSound
  <2>3. CASE w # u BY <1>0, <1>4, <2>1, <2>3 DEF FilesSound
  <2> QED BY <2>2, <2>3
<1>7. ASSUME NEW p \in PopConn, Holding(p)' PROVE Sound(p)'
  <2>1. Holding(p) /\ Sound(p) BY <1>0, <1>1, <1>7 DEF CopiesSound, Holding
  <2>2. pop[p].user \in User BY <2>1 DEF SystemInv, ServersInv, Pop3P!TypeOK, Holding
  <2>3. ASSUME NEW i \in DOMAIN pop[p].drop, Number(p, i) \notin Numbers(file[pop[p].user])
        PROVE  Number(p, i) \notin Numbers(file'[pop[p].user])
    <3>1. CASE pop[p].user = u
      <4>1. Number(p, i) # n BY <1>2, <2>1, <3>1 DEF Known
      <4> QED BY <1>3, <2>3, <3>1, <4>1
    <3>2. CASE pop[p].user # u BY <1>4, <2>2, <2>3, <3>2
    <3> QED BY <3>1, <3>2
  <2> QED BY <1>1, <2>1, <2>3 DEF Sound, Number, Gone
<1>8. ASSUME NEW t \in Conn, NEW x \in Nat, Open(t)', smtp'[t].tx = x, NEW w \in Ahead(t)'
      PROVE  ~ Known(w, x)'
  <2>1. w \in User /\ SameMail(t) /\ (t # s => smtp[t].tx # n) BY <1>8 DEF Ahead, Appends
  <2>2. Open(t) /\ smtp[t].tx = x /\ w \in Ahead(t) BY <1>8, <2>1 DEF SameMail
  <2>3. ~ Known(w, x) BY <1>0, <2>2 DEF Fresh
  <2>4. ~ (w = u /\ x = n) BY <1>8, <2>1, <2>2 DEF Appends
  <2> QED BY <1>5, <2>1, <2>3, <2>4
<1>9. ASSUME NEW w \in User, NEW x, Known(w, x)' PROVE x \in 0 .. begun'
  <2>1. n \in 0 .. begun /\ begun' = begun BY DEF Appends
  <2> QED BY <1>0, <1>5, <1>9, <2>1 DEF Fresh
<1> QED BY <1>6, <1>7, <1>8, <1>9 DEF CopiesSound, Fresh

-----------------------------------------------------------------------------
(***************************************************************************)
(* So does a step of the POP3 server.  It gives no mail a number, and so   *)
(* need not make one known that was not.                                   *)
(***************************************************************************)
LEMMA NoneFresher ==
  ASSUME SystemInv, UNCHANGED smtpVars, \A u \in User : \A n : Known(u, n)' => Known(u, n)
  PROVE  Fresh'
<1>1. UNCHANGED <<smtp, begun>> BY DEF smtpVars
<1>2. \A s \in Conn : Ahead(s)' \subseteq User BY DEF Ahead
<1> QED BY <1>1, <1>2 DEF SystemInv, Fresh, Open, Ahead

\* No mail of a copy changes; marks may, before QUIT.
SameCopy(p) ==
  /\ Holding(p) /\ pop'[p].st = pop[p].st /\ pop'[p].user = pop[p].user
  /\ DOMAIN pop'[p].drop = DOMAIN pop[p].drop
  /\ \A i \in DOMAIN pop[p].drop : pop'[p].drop[i].mail = pop[p].drop[i].mail
  /\ pop[p].st = "Update" => pop'[p] = pop[p]

LEMMA SoundStays ==
  ASSUME NEW p \in PopConn, Sound(p), SameCopy(p),
         file'[pop[p].user] = file[pop[p].user], deleted'[pop[p].user] = deleted[pop[p].user]
  PROVE  Sound(p)'
<1>1. Gone(pop[p].user)' = Gone(pop[p].user) BY DEF Gone, SameCopy
<1>2. CASE pop[p].st = "Update"
  <2>1. pop'[p] = pop[p] BY <1>2 DEF SameCopy
  <2> QED BY <1>1, <2>1 DEF Sound, Number
<1>3. CASE pop[p].st = "Trans" BY <1>1, <1>3 DEF Sound, Number, SameCopy
<1> QED BY <1>2, <1>3 DEF SameCopy, Holding

LEMMA FilesAsTheyAre ==
  ASSUME SystemInv, UNCHANGED smtpVars, UNCHANGED <<file, deleted>>,
         \A p \in PopConn : Holding(p)' => SameCopy(p)
  PROVE  CopiesSound' /\ FilesSound' /\ Fresh'
<1>0. CopiesSound /\ FilesSound BY DEF SystemInv
<1>1. FilesSound' BY <1>0 DEF FilesSound, Gone
<1>2. ASSUME NEW p \in PopConn, Holding(p)' PROVE Sound(p)'
  <2>1. SameCopy(p) BY <1>2
  <2>2. Sound(p) BY <1>0, <2>1 DEF CopiesSound, SameCopy
  <2> QED BY <2>1, <2>2, SoundStays
<1>3. ASSUME NEW u \in User, NEW n, Known(u, n)' PROVE Known(u, n)
  <2>1. CASE n \in Numbers(file'[u]) \/ n \in Gone(u)' BY <2>1 DEF Known, Gone
  <2>2. ASSUME NEW p \in PopConn, Holding(p)', pop'[p].user = u,
               NEW i \in DOMAIN pop'[p].drop, Number(p, i)' = n
        PROVE  Known(u, n)
    <3>1. SameCopy(p) BY <2>2
    <3> QED BY <2>2, <3>1 DEF Known, SameCopy, Number
  <2> QED BY <1>3, <2>1, <2>2 DEF Known
<1> QED BY <1>1, <1>2, <1>3, NoneFresher DEF CopiesSound

\* A step of p, which has the lock of u, at the file of u.
AtFile(p, u) ==
  /\ pop'[p].user = u
  /\ \A q \in PopConn : q # p => pop'[q] = pop[q] /\ (Holding(q) => pop[q].user # u)
  /\ \A w \in User : w # u => file'[w] = file[w] /\ deleted'[w] = deleted[w]

LEMMA OneFile ==
  ASSUME SystemInv, UNCHANGED smtpVars, NEW p \in PopConn, NEW u \in User, AtFile(p, u), Sound(p)',
         NumbersDiffer(file'[u]),
         \A n \in Numbers(file'[u]) : n \notin Gone(u)' /\ Known(u, n),
         \A n \in Gone(u)' : Known(u, n),
         \A i \in DOMAIN pop'[p].drop : Known(u, pop'[p].drop[i].mail.from.of)
  PROVE  CopiesSound' /\ FilesSound' /\ Fresh'
<1>0. CopiesSound /\ FilesSound BY DEF SystemInv
<1>1. ASSUME NEW w \in User, w # u PROVE Gone(w)' = Gone(w) /\ file'[w] = file[w]
  BY <1>1 DEF AtFile, Gone
<1>2. FilesSound'
  <2> SUFFICES ASSUME NEW w \in User
               PROVE  NumbersDiffer(file'[w]) /\ \A x \in Numbers(file'[w]) : x \notin Gone(w)'
    BY DEF FilesSound
  <2>1. CASE w = u BY <2>1
  <2>2. CASE w # u BY <1>0, <1>1, <2>2 DEF FilesSound
  <2> QED BY <2>1, <2>2
<1>3. ASSUME NEW q \in PopConn, q # p, Holding(q)'
      PROVE  Holding(q) /\ pop'[q] = pop[q] /\ pop[q].user \in User /\ pop[q].user # u
  <2>1. pop'[q] = pop[q] BY <1>3 DEF AtFile
  <2>2. Holding(q) BY <1>3, <2>1 DEF Holding
  <2>3. pop[q].user \in User BY <2>2 DEF SystemInv, ServersInv, Pop3P!TypeOK, Holding
  <2> QED BY <1>3, <2>1, <2>2, <2>3 DEF AtFile
<1>4. ASSUME NEW q \in PopConn, Holding(q)' PROVE Sound(q)'
  <2>1. CASE q = p BY <2>1
  <2>2. CASE q # p
    <3>1. Holding(q) /\ pop'[q] = pop[q] /\ pop[q].user \in User /\ pop[q].user # u
      BY <1>3, <1>4, <2>2
    <3>2. Sound(q) /\ SameCopy(q) BY <1>0, <3>1 DEF CopiesSound, SameCopy
    <3>3. file'[pop[q].user] = file[pop[q].user] /\ deleted'[pop[q].user] = deleted[pop[q].user]
      BY <3>1 DEF AtFile
    <3> QED BY <3>2, <3>3, SoundStays
  <2> QED BY <2>1, <2>2
<1>5. ASSUME NEW w \in User, NEW n, Known(w, n)' PROVE Known(w, n)
  <2>1. CASE n \in Numbers(file'[w]) \/ n \in Gone(w)'
    <3>1. CASE w = u BY <2>1, <3>1
    <3>2. CASE w # u BY <1>1, <2>1, <3>2 DEF Known
    <3> QED BY <3>1, <3>2
  <2>2. ASSUME NEW q \in PopConn, Holding(q)', pop'[q].user = w,
               NEW i \in DOMAIN pop'[q].drop, Number(q, i)' = n
        PROVE  Known(w, n)
    <3>1. CASE q = p BY <2>2, <3>1 DEF AtFile, Number
    <3>2. CASE q # p
      <4>1. Holding(q) /\ pop'[q] = pop[q] BY <1>3, <2>2, <3>2
      <4> QED BY <2>2, <4>1 DEF Known, Number
    <3> QED BY <3>1, <3>2
  <2> QED BY <1>5, <2>1, <2>2 DEF Known
<1> QED BY <1>2, <1>4, <1>5, NoneFresher DEF CopiesSound

(* The requests that touch no file.                                        *)
LEMMA QuietSteps ==
  ASSUME SystemInv, UNCHANGED smtpVars, NEW p \in PopConn,
         \/ Pop3P!Connect(p) \/ Pop3P!PassRefused(p) \/ Pop3P!QuitEarly(p)
         \/ Pop3P!Dele(p) \/ Pop3P!Rset(p) \/ Pop3P!Leave(p)
         \/ \E u \in User \cup {Pop3P!NoUser} : Pop3P!UserName(p, u)
  PROVE  CopiesSound' /\ FilesSound' /\ Fresh'
<1>0. Pop3P!TypeOK /\ pop \in [PopConn -> Pop3P!Session] BY DEF SystemInv, ServersInv, Pop3P!TypeOK
<1>1. /\ UNCHANGED <<file, deleted>> /\ \A q \in PopConn : q # p => pop'[q] = pop[q]
  BY <1>0 DEF Pop3P!Connect, Pop3P!PassRefused, Pop3P!QuitEarly, Pop3P!Dele, Pop3P!Rset,
              Pop3P!Leave, Pop3P!UserName
<1>2. ASSUME NEW q \in PopConn, Holding(q)' PROVE SameCopy(q)
  <2>1. CASE q # p
    <3>1. pop'[q] = pop[q] BY <1>1, <2>1
    <3> QED BY <1>2, <3>1 DEF SameCopy, Holding
  <2>2. CASE q = p
    <3>1. CASE Pop3P!Dele(p) \/ Pop3P!Rset(p)
      <4>1. /\ pop[p].st = "Trans" /\ pop'[p].st = "Trans" /\ pop'[p].user = pop[p].user
            /\ DOMAIN pop'[p].drop = DOMAIN pop[p].drop
            /\ \A i \in DOMAIN pop[p].drop : pop'[p].drop[i].mail = pop[p].drop[i].mail
        BY <1>0, <3>1, PopGiven, Pop3P!MarksChange
      <4> QED BY <2>2, <4>1 DEF SameCopy, Holding
    <3>2. CASE ~ (Pop3P!Dele(p) \/ Pop3P!Rset(p))
      <4>1. ~ Holding(p)'
        <5>1. CASE Pop3P!Connect(p) BY <1>0, <5>1 DEF Pop3P!Connect, Holding
        <5>2. CASE Pop3P!PassRefused(p) BY <1>0, <5>2 DEF Pop3P!PassRefused, Pop3P!Session, Holding
        <5>3. CASE Pop3P!QuitEarly(p) BY <1>0, <5>3 DEF Pop3P!QuitEarly, Pop3P!Closed, Holding
        <5>4. CASE Pop3P!Leave(p) BY <1>0, <5>4 DEF Pop3P!Leave, Pop3P!Closed, Holding
        <5>5. ASSUME NEW u, Pop3P!UserName(p, u) PROVE ~ Holding(p)'
          <6> DEFINE t == IF u \in User THEN "Pass" ELSE "User"
                     r == [pop[p] EXCEPT !.user = u, !.st = t]
          <6>1. t \notin {"Trans", "Update"} OBVIOUS
          <6> HIDE DEF t
          <6>2. pop[p] \in Pop3P!Session BY <1>0
          <6>3. r.st = t BY <6>2 DEF Pop3P!Session
          <6>4. pop'[p] = r BY <1>0, <5>5 DEF Pop3P!UserName, t
          <6> HIDE DEF r
          <6> QED BY <6>1, <6>3, <6>4 DEF Holding
        <5> QED BY <3>2, <5>1, <5>2, <5>3, <5>4, <5>5
      <4> QED BY <1>2, <2>2, <4>1
    <3> QED BY <3>1, <3>2
  <2> QED BY <2>1, <2>2
<1> QED BY <1>1, <1>2, FilesAsTheyAre

(* PASS, QUIT and the loop of QUIT are at the file of their user.          *)
LEMMA HoldersSteps ==
  ASSUME SystemInv, NEW p \in PopConn, NEW u \in User, u = pop[p].user,
         Pop3P!PassOk(p) \/ Pop3P!Quit(p) \/ Pop3P!WriteBack(p)
  PROVE  AtFile(p, u)
<1>0. Pop3P!TypeOK /\ Pop3P!LockHeld BY DEF SystemInv, ServersInv
<1>1. /\ pop'[p].user = u /\ \A q \in PopConn : q # p => pop'[q] = pop[q]
      /\ \A w \in User : w # u => file'[w] = file[w] /\ deleted'[w] = deleted[w]
  <2>1. CASE Pop3P!PassOk(p) BY <1>0, <2>1 DEF Pop3P!PassOk, Pop3P!TypeOK, Pop3P!Session
  <2>2. CASE Pop3P!Quit(p) BY <1>0, <2>2 DEF Pop3P!Quit, Pop3P!TypeOK, Pop3P!Session
  <2>3. CASE Pop3P!WriteBack(p) BY <1>0, <2>3 DEF Pop3P!WriteBack, Pop3P!TypeOK, Pop3P!Session
  <2> QED BY <2>1, <2>2, <2>3
<1>2. popMutex[u] = 0 \/ popMutex[u] = p
  BY <1>0 DEF Pop3P!PassOk, Pop3P!Quit, Pop3P!WriteBack, Pop3P!LockHeld, Pop3P!NoConn
<1>3. ASSUME NEW q \in PopConn, q # p, Holding(q) PROVE pop[q].user # u
  <2>1. popMutex[pop[q].user] = q BY <1>0, <1>3 DEF Pop3P!LockHeld, Holding
  <2>2. q # 0 BY PopConnAssumption
  <2> QED BY <1>2, <1>3, <2>1, <2>2
<1> QED BY <1>1, <1>3 DEF AtFile

LEMMA PassStep ==
  ASSUME SystemInv, UNCHANGED smtpVars, NEW p \in PopConn, Pop3P!PassOk(p)
  PROVE  CopiesSound' /\ FilesSound' /\ Fresh'
<1>0. Pop3P!TypeOK /\ FilesSound BY DEF SystemInv, ServersInv
<1>u. PICK u \in User : u = pop[p].user BY <1>0, PopGiven, Pop3P!PassFacts
<1> DEFINE f == file[u]
           R == ReadMaildrop(f)
           d == pop'[p].drop
<1>1. /\ pop'[p].st = "Trans" /\ pop'[p].user = u /\ f \in Seq(Line)
      /\ d = Pop3P!Copy(f) /\ file' = file /\ deleted' = deleted
  BY <1>0, <1>u, PopGiven, PopSame, Pop3P!PassFacts DEF Pop3P!PassOk
<1>2. DOMAIN d = DOMAIN R /\ \A i \in DOMAIN d : d[i].mail = R[i]
  BY <1>1, PopSame DEF Pop3P!Copy
<1>3. \A i \in DOMAIN R : WellMade(R[i])
  <2>1. /\ R \in Seq(Mail) /\ Len(R) = Cardinality(Heads(f))
        /\ \A k \in 1 .. Cardinality(Heads(f)) : WellMade(R[k])
    BY <1>1, MaildropFacts
  <2> QED BY <2>1, LenProperties
<1>4. NumbersDiffer(f) /\ \A n \in Numbers(f) : n \notin Gone(u) BY <1>0 DEF FilesSound
<1>5. Gone(u)' = Gone(u) /\ file'[u] = f BY <1>1 DEF Gone
<1>6. \A i \in DOMAIN d : d[i].mail.from.of \in Numbers(f) BY <1>2 DEF Numbers
<1>7. \A i, j \in DOMAIN d : d[i].mail.from.of = d[j].mail.from.of => i = j
  BY <1>2, <1>4 DEF NumbersDiffer
<1>8. Sound(p)'
  <2>1. pop'[p].st # "Update" /\ Gone(pop[p].user)' = Gone(u) BY <1>1, <1>5
  <2> HIDE DEF f, R
  <2> QED BY <1>2, <1>3, <1>4, <1>6, <1>7, <2>1 DEF Sound, Number
<1>9. /\ \A n \in Numbers(f) : Known(u, n)
      /\ \A n \in Gone(u) : Known(u, n)
  BY DEF Known
<1>10. AtFile(p, u) BY <1>u, HoldersSteps
<1>11. /\ NumbersDiffer(file'[u])
       /\ \A n \in Numbers(file'[u]) : n \notin Gone(u)' /\ Known(u, n)
       /\ \A n \in Gone(u)' : Known(u, n)
  BY <1>4, <1>5, <1>9
<1>12. \A i \in DOMAIN pop'[p].drop : Known(u, pop'[p].drop[i].mail.from.of)
  BY <1>6, <1>9
<1> HIDE DEF f, R, d
<1> QED BY <1>8, <1>10, <1>11, <1>12, OneFile

LEMMA QuitStep ==
  ASSUME SystemInv, UNCHANGED smtpVars, NEW p \in PopConn, Pop3P!Quit(p)
  PROVE  CopiesSound' /\ FilesSound' /\ Fresh'
<1>0. Pop3P!TypeOK /\ CopiesSound BY DEF SystemInv, ServersInv
<1>u. PICK u \in User : u = pop[p].user BY <1>0, PopGiven, Pop3P!QuitFacts
<1> DEFINE d == pop[p].drop
<1>1. /\ pop[p].st = "Trans" /\ pop'[p].st = "Update" /\ pop'[p].user = u
      /\ pop'[p].drop = d /\ file'[u] = <<>>
  BY <1>0, <1>u, PopGiven, Pop3P!QuitFacts
<1>2. deleted'[u] = deleted[u] \cup Pop3P!MarkedIn(d)
  BY <1>0, <1>u DEF Pop3P!Quit, Pop3P!TypeOK
<1>3. Holding(p) /\ Sound(p) BY <1>0, <1>1 DEF CopiesSound, Holding
<1>4. \A n : n \in Gone(u)' <=> \/ n \in Gone(u)
                              \/ \E j \in DOMAIN d : d[j].deleted /\ d[j].mail.from.of = n
  BY <1>2 DEF Gone, Pop3P!MarkedIn
<1>5. Numbers(file'[u]) = {} /\ NumbersDiffer(file'[u]) BY <1>1, NoNumbers
<1>6. /\ \A i \in DOMAIN d : WellMade(d[i].mail)
      /\ \A i, j \in DOMAIN d : d[i].mail.from.of = d[j].mail.from.of => i = j
      /\ \A i \in DOMAIN d : d[i].mail.from.of \notin Gone(u)
  BY <1>1, <1>3, <1>u DEF Sound, Number
<1>7. ASSUME NEW i \in DOMAIN d, ~ d[i].deleted PROVE d[i].mail.from.of \notin Gone(u)'
  <2> HIDE DEF d
  <2> QED BY <1>4, <1>6, <1>7
<1>8. Sound(p)' BY <1>1, <1>5, <1>6, <1>7, <1>u DEF Sound, Number
<1>9. \A i \in DOMAIN d : Known(u, d[i].mail.from.of) BY <1>3, <1>u DEF Known, Number
<1>10. \A n \in Gone(u)' : Known(u, n)
  <2>1. \A n \in Gone(u) : Known(u, n) BY DEF Known
  <2> HIDE DEF d
  <2> QED BY <1>4, <1>9, <2>1
<1>11. AtFile(p, u) BY <1>u, HoldersSteps
<1>12. \A i \in DOMAIN pop'[p].drop : Known(u, pop'[p].drop[i].mail.from.of) BY <1>1, <1>9
<1> HIDE DEF d
<1> QED BY <1>5, <1>8, <1>10, <1>11, <1>12, OneFile

LEMMA WriteBackStep ==
  ASSUME SystemInv, UNCHANGED smtpVars, NEW p \in PopConn, Pop3P!WriteBack(p)
  PROVE  CopiesSound' /\ FilesSound' /\ Fresh'
<1>0. Pop3P!TypeOK /\ CopiesSound /\ FilesSound BY DEF SystemInv, ServersInv
<1>u. PICK u \in User : u = pop[p].user BY <1>0, PopGiven, Pop3P!WriteBackFacts
<1> DEFINE d == pop[p].drop
           f == file[u]
           m == d[pop[p].next].mail
<1>1. /\ pop[p].st = "Update" /\ pop'[p].st = "Update" /\ pop'[p].user = u
      /\ pop'[p].drop = d /\ pop[p].next \in 1 .. Len(d) /\ pop'[p].next = pop[p].next + 1
      /\ file'[u] = IF d[pop[p].next].deleted THEN f ELSE WriteMail(f, m)
  BY <1>0, <1>u, PopGiven, PopSame, Pop3P!WriteBackFacts
<1>2. deleted' = deleted BY DEF Pop3P!WriteBack
<1>3. /\ DOMAIN d = 1 .. Len(d) /\ Len(d) \in Nat /\ \A i \in DOMAIN d : d[i].mail \in Mail
  BY <1>0, PopGiven, PopSame, Pop3P!DropFacts
<1>k. PICK k \in DOMAIN d : k = pop[p].next /\ k \in Nat BY <1>1, <1>3
<1>4. Holding(p) /\ Sound(p) BY <1>0, <1>1 DEF CopiesSound, Holding
<1>5. /\ \A i \in DOMAIN d : WellMade(d[i].mail)
      /\ \A i, j \in DOMAIN d : d[i].mail.from.of = d[j].mail.from.of => i = j
      /\ \A i \in DOMAIN d : ~ d[i].deleted => d[i].mail.from.of \notin Gone(u)
      /\ \A i \in DOMAIN d : ~ d[i].deleted /\ i >= k => d[i].mail.from.of \notin Numbers(f)
  BY <1>1, <1>4, <1>u, <1>k DEF Sound, Number
<1>6. f \in Seq(Line) BY <1>0, PopSame DEF Pop3P!TypeOK
<1>7. NumbersDiffer(f) /\ \A n \in Numbers(f) : n \notin Gone(u) BY <1>0 DEF FilesSound
<1>8. Gone(u)' = Gone(u) BY <1>2 DEF Gone
<1>9. /\ \A i \in DOMAIN d : Known(u, d[i].mail.from.of)
      /\ \A n \in Numbers(f) : Known(u, n)
      /\ \A n \in Gone(u) : Known(u, n)
  BY <1>4, <1>u DEF Known, Number
<1>10. AtFile(p, u) BY <1>u, HoldersSteps
<1>11. /\ NumbersDiffer(file'[u])
       /\ \A n \in Numbers(file'[u]) : n \notin Gone(u) /\ Known(u, n)
       /\ \A i \in DOMAIN d : ~ d[i].deleted /\ i >= k + 1 => d[i].mail.from.of \notin Numbers(file'[u])
  <2> HIDE DEF d, f
  <2>0. \A i \in DOMAIN d : i \in Nat BY <1>3
  <2>1. CASE d[k].deleted
    <3>1. file'[u] = f BY <1>1, <1>k, <2>1
    <3>2. \A i \in DOMAIN d : i >= k + 1 => i >= k BY <1>k, <2>0
    <3> QED BY <1>5, <1>7, <1>9, <3>1, <3>2
  <2>2. CASE ~ d[k].deleted
    <3>1. file'[u] = WriteMail(f, m) BY <1>1, <1>k, <2>2
    <3>2. m = d[k].mail /\ m \in Mail /\ WellMade(m) BY <1>3, <1>5, <1>k
    <3> HIDE DEF m
    <3>3. /\ m.from.of \notin Numbers(f) /\ m.from.of \notin Gone(u) /\ Known(u, m.from.of)
      <4>1. k >= k BY <1>k
      <4> QED BY <1>5, <1>9, <2>2, <3>2, <4>1
    <3>4. Numbers(file'[u]) = Numbers(f) \cup {m.from.of} /\ NumbersDiffer(file'[u])
      BY <1>6, <1>7, <3>1, <3>2, <3>3, NumbersBehind
    <3>5. \A i \in DOMAIN d : i >= k + 1 => i >= k /\ i # k BY <1>k, <2>0
    <3>6. \A i \in DOMAIN d : i # k => d[i].mail.from.of # m.from.of BY <1>5, <1>k, <3>2
    <3> QED BY <1>5, <1>7, <1>9, <3>3, <3>4, <3>5, <3>6
  <2> QED BY <2>1, <2>2
<1>12. Sound(p)'
  <2>1. /\ pop'[p].drop = d /\ pop'[p].user = u /\ pop'[p].next = k + 1 /\ pop'[p].st = "Update"
    BY <1>1, <1>k
  <2> HIDE DEF d, f
  <2> QED BY <1>5, <1>8, <1>11, <2>1 DEF Sound, Number
<1>13. \A i \in DOMAIN pop'[p].drop : Known(u, pop'[p].drop[i].mail.from.of) BY <1>1, <1>9
<1> HIDE DEF d, f, m
<1> QED BY <1>8, <1>9, <1>10, <1>11, <1>12, <1>13, OneFile

LEMMA PopStep ==
  ASSUME SystemInv, UNCHANGED smtpVars, Pop3P!Next
  PROVE  CopiesSound' /\ FilesSound' /\ Fresh'
<1>1. CASE Pop3P!Crash
  <2>1. UNCHANGED <<file, deleted>> /\ \A p \in PopConn : ~ Holding(p)'
    BY <1>1 DEF Pop3P!Crash, Pop3P!Closed, Holding
  <2> QED BY <2>1, FilesAsTheyAre
<1> QED BY <1>1, QuietSteps, PassStep, QuitStep, WriteBackStep
        DEF Pop3P!Next, Pop3P!Serve, Pop3P!Request, Pop3P!Update

-----------------------------------------------------------------------------
LEMMA SystemInvInit == SystemInit => SystemInv
<1> SUFFICES ASSUME SystemInit PROVE SystemInv OBVIOUS
<1>1. /\ file = [u \in User |-> <<>>] /\ deleted = [u \in User |-> {}]
      /\ \A s \in Conn : ~ Open(s)
      /\ \A p \in PopConn : ~ Holding(p)
  BY Inits DEF Init, Closed, Pop3P!Init, Pop3P!Closed, Open, Holding
<1>2. \A u \in User : Numbers(file[u]) = {} /\ NumbersDiffer(file[u]) /\ Gone(u) = {}
  BY <1>1, NoNumbers DEF Gone
<1>3. \A u \in User : \A n : ~ Known(u, n) BY <1>1, <1>2 DEF Known
<1> QED BY <1>1, <1>2, <1>3, ServersInit DEF SystemInv, CopiesSound, FilesSound, Fresh

LEMMA SystemInvStep ==
  ASSUME PlainText
  PROVE  SystemInv /\ [SystemNext]_systemVars => SystemInv'
<1> SUFFICES ASSUME SystemInv, [SystemNext]_systemVars PROVE SystemInv' OBVIOUS
<1>1. ServersInv' BY ServersStep DEF SystemInv
<1>2. CASE Next /\ UNCHANGED popVars
  <2>1. \/ KeepsFiles
        \/ \E s \in Conn, u \in User, n \in Nat, k \in Nat : Appends(s, u, n, k)
    BY <1>2, SmtpMoves DEF SystemInv, ServersInv
  <2> QED BY <1>1, <1>2, <2>1, SmtpKeepsFiles, SmtpAppends DEF SystemInv
<1>3. CASE Pop3P!Next /\ UNCHANGED smtpVars BY <1>1, <1>3, PopStep DEF SystemInv
<1>4. CASE UNCHANGED systemVars
  <2>1. UNCHANGED <<file, smtpVars, deleted, pop>> BY <1>4 DEF systemVars, popVars
  <2>2. \A p \in PopConn : Holding(p)' => SameCopy(p) BY <2>1 DEF SameCopy, Holding
  <2> QED BY <1>1, <2>1, <2>2, FilesAsTheyAre DEF SystemInv
<1> QED BY <1>2, <1>3, <1>4, Steps

(* The inductive invariant of the two servers.                             *)
THEOREM SystemInvCorrect ==
  ASSUME PlainText
  PROVE  SystemSpec => []SystemInv
<1> QED BY SystemInvInit, SystemInvStep, PTL DEF SystemSpec

(* No mail is twice in a mailbox, whatever the two servers do to it at the *)
(* same time, and whenever one of them ends, as long as no line of text is *)
(* taken for the first of a mail.                                          *)
THEOREM NeverTwiceCorrect ==
  ASSUME PlainText
  PROVE  SystemSpec => []NeverTwice
<1>1. ASSUME SystemInv, NEW u \in User, NEW n \in 1 .. MaxMails PROVE Cardinality(MailsFrom(u, n)) <= 1
  <2>1. NumbersDiffer(file[u]) BY <1>1 DEF SystemInv, FilesSound
  <2>2. MailsFrom(u, n) = {i \in DOMAIN ReadMaildrop(file[u]) : ReadMaildrop(file[u])[i].from.of = n}
    BY DEF MailsFrom
  <2>3. \A i, j \in MailsFrom(u, n) : i = j BY <2>1, <2>2 DEF NumbersDiffer
  <2>4. CASE MailsFrom(u, n) = {} BY <2>4, FS_EmptySet
  <2>5. CASE MailsFrom(u, n) # {}
    <3>1. PICK i : MailsFrom(u, n) = {i} BY <2>3, <2>5
    <3>2. Cardinality({i}) = 1 BY FS_Singleton
    <3> QED BY <3>1, <3>2
  <2> QED BY <2>4, <2>5
<1>2. SystemInv => NeverTwice BY <1>1 DEF NeverTwice
<1> QED BY <1>2, SystemInvCorrect, PTL

(* A mail that a client has deleted does not come back, neither from what  *)
(* another session writes back nor from a mail that SMTP still delivers;   *)
(* for plain text again.                                                   *)
THEOREM NoneReturnsCorrect ==
  ASSUME PlainText
  PROVE  SystemSpec => []NoneReturns
<1>1. SystemInv => NoneReturns
  <2> SUFFICES ASSUME SystemInv, NEW u \in User, NEW i \in DOMAIN ReadMaildrop(file[u])
               PROVE  ReadMaildrop(file[u])[i] \notin deleted[u]
    BY PopMaildrop DEF NoneReturns, Pop3!NoneReturns
  <2>1. ReadMaildrop(file[u])[i].from.of \notin Gone(u) BY DEF SystemInv, FilesSound, Numbers
  <2> QED BY <2>1 DEF Gone
<1> QED BY <1>1, SystemInvCorrect, PTL
=============================================================================
