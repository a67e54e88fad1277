----------------------------- MODULE SmtpServer -----------------------------
(***************************************************************************)
(* The SMTP server of HW2: a thread per connection, each with its state    *)
(* machine and the mail it is being given, and SendMail, which appends the *)
(* mail to the mailbox of every recipient under the mutex of that user.    *)
(*                                                                         *)
(* A request is one action, except for the end of the mail: there every    *)
(* wait for a mutex and every mail written is an action.  WriteMail is one *)
(* write, when the stream is closed: a mail fits the stream's buffer.      *)
(***************************************************************************)
EXTENDS MailBase

CONSTANTS
  Conn,      \* the connections a client may have open
  MaxMails,  \* bound: how many mails are begun
  MaxLines,  \* bound: how many lines a mail has
  HeadLike   \* whether a line of text may look like the first of a mail

ASSUME ConnAssumption   == IsFiniteSet(Conn) /\ 0 \notin Conn
ASSUME BoundsAssumption == MaxMails \in Nat /\ MaxLines \in Nat
ASSUME HeadLikeAssumption == HeadLike \subseteq BOOLEAN

VARIABLES
  file,   \* file[u]: the mailbox file of user u
  smtp,   \* smtp[s]: the state machine and the mail of connection s
  mutex,  \* mutex[u]: the connection that holds User::mutex_ of u, or none
  begun,  \* how many mails were begun
  asked,  \* asked[s]: what the client has said since its last MAIL
  acked   \* what was said of the mails answered with 250

vars == <<file, smtp, mutex, begun, asked, acked>>

NoConn == 0

-----------------------------------------------------------------------------
(***************************************************************************)
(* The mail of a connection: tx is the sender, which tells apart the mails *)
(* of all connections; 0 is the empty sender.                              *)
(***************************************************************************)
\* Faulty: the recipients stay.
ClearedKeepsRcpts(r) == [r EXCEPT !.tx = 0, !.lines = <<>>]

Cleared(r) == [r EXCEPT !.tx = 0, !.rcpts = <<>>, !.lines = <<>>]

EmptyMail(r) == r.tx = 0 /\ r.rcpts = <<>> /\ r.lines = <<>>

Closed ==
  [st |-> "Closed", tx |-> 0, rcpts |-> <<>>, lines |-> <<>>, todo |-> <<>>]

NothingAsked == [to |-> {}, n |-> 0]

Init ==
  /\ file  = [u \in User |-> <<>>]
  /\ smtp  = [s \in Conn |-> Closed]
  /\ mutex = [u \in User |-> NoConn]
  /\ begun = 0
  /\ asked = [s \in Conn |-> NothingAsked]
  /\ acked = {}

Connect(s) ==
  /\ smtp[s].st = "Closed"
  /\ smtp' = [smtp EXCEPT ![s] = [Closed EXCEPT !.st = "Wait"]]
  /\ UNCHANGED <<file, mutex, begun, asked, acked>>

MailFrom(s) ==
  /\ smtp[s].st = "Wait"
  /\ begun < MaxMails
  /\ begun' = begun + 1
  /\ smtp'  = [smtp EXCEPT ![s].st = "Mail", ![s].tx = begun + 1]
  /\ asked' = [asked EXCEPT ![s] = NothingAsked]
  /\ UNCHANGED <<file, mutex, acked>>

(***************************************************************************)
(* RCPT TO: an address that is no user's, NoUser here, is refused.         *)
(***************************************************************************)
\* Faulty: no test whether there is such a user.
RcptToAnyone(s, u) ==
  /\ smtp[s].st \in {"Mail", "Rcpt"}
  /\ smtp'  = [smtp EXCEPT ![s].st = "Rcpt", ![s].rcpts = Append(@, u)]
  /\ asked' = [asked EXCEPT ![s].to = @ \cup {u}]
  /\ UNCHANGED <<file, mutex, begun, acked>>

\* Faulty: no test whether the recipient is there already.
RcptToAgain(s, u) ==
  /\ u \in User
  /\ smtp[s].st \in {"Mail", "Rcpt"}
  /\ smtp'  = [smtp EXCEPT ![s].st = "Rcpt", ![s].rcpts = Append(@, u)]
  /\ asked' = [asked EXCEPT ![s].to = @ \cup {u}]
  /\ UNCHANGED <<file, mutex, begun, acked>>

RcptTo(s, u) ==
  /\ u \in User
  /\ smtp[s].st \in {"Mail", "Rcpt"}
  /\ LET known == \E i \in DOMAIN smtp[s].rcpts : smtp[s].rcpts[i] = u
     IN  smtp' = [smtp EXCEPT ![s].st = "Rcpt",
                              ![s].rcpts = IF known THEN @ ELSE Append(@, u)]
  /\ asked' = [asked EXCEPT ![s].to = @ \cup {u}]
  /\ UNCHANGED <<file, mutex, begun, acked>>

Rset(s) ==
  /\ smtp[s].st \in {"Wait", "Mail", "Rcpt"}
  /\ smtp' = [smtp EXCEPT ![s] = [Cleared(@) EXCEPT !.st = "Wait"]]
  /\ UNCHANGED <<file, mutex, begun, asked, acked>>

Data(s) ==
  /\ smtp[s].st = "Rcpt"
  /\ smtp' = [smtp EXCEPT ![s].st = "Data"]
  /\ UNCHANGED <<file, mutex, begun, asked, acked>>

(***************************************************************************)
(* In state Data everything but "." is a line of the mail.                 *)
(***************************************************************************)
Text(s) ==
  /\ smtp[s].st = "Data"
  /\ Len(smtp[s].lines) < MaxLines
  /\ \E h \in HeadLike :
       smtp' = [smtp EXCEPT ![s].lines =
                  Append(@, [of |-> smtp[s].tx, at |-> asked[s].n + 1, head |-> h])]
  /\ asked' = [asked EXCEPT ![s].n = @ + 1]
  /\ UNCHANGED <<file, mutex, begun, acked>>

(***************************************************************************)
(* ".": SendMail goes through the recipients.                              *)
(***************************************************************************)
Dot(s) ==
  /\ smtp[s].st = "Data"
  /\ smtp' = [smtp EXCEPT ![s].st = "Send", ![s].todo = smtp[s].rcpts]
  /\ UNCHANGED <<file, mutex, begun, asked, acked>>

Lock(s) ==
  /\ smtp[s].todo # <<>>
  /\ mutex[Head(smtp[s].todo)] = NoConn
  /\ mutex' = [mutex EXCEPT ![Head(smtp[s].todo)] = s]
  /\ UNCHANGED <<file, smtp, begun, asked, acked>>

\* Faulty: the guard is not released.
WriteKeepsLock(s) ==
  /\ smtp[s].todo # <<>>
  /\ mutex[Head(smtp[s].todo)] = s
  /\ file' = [file EXCEPT ![Head(smtp[s].todo)] =
                WriteMail(@, [from |-> FirstLine(smtp[s].tx), lines |-> smtp[s].lines])]
  /\ smtp' = [smtp EXCEPT ![s].todo = Tail(@)]
  /\ UNCHANGED <<mutex, begun, asked, acked>>

Write(s) ==
  /\ smtp[s].todo # <<>>
  /\ LET u == Head(smtp[s].todo)
     IN  /\ mutex[u] = s
         /\ file'  = [file EXCEPT ![u] =
                        WriteMail(@, [from |-> FirstLine(smtp[s].tx), lines |-> smtp[s].lines])]
         /\ mutex' = [mutex EXCEPT ![u] = NoConn]
  /\ smtp' = [smtp EXCEPT ![s].todo = Tail(@)]
  /\ UNCHANGED <<begun, asked, acked>>

(***************************************************************************)
(* EOML_: the mail is cleared and the client gets its 250.                 *)
(***************************************************************************)
Sent(s) ==
  /\ smtp[s].st = "Send"
  /\ smtp[s].todo = <<>>
  /\ smtp'  = [smtp EXCEPT ![s] = [Cleared(@) EXCEPT !.st = "Wait"]]
  /\ acked' = acked \cup {[tx |-> smtp[s].tx, said |-> asked[s]]}
  /\ UNCHANGED <<file, mutex, begun, asked>>

Quit(s) ==
  /\ smtp[s].st \in {"Wait", "Mail", "Rcpt"}
  /\ smtp' = [smtp EXCEPT ![s] = Closed]
  /\ UNCHANGED <<file, mutex, begun, asked, acked>>

(***************************************************************************)
(* The process ends, by SIGINT or by a write to a connection whose client  *)
(* is gone (SIGPIPE is not handled), and is started again.                 *)
(***************************************************************************)
Crash ==
  /\ smtp'  = [s \in Conn |-> Closed]
  /\ mutex' = [u \in User |-> NoConn]
  /\ UNCHANGED <<file, begun, asked, acked>>

Request(s) ==
  \/ Connect(s) \/ MailFrom(s) \/ Rset(s) \/ Data(s) \/ Text(s) \/ Dot(s) \/ Quit(s)
  \/ \E u \in User \cup {NoUser} : RcptTo(s, u)

Send(s) == Lock(s) \/ Write(s) \/ Sent(s)

Serve == \E s \in Conn : Request(s) \/ Send(s)

Next == Serve \/ Crash

(***************************************************************************)
(* A thread that is writing a mail goes on, and gets the mutex it waits    *)
(* for when it is free: the scheduler runs every thread, and only as many  *)
(* mails as there are can come before.                                     *)
(***************************************************************************)
Fairness == \A s \in Conn : WF_vars(Send(s))

Spec == Init /\ [][Next]_vars /\ Fairness

-----------------------------------------------------------------------------
(***************************************************************************)
(* Type invariant.                                                         *)
(***************************************************************************)
Session ==
  [st    : {"Closed", "Wait", "Mail", "Rcpt", "Data", "Send"},
   tx    : 0 .. MaxMails,
   rcpts : Seq(User),
   lines : Seq(Line),
   todo  : Seq(User)]

TypeOK ==
  /\ file  \in [User -> Seq(Line)]
  /\ smtp  \in [Conn -> Session]
  /\ mutex \in [User -> Conn \cup {NoConn}]
  /\ begun \in 0 .. MaxMails
  /\ asked \in [Conn -> [to : SUBSET User, n : 0 .. MaxLines]]
  /\ acked \subseteq [tx : 1 .. MaxMails, said : [to : SUBSET User, n : 0 .. MaxLines]]

(***************************************************************************)
(* What the CHECK_F after RSET asserts, of every way into state Wait: the  *)
(* mail is empty, so that nothing of one mail gets into the next.          *)
(***************************************************************************)
CleanAtWait == \A s \in Conn : smtp[s].st = "Wait" => EmptyMail(smtp[s])

MailsFrom(u, n) ==
  LET drop == ReadMaildrop(file[u])
  IN  {i \in DOMAIN drop : drop[i].from.of = n}

(***************************************************************************)
(* A mail answered with 250 is in the mailbox of everybody the client      *)
(* named since MAIL, once, with the lines it typed, and in no other        *)
(* mailbox: whatever the other threads write there, and across crashes.    *)
(***************************************************************************)
AckedIsWritten ==
  \A a \in acked : \A u \in User :
    LET I == MailsFrom(u, a.tx)
    IN  IF u \in a.said.to
          THEN /\ Cardinality(I) = 1
               /\ \A i \in I : ReadMaildrop(file[u])[i] = PlainMail(a.tx, a.said.n)
          ELSE I = {}

(***************************************************************************)
(* No thread waits in SendMail for good, however many connections write to *)
(* the same mailboxes: it comes to the 250, or the process ends.           *)
(***************************************************************************)
EventuallyAnswered == \A s \in Conn : smtp[s].st = "Send" ~> smtp[s].st # "Send"

(***************************************************************************)
(* What ReadMaildrop says of a line it splits at, "This is a new mail": it *)
(* is the first line of a mail that SMTP wrote.                            *)
(***************************************************************************)
NewMailIsMail ==
  \A u \in User : \A i \in DOMAIN ReadMaildrop(file[u]) :
    ReadMaildrop(file[u])[i].from.at = 0
=============================================================================
