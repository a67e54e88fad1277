----------------------------- MODULE MailSystem -----------------------------
(***************************************************************************)
(* The two mail servers of HW2 together: the SMTP server, whose module     *)
(* this one extends, and beside it the POP3 server.  They are two programs *)
(* and share the mailbox files and nothing else: each has its own User     *)
(* objects, and so its own mutexes.                                        *)
(***************************************************************************)
EXTENDS SmtpServer

CONSTANT PopConn  \* connections to the POP3 server

ASSUME PopConnAssumption == IsFiniteSet(PopConn) /\ 0 \notin PopConn

VARIABLES
  pop,       \* the POP3 sessions
  popMutex,  \* the mutexes of the POP3 server
  deleted

smtpVars == <<smtp, mutex, begun, asked, acked>>

popVars == <<pop, popMutex, deleted>>

Pop3 == INSTANCE Pop3Server
  WITH Conn <- PopConn, mutex <- popMutex, Boxes <- {<<>>}

SystemInit == Init /\ Pop3!Init

SystemServe ==
  \/ Serve /\ UNCHANGED popVars
  \/ Pop3!Serve /\ UNCHANGED smtpVars

(***************************************************************************)
(* Either process may end and be started again.                            *)
(***************************************************************************)
SystemNext ==
  \/ SystemServe
  \/ Crash /\ UNCHANGED popVars
  \/ Pop3!Crash /\ UNCHANGED smtpVars

systemVars == <<file, smtpVars, popVars>>

SystemSpec == SystemInit /\ [][SystemNext]_systemVars

SystemServeSpec == SystemInit /\ [][SystemServe]_systemVars

-----------------------------------------------------------------------------
(***************************************************************************)
(* No interleaving of the two servers, and no crash, puts a mail into a    *)
(* mailbox twice, or brings back one that a client has deleted.            *)
(***************************************************************************)
NeverTwice ==
  \A u \in User : \A n \in 1 .. MaxMails : Cardinality(MailsFrom(u, n)) <= 1

NoneReturns == Pop3!NoneReturns

(***************************************************************************)
(* "maildrop locked and ready", the POP3 server says: no mail comes in     *)
(* between PASS and QUIT, or is lost.  A mail answered with 250 is in the  *)
(* mailbox, or deleted by a client.                                        *)
(***************************************************************************)
MailLocked ==
  \A a \in acked : \A u \in a.said.to :
    \/ MailsFrom(u, a.tx) # {}
    \/ \E m \in deleted[u] : m.from.of = a.tx
    \/ \E p \in Pop3!Updating(u) : \E i \in DOMAIN pop[p].drop : pop[p].drop[i].mail.from.of = a.tx
=============================================================================
