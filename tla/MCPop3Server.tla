---------------------------- MODULE MCPop3Server ----------------------------
(***************************************************************************)
(* Instances of Pop3Server for TLC: mailboxes of up to two mails of one    *)
(* line.                                                                   *)
(***************************************************************************)
EXTENDS Pop3Server, SequencesExt

FirstMails(n) == FoldLeft(WriteMail, <<>>, [i \in 1 .. n |-> PlainMail(i, 1)])

UpToTwo == {FirstMails(n) : n \in 0 .. 2}
=============================================================================
