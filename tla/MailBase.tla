------------------------------ MODULE MailBase ------------------------------
(***************************************************************************)
(* What the two mail servers of HW2 share: the users, whose mailboxes are  *)
(* the files of the directory both were started with.                      *)
(***************************************************************************)
EXTENDS Mailbox

CONSTANT User  \* the users of the mailbox directory

ASSUME UserAssumption == User # {} /\ "" \notin User

NoUser == ""
=============================================================================
