------------------------------- MODULE Mailbox ------------------------------
(***************************************************************************)
(* The mailbox files of HW2, one per user, as User::WriteMail makes them   *)
(* and User::ReadMaildrop takes them apart.  A file is a sequence of       *)
(* lines, and only a line that looks like the first line of a mail ends    *)
(* the mail before it.                                                     *)
(***************************************************************************)
EXTENDS Listing

(***************************************************************************)
(* Line at of mail of; line 0 is the one WriteMail puts first, "From <",   *)
(* the sender and the time.  head tells whether ReadMaildrop takes the     *)
(* line for a first one: mail_head_regex finds sender and time in it.      *)
(***************************************************************************)
Line == [of : Nat, at : Nat, head : BOOLEAN]

Mail == [from : Line, lines : Seq(Line)]

FirstLine(n) == [of |-> n, at |-> 0, head |-> TRUE]

WriteMail(f, m) == f \o <<m.from>> \o m.lines

(***************************************************************************)
(* What User::WriteMail leaves behind it is a file that begins with the    *)
(* first line of a mail, or nothing.  ReadMaildrop is only ever given such *)
(* a file: of another it would make a first mail without a sender.         *)
(***************************************************************************)
Headed(f) == f # <<>> => f[1].head

ReadMaildrop(f) ==
  LET pieces == Pieces(f, {i \in DOMAIN f : f[i].head})
  IN  [k \in DOMAIN pieces |-> [from |-> Head(pieces[k]), lines |-> Tail(pieces[k])]]

(***************************************************************************)
(* Mail n with k lines of text.                                            *)
(***************************************************************************)
PlainMail(n, k) ==
  [from  |-> FirstLine(n),
   lines |-> [i \in 1 .. k |-> [of |-> n, at |-> i, head |-> FALSE]]]
=============================================================================
