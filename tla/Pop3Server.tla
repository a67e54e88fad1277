----------------------------- MODULE Pop3Server -----------------------------
(***************************************************************************)
(* The POP3 server of HW2: a thread per connection, which locks the mutex  *)
(* of a user, reads the maildrop, works on that copy, and writes it back   *)
(* to the mailbox file when the client quits.                              *)
(*                                                                         *)
(* A request is one action, except for QUIT: clearing the file and writing *)
(* each mail are actions.  STAT, LIST, RETR, UIDL and NOOP only read the   *)
(* copy.                                                                   *)
(***************************************************************************)
EXTENDS MailBase

CONSTANTS
  Conn,   \* the connections a client may have open
  Boxes   \* the mailbox files there may be to begin with

ASSUME ConnAssumption == IsFiniteSet(Conn) /\ 0 \notin Conn
ASSUME BoxesAssumption == Boxes \subseteq Seq(Line) /\ \A f \in Boxes : Headed(f)

\* No two mails are the same one: Line names the mail it is of.
ASSUME MailsAssumption ==
  \A f \in Boxes : \A i, j \in DOMAIN ReadMaildrop(f) :
    ReadMaildrop(f)[i] = ReadMaildrop(f)[j] => i = j

VARIABLES
  file,    \* file[u]: the mailbox file of user u
  pop,     \* pop[p]: the state machine, user and maildrop of connection p
  mutex,   \* mutex[u]: the connection that holds User::mutex_ of u, or none
  deleted  \* deleted[u]: the mails QUIT has removed for good

vars == <<file, pop, mutex, deleted>>

NoConn == 0

-----------------------------------------------------------------------------
(***************************************************************************)
(* A mail of the copy, with Mail::deleted_.                                *)
(***************************************************************************)
Copy(f) ==
  LET mails == ReadMaildrop(f)
  IN  [i \in DOMAIN mails |-> [mail |-> mails[i], deleted |-> FALSE]]

Closed == [st |-> "Closed", user |-> NoUser, drop |-> <<>>, next |-> 0]

Init ==
  /\ file    \in [User -> Boxes]
  /\ pop     = [p \in Conn |-> Closed]
  /\ mutex   = [u \in User |-> NoConn]
  /\ deleted = [u \in User |-> {}]

Connect(p) ==
  /\ pop[p].st = "Closed"
  /\ pop' = [pop EXCEPT ![p].st = "User"]
  /\ UNCHANGED <<file, mutex, deleted>>

(***************************************************************************)
(* USER: GetUserByUsername gives the user, or nobody and the state stays.  *)
(***************************************************************************)
\* Faulty: an unknown name is not told apart.
UserNameUnchecked(p, u) ==
  /\ pop[p].st = "User"
  /\ pop' = [pop EXCEPT ![p].user = u, ![p].st = "Pass"]
  /\ UNCHANGED <<file, mutex, deleted>>

UserName(p, u) ==
  /\ pop[p].st = "User"
  /\ pop' = [pop EXCEPT ![p].user = u, ![p].st = IF u \in User THEN "Pass" ELSE "User"]
  /\ UNCHANGED <<file, mutex, deleted>>

(***************************************************************************)
(* PASS with a wrong password, or with the right one while the mutex is    *)
(* held: try_lock fails.  reset_user forgets the user.                     *)
(***************************************************************************)
PassRefused(p) ==
  /\ pop[p].st = "Pass"
  /\ pop' = [pop EXCEPT ![p].st = "User", ![p].user = NoUser]
  /\ UNCHANGED <<file, mutex, deleted>>

\* Faulty: the maildrop is read whether or not the lock is there.
PassOkUnlocked(p) ==
  /\ pop[p].st = "Pass"
  /\ mutex' = [mutex EXCEPT ![pop[p].user] = p]
  /\ pop'   = [pop EXCEPT ![p].st = "Trans", ![p].drop = Copy(file[pop[p].user])]
  /\ UNCHANGED <<file, deleted>>

PassOk(p) ==
  /\ pop[p].st = "Pass"
  /\ mutex[pop[p].user] = NoConn
  /\ mutex' = [mutex EXCEPT ![pop[p].user] = p]
  /\ pop'   = [pop EXCEPT ![p].st = "Trans", ![p].drop = Copy(file[pop[p].user])]
  /\ UNCHANGED <<file, deleted>>

Dele(p) ==
  /\ pop[p].st = "Trans"
  /\ \E i \in DOMAIN pop[p].drop :
       /\ ~ pop[p].drop[i].deleted
       /\ pop' = [pop EXCEPT ![p].drop[i].deleted = TRUE]
  /\ UNCHANGED <<file, mutex, deleted>>

Rset(p) ==
  /\ pop[p].st = "Trans"
  /\ pop' = [pop EXCEPT ![p].drop =
               [i \in DOMAIN @ |-> [mail |-> pop[p].drop[i].mail, deleted |-> FALSE]]]
  /\ UNCHANGED <<file, mutex, deleted>>

(***************************************************************************)
(* QUIT before the lock closes the connection.                             *)
(***************************************************************************)
QuitEarly(p) ==
  /\ pop[p].st \in {"User", "Pass"}
  /\ pop' = [pop EXCEPT ![p] = Closed]
  /\ UNCHANGED <<file, mutex, deleted>>

MarkedIn(drop) == {drop[i].mail : i \in {j \in DOMAIN drop : drop[j].deleted}}

(***************************************************************************)
(* QUIT with the lock: ClearMailbox first.                                 *)
(***************************************************************************)
\* Faulty: the file is not cleared before it is written.
QuitUncleared(p) ==
  /\ pop[p].st = "Trans"
  /\ pop'     = [pop EXCEPT ![p].st = "Update", ![p].next = 1]
  /\ deleted' = [deleted EXCEPT ![pop[p].user] = @ \cup MarkedIn(pop[p].drop)]
  /\ UNCHANGED <<file, mutex>>

\* Faulty: the lock is released before the mails are written.
QuitUnlocks(p) ==
  /\ pop[p].st = "Trans"
  /\ file'    = [file EXCEPT ![pop[p].user] = <<>>]
  /\ pop'     = [pop EXCEPT ![p].st = "Update", ![p].next = 1]
  /\ mutex'   = [mutex EXCEPT ![pop[p].user] = NoConn]
  /\ deleted' = [deleted EXCEPT ![pop[p].user] = @ \cup MarkedIn(pop[p].drop)]

Quit(p) ==
  /\ pop[p].st = "Trans"
  /\ file'    = [file EXCEPT ![pop[p].user] = <<>>]
  /\ pop'     = [pop EXCEPT ![p].st = "Update", ![p].next = 1]
  /\ deleted' = [deleted EXCEPT ![pop[p].user] = @ \cup MarkedIn(pop[p].drop)]
  /\ UNCHANGED mutex

(***************************************************************************)
(* The loop over the copy: the next mail that is not deleted is written.   *)
(***************************************************************************)
\* Faulty: every mail of the copy is written.
WriteBackAll(p) ==
  /\ pop[p].st = "Update"
  /\ pop[p].next <= Len(pop[p].drop)
  /\ file' = [file EXCEPT ![pop[p].user] = WriteMail(@, pop[p].drop[pop[p].next].mail)]
  /\ pop'  = [pop EXCEPT ![p].next = @ + 1]
  /\ UNCHANGED <<mutex, deleted>>

WriteBack(p) ==
  LET k == pop[p].next
      x == pop[p].drop[k]
  IN  /\ pop[p].st = "Update"
      /\ k <= Len(pop[p].drop)
      /\ file' = IF x.deleted THEN file
                              ELSE [file EXCEPT ![pop[p].user] = WriteMail(@, x.mail)]
      /\ pop'  = [pop EXCEPT ![p].next = k + 1]
      /\ UNCHANGED <<mutex, deleted>>

(***************************************************************************)
(* Then the lock is released and the connection closed.                    *)
(***************************************************************************)
\* Faulty: the lock is kept.
LeaveLocked(p) ==
  /\ pop[p].st = "Update"
  /\ pop[p].next > Len(pop[p].drop)
  /\ pop'   = [pop EXCEPT ![p] = Closed]
  /\ UNCHANGED <<file, mutex, deleted>>

Leave(p) ==
  /\ pop[p].st = "Update"
  /\ pop[p].next > Len(pop[p].drop)
  /\ mutex' = [mutex EXCEPT ![pop[p].user] = NoConn]
  /\ pop'   = [pop EXCEPT ![p] = Closed]
  /\ UNCHANGED <<file, deleted>>

(***************************************************************************)
(* The process ends, by SIGINT or by a write to a connection whose client  *)
(* is gone (SIGPIPE is not handled), and is started again.  It ends so     *)
(* sooner or later when a client hangs up without QUIT: the thread reads   *)
(* an empty request and answers it, over and over.                         *)
(***************************************************************************)
Crash ==
  /\ pop'   = [p \in Conn |-> Closed]
  /\ mutex' = [u \in User |-> NoConn]
  /\ UNCHANGED <<file, deleted>>

Request(p) ==
  \/ Connect(p) \/ PassRefused(p) \/ PassOk(p) \/ Dele(p) \/ Rset(p) \/ QuitEarly(p) \/ Quit(p)
  \/ \E u \in User \cup {NoUser} : UserName(p, u)

Update(p) == WriteBack(p) \/ Leave(p)

Serve == \E p \in Conn : Request(p) \/ Update(p)

Next == Serve \/ Crash

(***************************************************************************)
(* A thread that has begun an update waits for nothing: it goes on.  No    *)
(* client need send a request.                                             *)
(***************************************************************************)
Fairness == \A p \in Conn : WF_vars(Update(p))

Spec == Init /\ [][Next]_vars /\ Fairness

-----------------------------------------------------------------------------
(***************************************************************************)
(* Type invariant.                                                         *)
(***************************************************************************)
Entry == [mail : Mail, deleted : BOOLEAN]

Session ==
  [st   : {"Closed", "User", "Pass", "Trans", "Update"},
   user : User \cup {NoUser},
   drop : Seq(Entry),
   next : Nat]

TypeOK ==
  /\ file    \in [User -> Seq(Line)]
  /\ pop     \in [Conn -> Session]
  /\ mutex   \in [User -> Conn \cup {NoConn}]
  /\ deleted \in [User -> SUBSET Mail]
  /\ \A p \in Conn : pop[p].st \in {"Pass", "Trans", "Update"} => pop[p].user \in User
  /\ \A p \in Conn : pop[p].st = "Update" => pop[p].next \in 1 .. Len(pop[p].drop) + 1

Mails(drop) == [i \in DOMAIN drop |-> drop[i].mail]

Undeleted(drop) == AtPlaces(Mails(drop), {i \in DOMAIN drop : ~ drop[i].deleted})

(***************************************************************************)
(* The copy a client works on is the mailbox: from PASS to QUIT, as long   *)
(* as the POP3 server alone writes mailboxes, the mails in the file are    *)
(* the mails of the copy, by number.                                       *)
(***************************************************************************)
CopyIsMailbox ==
  \A p \in Conn : pop[p].st = "Trans" => Mails(pop[p].drop) = ReadMaildrop(file[pop[p].user])

(***************************************************************************)
(* Deleted mail stays deleted: once QUIT has begun to remove a mail, it is *)
(* in the file no more, whatever other sessions write back, and across     *)
(* crashes.                                                                *)
(***************************************************************************)
NoneReturns ==
  \A u \in User : \A i \in DOMAIN ReadMaildrop(file[u]) :
    ReadMaildrop(file[u])[i] \notin deleted[u]

(***************************************************************************)
(* The sessions implement the mail store: the steps of an update together  *)
(* are one removal of what the client has marked, and a crash takes away   *)
(* no more than the mails an update in progress has still to write.        *)
(***************************************************************************)
Updating(u) == {p \in Conn : pop[p].st = "Update" /\ pop[p].user = u}

Reading(u) == {p \in Conn : pop[p].st = "Trans" /\ pop[p].user = u}

Box(u) ==
  IF Updating(u) = {} THEN ReadMaildrop(file[u])
                      ELSE Undeleted(pop[CHOOSE p \in Updating(u) : TRUE].drop)

Marked(u) == UNION {MarkedIn(pop[p].drop) : p \in Reading(u)}

StoreBox    == [u \in User |-> Box(u)]
StoreMarked == [u \in User |-> Marked(u)]
StoreEnding == {u \in User : Updating(u) # {}}

Store == INSTANCE MailStore
  WITH box <- StoreBox, marked <- StoreMarked, ending <- StoreEnding

ImplementsStore == Store!Spec

(***************************************************************************)
(* A user is not locked out by a QUIT: an update that has begun gives the  *)
(* lock back in the end, or the process does by ending.                    *)
(***************************************************************************)
LockIsFreed == \A u \in User : Updating(u) # {} ~> mutex[u] = NoConn
=============================================================================
