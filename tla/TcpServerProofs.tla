--------------------------- MODULE TcpServerProofs --------------------------
(***************************************************************************)
(* Machine-checked proofs about the TCP server base, for any number of     *)
(* connections and descriptors, any delay of a thread and a signal at any  *)
(* moment.                                                                 *)
(***************************************************************************)
EXTENDS TcpServer, FiniteSetTheorems, TLAPS

Facts == INSTANCE ListingLemmas

-----------------------------------------------------------------------------
(***************************************************************************)
(* Connections are numbered as accept returns them, and all that refers to *)
(* one refers to one that was accepted; a thread exists from Spawn on.     *)
(***************************************************************************)
Numbered ==
  /\ main # "accept" => accepted \in Conn
  /\ \A f \in Fd : owner[f] <= accepted
  /\ \A c \in sockets \cup rest : Registered(c)
  /\ \A w \in Conn : worker[w].p <= accepted
  /\ \A w \in Conn : worker[w].st # "none" =>
       w <= accepted /\ ~(w = accepted /\ main \in {"register", "spawn"})

(***************************************************************************)
(* The int of a connection that is open holds its descriptor, and is in    *)
(* the list.                                                               *)
(***************************************************************************)
OpenInv ==
  /\ \A f \in Fd : owner[f] \in Conn => ptr[owner[f]] = f
  /\ \A f \in Fd : owner[f] \in Conn /\ Registered(owner[f]) => owner[f] \in sockets

(***************************************************************************)
(* A thread has read the descriptor of the connection whose pointer it     *)
(* holds, if that is open, and it closes this one before it marks it.      *)
(***************************************************************************)
ThreadInv ==
  \A w \in Conn, f \in Fd : worker[w].p # None /\ owner[f] = worker[w].p =>
    /\ Serving(w) => worker[w].fd = f
    /\ worker[w].st \notin {"closed", "mark"}

(***************************************************************************)
(* Stop closes an entry of its list, and exits at the end of it.           *)
(***************************************************************************)
ListInv ==
  /\ handler = "close" => rest # {}
  /\ handler = "exited" => rest = {}

(***************************************************************************)
(* As long as no thread was late: until the signal, a connection stays     *)
(* open for its thread, so that its number is not used again before the    *)
(* thread has closed it.                                                   *)
(***************************************************************************)
Open(c) == \E f \in Fd : owner[f] = c

ConnInv ==
  /\ handler = "off" =>
       \A c \in Conn :
         c <= accepted /\ (worker[c].st \in {"none", "spawned"} \/ Serving(c)) => Open(c)
  /\ \A c \in Conn : c <= accepted /\ worker[c].st \in {"none", "spawned"} =>
       ptr[c] \in Fd /\ owner[ptr[c]] \in {c, None, Mailbox}
  /\ \A c \in Conn : Serving(c) =>
       worker[c].fd \in Fd /\ owner[worker[c].fd] \in {c, None, Mailbox}

(***************************************************************************)
(* Until the signal, the files of the threads are their own; afterwards a  *)
(* number of theirs never becomes that of a connection.                    *)
(***************************************************************************)
HasFile(w) == worker[w].file # -1

FileInv ==
  /\ \A w \in Conn : HasFile(w) => owner[worker[w].file] \in {None, Mailbox}
  /\ handler = "off" =>
       /\ \A w \in Conn : HasFile(w) => owner[worker[w].file] = Mailbox
       /\ \A v, w \in Conn :
            HasFile(v) /\ HasFile(w) /\ worker[v].file = worker[w].file => v = w

(***************************************************************************)
(* A client that was told nothing is still connected, and still in front   *)
(* of Stop.  A thread that is about to close its connection has told the   *)
(* client.  When Stop closes an entry, its client has been told, and so    *)
(* has the client of the connection its number may stand for instead.      *)
(***************************************************************************)
TellInv ==
  /\ \A c \in Conn : c <= accepted /\ last[c] = "none" => Open(c)
  /\ \A c \in Conn : worker[c].st = "bye" /\ owner[worker[c].fd] = c => last[c] # "none"
  /\ handler \in {"tell", "close", "exited"} =>
       \A c \in Conn : Registered(c) /\ last[c] = "none" => c \in rest
  /\ handler = "close" =>
       /\ last[First(rest)] # "none"
       /\ \A f \in Fd : f = ptr[First(rest)] /\ owner[f] \in Conn => last[owner[f]] # "none"

OnTimeInv == NoneLate => ConnInv /\ FileInv /\ TellInv

IInv == TypeOK /\ Numbered /\ OpenInv /\ ThreadInv /\ ListInv /\ OnTimeInv

-----------------------------------------------------------------------------
LEMMA ConnFacts ==
  /\ MaxConn \in Nat /\ MaxFd \in Nat
  /\ \A c \in Conn : c \in Nat /\ c # None /\ c # Nobody /\ c # Main /\ c # Mailbox
  /\ \A f \in Fd : f \in Nat /\ f # 0 /\ f # -1
  /\ None \notin Conn /\ Mailbox \notin Conn /\ None # Mailbox /\ -1 \notin Fd
BY TcpAssumption DEF Conn, Fd, None, Nobody, Main, Mailbox

(* The first entry of a list that is not empty is in it.                   *)
LEMMA FirstInList ==
  ASSUME NEW list \in SUBSET Conn, list # {}
  PROVE  First(list) \in list
<1>1. list \subseteq Nat BY ConnFacts
<1>2. \E c \in list : \A d \in list : c <= d BY <1>1, Facts!LeastNumber
<1> QED BY <1>2 DEF First

(* A line tells one client at most, and takes back nothing.                *)
LEMMA ToldFacts ==
  ASSUME TypeOK, NEW f, NEW line \in Line \ {"none"}
  PROVE  /\ Told(f, line) \in [Conn -> Line]
         /\ \A c \in Conn : Told(f, line)[c] = "none" => last[c] = "none"
         /\ f \in Fd /\ owner[f] \in Conn => Told(f, line)[owner[f]] # "none"
BY DEF TypeOK, Told

(* A thread gets the pointer of a connection that was accepted, or none.   *)
LEMMA StartFacts ==
  ASSUME TypeOK, NEW w \in Conn, Start(w)
  PROVE  \E p \in Conn \cup {None} : p <= accepted /\ Enter(w, p)
<1>1. accepted \in Conn \cup {None} /\ None <= accepted BY ConnFacts DEF TypeOK, Conn, None
<1>2. accepted <= accepted BY DEF TypeOK
<1> QED BY <1>1, <1>2 DEF Start

LEMMA InitInv == Init => IInv
<1> SUFFICES ASSUME Init PROVE IInv OBVIOUS
<1>1. TypeOK BY ConnFacts DEF Init, TypeOK, NewWorker, None, Nobody, Main, Line
<1>2. Numbered BY ConnFacts DEF Init, Numbered, NewWorker, None
<1>3. OpenInv BY ConnFacts DEF Init, OpenInv
<1>4. ThreadInv BY DEF Init, ThreadInv, NewWorker
<1>5. ListInv BY DEF Init, ListInv
<1>6. ConnInv BY ConnFacts DEF Init, ConnInv, NewWorker, Serving, None
<1>7. FileInv BY DEF Init, FileInv, HasFile, NewWorker
<1>8. TellInv BY ConnFacts DEF Init, TellInv, NewWorker, None
<1> QED BY <1>1, <1>2, <1>3, <1>4, <1>5, <1>6, <1>7, <1>8 DEF IInv, OnTimeInv

(* What a step does to the type invariant.                                 *)
LEMMA TypeStep == TypeOK /\ Numbered /\ ListInv /\ [Next]_vars => TypeOK'
<1> SUFFICES ASSUME TypeOK, Numbered, ListInv, [Next]_vars PROVE TypeOK'
  OBVIOUS
<1> USE ConnFacts DEF TypeOK
<1>1. CASE Accept
  <2>1. accepted + 1 \in Conn /\ accepted + 1 \in 0 .. MaxConn BY <1>1 DEF Accept, Conn
  <2> QED BY <1>1, <2>1 DEF Accept
<1>2. CASE Register BY <1>2 DEF Register, Numbered
<1>3. CASE Spawn
  <2> DEFINE W == [st : {"none", "spawned", "serve", "quit", "bye", "closed", "mark", "done"},
                   p : Conn \cup {None}, fd : Fd \cup {-1}, file : Fd \cup {-1}]
             r == [worker[accepted] EXCEPT !.st = "spawned"]
  <2>2. worker' \in [Conn -> W]
    <3>1. worker \in [Conn -> W] OBVIOUS
    <3>2. accepted \in Conn => r \in W BY <3>1
    <3>3. worker' = [worker EXCEPT ![accepted] = r] BY <1>3 DEF Spawn
    <3> HIDE DEF W, r
    <3> QED BY <3>1, <3>2, <3>3
  <2> QED BY <1>3, <2>2 DEF Spawn
<1>4. CASE LockMain BY <1>4 DEF LockMain
<1>5. CASE Clean BY <1>5 DEF Clean, StillOpen, Nobody
<1>6. ASSUME NEW w \in Conn, Start(w) PROVE TypeOK'
  <2>1. PICK p \in Conn \cup {None} : Enter(w, p) BY <1>6, StartFacts
  <2>2. (IF p = None THEN -1 ELSE ptr[p]) \in Fd \cup {-1} OBVIOUS
  <2> QED BY <1>6, <2>1, <2>2 DEF Start, Enter
<1>7. ASSUME NEW w \in Conn, OpenFile(w) PROVE TypeOK'
  <2>1. PICK f \in Fd :
          owner' = [owner EXCEPT ![f] = Mailbox] /\ worker' = [worker EXCEPT ![w].file = f]
    BY <1>7 DEF OpenFile
  <2> QED BY <1>7, <2>1 DEF OpenFile
<1>8. ASSUME NEW w \in Conn, CloseFile(w) PROVE TypeOK' BY <1>8 DEF CloseFile
<1>9. ASSUME NEW w \in Conn, ReadQuit(w) PROVE TypeOK' BY <1>9 DEF ReadQuit
<1>10. ASSUME NEW w \in Conn, Goodbye(w) PROVE TypeOK'
  <2>1. Told(worker[w].fd, "goodbye") \in [Conn -> Line] BY ToldFacts DEF Line
  <2> QED BY <1>10, <2>1 DEF Goodbye
<1>11. ASSUME NEW w \in Conn, CloseFd(w) PROVE TypeOK' BY <1>11 DEF CloseFd
<1>12. ASSUME NEW w \in Conn, BrokenPipe(w) PROVE TypeOK' BY <1>12 DEF BrokenPipe
<1>13. ASSUME NEW w \in Conn, LockToMark(w) PROVE TypeOK' BY <1>13 DEF LockToMark
<1>14. ASSUME NEW w \in Conn, Mark(w) PROVE TypeOK' BY <1>14 DEF Mark, Marked, Nobody
<1>15. ASSUME NEW c \in Conn, HangUp(c) PROVE TypeOK' BY <1>15 DEF HangUp, Line
<1>16. ASSUME NEW c \in Conn, Stall(c) PROVE TypeOK' BY <1>16 DEF Stall
<1>17. CASE Signal BY <1>17 DEF Signal
<1>18. CASE StopClean BY <1>18 DEF StopClean, StillOpen
<1>19. CASE StopSkip BY <1>19 DEF StopSkip, AfterClosed
<1>20. CASE StopTell
  <2>1. Told(ptr[First(rest)], "shutdown") \in [Conn -> Line] BY ToldFacts DEF Line
  <2> QED BY <1>20, <2>1 DEF StopTell
<1>21. CASE StopClose
  <2>1. First(rest) \in Conn BY <1>21, FirstInList DEF StopClose, ListInv
  <2> QED BY <1>21, <2>1 DEF StopClose
<1>22. CASE Exit BY <1>22 DEF Exit
<1>23. CASE UNCHANGED vars BY <1>23 DEF vars
<1> QED
  BY <1>1, <1>2, <1>3, <1>4, <1>5, <1>6, <1>7, <1>8, <1>9, <1>10, <1>11, <1>12,
     <1>13, <1>14, <1>15, <1>16, <1>17, <1>18, <1>19, <1>20, <1>21, <1>22, <1>23
  DEF Next, Loop, Thread, Proceed, Client, Stop

LEMMA NumberedStep == TypeOK /\ Numbered /\ [Next]_vars => Numbered'
<1> SUFFICES ASSUME TypeOK, Numbered, [Next]_vars PROVE Numbered'
  OBVIOUS
<1> USE ConnFacts DEF TypeOK, Numbered, Registered
<1>1. CASE Accept
  <2>1. PICK f \in Fd : owner' = [owner EXCEPT ![f] = accepted + 1] BY <1>1 DEF Accept
  <2>2. accepted \in Nat /\ accepted' = accepted + 1 /\ accepted + 1 \in Conn
    BY <1>1 DEF Accept, Conn
  <2>3. \A g \in Fd : owner[g] \in Int BY DEF None, Mailbox
  <2>4. \A g \in Fd : owner'[g] <= accepted + 1 BY <2>1, <2>2, <2>3
  <2>5. \A c \in sockets \cup rest : Registered(c)' BY <1>1, <2>2 DEF Accept
  <2>6. \A w \in Conn : worker[w].p \in Int BY DEF None
  <2> QED BY <1>1, <2>2, <2>4, <2>5, <2>6 DEF Accept
<1>2. CASE Register BY <1>2 DEF Register
<1>3. CASE Spawn BY <1>3 DEF Spawn
<1>4. CASE LockMain BY <1>4 DEF LockMain
<1>5. CASE Clean BY <1>5 DEF Clean, StillOpen
<1>6. ASSUME NEW w \in Conn, Start(w) PROVE Numbered'
  <2>1. PICK p \in Conn \cup {None} : p <= accepted /\ Enter(w, p)
    BY <1>6, StartFacts
  <2> QED BY <1>6, <2>1 DEF Start, Enter
<1>7. ASSUME NEW w \in Conn, OpenFile(w) PROVE Numbered'
  <2>1. Mailbox <= accepted BY DEF Mailbox
  <2> QED BY <1>7, <2>1 DEF OpenFile
<1>8. ASSUME NEW w \in Conn, CloseFile(w) PROVE Numbered'
  <2>1. None <= accepted BY DEF None
  <2> QED BY <1>8, <2>1 DEF CloseFile
<1>9. ASSUME NEW w \in Conn, ReadQuit(w) PROVE Numbered' BY <1>9 DEF ReadQuit
<1>10. ASSUME NEW w \in Conn, Goodbye(w) PROVE Numbered' BY <1>10 DEF Goodbye
<1>11. ASSUME NEW w \in Conn, CloseFd(w) PROVE Numbered'
  <2>1. None <= accepted BY DEF None
  <2> QED BY <1>11, <2>1 DEF CloseFd
<1>12. ASSUME NEW w \in Conn, BrokenPipe(w) PROVE Numbered' BY <1>12 DEF BrokenPipe
<1>13. ASSUME NEW w \in Conn, LockToMark(w) PROVE Numbered' BY <1>13 DEF LockToMark
<1>14. ASSUME NEW w \in Conn, Mark(w) PROVE Numbered' BY <1>14 DEF Mark
<1>15. ASSUME NEW c \in Conn, HangUp(c) PROVE Numbered' BY <1>15 DEF HangUp
<1>16. ASSUME NEW c \in Conn, Stall(c) PROVE Numbered' BY <1>16 DEF Stall
<1>17. CASE Signal BY <1>17 DEF Signal
<1>18. CASE StopClean BY <1>18 DEF StopClean, StillOpen
<1>19. CASE StopSkip BY <1>19 DEF StopSkip, AfterClosed
<1>20. CASE StopTell BY <1>20 DEF StopTell
<1>21. CASE StopClose
  <2>1. None <= accepted BY DEF None
  <2> QED BY <1>21, <2>1 DEF StopClose
<1>22. CASE Exit BY <1>22 DEF Exit
<1>23. CASE UNCHANGED vars BY <1>23 DEF vars
<1> QED
  BY <1>1, <1>2, <1>3, <1>4, <1>5, <1>6, <1>7, <1>8, <1>9, <1>10, <1>11, <1>12,
     <1>13, <1>14, <1>15, <1>16, <1>17, <1>18, <1>19, <1>20, <1>21, <1>22, <1>23
  DEF Next, Loop, Thread, Proceed, Client, Stop

LEMMA ListStep == ListInv /\ [Next]_vars => ListInv'
<1> SUFFICES ASSUME ListInv, [Next]_vars PROVE ListInv'
  OBVIOUS
<1> USE DEF ListInv
<1>1. CASE Accept BY <1>1 DEF Accept
<1>2. CASE Register BY <1>2 DEF Register
<1>3. CASE Spawn BY <1>3 DEF Spawn
<1>4. CASE LockMain BY <1>4 DEF LockMain
<1>5. CASE Clean BY <1>5 DEF Clean
<1>6. ASSUME NEW w \in Conn, Start(w) PROVE ListInv' BY <1>6 DEF Start
<1>7. ASSUME NEW w \in Conn, OpenFile(w) PROVE ListInv' BY <1>7 DEF OpenFile
<1>8. ASSUME NEW w \in Conn, CloseFile(w) PROVE ListInv' BY <1>8 DEF CloseFile
<1>9. ASSUME NEW w \in Conn, ReadQuit(w) PROVE ListInv' BY <1>9 DEF ReadQuit
<1>10. ASSUME NEW w \in Conn, Goodbye(w) PROVE ListInv' BY <1>10 DEF Goodbye
<1>11. ASSUME NEW w \in Conn, CloseFd(w) PROVE ListInv' BY <1>11 DEF CloseFd
<1>12. ASSUME NEW w \in Conn, BrokenPipe(w) PROVE ListInv' BY <1>12 DEF BrokenPipe
<1>13. ASSUME NEW w \in Conn, LockToMark(w) PROVE ListInv' BY <1>13 DEF LockToMark
<1>14. ASSUME NEW w \in Conn, Mark(w) PROVE ListInv' BY <1>14 DEF Mark
<1>15. ASSUME NEW c \in Conn, HangUp(c) PROVE ListInv' BY <1>15 DEF HangUp
<1>16. ASSUME NEW c \in Conn, Stall(c) PROVE ListInv' BY <1>16 DEF Stall
<1>17. CASE Signal BY <1>17 DEF Signal
<1>18. CASE StopClean BY <1>18 DEF StopClean
<1>19. CASE StopSkip BY <1>19 DEF StopSkip
<1>20. CASE StopTell BY <1>20 DEF StopTell
<1>21. CASE StopClose BY <1>21 DEF StopClose
<1>22. CASE Exit BY <1>22 DEF Exit
<1>23. CASE UNCHANGED vars BY <1>23 DEF vars
<1> QED
  BY <1>1, <1>2, <1>3, <1>4, <1>5, <1>6, <1>7, <1>8, <1>9, <1>10, <1>11, <1>12,
     <1>13, <1>14, <1>15, <1>16, <1>17, <1>18, <1>19, <1>20, <1>21, <1>22, <1>23
  DEF Next, Loop, Thread, Proceed, Client, Stop

LEMMA OpenStep ==
  TypeOK /\ Numbered /\ OpenInv /\ ThreadInv /\ [Next]_vars => OpenInv'
<1> SUFFICES ASSUME TypeOK, Numbered, OpenInv, ThreadInv, [Next]_vars PROVE OpenInv'
  OBVIOUS
<1> USE ConnFacts DEF TypeOK, Numbered, OpenInv, Registered
<1>1. CASE Accept
  <2>1. PICK f \in Fd :
          /\ owner[f] = None
          /\ owner' = [owner EXCEPT ![f] = accepted + 1]
          /\ ptr' = [ptr EXCEPT ![accepted + 1] = f]
    BY <1>1 DEF Accept, NextFree
  <2>2. accepted + 1 \in Conn /\ accepted' = accepted + 1 /\ main' = "register"
    BY <1>1 DEF Accept, Conn
  <2>3. \A g \in Fd : g # f => owner'[g] = owner[g] /\ owner[g] # accepted + 1
    BY <2>1, <2>2 DEF None, Mailbox
  <2>4. \A g \in Fd : owner'[g] \in Conn => ptr'[owner'[g]] = g
    BY <2>1, <2>2, <2>3
  <2>5. \A g \in Fd : owner[g] \in Conn => owner[g] \in sockets BY <1>1 DEF Accept
  <2>6. \A g \in Fd : owner'[g] \in Conn /\ Registered(owner[g])' => owner'[g] \in sockets
    BY <2>1, <2>2, <2>3, <2>5
  <2> QED BY <1>1, <2>4, <2>6 DEF Accept
<1>2. CASE Register BY <1>2 DEF Register
<1>3. CASE Spawn BY <1>3 DEF Spawn
<1>4. CASE LockMain BY <1>4 DEF LockMain
<1>5. CASE Clean BY <1>5 DEF Clean, StillOpen
<1>6. ASSUME NEW w \in Conn, Start(w) PROVE OpenInv' BY <1>6 DEF Start
<1>7. ASSUME NEW w \in Conn, OpenFile(w) PROVE OpenInv' BY <1>7 DEF OpenFile
<1>8. ASSUME NEW w \in Conn, CloseFile(w) PROVE OpenInv' BY <1>8 DEF CloseFile
<1>9. ASSUME NEW w \in Conn, ReadQuit(w) PROVE OpenInv' BY <1>9 DEF ReadQuit
<1>10. ASSUME NEW w \in Conn, Goodbye(w) PROVE OpenInv' BY <1>10 DEF Goodbye
<1>11. ASSUME NEW w \in Conn, CloseFd(w) PROVE OpenInv' BY <1>11 DEF CloseFd
<1>12. ASSUME NEW w \in Conn, BrokenPipe(w) PROVE OpenInv' BY <1>12 DEF BrokenPipe
<1>13. ASSUME NEW w \in Conn, LockToMark(w) PROVE OpenInv' BY <1>13 DEF LockToMark
<1>14. ASSUME NEW w \in Conn, Mark(w) PROVE OpenInv' BY <1>14 DEF Mark, Marked, ThreadInv
<1>15. ASSUME NEW c \in Conn, HangUp(c) PROVE OpenInv' BY <1>15 DEF HangUp
<1>16. ASSUME NEW c \in Conn, Stall(c) PROVE OpenInv' BY <1>16 DEF Stall
<1>17. CASE Signal BY <1>17 DEF Signal
<1>18. CASE StopClean BY <1>18 DEF StopClean, StillOpen
<1>19. CASE StopSkip BY <1>19 DEF StopSkip
<1>20. CASE StopTell BY <1>20 DEF StopTell
<1>21. CASE StopClose BY <1>21 DEF StopClose
<1>22. CASE Exit BY <1>22 DEF Exit
<1>23. CASE UNCHANGED vars BY <1>23 DEF vars
<1> QED
  BY <1>1, <1>2, <1>3, <1>4, <1>5, <1>6, <1>7, <1>8, <1>9, <1>10, <1>11, <1>12,
     <1>13, <1>14, <1>15, <1>16, <1>17, <1>18, <1>19, <1>20, <1>21, <1>22, <1>23
  DEF Next, Loop, Thread, Proceed, Client, Stop

LEMMA ThreadStep ==
  TypeOK /\ Numbered /\ OpenInv /\ ThreadInv /\ [Next]_vars => ThreadInv'
<1> SUFFICES ASSUME TypeOK, Numbered, OpenInv, ThreadInv, [Next]_vars PROVE ThreadInv'
  OBVIOUS
<1> USE ConnFacts DEF TypeOK, Numbered, OpenInv, ThreadInv, Serving
<1>1. CASE Accept BY <1>1 DEF Accept
<1>2. CASE Register BY <1>2 DEF Register
<1>3. CASE Spawn BY <1>3 DEF Spawn
<1>4. CASE LockMain BY <1>4 DEF LockMain
<1>5. CASE Clean BY <1>5 DEF Clean
<1>6. ASSUME NEW w \in Conn, Start(w) PROVE ThreadInv'
  <2>1. PICK p \in Conn \cup {None} : Enter(w, p) BY <1>6, StartFacts
  <2> QED BY <1>6, <2>1 DEF Start, Enter
<1>7. ASSUME NEW w \in Conn, OpenFile(w) PROVE ThreadInv' BY <1>7 DEF OpenFile
<1>8. ASSUME NEW w \in Conn, CloseFile(w) PROVE ThreadInv' BY <1>8 DEF CloseFile
<1>9. ASSUME NEW w \in Conn, ReadQuit(w) PROVE ThreadInv' BY <1>9 DEF ReadQuit
<1>10. ASSUME NEW w \in Conn, Goodbye(w) PROVE ThreadInv' BY <1>10 DEF Goodbye
<1>11. ASSUME NEW w \in Conn, CloseFd(w) PROVE ThreadInv' BY <1>11 DEF CloseFd
<1>12. ASSUME NEW w \in Conn, BrokenPipe(w) PROVE ThreadInv' BY <1>12 DEF BrokenPipe
<1>13. ASSUME NEW w \in Conn, LockToMark(w) PROVE ThreadInv' BY <1>13 DEF LockToMark
<1>14. ASSUME NEW w \in Conn, Mark(w) PROVE ThreadInv' BY <1>14 DEF Mark
<1>15. ASSUME NEW c \in Conn, HangUp(c) PROVE ThreadInv' BY <1>15 DEF HangUp
<1>16. ASSUME NEW c \in Conn, Stall(c) PROVE ThreadInv' BY <1>16 DEF Stall
<1>17. CASE Signal BY <1>17 DEF Signal
<1>18. CASE StopClean BY <1>18 DEF StopClean
<1>19. CASE StopSkip BY <1>19 DEF StopSkip
<1>20. CASE StopTell BY <1>20 DEF StopTell
<1>21. CASE StopClose BY <1>21 DEF StopClose
<1>22. CASE Exit BY <1>22 DEF Exit
<1>23. CASE UNCHANGED vars BY <1>23 DEF vars
<1> QED
  BY <1>1, <1>2, <1>3, <1>4, <1>5, <1>6, <1>7, <1>8, <1>9, <1>10, <1>11, <1>12,
     <1>13, <1>14, <1>15, <1>16, <1>17, <1>18, <1>19, <1>20, <1>21, <1>22, <1>23
  DEF Next, Loop, Thread, Proceed, Client, Stop

(* A thread that was late stays one.                                       *)
LEMMA LatenessStays ==
  ASSUME TypeOK, Numbered, [Next]_vars, NoneLate'
  PROVE  NoneLate
<1> USE ConnFacts DEF TypeOK, NoneLate, Late
<1>1. CASE Accept BY <1>1 DEF Accept
<1>2. CASE Register BY <1>2 DEF Register
<1>3. CASE Spawn
  <2>1. accepted \in Conn /\ worker[accepted].st = "none" BY <1>3 DEF Spawn, Numbered
  <2> QED BY <1>3, <2>1 DEF Spawn
<1>4. CASE LockMain BY <1>4 DEF LockMain
<1>5. CASE Clean BY <1>5 DEF Clean
<1>6. ASSUME NEW w \in Conn, Start(w) PROVE NoneLate
  <2>1. PICK p \in Conn \cup {None} : Enter(w, p) BY <1>6, StartFacts
  <2> QED BY <1>6, <2>1 DEF Start, Enter
<1>7. ASSUME NEW w \in Conn, OpenFile(w) PROVE NoneLate BY <1>7 DEF OpenFile
<1>8. ASSUME NEW w \in Conn, CloseFile(w) PROVE NoneLate BY <1>8 DEF CloseFile
<1>9. ASSUME NEW w \in Conn, ReadQuit(w) PROVE NoneLate BY <1>9 DEF ReadQuit
<1>10. ASSUME NEW w \in Conn, Goodbye(w) PROVE NoneLate BY <1>10 DEF Goodbye
<1>11. ASSUME NEW w \in Conn, CloseFd(w) PROVE NoneLate BY <1>11 DEF CloseFd
<1>12. ASSUME NEW w \in Conn, BrokenPipe(w) PROVE NoneLate BY <1>12 DEF BrokenPipe
<1>13. ASSUME NEW w \in Conn, LockToMark(w) PROVE NoneLate BY <1>13 DEF LockToMark
<1>14. ASSUME NEW w \in Conn, Mark(w) PROVE NoneLate BY <1>14 DEF Mark
<1>15. ASSUME NEW c \in Conn, HangUp(c) PROVE NoneLate BY <1>15 DEF HangUp
<1>16. ASSUME NEW c \in Conn, Stall(c) PROVE NoneLate BY <1>16 DEF Stall
<1>17. CASE Signal BY <1>17 DEF Signal
<1>18. CASE StopClean BY <1>18 DEF StopClean
<1>19. CASE StopSkip BY <1>19 DEF StopSkip
<1>20. CASE StopTell BY <1>20 DEF StopTell
<1>21. CASE StopClose BY <1>21 DEF StopClose
<1>22. CASE Exit BY <1>22 DEF Exit
<1>23. CASE UNCHANGED vars BY <1>23 DEF vars
<1> QED
  BY <1>1, <1>2, <1>3, <1>4, <1>5, <1>6, <1>7, <1>8, <1>9, <1>10, <1>11, <1>12,
     <1>13, <1>14, <1>15, <1>16, <1>17, <1>18, <1>19, <1>20, <1>21, <1>22, <1>23
  DEF Next, Loop, Thread, Proceed, Client, Stop

(* What a step does to the parts of OnTimeInv when no thread was late.     *)
LEMMA ConnStep ==
  ASSUME TypeOK, Numbered, OpenInv, ThreadInv, ConnInv, FileInv,
         [Next]_vars, NoneLate, NoneLate'
  PROVE  ConnInv'
<1> USE ConnFacts DEF TypeOK
<1> USE DEF ConnInv, Open, Serving
<1>a. \A c \in Conn : Serving(c) => worker[c].p = c /\ c <= accepted
  BY DEF NoneLate, Late, Numbered
<1>1. CASE Accept
  <2>1. PICK f \in Fd :
          /\ owner[f] = None
          /\ owner' = [owner EXCEPT ![f] = accepted + 1]
          /\ ptr' = [ptr EXCEPT ![accepted + 1] = f]
    BY <1>1 DEF Accept, NextFree
  <2>2. /\ accepted + 1 \in Conn /\ accepted' = accepted + 1
        /\ worker' = worker /\ handler = "off"
    BY <1>1 DEF Accept, Conn
  <2>3. owner'[f] = accepted + 1 /\ \A g \in Fd : g # f => owner'[g] = owner[g] BY <2>1
  <2>4. \A c \in Conn : c <= accepted + 1 <=> c <= accepted \/ c = accepted + 1 BY <2>2
  <2>5. \A c \in Conn : c <= accepted => c # accepted + 1 BY <2>2
  <2>6. \A c \in Conn : c <= accepted /\ worker[c].st \in {"none", "spawned"} =>
          ptr[c] # f /\ ptr'[c] = ptr[c]
    BY <2>1, <2>2, <2>5 DEF OpenInv
  <2>7. \A c \in Conn : Serving(c) => worker[c].fd # f
    BY <1>a, <2>1, <2>2 DEF ThreadInv
  <2>8. \A c \in Conn : c <= accepted /\ Open(c) => Open(c)'
    BY <2>1, <2>3
  <2>9. \E g \in Fd : owner'[g] = accepted + 1 BY <2>3
  <2>10. ptr'[accepted + 1] = f BY <2>1, <2>2
  <2>11. \A c \in Conn :
          c <= accepted' /\ (worker'[c].st \in {"none", "spawned"} \/ Serving(c)) => Open(c)'
    BY <2>2, <2>4, <2>8, <2>9
  <2>12. \A c \in Conn : c <= accepted' /\ worker'[c].st \in {"none", "spawned"} =>
          ptr'[c] \in Fd /\ owner'[ptr'[c]] \in {c, None, Mailbox}
    BY <2>2, <2>3, <2>4, <2>6, <2>10
  <2>13. \A c \in Conn : Serving(c) =>
          worker'[c].fd \in Fd /\ owner'[worker'[c].fd] \in {c, None, Mailbox}
    BY <2>2, <2>3, <2>7
  <2> QED BY <2>2, <2>11, <2>12, <2>13
<1>2. CASE Register BY <1>2 DEF Register
<1>3. CASE Spawn BY <1>3 DEF Spawn, Numbered
<1>4. CASE LockMain BY <1>4 DEF LockMain
<1>5. CASE Clean BY <1>5 DEF Clean
<1>6. ASSUME NEW w \in Conn, Start(w) PROVE ConnInv'
  <2>1. PICK p \in Conn \cup {None} : Enter(w, p) BY <1>6, StartFacts
  <2>2. w <= accepted BY <1>6 DEF Start, Numbered
  <2>3. p = w BY <1>6, <2>1 DEF NoneLate, Late, Enter
  <2>4. /\ worker' = [worker EXCEPT ![w] = [st |-> "serve", p |-> w, fd |-> ptr[w], file |-> -1]]
        /\ UNCHANGED <<accepted, owner, ptr, handler>>
    BY <1>6, <2>1, <2>3 DEF Start, Enter
  <2> QED BY <1>6, <2>2, <2>4 DEF Start
<1>7. ASSUME NEW w \in Conn, OpenFile(w) PROVE ConnInv'
  <2>1. PICK f \in Fd :
          /\ owner[f] = None
          /\ owner' = [owner EXCEPT ![f] = Mailbox]
          /\ worker' = [worker EXCEPT ![w].file = f]
    BY <1>7 DEF OpenFile, NextFree
  <2>2. \A c \in Conn : Open(c) => Open(c)' BY <2>1
  <2> QED BY <1>7, <2>1, <2>2 DEF OpenFile
<1>8. ASSUME NEW w \in Conn, CloseFile(w) PROVE ConnInv'
  <2>1. /\ owner[worker[w].file] \notin Conn /\ worker[w].file \in Fd
        /\ owner' = [owner EXCEPT ![worker[w].file] = None]
        /\ worker' = [worker EXCEPT ![w].file = -1]
    BY <1>8 DEF CloseFile, FileInv, HasFile
  <2>2. \A c \in Conn : Open(c) => Open(c)' BY <2>1
  <2> QED BY <1>8, <2>1, <2>2 DEF CloseFile
<1>9. ASSUME NEW w \in Conn, ReadQuit(w) PROVE ConnInv' BY <1>9 DEF ReadQuit
<1>10. ASSUME NEW w \in Conn, Goodbye(w) PROVE ConnInv' BY <1>10 DEF Goodbye
<1>11. ASSUME NEW w \in Conn, CloseFd(w) PROVE ConnInv'
  <2>1. /\ worker[w].fd \in Fd /\ owner[worker[w].fd] \in {w, None, Mailbox}
        /\ owner' = [owner EXCEPT ![worker[w].fd] = None]
        /\ worker' = [worker EXCEPT ![w].st = "closed"]
        /\ UNCHANGED <<accepted, ptr, handler>>
    BY <1>11 DEF CloseFd
  <2>2. \A c \in Conn : c # w /\ Open(c) => Open(c)' BY <2>1
  <2> QED BY <2>1, <2>2
<1>12. ASSUME NEW w \in Conn, BrokenPipe(w) PROVE ConnInv' BY <1>12 DEF BrokenPipe
<1>13. ASSUME NEW w \in Conn, LockToMark(w) PROVE ConnInv' BY <1>13 DEF LockToMark
<1>14. ASSUME NEW w \in Conn, Mark(w) PROVE ConnInv'
  <2>1. worker[w].p \in {w, None} BY <1>14 DEF Mark, NoneLate, Late
  <2>2. \A c \in Conn : c # w => ptr'[c] = ptr[c] BY <1>14, <2>1 DEF Mark, Marked
  <2> QED BY <1>14, <2>2 DEF Mark
<1>15. ASSUME NEW c \in Conn, HangUp(c) PROVE ConnInv' BY <1>15 DEF HangUp
<1>16. ASSUME NEW c \in Conn, Stall(c) PROVE ConnInv' BY <1>16 DEF Stall
<1>17. CASE Signal BY <1>17 DEF Signal
<1>18. CASE StopClean BY <1>18 DEF StopClean
<1>19. CASE StopSkip BY <1>19 DEF StopSkip
<1>20. CASE StopTell BY <1>20 DEF StopTell
<1>21. CASE StopClose
  <2>1. handler = "close" /\ handler' = "tell" /\ UNCHANGED <<accepted, ptr, worker>>
    BY <1>21 DEF StopClose
  <2>2. \A f \in Fd : owner'[f] \in {owner[f], None} BY <1>21 DEF StopClose
  <2> QED BY <2>1, <2>2
<1>22. CASE Exit BY <1>22 DEF Exit
<1>23. CASE UNCHANGED vars BY <1>23 DEF vars
<1> QED
  BY <1>1, <1>2, <1>3, <1>4, <1>5, <1>6, <1>7, <1>8, <1>9, <1>10, <1>11, <1>12,
     <1>13, <1>14, <1>15, <1>16, <1>17, <1>18, <1>19, <1>20, <1>21, <1>22, <1>23
  DEF Next, Loop, Thread, Proceed, Client, Stop

(* Until the signal, the descriptor of a thread is its connection's.       *)
LEMMA OwnFd ==
  ASSUME TypeOK, Numbered, ThreadInv, ConnInv, NoneLate, handler = "off",
         NEW w \in Conn, Serving(w)
  PROVE  worker[w].fd \in Fd /\ owner[worker[w].fd] = w
<1>1. worker[w].p = w /\ w <= accepted BY DEF NoneLate, Late, Serving, Numbered
<1>2. PICK f \in Fd : owner[f] = w BY <1>1 DEF ConnInv, Open
<1> QED BY <1>1, <1>2, ConnFacts DEF ThreadInv

LEMMA FileStep ==
  ASSUME TypeOK, Numbered, ThreadInv, ConnInv, FileInv,
         [Next]_vars, NoneLate, NoneLate'
  PROVE  FileInv'
<1> USE ConnFacts DEF TypeOK
<1> USE DEF FileInv, HasFile
<1>1. CASE Accept
  <2>1. PICK f \in Fd : owner[f] = None /\ owner' = [owner EXCEPT ![f] = accepted + 1]
    BY <1>1 DEF Accept, NextFree
  <2> QED BY <1>1, <2>1 DEF Accept
<1>2. CASE Register BY <1>2 DEF Register
<1>3. CASE Spawn BY <1>3 DEF Spawn
<1>4. CASE LockMain BY <1>4 DEF LockMain
<1>5. CASE Clean BY <1>5 DEF Clean
<1>6. ASSUME NEW w \in Conn, Start(w) PROVE FileInv'
  <2>1. PICK p \in Conn \cup {None} : Enter(w, p) BY <1>6, StartFacts
  <2> QED BY <1>6, <2>1 DEF Start, Enter
<1>7. ASSUME NEW w \in Conn, OpenFile(w) PROVE FileInv'
  <2>1. PICK f \in Fd :
          /\ owner[f] = None
          /\ owner' = [owner EXCEPT ![f] = Mailbox]
          /\ worker' = [worker EXCEPT ![w].file = f]
    BY <1>7 DEF OpenFile, NextFree
  <2> QED BY <1>7, <2>1 DEF OpenFile
<1>8. ASSUME NEW w \in Conn, CloseFile(w) PROVE FileInv' BY <1>8 DEF CloseFile
<1>9. ASSUME NEW w \in Conn, ReadQuit(w) PROVE FileInv' BY <1>9 DEF ReadQuit
<1>10. ASSUME NEW w \in Conn, Goodbye(w) PROVE FileInv' BY <1>10 DEF Goodbye
<1>11. ASSUME NEW w \in Conn, CloseFd(w) PROVE FileInv'
  <2>1. worker[w].fd \in Fd /\ owner[worker[w].fd] \in {w, None, Mailbox}
    BY <1>11 DEF CloseFd, ConnInv, Serving
  <2>2. handler = "off" => owner[worker[w].fd] = w
    BY <1>11, OwnFd DEF CloseFd, Serving
  <2>3. /\ owner' = [owner EXCEPT ![worker[w].fd] = None]
        /\ handler' = handler /\ \A v \in Conn : worker'[v].file = worker[v].file
    BY <1>11 DEF CloseFd
  <2> QED BY <2>1, <2>2, <2>3
<1>12. ASSUME NEW w \in Conn, BrokenPipe(w) PROVE FileInv' BY <1>12 DEF BrokenPipe
<1>13. ASSUME NEW w \in Conn, LockToMark(w) PROVE FileInv' BY <1>13 DEF LockToMark
<1>14. ASSUME NEW w \in Conn, Mark(w) PROVE FileInv' BY <1>14 DEF Mark
<1>15. ASSUME NEW c \in Conn, HangUp(c) PROVE FileInv' BY <1>15 DEF HangUp
<1>16. ASSUME NEW c \in Conn, Stall(c) PROVE FileInv' BY <1>16 DEF Stall
<1>17. CASE Signal BY <1>17 DEF Signal
<1>18. CASE StopClean BY <1>18 DEF StopClean
<1>19. CASE StopSkip BY <1>19 DEF StopSkip
<1>20. CASE StopTell BY <1>20 DEF StopTell
<1>21. CASE StopClose
  <2>1. \A f \in Fd : owner'[f] \in {owner[f], None} BY <1>21 DEF StopClose
  <2> QED BY <1>21, <2>1 DEF StopClose
<1>22. CASE Exit BY <1>22 DEF Exit
<1>23. CASE UNCHANGED vars BY <1>23 DEF vars
<1> QED
  BY <1>1, <1>2, <1>3, <1>4, <1>5, <1>6, <1>7, <1>8, <1>9, <1>10, <1>11, <1>12,
     <1>13, <1>14, <1>15, <1>16, <1>17, <1>18, <1>19, <1>20, <1>21, <1>22, <1>23
  DEF Next, Loop, Thread, Proceed, Client, Stop

LEMMA TellStep ==
  ASSUME TypeOK, Numbered, OpenInv, ListInv, ConnInv, FileInv, TellInv,
         [Next]_vars, NoneLate, NoneLate'
  PROVE  TellInv'
<1> USE ConnFacts DEF TypeOK, Registered
<1> USE DEF TellInv, Open
<1>1. CASE Accept
  <2>1. PICK f \in Fd : owner[f] = None /\ owner' = [owner EXCEPT ![f] = accepted + 1]
    BY <1>1 DEF Accept, NextFree
  <2>2. owner'[f] = accepted + 1 /\ \A g \in Fd : g # f => owner'[g] = owner[g] BY <2>1
  <2>3. \A c \in Conn : c <= accepted + 1 /\ last[c] = "none" => Open(c)'
    BY <2>1, <2>2
  <2>4. /\ accepted' = accepted + 1 /\ last' = last /\ worker' = worker
        /\ handler = "off" /\ handler' = "off"
    BY <1>1 DEF Accept
  <2>5. \A c \in Conn : worker[c].st = "bye" => c <= accepted /\ worker[c].fd \in Fd
    BY DEF Numbered, ConnInv, Serving
  <2>6. \A c \in Conn : c <= accepted => c # accepted + 1 OBVIOUS
  <2> QED BY <2>2, <2>3, <2>4, <2>5, <2>6
<1>2. CASE Register BY <1>2 DEF Register
<1>3. CASE Spawn BY <1>3 DEF Spawn
<1>4. CASE LockMain BY <1>4 DEF LockMain
<1>5. CASE Clean BY <1>5 DEF Clean
<1>6. ASSUME NEW w \in Conn, Start(w) PROVE TellInv'
  <2>1. PICK p \in Conn \cup {None} : Enter(w, p) BY <1>6, StartFacts
  <2> QED BY <1>6, <2>1 DEF Start, Enter
<1>7. ASSUME NEW w \in Conn, OpenFile(w) PROVE TellInv'
  <2>1. PICK f \in Fd :
          /\ owner[f] = None
          /\ owner' = [owner EXCEPT ![f] = Mailbox]
          /\ worker' = [worker EXCEPT ![w].file = f]
    BY <1>7 DEF OpenFile, NextFree
  <2>2. \A c \in Conn : Open(c) => Open(c)' BY <2>1
  <2>3. \A g \in Fd : owner'[g] \in Conn => owner'[g] = owner[g] BY <2>1
  <2>4. /\ rest' = rest /\ handler' = handler /\ ptr' = ptr /\ last' = last
        /\ accepted' = accepted /\ main' = main /\ First(rest)' = First(rest)
    BY <1>7 DEF OpenFile, First
  <2>5. \A c \in Conn : worker'[c].st = "bye" =>
          worker[c].st = "bye" /\ worker'[c].fd = worker[c].fd /\ worker[c].fd \in Fd
    BY <2>1 DEF ConnInv, Serving
  <2> QED BY <2>2, <2>3, <2>4, <2>5
<1>8. ASSUME NEW w \in Conn, CloseFile(w) PROVE TellInv'
  <2>1. /\ owner[worker[w].file] \notin Conn /\ worker[w].file \in Fd
        /\ owner' = [owner EXCEPT ![worker[w].file] = None]
        /\ worker' = [worker EXCEPT ![w].file = -1]
    BY <1>8 DEF CloseFile, FileInv, HasFile
  <2>2. \A c \in Conn : Open(c) => Open(c)' BY <2>1
  <2>3. \A g \in Fd : owner'[g] \in Conn => owner'[g] = owner[g] BY <2>1
  <2>4. /\ rest' = rest /\ handler' = handler /\ ptr' = ptr /\ last' = last
        /\ accepted' = accepted /\ main' = main /\ First(rest)' = First(rest)
    BY <1>8 DEF CloseFile, First
  <2>5. \A c \in Conn : worker'[c].st = "bye" =>
          worker[c].st = "bye" /\ worker'[c].fd = worker[c].fd /\ worker[c].fd \in Fd
    BY <2>1 DEF ConnInv, Serving
  <2> QED BY <2>2, <2>3, <2>4, <2>5
<1>9. ASSUME NEW w \in Conn, ReadQuit(w) PROVE TellInv' BY <1>9 DEF ReadQuit
<1>10. ASSUME NEW w \in Conn, Goodbye(w) PROVE TellInv'
  <2>1. /\ \A c \in Conn : last'[c] = "none" => last[c] = "none"
        /\ worker[w].fd \in Fd /\ owner[worker[w].fd] \in Conn =>
             last'[owner[worker[w].fd]] # "none"
    BY <1>10, ToldFacts DEF Goodbye, Line
  <2>2. /\ worker[w].fd \in Fd
        /\ worker' = [worker EXCEPT ![w].st = "bye"]
    BY <1>10 DEF Goodbye, ConnInv, Serving
  <2>3. /\ rest' = rest /\ handler' = handler /\ ptr' = ptr /\ owner' = owner
        /\ accepted' = accepted /\ main' = main /\ First(rest)' = First(rest)
    BY <1>10 DEF Goodbye, First
  <2>4. rest # {} => First(rest) \in Conn BY FirstInList
  <2> QED BY <2>1, <2>2, <2>3, <2>4 DEF ListInv
<1>11. ASSUME NEW w \in Conn, CloseFd(w) PROVE TellInv'
  <2>1. /\ worker[w].fd \in Fd /\ owner[worker[w].fd] \in {w, None, Mailbox}
        /\ owner[worker[w].fd] = w => last[w] # "none"
        /\ owner' = [owner EXCEPT ![worker[w].fd] = None]
        /\ worker' = [worker EXCEPT ![w].st = "closed"]
    BY <1>11 DEF CloseFd, ConnInv, Serving
  <2>2. \A c \in Conn : last[c] = "none" /\ Open(c) => Open(c)' BY <2>1
  <2>3. \A g \in Fd : owner'[g] \in Conn => owner'[g] = owner[g] BY <2>1
  <2>4. /\ rest' = rest /\ handler' = handler /\ ptr' = ptr /\ last' = last
        /\ accepted' = accepted /\ main' = main /\ First(rest)' = First(rest)
    BY <1>11 DEF CloseFd, First
  <2>5. \A c \in Conn : worker'[c].st = "bye" =>
          worker[c].st = "bye" /\ worker'[c].fd = worker[c].fd /\ worker[c].fd \in Fd
    BY <2>1 DEF ConnInv, Serving
  <2> QED BY <2>2, <2>3, <2>4, <2>5
<1>12. ASSUME NEW w \in Conn, BrokenPipe(w) PROVE TellInv' BY <1>12 DEF BrokenPipe
<1>13. ASSUME NEW w \in Conn, LockToMark(w) PROVE TellInv' BY <1>13 DEF LockToMark
<1>14. ASSUME NEW w \in Conn, Mark(w) PROVE TellInv'
  <2>1. /\ rest' = rest /\ handler' = handler /\ last' = last /\ First(rest)' = First(rest)
        /\ accepted' = accepted /\ main' = main /\ owner' = owner
        /\ worker' = [worker EXCEPT ![w].st = "done"]
    BY <1>14 DEF Mark, First
  <2>2. \A c \in Conn : ptr'[c] \in Fd => ptr'[c] = ptr[c] BY <1>14 DEF Mark, Marked
  <2>3. rest # {} => First(rest) \in Conn BY FirstInList
  <2> QED BY <2>1, <2>2, <2>3 DEF ListInv
<1>15. ASSUME NEW c \in Conn, HangUp(c) PROVE TellInv'
  <2>1. \A d \in Conn : last'[d] = "none" => last[d] = "none" BY <1>15 DEF HangUp
  <2>2. rest # {} => First(rest) \in Conn BY FirstInList
  <2>3. \A d \in Conn : last'[d] # last[d] => last'[d] # "none" BY <1>15 DEF HangUp
  <2> QED BY <1>15, <2>1, <2>2, <2>3 DEF HangUp, ListInv
<1>16. ASSUME NEW c \in Conn, Stall(c) PROVE TellInv' BY <1>16 DEF Stall
<1>17. CASE Signal BY <1>17 DEF Signal
<1>18. CASE StopClean
  <2>1. \A c \in Conn : Registered(c) /\ last[c] = "none" => c \in StillOpen(sockets)
    BY DEF OpenInv, StillOpen
  <2> QED BY <1>18, <2>1 DEF StopClean
<1>19. CASE StopSkip
  <2>1. First(rest) \in Conn BY <1>19, FirstInList DEF StopSkip
  <2>2. last[First(rest)] # "none"
    BY <1>19, <2>1, FirstInList DEF StopSkip, OpenInv, Numbered
  <2> QED BY <1>19, <2>1, <2>2 DEF StopSkip, AfterClosed
<1>20. CASE StopTell
  <2> DEFINE f == ptr[First(rest)]
  <2>1. /\ First(rest) \in Conn /\ f \in Fd /\ rest # {}
        /\ handler = "tell" /\ handler' \in {"close", "killed"}
        /\ rest' = rest /\ ptr' = ptr /\ owner' = owner /\ First(rest)' = First(rest)
        /\ accepted' = accepted /\ main' = main /\ worker' = worker
    BY <1>20, FirstInList DEF StopTell, First
  <2>2. /\ \A c \in Conn : last'[c] = "none" => last[c] = "none"
        /\ owner[f] \in Conn => last'[owner[f]] # "none"
    BY <1>20, <2>1, ToldFacts DEF StopTell, Line
  <2>3. last[First(rest)] = "none" => owner[f] = First(rest)
    <3> SUFFICES ASSUME last[First(rest)] = "none" PROVE owner[f] = First(rest) OBVIOUS
    <3>1. PICK g \in Fd : owner[g] = First(rest)
      BY <2>1, FirstInList DEF Numbered
    <3> QED BY <2>1, <3>1 DEF OpenInv
  <2> HIDE DEF f
  <2>4. last'[First(rest)] # "none" BY <2>1, <2>2, <2>3
  <2> QED BY <2>1, <2>2, <2>4 DEF f
<1>21. CASE StopClose
  <2>1. First(rest) \in Conn /\ last[First(rest)] # "none"
    BY <1>21, FirstInList DEF StopClose, ListInv
  <2>2. \A c \in Conn : last[c] = "none" => \A g \in Fd : owner[g] = c => owner'[g] = c
    BY <1>21, <2>1 DEF StopClose
  <2>3. \A g \in Fd : owner'[g] \in {owner[g], None} BY <1>21 DEF StopClose
  <2>4. \A c \in Conn : worker[c].st = "bye" => worker[c].fd \in Fd
    BY DEF ConnInv, Serving
  <2> QED BY <1>21, <2>1, <2>2, <2>3, <2>4 DEF StopClose
<1>22. CASE Exit BY <1>22 DEF Exit
<1>23. CASE UNCHANGED vars BY <1>23 DEF vars
<1> QED
  BY <1>1, <1>2, <1>3, <1>4, <1>5, <1>6, <1>7, <1>8, <1>9, <1>10, <1>11, <1>12,
     <1>13, <1>14, <1>15, <1>16, <1>17, <1>18, <1>19, <1>20, <1>21, <1>22, <1>23
  DEF Next, Loop, Thread, Proceed, Client, Stop

-----------------------------------------------------------------------------
(***************************************************************************)
(* The theorems.                                                           *)
(***************************************************************************)

(* Every step preserves the inductive invariant.                           *)
THEOREM InvCorrect == Spec => []IInv
<1>1. TypeOK /\ Numbered /\ OpenInv /\ ThreadInv /\ ListInv /\ OnTimeInv /\ [Next]_vars
        => OnTimeInv'
  BY LatenessStays, ConnStep, FileStep, TellStep DEF OnTimeInv
<1>2. IInv /\ [Next]_vars => IInv'
  BY TypeStep, NumberedStep, ListStep, OpenStep, ThreadStep, <1>1 DEF IInv
<1> QED BY InitInv, <1>2, PTL DEF Spec

(* Every variable stays in its range, whatever threads and handler do.     *)
THEOREM TypeCorrect == Spec => []TypeOK
BY InvCorrect, PTL DEF IInv

(* sockets_ lists every connection that is open, with its descriptor, also *)
(* when a thread was late.                                                 *)
THEOREM OpenIsListedCorrect == Spec => []OpenIsListed
<1>1. IInv => OpenIsListed BY DEF IInv, OpenInv, OpenIsListed
<1> QED BY InvCorrect, <1>1, PTL

(* If no thread was late, Stop does not come to its end with a registered  *)
(* client that was told nothing.                                           *)
THEOREM ToldBeforeExitCorrect == Spec => []ToldBeforeExit
<1>1. IInv => ToldBeforeExit
  BY DEF IInv, OnTimeInv, TellInv, ListInv, ToldBeforeExit
<1> QED BY InvCorrect, <1>1, PTL

(* A thread uses only the descriptors of its own connection and file, if   *)
(* no thread was late.                                                     *)
THEOREM OwnConnectionCorrect == Spec => []OwnConnection
<1>1. IInv => OwnConnection
  <2> SUFFICES ASSUME IInv, NoneLate PROVE OwnConnection BY DEF OwnConnection
  <2> USE DEF IInv, OnTimeInv
  <2>1. ASSUME NEW w \in Conn, Serving(w)
        PROVE  /\ worker[w].fd \in Fd
               /\ owner[worker[w].fd] \in {w, None, Mailbox}
               /\ handler = "off" => owner[worker[w].fd] = w
    BY <2>1, OwnFd DEF ConnInv
  <2>2. ASSUME NEW w \in Conn, worker[w].file # -1
        PROVE  /\ owner[worker[w].file] \in {None, Mailbox}
               /\ handler = "off" => owner[worker[w].file] = Mailbox
    BY <2>2 DEF FileInv, HasFile
  <2> QED BY <2>1, <2>2 DEF OwnConnection
<1> QED BY InvCorrect, <1>1, PTL
=============================================================================
