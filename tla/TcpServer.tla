------------------------------ MODULE TcpServer ------------------------------
(***************************************************************************)
(* The class Server under the HW2 servers: the accept loop of the main     *)
(* thread, one detached thread per connection, and Stop, which the SIGINT  *)
(* handler calls.  What a thread does with its commands is the business of *)
(* the SMTP and POP3 modules; here a session is served until its QUIT, and *)
(* may open the file of a mailbox now and then.                            *)
(*                                                                         *)
(* Three things are shared: the descriptors of the process, whose numbers  *)
(* are used again after a close, by a connection or by a file; sockets_,   *)
(* which lists a shared int per connection, its descriptor or -1; and the  *)
(* local connect_fd_ptr of the accept loop, which a new thread reads by    *)
(* reference when it starts.                                               *)
(*                                                                         *)
(* A signal to the process is handled on the main thread, which does not   *)
(* go on with its loop any more.                                           *)
(***************************************************************************)
EXTENDS Integers

CONSTANTS
  MaxConn,    \* bound: how many connections clients make
  MaxFd,      \* bound: how many descriptors the process may have open
  Mailers,    \* bound: the connections whose commands open a mailbox
  Unreliable  \* bound: those whose clients may stop reading or hang up

ASSUME TcpAssumption == MaxConn \in Nat /\ MaxFd \in Nat \ {0}

VARIABLES
  accepted,  \* how many connections accept has returned, in this order
  owner,     \* owner[f]: what descriptor f is open for
  ptr,       \* ptr[c]: the int of connection c, shared by pointer
  sockets,   \* sockets_: the connections its pointers were made for
  main,      \* where the accept loop is
  worker,    \* worker[c]: the thread created for connection c
  mutex,     \* sockets_mutex_: who holds it
  handler,   \* where the signal handler is
  rest,      \* the entries the loop of Stop has not looked at yet
  last,      \* last[c]: how connection c ended for its client
  stalled    \* clients that have stopped reading, with full buffers

vars == <<accepted, owner, ptr, sockets, main, worker, mutex, handler, rest,
          last, stalled>>

Conn == 1 .. MaxConn
Fd == 1 .. MaxFd
None == 0
Mailbox == -1  \* the owner of a descriptor that is open for a mailbox file
Nobody == -1
Main == 0

(***************************************************************************)
(* A thread: p is the connection whose pointer it got, None for a pointer  *)
(* to memory that was freed; fd is the local of Work, and file the number  *)
(* of the stream it has open, or -1.                                       *)
(***************************************************************************)
NewWorker == [st |-> "none", p |-> None, fd |-> -1, file |-> -1]

Line == {"none", "goodbye", "shutdown", "hungup"}

Init ==
  /\ accepted = 0
  /\ owner = [f \in Fd |-> None]
  /\ ptr = [c \in Conn |-> -1]
  /\ sockets = {}
  /\ main = "accept"
  /\ worker = [c \in Conn |-> NewWorker]
  /\ mutex = Nobody
  /\ handler = "off"
  /\ rest = {}
  /\ last = [c \in Conn |-> "none"]
  /\ stalled = {}

-----------------------------------------------------------------------------
(***************************************************************************)
(* The accept loop.  The kernel gives the lowest free descriptor; without  *)
(* one accept fails and the loop goes round.  make_shared puts it in the   *)
(* int that connect_fd_ptr now points to.                                  *)
(***************************************************************************)
NextFree(f) == owner[f] = None /\ \A g \in Fd : owner[g] = None => f <= g

Accept ==
  /\ main = "accept" /\ handler = "off"
  /\ accepted < MaxConn
  /\ \E f \in Fd :
       /\ NextFree(f)
       /\ owner' = [owner EXCEPT ![f] = accepted + 1]
       /\ ptr' = [ptr EXCEPT ![accepted + 1] = f]
  /\ accepted' = accepted + 1
  /\ main' = "register"
  /\ UNCHANGED <<sockets, worker, mutex, handler, rest, last, stalled>>

(***************************************************************************)
(* push_back, which does not take sockets_mutex_.                          *)
(***************************************************************************)
Register ==
  /\ main = "register" /\ handler = "off"
  /\ sockets' = sockets \cup {accepted}
  /\ main' = "spawn"
  /\ UNCHANGED <<accepted, owner, ptr, worker, mutex, handler, rest, last, stalled>>

Spawn ==
  /\ main = "spawn" /\ handler = "off"
  /\ worker' = [worker EXCEPT ![accepted].st = "spawned"]
  /\ main' = "lock"
  /\ UNCHANGED <<accepted, owner, ptr, sockets, mutex, handler, rest, last, stalled>>

(***************************************************************************)
(* RemoveClosedSockets: under the lock, the entries that are -1 go.        *)
(***************************************************************************)
StillOpen(list) == {c \in list : ptr[c] >= 0}

LockMain ==
  /\ main = "lock" /\ handler = "off"
  /\ mutex = Nobody
  /\ mutex' = Main
  /\ main' = "clean"
  /\ UNCHANGED <<accepted, owner, ptr, sockets, worker, handler, rest, last, stalled>>

Clean ==
  /\ main = "clean" /\ handler = "off"
  /\ sockets' = StillOpen(sockets)
  /\ mutex' = Nobody
  /\ main' = "accept"
  /\ UNCHANGED <<accepted, owner, ptr, worker, handler, rest, last, stalled>>

-----------------------------------------------------------------------------
(***************************************************************************)
(* The int of connection c exists while a shared_ptr to it does: the local *)
(* of the accept loop during its iteration, the entry in sockets_, or the  *)
(* argument of a Work that has not returned.                               *)
(***************************************************************************)
Alive(c) ==
  \/ c = accepted /\ main # "accept"
  \/ c \in sockets
  \/ \E w \in Conn : worker[w].p = c /\ worker[w].st # "done"

(***************************************************************************)
(* The thread of connection w begins: it copies connect_fd_ptr as it finds *)
(* it, which is that of a later iteration if it is late, and reads the int *)
(* it points to.  An int that was freed had been marked: it still reads -1.*)
(***************************************************************************)
Enter(w, p) ==
  worker' = [worker EXCEPT ![w] =
    [st |-> "serve", p |-> p, fd |-> IF p = None THEN -1 ELSE ptr[p], file |-> -1]]

Start(w) ==
  /\ worker[w].st = "spawned"
  /\ Enter(w, IF Alive(accepted) THEN accepted ELSE None)
  /\ UNCHANGED <<accepted, owner, ptr, sockets, main, mutex, handler, rest, last, stalled>>

(***************************************************************************)
(* fd is open for something that can be read: the connection, or a mailbox *)
(* that another thread has opened under the number.  On a descriptor that  *)
(* is not open, the loop of Work goes round without an end.                *)
(***************************************************************************)
Readable(w) == worker[w].fd \in Fd /\ owner[worker[w].fd] # None

(***************************************************************************)
(* A command of SMTP or POP3 may write or read a mailbox: the stream takes *)
(* the lowest free number, and closes this number afterwards, whatever it  *)
(* is by then.                                                             *)
(***************************************************************************)
OpenFile(w) ==
  /\ w \in Mailers
  /\ \/ worker[w].st = "serve" /\ Readable(w)
     \/ worker[w].st = "quit"
  /\ worker[w].file = -1
  /\ \E f \in Fd :
       /\ NextFree(f)
       /\ owner' = [owner EXCEPT ![f] = Mailbox]
       /\ worker' = [worker EXCEPT ![w].file = f]
  /\ UNCHANGED <<accepted, ptr, sockets, main, mutex, handler, rest, last, stalled>>

CloseFile(w) ==
  /\ worker[w].file # -1
  /\ owner' = [owner EXCEPT ![worker[w].file] = None]
  /\ worker' = [worker EXCEPT ![w].file = -1]
  /\ UNCHANGED <<accepted, ptr, sockets, main, mutex, handler, rest, last, stalled>>

(***************************************************************************)
(* A client goes without a QUIT.  ReadLine takes the end of the data for   *)
(* an empty line, which is answered as an unknown command, again and again *)
(* until the write to the broken connection raises SIGPIPE.  Nothing       *)
(* catches it, and the process ends.                                       *)
(***************************************************************************)
HangUp(c) ==
  /\ c \in Unreliable
  /\ \E f \in Fd : owner[f] = c
  /\ last[c] = "none"
  /\ last' = [last EXCEPT ![c] = "hungup"]
  /\ stalled' = stalled \ {c}
  /\ UNCHANGED <<accepted, owner, ptr, sockets, main, worker, mutex, handler, rest>>

Broken(f) == f \in Fd /\ owner[f] \in Conn /\ last[owner[f]] = "hungup"

BrokenPipe(w) ==
  /\ worker[w].st \in {"serve", "quit"} /\ worker[w].file = -1
  /\ Broken(worker[w].fd)
  /\ handler' = "killed"
  /\ UNCHANGED <<accepted, owner, ptr, sockets, main, worker, mutex, rest, last, stalled>>

(***************************************************************************)
(* A client stops reading and lets the answers fill its buffers.  The      *)
(* sockets are blocking: the next write waits until the client hangs up.   *)
(***************************************************************************)
Stall(c) ==
  /\ c \in Unreliable
  /\ \E f \in Fd : owner[f] = c
  /\ last[c] # "hungup"
  /\ c \notin stalled
  /\ stalled' = stalled \cup {c}
  /\ UNCHANGED <<accepted, owner, ptr, sockets, main, worker, mutex, handler, rest, last>>

Blocks(f) == f \in Fd /\ owner[f] \in stalled

(***************************************************************************)
(* A line written to f reaches the client of the connection f is open for; *)
(* a write to what is not open fails, which nobody looks at.               *)
(***************************************************************************)
Told(f, line) ==
  IF f \in Fd /\ owner[f] \in Conn /\ last[owner[f]] = "none"
  THEN [last EXCEPT ![owner[f]] = line]
  ELSE last

(***************************************************************************)
(* QUIT: the thread reads it, says goodbye, and closes the descriptor.  It *)
(* does this to fd, whatever another thread has done to it in between.     *)
(***************************************************************************)
ReadQuit(w) ==
  /\ worker[w].st = "serve" /\ worker[w].file = -1
  /\ Readable(w)
  /\ worker' = [worker EXCEPT ![w].st = "quit"]
  /\ UNCHANGED <<accepted, owner, ptr, sockets, main, mutex, handler, rest, last, stalled>>

Goodbye(w) ==
  /\ worker[w].st = "quit" /\ worker[w].file = -1
  /\ ~Blocks(worker[w].fd)
  /\ last' = Told(worker[w].fd, "goodbye")
  /\ worker' = [worker EXCEPT ![w].st = "bye"]
  /\ UNCHANGED <<accepted, owner, ptr, sockets, main, mutex, handler, rest, stalled>>

\* Faulty: the thread goes on serving.
CloseNoReturn(w) ==
  /\ worker[w].st = "bye"
  /\ owner' = [owner EXCEPT ![worker[w].fd] = None]
  /\ worker' = [worker EXCEPT ![w].st = "serve"]
  /\ UNCHANGED <<accepted, ptr, sockets, main, mutex, handler, rest, last, stalled>>

CloseFd(w) ==
  /\ worker[w].st = "bye"
  /\ owner' = [owner EXCEPT ![worker[w].fd] = None]
  /\ worker' = [worker EXCEPT ![w].st = "closed"]
  /\ UNCHANGED <<accepted, ptr, sockets, main, mutex, handler, rest, last, stalled>>

(***************************************************************************)
(* Under the lock the int becomes -1; the guard lets go when Work returns. *)
(***************************************************************************)
\* Faulty: it becomes 0.
MarkedZero(p) == IF p = None THEN ptr ELSE [ptr EXCEPT ![p] = 0]

\* Faulty: the int found in the local of the accept loop is marked.
MarkedSlot(p) == [ptr EXCEPT ![accepted] = -1]

Marked(p) == IF p = None THEN ptr ELSE [ptr EXCEPT ![p] = -1]

LockToMark(w) ==
  /\ worker[w].st = "closed"
  /\ mutex = Nobody
  /\ mutex' = w
  /\ worker' = [worker EXCEPT ![w].st = "mark"]
  /\ UNCHANGED <<accepted, owner, ptr, sockets, main, handler, rest, last, stalled>>

\* Faulty: the lock is kept.
MarkKeepsLock(w) ==
  /\ worker[w].st = "mark"
  /\ ptr' = Marked(worker[w].p)
  /\ worker' = [worker EXCEPT ![w].st = "done"]
  /\ UNCHANGED <<accepted, owner, sockets, main, mutex, handler, rest, last, stalled>>

Mark(w) ==
  /\ worker[w].st = "mark"
  /\ ptr' = Marked(worker[w].p)
  /\ mutex' = Nobody
  /\ worker' = [worker EXCEPT ![w].st = "done"]
  /\ UNCHANGED <<accepted, owner, sockets, main, handler, rest, last, stalled>>

-----------------------------------------------------------------------------
(***************************************************************************)
(* Entries are added at the end of sockets_ and keep their order when      *)
(* others go: the first of a list is the connection accepted first.        *)
(***************************************************************************)
First(list) == CHOOSE c \in list : \A d \in list : c <= d

(***************************************************************************)
(* SIGINT, and Stop in its handler.  Stop logs and allocates: if the       *)
(* signal caught the main thread inside the allocator, the handler waits   *)
(* for a lock of its own thread and is wedged.                             *)
(***************************************************************************)
Signal ==
  /\ handler = "off"
  /\ handler' \in {"stop", "wedged"}
  /\ UNCHANGED <<accepted, owner, ptr, sockets, main, worker, mutex, rest, last, stalled>>

(***************************************************************************)
(* RemoveClosedSockets takes the lock, which the interrupted loop may hold *)
(* itself.  Then each entry is looked at, its client told, its descriptor  *)
(* closed, and the process exits.                                          *)
(***************************************************************************)
StopClean ==
  /\ handler = "stop"
  /\ mutex = Nobody
  /\ sockets' = StillOpen(sockets)
  /\ rest' = StillOpen(sockets)
  /\ handler' = "tell"
  /\ UNCHANGED <<accepted, owner, ptr, main, worker, mutex, last, stalled>>

\* Faulty: the loop ends at an entry that has been closed meanwhile.
AfterLast(list) == {}

AfterClosed(list) == list \ {First(list)}

StopSkip ==
  /\ handler = "tell"
  /\ rest # {}
  /\ ptr[First(rest)] < 0
  /\ rest' = AfterClosed(rest)
  /\ UNCHANGED <<accepted, owner, ptr, sockets, main, worker, mutex, handler, last, stalled>>

(***************************************************************************)
(* Between the test and the close the thread of the connection may close   *)
(* and mark it.  Nothing is accepted any more, but another thread may open *)
(* a mailbox under the number, which is then written to and closed.  The   *)
(* write waits for a client that does not read.  The first write to a      *)
(* client that is gone succeeds, a later one does not.                     *)
(***************************************************************************)
StopTell ==
  /\ handler = "tell"
  /\ rest # {}
  /\ LET f == ptr[First(rest)]
     IN  /\ f >= 0
         /\ ~Blocks(f)
         /\ last' = Told(f, "shutdown")
         /\ handler' \in {"close"} \cup (IF Broken(f) THEN {"killed"} ELSE {})
  /\ UNCHANGED <<accepted, owner, ptr, sockets, main, worker, mutex, rest, stalled>>

StopClose ==
  /\ handler = "close"
  /\ LET f == ptr[First(rest)]
     IN  owner' = IF f < 0 THEN owner ELSE [owner EXCEPT ![f] = None]
  /\ rest' = rest \ {First(rest)}
  /\ handler' = "tell"
  /\ UNCHANGED <<accepted, ptr, sockets, main, worker, mutex, last, stalled>>

Exit ==
  /\ handler = "tell"
  /\ rest = {}
  /\ handler' = "exited"
  /\ UNCHANGED <<accepted, owner, ptr, sockets, main, worker, mutex, rest, last, stalled>>

-----------------------------------------------------------------------------
Loop == Accept \/ Register \/ Spawn \/ LockMain \/ Clean

Running == handler \notin {"exited", "killed"}

\* What a thread does of itself, with no command of its client.
Proceed(w) ==
  Start(w) \/ CloseFile(w) \/ Goodbye(w) \/ CloseFd(w) \/ LockToMark(w) \/ Mark(w)

Thread(w) ==
  /\ Running
  /\ Proceed(w) \/ OpenFile(w) \/ ReadQuit(w) \/ BrokenPipe(w)

Client(c) == Running /\ (HangUp(c) \/ Stall(c))

Stop == StopClean \/ StopSkip \/ StopTell \/ StopClose \/ Exit

Next ==
  \/ Loop
  \/ \E w \in Conn : Thread(w)
  \/ \E c \in Conn : Client(c)
  \/ Signal
  \/ Stop

(***************************************************************************)
(* The scheduler runs every thread that can run; a write that would block  *)
(* is not enabled.  Clients need not connect, read or quit, and nobody     *)
(* need send a signal.                                                     *)
(***************************************************************************)
Spec ==
  /\ Init
  /\ [][Next]_vars
  /\ WF_vars(Register \/ Spawn \/ LockMain \/ Clean)
  /\ \A w \in Conn : WF_vars(Running /\ Proceed(w))
  /\ WF_vars(Stop)

-----------------------------------------------------------------------------
(***************************************************************************)
(* Type invariant.                                                         *)
(***************************************************************************)
TypeOK ==
  /\ accepted \in 0 .. MaxConn
  /\ owner \in [Fd -> Conn \cup {None, Mailbox}]
  /\ ptr \in [Conn -> Fd \cup {-1}]
  /\ sockets \subseteq Conn
  /\ main \in {"accept", "register", "spawn", "lock", "clean"}
  /\ worker \in [Conn ->
       [st : {"none", "spawned", "serve", "quit", "bye", "closed", "mark", "done"},
        p : Conn \cup {None}, fd : Fd \cup {-1}, file : Fd \cup {-1}]]
  /\ mutex \in Conn \cup {Nobody, Main}
  /\ handler \in {"off", "stop", "wedged", "tell", "close", "exited", "killed"}
  /\ rest \subseteq Conn
  /\ last \in [Conn -> Line]
  /\ stalled \subseteq Conn

Registered(c) == c <= accepted /\ ~(c = accepted /\ main = "register")

Late(w) == worker[w].st \notin {"none", "spawned"} /\ worker[w].p # w

NoneLate == \A w \in Conn : ~Late(w)

(***************************************************************************)
(* sockets_ never loses a connection that is open: each descriptor that is *)
(* open for a registered connection is the number in its entry, whatever   *)
(* threads close, mark and clean, and even when one has got the pointer of *)
(* another.                                                                *)
(***************************************************************************)
OpenIsListed ==
  \A f \in Fd :
    owner[f] \in Conn /\ Registered(owner[f]) =>
      owner[f] \in sockets /\ ptr[owner[f]] = f

(***************************************************************************)
(* The client of no registered connection is left without a word when Stop *)
(* has come to its end, although Stop walks a list whose entries may be    *)
(* closed but not marked, and may hold the number of a connection that is  *)
(* listed again behind them, or of a mailbox.  It needs that no thread was *)
(* late: of two threads on one descriptor, the second to close it may hit  *)
(* a later connection.                                                     *)
(***************************************************************************)
ToldBeforeExit ==
  handler = "exited" /\ NoneLate =>
    \A c \in Conn : Registered(c) => last[c] # "none"

(***************************************************************************)
(* Descriptors are closed before their entry is marked and used again at   *)
(* once, for connections and for files; yet until the signal a thread      *)
(* reads, answers and closes only its own connection, and the file it      *)
(* opened, and never afterwards the connection of another.  It needs that  *)
(* no thread was late: that each began before the accept loop went on to   *)
(* the next connection.                                                    *)
(***************************************************************************)
Serving(w) == worker[w].st \in {"serve", "quit", "bye"}

OwnConnection ==
  NoneLate =>
    \A w \in Conn :
      /\ Serving(w) =>
           /\ worker[w].fd \in Fd
           /\ owner[worker[w].fd] \in {w} \cup (IF handler = "off" THEN {} ELSE {None, Mailbox})
      /\ worker[w].file # -1 =>
           owner[worker[w].file] \in {Mailbox} \cup (IF handler = "off" THEN {} ELSE {None})

(***************************************************************************)
(* Once Stop has begun the process ends, unless the signal caught the main *)
(* thread with sockets_mutex_ locked, which the handler then waits for in  *)
(* vain, or Stop has come to a client that does not read what it is told.  *)
(***************************************************************************)
HeldUp == handler = "tell" /\ rest # {} /\ Blocks(ptr[First(rest)])

StopEnds == handler = "stop" ~> ~Running \/ mutex = Main \/ HeldUp
=============================================================================
