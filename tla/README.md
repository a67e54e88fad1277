# Specifications of cis505

The repository holds course projects in C++: a parallel sort (HW1), an SMTP and a
POP3 server that share mailbox files (HW2), and a group of chat servers that
exchange UDP datagrams and deliver lines unordered, in FIFO order or in total order
(HW3). This directory has TLA+ specifications of HW3, of the mail servers of HW2 and the
TCP server under them, and of the sort of HW1, the configurations that check them with TLC, and proofs
that TLAPS checks about all of these: every invariant of every passing run is proved for all values
of the constants that the assumptions named in section 5 allow.

Parse a module with SANY, check a run with TLC, `-config X.cfg M` (the runs are listed
in PROJECT.json with their modules), and check the proofs with `tlapm M.tla` for each module `M`
whose name ends in `Proofs` or `Lemmas`.

## 1. Inventory

### HW3: chat servers

| Component | State | Operations | Interacts by |
|---|---|---|---|
| Server group (`chatserver.cc`, `ServerNode::ParseConfig`) | `servers_`, the same at each server; its own index; `order_` | start | a config file read at start |
| Client sessions (`servernode.cc:172-367`, `client.hpp`) | `clients_`: address, nick, room, line counters | `/join`, `/nick`, `/part`, `/quit`, a line of text | UDP from the client; answers to it |
| Unordered delivery (`servernode.cc:380`) | none | a line from a server | multicast, then `Deliver` to the clients in the room |
| FIFO delivery (`servernode.cc:390`, `holdbackqueue.*`) | `hbq_fifo_`, `seq_fifo_[addr][room]`, `Client::seqs_[room]` | a line from a server | as above |
| Total-order delivery (`servernode.cc:420`, `totalorder.*`, `message.hpp`) | `hbq_`, `Pg_`, `Ag_` per room; `Client::id` per process | NORMAL, PROPOSE, DELIVER | the two-phase protocol between servers |
| Network, `test/proxy.cc` | datagrams in flight | deliver, delay, lose | stands between forward and bind addresses |
| `chatclient.cc` | none to speak of | sends what is typed, prints what comes | UDP with one server |
| `test/stresstest.cc` | what clients sent and received | checks orders | the properties of section 4 quote it |

A server is one thread that handles one datagram to the end, so a handler is atomic. The
hard part is between servers: datagrams of several protocol rounds overtake each other
and are lost; a message is put into a queue before anything numbers it; counters on
the two sides of a line must stay in step while clients come and go.

What makes it correct: in a TOTAL run all servers deliver the lines of a room in one
order, whatever the network does, and all of them if nothing is lost; in a FIFO run the
lines of a client come in the order typed; in any run nobody receives a line twice, the
table of clients has one record for each, and a command changes only its sender's.

### HW2: mail servers

| Component | State | Operations | Interacts by |
|---|---|---|---|
| `User`, `Maildrop`, `Mail` | the mailbox file; `mutex_` of the `User` object | `WriteMail`, `ReadMaildrop`, `ClearMailbox` | file system |
| SMTP server | per connection: state machine, the mail being given | HELO, MAIL, RCPT, DATA, lines, ".", RSET, NOOP, QUIT | a thread per connection; `User::mutex_`; the files |
| POP3 server | per connection: state machine, user, copy of the maildrop | USER, PASS, STAT, LIST, RETR, DELE, UIDL, RSET, NOOP, QUIT | the same, in another process |
| `Server` base (`server.cc`), echo server | the descriptors of the process, `sockets_`, `sockets_mutex_` | accept loop, worker threads, `Stop` on SIGINT | threads; signal handler; a local of the loop read by reference |

Hard here: the mutex is per process but the file is not; QUIT rewrites a file in
several steps and the process may end between two; the accept loop hands a connection
to its thread by reference; a descriptor is closed before its entry says so, and its
number is used again, by a connection or by a mailbox file; the signal handler takes a mutex
and writes to blocking sockets.

What makes it correct: a mail answered with 250 is in every mailbox it was meant for,
once and whole; a session works on what is in the file; deleted mail does not come
back; a session changes nothing it did not mark. Underneath, each thread serves its own
connection, `sockets_` lists every open one, and `Stop` leaves no client without a word; the
first and the last are so only if no thread begins late, see section 4.

### HW1: parallel sort

| Component | State | Operations | Interacts by |
|---|---|---|---|
| `mysort` (`mysort.cc`, `mysort.h`) | the vector of numbers; per child its two pipes, per thread its range | split, create threads or fork children, write, sort, read back, merge | shared memory, or pipes and `waitpid` |

Hard here: main writes to one child while others write to it, on pipes of bounded
capacity; a reader sees the end of its numbers only when no process holds the write end,
and each child inherits what main holds; the threads work in one vector.

What makes it correct: it prints the numbers it was given, sorted, and always gets there.

### The rest

HW0 is a greeting. `catch.hpp`, `json.hpp`,
`loguru.hpp`, `cmdparser.hpp`, `rang.hpp`, `fsm.hpp` and `lpi.*` are third-party.

PROJECT.json lists the components with what is modelled of each, and the hazards at
the lines where they bite, with the properties that watch over them.

## 2. Modules

```
ChatBase                      servers, clients, rooms
  ChatTotal                   total order; INSTANCE TotalOrderBroadcast
    ChatTotalInv              the inductive invariant
      MCChatTotal             instances for TLC
        MCChatLossy           the one that loses datagrams, with the rooms that lost one
      ChatTotalProofs         theorems
  ChatFifo                    FIFO order; INSTANCE FifoBroadcast
    MCChatFifo
    ChatFifoProofs            theorems
  ChatSession                 commands, answers, unordered delivery
    MCChatSession
    ChatSessionProofs         theorems
Listing                       places in a sequence; ChatFifo and MailStore extend it too
  Mailbox                     files, WriteMail, ReadMaildrop
    ListingLemmas             lemmas about both, for the modules of theorems
    MailBase                  the users
      Pop3Server              INSTANCE MailStore
        MCPop3Server
        Pop3ServerProofs      theorems
      SmtpServer
        MailSystem            both servers; INSTANCE Pop3Server
          MailSystemProofs    theorems about SMTP, and about both; INSTANCE Pop3ServerProofs
TcpServer                     accept loop, threads, Stop
  TcpServerProofs             theorems
MySort                        the parallel sort
  MySortProofs                theorems
```

### How state and actions correspond to the code

*ChatBase.* `Home[c]` is the server a client was started with. A client stands for its
address, numbered as `std::string::operator<` orders addresses, since
`Message::operator<` falls back on the address. `NoRoom` stands for both `room_ <= 0`
values of a record outside any room (`Fresh` and `Outside` in ChatSession).

*ChatTotal.* `hbq[s]` is `TotalOrder::hbq_` as a set, all rooms together: entries are
identified by address, room and id, and the code sorts before it reads an order.
`nextId[s]` is `Client::id`, which is static, so one counter per process. `ClientMsg`
is the text branch of `HandleClientMsg`; `RecvNormal`, `RecvPropose` and `RecvFinal` are
the three branches of `TotalOrderDeliver`; `Recv` is one turn of `Run`. `Message::seq` is
not initialised when a server queues its own line: `Garbage` is the set of numbers it
may hold. `up[s]` becomes FALSE when a `CHECK_F` of `GetMsg` fails. `log` is a history
of the calls of `Deliver`, `inbox` what clients were sent.

*ChatFifo.* `seqs` is `Client::seqs_`, `expected` is `seq_fifo_`, `hbq` the vector of
`HoldbackQueueFIFO`. `FifoDeliver` queues the line and runs the loop to the end in one
action; `Left`, an `AtPlaces` of Listing, is what the `erase` calls leave of the vector. A line carries `nth`, its position among the client's lines in the room, as its
text: that is what tells an order apart from the numbers the code gives.

*ChatSession.* `clients[s]` is the vector `clients_`. `Removed` is `std::remove` as
`Quit` calls it, with a reference into the vector as the value, record by record. `told` is what a client
must believe from the answers it was given. A client may send any datagram at any
time, which covers all orders in which its datagrams may come in.

*Mailbox, SmtpServer, Pop3Server.* A file is a sequence of lines; of a line only its mail, its
place and whether `mail_head_regex` takes it for a first line are kept. `ReadMaildrop` cuts the file
before each such line (`Pieces` of Listing). A mailbox begins with the first line of a mail (`Headed`), as
`WriteMail` leaves it, and a mail is named by its number, so that no two of a mailbox are the same
(`MailsAssumption`). A request is one
action, except where other threads or a crash may come in between: `SendMail` waits for a
mutex, writes and releases it, recipient by recipient (`Lock`, `Write`, `Sent`), and
QUIT clears the file and writes mail by mail (`Quit`, `WriteBack`, `Leave`). `Crash` is
the end of the process and its restart: SIGINT, or SIGPIPE on a connection whose client
is gone, which the code does not handle.

*MailSystem.* Both servers on the same `file`, each with its own mutexes, as in the code: SmtpServer
with its names, and an instance of Pop3Server; the definitions of the whole are `SystemInit`,
`SystemNext` and so on. The mailboxes are empty at first. In its runs no line of text looks like the first
line of a mail.

*TcpServer.* The main thread's loop is `Accept`, `Register`, `Spawn`, `LockMain`, `Clean`; a
connection is named by its place in the order of `accept`. `owner` is the kernel's table of
descriptors, `ptr` the local `connect_fd` that `accept` sets and then the int of the `SocketPtr` made of it, `sockets` the vector: it is in the
order of `accept`, so that a set says as much. The lambda of a thread captures the local
`connect_fd_ptr` by reference: `Start` copies it as it is then, perhaps one or more iterations
later. It is set within `Accept` (`make_shared`) and keeps its bits after the iteration, so that it names the
connection accepted last, or freed memory if no `shared_ptr` to that one's int is left (`Alive`). An int is freed after it was
marked, and the allocator writes to the first words of a freed block only, so that it still reads -1. If the
int of the next connection has got the block, the local has its address already and `Start` takes that connection; what
other data in the block would read as is left out.

The end of a `Work` is five steps, the same in the echo, SMTP and POP3 servers: `ReadQuit`, `Goodbye`,
`CloseFd`, `LockToMark`, `Mark`. Each acts on the number `fd`, whatever it is open for by then.
What is said on a connection before is the matter of the other modules, which assume that a
connection has a thread; here it matters only that commands of SMTP and POP3 open
mailboxes (`OpenFile`, `CloseFile`), which take the lowest free number as connections do. When `Stop` has
closed the listening socket its number is the lowest; the file that takes it plays no part
here. `HangUp` and `BrokenPipe` are a client that goes without QUIT and
what the process dies of then. `Stall` is a client that stops reading with its buffers full:
a write to it, in a thread or in `Stop`, is not enabled any more (`Blocks`), until it
hangs up. `handler` is where the signal handler is: the kernel
runs it on the main thread, which stands still from then on, while the workers go on. It may have
interrupted the allocator, of which it has need itself: then it is `"wedged"`.

*MySort.* `BubbleSort`, `Insert` and `Exchange` are the outer loop, the inner loop and its body, and a
thread takes the body, with its own `i` and `j`, one comparison at a time in the shared `data`. `MergeSort` is
the loop over a heap of ranges, whose `Top` is the one that begins with the smallest number. The
loops are functions of how often the body has run. `sent` and `got` are how far the
pointers in `WriteRangeToFile` and `ReadRangeFromFile` have come. `pipe` holds numbers, and `ends` who holds which descriptor:
`Fork` copies all that main holds, and `AtEnd` is what `feof` waits for. A child sorts in one
action, as nobody else sees its vector. stdio may hand over numbers in larger pieces than one;
a pipe that takes one at a time has more ways to block.

### Abstract specifications

* `TotalOrderBroadcast`: lines are cast; a server delivers lines that were cast, and the
  sequences of any two servers agree as far as both go.
* `FifoBroadcast`: what a server has delivered of a client in a room is a prefix of
  what the client cast there.
* `MailStore`: mail arrives, is marked, and goes away all at once; a server that ends in
  the middle of a removal may take away the last mails of the box it was at, nothing else.

## 3. Fairness

Each chat server runs its receive loop for ever (`ServerNode::Run`), and only so many
lines are typed, so a datagram that is not lost is received in the end: `WF_vars(Recv(s))`
for each server. Clients are under no fairness, they may stop at any point, and neither is
the loss of datagrams. In ChatTotal `EventuallyDelivered` is checked under `ReliableSpec`, without
losses: the protocol sends nothing again, and one lost PROPOSE or DELIVER silences a room,
which is what the code does. With losses (`LossySpec`) `OtherRoomsDeliver` says that it silences
no other room. In ChatFifo and ChatSession losses stay, and the property
says what a loss may hold up.

In SmtpServer a thread inside `SendMail` goes on, and gets a free mutex it waits for:
`WF_vars(Send(s))`. Weak fairness is enough: only so many mails are begun, so that the
mutex is free for good after the threads before it. POP3 clients may stay connected for
ever and keep others out; but a thread that has begun the update of a QUIT waits for nothing
(`WF_vars(Update(p))`).

In TcpServer the accept loop, the handler and each thread are scheduled again and again.
Weak fairness is enough for the mutex, as each thread takes it once. A write that blocks is not
enabled, so that fairness does not promise that it returns. Clients need neither
connect, read nor quit, and `accept` may wait for ever.

In MySort main, each child and each thread is scheduled again and again (`WF_vars(MainStep)`,
`WF_vars(WorkerStep(k))`); a step that would block is not enabled.

## 4. Runs

| Run | Bounds | Shows |
|---|---|---|
| `total_lossy` | 2 servers, 2 clients, 2 rooms, a line per server, garbage in {0, 9}; losses | no `CHECK_F` fails; the servers implement `TotalOrderBroadcast`; a deliverable message is held back only by its own room, from in front or by a line of the server's own clients; a room that loses nothing gets all its lines delivered |
| `total_three` | 3 servers, 2 clients, a line of each; no losses | the inductive invariant `Inv`; `SameOrder`, the check of the stress test; every line is delivered everywhere |
| `fifo_lossy` | 2 servers, 2 clients, 2 rooms, 2 lines in one room and 1 in the other; losses | order, implementation of `FifoBroadcast`, nothing held back but behind a gap, delivery unless lost |
| `fifo_quit` | 3 lines, `/quit` allowed to the sender | **violation**, see below |
| `session_lines` | 3 clients of one server and 1 of another, a room, a line, a nick; losses | one record each, commands change the sender's only; no line twice; answers tell the room; a line reaches those who stay, unless lost |
| `smtp_crash` | 2 connections, 2 users, 2 mails of at most a line; crashes | 250 means written, once, whole, to all and nobody else; no mail leaks into the next; no thread stays in `SendMail` |
| `smtp_head` | as above, a mail, lines that look like heads | **violation**, see below |
| `pop3_update` | 3 connections, 2 users, mailboxes of at most 2 mails; crashes | the copy is the mailbox; the sessions implement `MailStore`; an update that has begun gives the lock back |
| `mail_crash` | both servers, one user, 2 mails without text; crashes of either | no mail twice, none comes back |
| `mail_lost` | the same, without crashes | **violation**, see below |
| `tcp` | 3 connections, 3 descriptors; two threads that open mailboxes, a client that may hang up or stop reading; threads of any delay, one signal at any moment | `sockets_` lists every open connection; if no thread was late, none uses a descriptor of another, and `Stop` leaves no registered client without a word; `Stop` ends but for the waits named below |
| `sort` | inputs of up to 4 numbers out of 3; 1 to 3 processes or threads; pipes that hold one number | ends, prints the input sorted, keeps every part whole on its way, no stray write ends |

Why the bounds are enough. In the total-order protocol two concurrent lines are needed
for a disagreement, and two servers for one to number them differently; the third server
makes the maximum of the proposals differ from both the sender's and the receiver's own
number. A second room shows that nothing leaks between rooms. For FIFO
order a gap needs two lines in one room, the third line in another room shows that
counters are per room. `std::remove` with an aliased value goes wrong at the third
record after a removal if it goes wrong at all. Two connections meet at a mutex, a
third one waits while another leaves; two mails make an order and a remainder of an update.
Three connections
let a thread be late by two, and let a number be free, used and listed twice while a third
connection is open; that only some of them open mailboxes (`Mailers`) or have a client that is not
to be relied on (`Unreliable`) keeps the run short, and the proofs are for any.
Four numbers on three processes make parts of different lengths, and with pipes of one
number every wait that a larger pipe can cause is there.

What the bounds leave to the proofs, which have none: a server that proposes the same number twice, for which
a room needs three lines (`ChatTotalProofs`); parts of more than two numbers when there are
several workers (`MySortProofs`); lines of a client that quits later, as the one that may quit in
`fifo_lossy` types none (`ChatFifoProofs`).

Each property has a mutant, an operator beside the one it replaces, marked "Faulty:" in
the modules, that makes TLC find the property violated in the run.

### What the violations show

* `fifo_quit`. `Quit` (servernode.cc:365) erases the record with its line counters, and
  the next datagram of the client makes one that counts from 0, but the servers keep what
  they expect next. A line typed after `/quit` and `/join` may be delivered before one
  typed earlier, and another stays in the queue for good. stresstest.cc:131 calls that an error.
* `smtp_head`. `WriteMail` writes lines as they are and `ReadMaildrop` splits at each
  line that looks like a first one; the comment there (user.cc:42) says "This is a new mail".
  A mail with such a line becomes two.
* `mail_lost`. PASS answers "maildrop locked and ready" (pop3server.cc:111), but locks a
  mutex of its own process. A mail that SMTP appends before QUIT is wiped out with a 250.

### What the code does and no run reports

* A late thread. Nothing makes the accept loop wait until the new thread has copied
  `connect_fd_ptr` (server.cc:236). If one has not when the next connection is accepted, two threads
  serve one connection and none another, whose client waits in vain until `Stop` tells it. Worse, each of the two
  may have read a QUIT: one closes the descriptor, a third connection is accepted under the number, and
  the other closes that one, without a word to its client; `Stop` finds its entry open and writes to a
  descriptor that is not. `OwnConnection` and `ToldBeforeExit` therefore have the premise that no
  thread was late, and without it TLC shows these runs. `OpenIsListed` needs no premise.
* A mailbox in the way of `Stop`. Between its look at an entry and its write or close, the thread
  of the connection may close the descriptor and another open a mailbox under the number:
  "-ERR Server shutting down" is then written into the mailbox, and the stream loses its descriptor.
* `Stop` may wait for ever, for three reasons. The main thread holds `sockets_mutex_` when SIGINT
  comes (server.cc:35 and 251): the handler waits for the thread it interrupted. A client does not
  read what it is sent and its buffers are full: `WriteLine` (server.cc:258) writes to a blocking socket, and
  the clients behind it are not told either. The signal interrupted the allocator, and `Stop`, which logs and
  allocates from its first lines on, waits for the allocator's lock. `StopEnds` excepts the first two
  (`mutex = Main`, `HeldUp`) and is about handlers that are not caught in the third (`"wedged"`); it
  shows that in this model there is no fourth.
* A lone CR. The comment at server.cc:107 says that a CR before another character is appended,
  but `got_cr` is reset in each turn of the loop and the CR is dropped.

Two smaller disagreements. `Part` answers
"+OK You have left chat room #0" to a client that never joined, where the message at
servernode.cc:353 is "You are not in any room". `Pg_` is described as the highest number
proposed (totalorder.hpp:27), but `NewProposed` returns more than it stores when the agreed
number is above it; the order does not depend on it, as the proofs show.

## 5. Proofs

Each theorem below holds for every value of the constants that their assumptions allow: any
finite set of servers or connections, any clients, rooms, users and bounds. The strengthened
invariants were first checked by TLC on the instances of section 4.

| Module | Theorem | Says |
|---|---|---|
| `ChatTotalProofs` | `TypeCorrect`, `InvCorrect` | `[]TypeOK`, `[]Inv` |
| | `NeverAborts` | `[]NoCheckFails` |
| | `SameOrderCorrect` | `[]SameOrder` |
| | `HeldCorrect` | `[]HeldByItsRoom` |
| | `Implements` | the refinement of `TotalOrderBroadcast` |
| `ChatFifoProofs` | `TypeCorrect`, `InvCorrect` | `[]TypeOK`, `[]Inv` |
| | `FifoOrderCorrect`, `HeldCorrect` | `[]FifoOrder`, `[]HeldForEarlierLine` |
| | `Implements` | the refinement of `FifoBroadcast` |
| `ChatSessionProofs` | `TypeCorrect`, `InvCorrect` | `[]TypeOK`, `[]IInv` |
| | `OneRecordEachCorrect`, `ToldTheTruthCorrect`, `AtMostOnceCorrect` | `[]OneRecordEach`, `[]ToldTheTruth`, `[]AtMostOnce` |
| | `OthersUntouchedCorrect` | the action property `OthersUntouched` |
| `Pop3ServerProofs` | `TypeCorrect`, `InvCorrect`, `StoreInvCorrect` | `[]TypeOK`, `[]IInv`, `[]StoreInv` |
| | `CopyIsMailboxCorrect` | `[]CopyIsMailbox` |
| | `Implements` | the refinement of `MailStore`, crashes included |
| `MailSystemProofs`, SMTP | `TypeCorrect`, `InvCorrect`, `MailInvCorrect` | `[]TypeOK`, `[]IInv`, `[]MailInv` |
| | `CleanAtWaitCorrect`, `AckedIsWrittenCorrect` | `[]CleanAtWait`, `[]AckedIsWritten` |
| `TcpServerProofs` | `TypeCorrect`, `InvCorrect` | `[]TypeOK`, `[]IInv` |
| | `OpenIsListedCorrect`, `ToldBeforeExitCorrect`, `OwnConnectionCorrect` | `[]OpenIsListed`, `[]ToldBeforeExit`, `[]OwnConnection` |
| `MailSystemProofs`, both | `SystemInvCorrect` | `[]SystemInv` |
| | `NeverTwiceCorrect`, `NoneReturnsCorrect` | `[]NeverTwice`, `[]NoneReturns` |
| `MySortProofs` | `TypeCorrect`, `InvCorrect` | `[]TypeOK`, `[]IInv` |
| | `PrintsSortedCorrect` | `[]PrintsSorted` |
| | `EachPartKeptCorrect`, `OneWriterPerPipeCorrect` | `[]EachPartKept`, `[]OneWriterPerPipe` |

`ListingLemmas` has the lemmas about numbers, Listing and Mailbox that these proofs share; the chat,
TCP and sort proofs, which have no mailboxes, take them by INSTANCE.

### Total order

The assumptions are those of ChatBase and ChatTotal: the set of servers is finite and not
empty, clients and rooms are numbers (rooms positive), each client has a server, garbage is
an integer. None limits what the network does.

`SameOrder` is not inductive, and neither is the agreement of the logs. `Inv`
(ChatTotalInv) says what the protocol maintains. Agreed numbers: one for a message, when
all servers have proposed, and at least each proposal (`FinalInv`). Proposals: one per
server and message, after its NORMAL (`ProposeInv`), above every agreed number the server has
seen. Queues: an entry carries the number its server proposed until the agreed one comes
(`EntryInv`), and stays until it is delivered (`KeptInv`). From these, `LogInv`: what a
server has delivered sorts before everything in its queue it has proposed a number for,
because an agreed number is at least that proposal; and what it will propose later is
above its agreed number. So a log is sorted by agreed number, address and id. The entry
with the uninitialised number is the exception the invariant has to make (`HasProposed`): it
may stand anywhere in the queue, but cannot be overtaken harmfully, since its own proposal
is still to come and will be above what was delivered.

That a decision has the proposals of all servers is a counting argument: as many tagged
numbers as servers, one for each (`EveryServer`). For the refinement, if two servers'
logs parted, each would hold, by the invariant, a message that the other delivered
later or not yet, and the two would sort before each other (`NoDisagreement`).

### FIFO order

Neither `FifoOrder` nor the refinement speaks of the counters, which are all the code has. `Inv`
ties them to the lines, for the clients that do not quit: a record counts the lines typed
(`CastInv`), each datagram bears its line's number (`SentInv`), a server expects the line after
those it has delivered, and these are the first ones typed (`LogInv`), what is queued lies
behind a gap (`QueueInv`), and what a client was sent its server delivered, in that order
(`InboxInv`). A `FifoDeliver` that runs its loop to the end is a step over many lines: the
proof follows what the loop delivers, a run of numbers from the expected one, and that
`erase` leaves the rest of the queue in place (`Left`). A client in `MayQuit` is outside all
of it, as it has to be: see `fifo_quit`.

### Sessions

Everything rests on there being one record for each client (`OneRecordEach`), and that rests on `Quit`.
`std::remove` compares with a reference to the record it removes, and from its first move on that
place holds the next record. `RemovedFacts` proves that in a table with one record for each
client this does no harm: no later record is equal to the next one either, so exactly the client's
own goes and the others stay in order. The proof computes the loop: a function that tells
what the vector is after each record satisfies its equation, and the first record where
another solution parts from it cannot exist. `ToldTheTruth` and `OthersUntouched` then follow a
command through the table it works on (`Becomes`). `AtMostOnce` needs that the number in a line tells it
from the sender's others (`SentInv`), and that what a client received came in a datagram that its own
server has handled and will not handle again (`InboxInv`).

### Mailboxes

What `ReadMaildrop` finds in a file is defined by the places of first lines. `ListingLemmas`
proves that a `WriteMail` of a mail without such lines inside adds exactly this mail at the end and
leaves the others (`WrittenBehind`), and that mails read from a file are of this kind
(`MaildropFacts`), so that QUIT may write them back.

*POP3.* `CopyIsMailbox` needs that the session at work on a mailbox holds its mutex
(`LockHeld`), which makes it the only one. The refinement needs more: that the file of an update in
progress has the mails written so far, which are the undeleted ones among the first of the copy
(`WrittenSoFar`), that the mails of a copy are as `ReadMaildrop` makes them (`CopiesSound`), and that no
two mails of a file are the same (`FilesDiffer`), which `MailsAssumption` says of the first
files. Then QUIT is the step that takes the marked mails out of the abstract box, each
`WriteBack` is a stutter, and a crash leaves the file as it is, a first part of the box. The
POP3 server is the only one to write here; see `mail_lost` for what SMTP may do to a session.

*SMTP.* `AckedIsWritten` says that a mail is once in each of its mailboxes and whole. Its
invariant (`MailInv`) has for each mail in progress the users served so far and those still to be,
in whose mailboxes it is and is not (`Served`), as in what was asked (`Told`); no two sessions and no
answered mail have a number in common (`Apart`), so that what another thread writes between two
recipients concerns another mail; and a number not given out is in no file (`NotBegun`). `MailInvCorrect`
and `AckedIsWrittenCorrect` assume `PlainText`, that no line of text looks like the first
line of a mail: the run `smtp_head` shows that they are false without. `TypeCorrect`, `InvCorrect` and
`CleanAtWaitCorrect` do not assume it.

*Both.* Nothing keeps the two servers from writing to a file at the same time, so that the file may
lose mail (`mail_lost`): the copy of a session is not the mailbox any more, and what the POP3
proofs say of files does not hold here. `NeverTwice` and `NoneReturns` hold for another
reason: the number in the first line, which SMTP gives to one mail only. The invariant of
`MailSystemProofs` follows a number. In a file and in a copy it names one mail; what a client has
deleted is in no file and no copy that may still be written (`FilesSound`, `CopiesSound`); what the
loop of QUIT has still to write is not in the file, whatever SMTP has put there
meanwhile; and a mail that SMTP has still to bring to a mailbox has never been
there (`Fresh`). The two last ones need that a mailbox has one session at most, and that a
mail has each recipient once among those still to be served: both are facts of the proofs about each
server alone, `LockHeld`, taken over from `Pop3ServerProofs` by INSTANCE, and `Telling`, from the SMTP part of the
module. A step of the system is a step of one server and a stutter of the other but for the files. All of this
is for plain text (`PlainText`), as with SMTP alone. TLC checked this invariant with one user, two
connections to each server and two mails, and with two users, a connection to each and
mails with a line.

### TCP server

`IInv` ties the kernel's table to the ints of `sockets_`: an open connection's int holds its
descriptor, and it is in the vector once registered (`OpenInv`). A thread closes before it marks, so in
between the number may be another connection's: `ThreadInv` says that no descriptor is then open
for the thread's own connection, so marking it takes no open connection out of the vector. That much holds with
late threads too, and `OpenIsListed` follows.

The rest, `OnTimeInv`, has the premise that no thread was late (which a step can only make false,
`LatenessStays`). Until the signal a connection stays open for its thread (`ConnInv`), so that its number is
not given away before the thread has closed it; afterwards nothing is accepted, and a number may become a mailbox's but
no other connection's. `FileInv` says the same of the numbers of streams, which are closed without a
look at what they are. So nobody closes a connection but its own thread, which has said goodbye, and `Stop`. `TellInv`
follows the handler: who was told nothing is still connected and in front of it, and when it closes an entry that is not
marked, the connection that has its number by now was told too.

### Parallel sort

*The loops.* A loop is a function of the number of its turns, and the library's induction cannot be
used to say what it computes. `Loop` says it for any body and any loop invariant, given as a sequence of sets
of which each turn leads from one to the next: there is a function with one more value per
turn, by the principle that a set of naturals with something in it has a least number. From it
`DivideFacts` (the parts cover the numbers, and none is empty if there are at least as many numbers as
parts), `InsertFacts` and `BubbleFacts` (`Ordered`: what is before `i` is in order, and what of it is
before `j` is not above number `i`; each `Exchange` permutes), and `MergeFacts`. There the heap keeps
ranges that do not meet, none empty, each in order (`HeapOf`), so that its top is the smallest number that is left,
takes away one position in each turn (`PoppedFacts`), and the positions it gives up are a permutation of all.

*The processes.* `EachPartKept` is nearly inductive: `IInv` has it part by part (`Content`), with where a
thread's `i` and `j` are (`PartInv`) and how far main is with the part (`Reached`): its worker is there
when main has started it, it has all its numbers when main has fed it, and main has all of them back before it
goes on. The numbers sent and not yet read are in order between the two, so that the end of
a pipe means a whole part, as the assertion after the loop of `ReadRangeFromFile` says: main is never in
`"aborted"`. That the end is not seen too early needs the descriptors (`Descriptors`): as long as main
is still sending to a child it has the write end of its pipe, and as long as a child is sending it has its own. That
it is not kept from being seen is `OneWriterPerPipe`: what a child inherits at `Fork` is what main holds
then, which includes no write end of an earlier child. In the end the parts are sorted
permutations of those of the input, their pieces together a permutation of the whole
(`PiecesPermuted`), and `MergeFacts` does the rest. TLC checked `IInv` on the instance of the run `sort`.

### Only model-checked

Liveness, which needs fairness and ENABLED and is beyond TLAPS: `EventuallyDelivered`, `OtherRoomsDeliver`
and the like, in MySort `Finishes`. What `Finishes` adds to the theorems about the sort is that main and the
children never all wait for each other.

## 6. Not modelled

* Duplicated datagrams: neither the proxy nor the local networks the servers are meant for
  duplicate. A PROPOSE counted twice would break total order.
* Restart of a chat server: nothing is persisted, and the group has no way back in. A
  server that stays down is the loss of all datagrams to it.
* Datagrams the parser does not accept: text beyond the receive buffer, `/join` without an
  argument (`msg.substr(6)` throws). The models start from well-formed requests.
* Order of datagrams between a client and its server: a client may send anything at any
  time, so each order is covered already.
* A mail larger than the buffer of the stream, failures of the file system, time stamps.
* In the `Server` base class: the set-up of the listening socket, the splitting of the input into lines,
  a `push_back` that the handler interrupts half way, the static destructors
  that run at `exit` beside the threads, a copy of `connect_fd_ptr` torn by the next iteration, what else
  is in the memory of an int that was freed, and what a late thread takes from a mailbox for a command or
  writes to one. The limit on descriptors is a wait: `accept` fails and
  the loop goes round.
* The loop of the chat client, which is input and output: the servers are checked against
  any order and delay of what it sends.
* Parsing of the server group's file and of options; the UDP echo server, which has no state.
* System calls of `mysort` that fail: each ends the program with a message.

## 7. Plan

Done, in this order: total order with its abstract specification and proofs; FIFO order; sessions;
mailbox, SMTP, POP3 and the two together; the parallel sort; the TCP server; total order with
losses, room by room.

Proved since: `HeldByItsRoom`; FIFO order and its refinement; the POP3 server and its refinement; the
SMTP server; the TCP server; the two mail servers together; the sessions of the chat servers; the
parallel sort, its loops included.

Left: liveness, which stays with TLC.
