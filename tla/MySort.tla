------------------------------- MODULE MySort -------------------------------
(***************************************************************************)
(* The parallel sort: BubbleSort on the parts DivideEqual makes of the     *)
(* data, by threads on the vector itself or by child processes that get    *)
(* their part through a pipe and give it back through another, and         *)
(* MergeSort of the parts.                                                 *)
(*                                                                         *)
(* Processes and threads take steps in any order.  A process that writes   *)
(* to a full pipe or reads from an empty one waits, and a reader sees the  *)
(* end of the data when no process holds the write end any more: that is   *)
(* why the descriptors each process holds are part of the state.  System   *)
(* calls do not fail.                                                      *)
(***************************************************************************)
EXTENDS Integers, FiniteSets, Sequences

CONSTANTS
  Value,     \* the numbers in the files
  MaxSize,   \* bound: how many of them there are
  Counts,    \* the numbers of processes asked for
  Capacity   \* bound: how many numbers a pipe holds

ASSUME SortAssumption ==
  /\ Value \subseteq Int
  /\ MaxSize \in Nat
  /\ Counts \subseteq Nat \ {0}
  /\ Capacity \in Nat \ {0}

VARIABLES
  input,    \* the numbers read from the files
  count,    \* num_processes
  threaded, \* use_threads
  data,     \* the vector of main
  pc,       \* where main is
  turn,     \* main's loop variable: the part it works on
  worker,   \* worker[k]: the child process or the thread of part k
  pipe,     \* pipe[p]: the numbers in pipe p
  ends,     \* the descriptors held: <<process, pipe, end>>
  out       \* what main printed

vars == <<input, count, threaded, data, pc, turn, worker, pipe, ends, out>>

Part == 1 .. count
Main == 0
Pipe == {"p2c", "c2p"} \X Part
ToChild(k) == <<"p2c", k>>
FromChild(k) == <<"c2p", k>>

-----------------------------------------------------------------------------
(***************************************************************************)
(* BubbleSort: the body of its loops; the inner loop, which brings number  *)
(* i to its place among those before it; and the outer loop.               *)
(***************************************************************************)
\* Faulty: the two are compared the other way round.
ExchangeDown(v, i, j) ==
  IF v[j] < v[i] THEN [v EXCEPT ![i] = v[j], ![j] = v[i]] ELSE v

Exchange(v, i, j) ==
  IF v[i] < v[j] THEN [v EXCEPT ![i] = v[j], ![j] = v[i]] ELSE v

Insert(v, i) ==
  LET step[j \in 0 .. i - 1] == IF j = 0 THEN v ELSE Exchange(step[j - 1], i, j)
  IN  step[i - 1]

BubbleSort(v) ==
  LET upTo[i \in 0 .. Len(v)] == IF i = 0 THEN v ELSE Insert(upTo[i - 1], i)
  IN  upTo[Len(v)]

(***************************************************************************)
(* DivideEqual: where each of the k parts of n numbers ends; 0 is where    *)
(* the first begins.                                                       *)
(***************************************************************************)
DivideEqual(n, k) ==
  LET split[i \in 0 .. k] ==
        IF i = 0 THEN 0
        ELSE split[i - 1] + n \div k + (IF i - 1 < n % k THEN 1 ELSE 0)
  IN  split

(***************************************************************************)
(* MergeSort: a heap of ranges, each with the position of its next number; *)
(* the one with the smallest gives it up and goes back unless it is empty. *)
(***************************************************************************)
Top(v, h) == CHOOSE r \in h : \A q \in h : v[r[1] + 1] <= v[q[1] + 1]

Popped(v, h) ==
  LET r == Top(v, h)
  IN  (h \ {r}) \cup (IF r[1] + 1 # r[2] THEN {<<r[1] + 1, r[2]>>} ELSE {})

MergeSort(v, split) ==
  LET k == Cardinality(DOMAIN split) - 1
      heap[m \in 0 .. Len(v)] ==
        IF m = 0 THEN {<<split[i - 1], split[i]>> : i \in 1 .. k} ELSE Popped(v, heap[m - 1])
  IN  [m \in 1 .. Len(v) |-> v[Top(v, heap[m - 1])[1] + 1]]

Split == DivideEqual(Len(data), count)
Size(k) == Split[k] - Split[k - 1]
PartOf(v, k) == SubSeq(v, Split[k - 1] + 1, Split[k])

-----------------------------------------------------------------------------
(***************************************************************************)
(* A worker: numbers is sub_data as far as it is read, or what of it is    *)
(* left to write; i and j are the loop variables of a thread's BubbleSort  *)
(* (nothing is compared with i = 1); sent and got are how far main's       *)
(* pointer has come in writing and in reading back.                        *)
(***************************************************************************)
NewWorker == [st |-> "none", numbers |-> <<>>, i |-> 2, j |-> 1, sent |-> 0, got |-> 0]

Init ==
  /\ input \in UNION {[1 .. n -> Value] : n \in 0 .. MaxSize}
  /\ count \in Counts
  /\ threaded \in BOOLEAN
  /\ data = input
  /\ pc = "begin"
  /\ turn = 1
  /\ worker = [k \in Part |-> NewWorker]
  /\ pipe = [p \in Pipe |-> <<>>]
  /\ ends = {}
  /\ out = <<>>

given == <<input, count, threaded>>

(***************************************************************************)
(* One process, or no more numbers than processes: no worker is used.      *)
(***************************************************************************)
Alone == count = 1 \/ Len(data) <= count

Begin ==
  /\ pc = "begin"
  /\ IF Alone
       THEN /\ out' = BubbleSort(data)
            /\ pc' = "done"
       ELSE /\ pc' = IF threaded THEN "create" ELSE "fork"
            /\ UNCHANGED out
  /\ UNCHANGED <<given, data, turn, worker, pipe, ends>>

(***************************************************************************)
(* After part turn main goes on with the next, or with step next.          *)
(***************************************************************************)
\* Faulty: main goes on one part too far.
NextTurnLate(same, next) ==
  IF turn <= count
    THEN turn' = turn + 1 /\ pc' = same
    ELSE turn' = 1 /\ pc' = next

NextTurn(same, next) ==
  IF turn < count
    THEN turn' = turn + 1 /\ pc' = same
    ELSE turn' = 1 /\ pc' = next

Become(k, st) == worker' = [worker EXCEPT ![k].st = st]

-----------------------------------------------------------------------------
(***************************************************************************)
(* SortMultiThread.  A thread sorts its part in the vector itself, a       *)
(* comparison at a time.                                                   *)
(***************************************************************************)
CreateThread ==
  /\ pc = "create"
  /\ Become(turn, "sort")
  /\ NextTurn("create", "join")
  /\ UNCHANGED <<given, data, pipe, ends, out>>

SortStep(k) ==
  LET w == worker[k]
      first == Split[k - 1]
  IN  /\ w.st = "sort"
      /\ IF w.i <= Size(k)
           THEN /\ data' = Exchange(data, first + w.i, first + w.j)
                /\ worker' = [worker EXCEPT
                     ![k].i = IF w.j + 1 < w.i THEN w.i ELSE w.i + 1,
                     ![k].j = IF w.j + 1 < w.i THEN w.j + 1 ELSE 1]
           ELSE /\ Become(k, "exited")
                /\ UNCHANGED data
      /\ UNCHANGED <<given, pc, turn, pipe, ends, out>>

Join ==
  /\ pc = "join"
  /\ worker[turn].st = "exited"
  /\ NextTurn("join", "merge")
  /\ UNCHANGED <<given, data, worker, pipe, ends, out>>

-----------------------------------------------------------------------------
(***************************************************************************)
(* pipe, pipe, fork: the child holds what main holds, the pipes of earlier *)
(* children included.                                                      *)
(***************************************************************************)
Fork ==
  LET mine == {<<Main, p, e>> : p \in {ToChild(turn), FromChild(turn)}, e \in {"r", "w"}}
      held == mine \cup {d \in ends : d[1] = Main}
  IN  /\ pc = "fork"
      /\ ends' = ends \cup mine \cup {<<turn, d[2], d[3]>> : d \in held}
      /\ Become(turn, "forked")
      /\ pc' = "close"
      /\ UNCHANGED <<given, data, turn, pipe, out>>

\* Faulty: main keeps the end of the pipe the child writes to.
CloseReadOnly ==
  /\ pc = "close"
  /\ ends' = ends \ {<<Main, ToChild(turn), "r">>}
  /\ pc' = "write"
  /\ UNCHANGED <<given, data, turn, worker, pipe, out>>

CloseInMain ==
  /\ pc = "close"
  /\ ends' = ends \ {<<Main, ToChild(turn), "r">>, <<Main, FromChild(turn), "w">>}
  /\ pc' = "write"
  /\ UNCHANGED <<given, data, turn, worker, pipe, out>>

(***************************************************************************)
(* Room in a pipe somebody reads; and the end of one: nothing in it, and   *)
(* nobody left to write.                                                   *)
(***************************************************************************)
CanWrite(p) ==
  /\ Len(pipe[p]) < Capacity
  /\ \E d \in ends : d[2] = p /\ d[3] = "r"

\* Faulty: a pipe that is empty for now is taken for one at its end.
EmptyForNow(p) == pipe[p] = <<>>

AtEnd(p) ==
  /\ pipe[p] = <<>>
  /\ ~ \E d \in ends : d[2] = p /\ d[3] = "w"

(***************************************************************************)
(* Main writes part turn, then closes the pipe.                            *)
(***************************************************************************)
WritePart ==
  LET p == ToChild(turn)
      sent == worker[turn].sent + 1
  IN  /\ pc = "write"
      /\ IF sent <= Size(turn)
           THEN /\ CanWrite(p)
                /\ pipe' = [pipe EXCEPT ![p] = Append(@, PartOf(data, turn)[sent])]
                /\ worker' = [worker EXCEPT ![turn].sent = sent]
                /\ UNCHANGED <<ends, turn, pc>>
           ELSE /\ ends' = ends \ {<<Main, p, "w">>}
                /\ NextTurn("fork", "read")
                /\ UNCHANGED <<worker, pipe>>
      /\ UNCHANGED <<given, data, out>>

(***************************************************************************)
(* The child closes the ends it does not use.                              *)
(***************************************************************************)
\* Faulty: the child leaves the write end of its own input open.
ChildClosesNone(k) ==
  /\ worker[k].st = "forked"
  /\ ends' = ends \ {<<k, FromChild(k), "r">>}
  /\ Become(k, "read")
  /\ UNCHANGED <<given, data, pc, turn, pipe, out>>

ChildCloses(k) ==
  /\ worker[k].st = "forked"
  /\ ends' = ends \ {<<k, ToChild(k), "w">>, <<k, FromChild(k), "r">>}
  /\ Become(k, "read")
  /\ UNCHANGED <<given, data, pc, turn, pipe, out>>

(***************************************************************************)
(* ReadRangeFromFile reads to the end and asserts that it got what it      *)
(* expected; then the child closes the pipe and sorts.                     *)
(***************************************************************************)
ChildReads(k) ==
  LET p == ToChild(k)
      w == worker[k]
  IN  /\ w.st = "read"
      /\ \/ /\ pipe[p] # <<>>
            /\ worker' = [worker EXCEPT ![k].numbers = Append(@, Head(pipe[p]))]
            /\ pipe' = [pipe EXCEPT ![p] = Tail(@)]
            /\ UNCHANGED ends
         \/ /\ AtEnd(p)
            /\ worker' = [worker EXCEPT
                 ![k].numbers = BubbleSort(@),
                 ![k].st = IF Len(w.numbers) = Size(k) THEN "write" ELSE "aborted"]
            /\ ends' = IF Len(w.numbers) = Size(k)
                         THEN ends \ {<<k, p, "r">>} ELSE {d \in ends : d[1] # k}
            /\ UNCHANGED pipe
      /\ UNCHANGED <<given, data, pc, turn, out>>

(***************************************************************************)
(* It writes the sorted numbers and exits, which closes all it holds.      *)
(***************************************************************************)
ChildWrites(k) ==
  LET p == FromChild(k)
      w == worker[k]
  IN  /\ w.st = "write"
      /\ IF w.numbers # <<>>
           THEN /\ CanWrite(p)
                /\ pipe' = [pipe EXCEPT ![p] = Append(@, Head(w.numbers))]
                /\ worker' = [worker EXCEPT ![k].numbers = Tail(@)]
                /\ UNCHANGED ends
           ELSE /\ ends' = {d \in ends : d[1] # k}
                /\ Become(k, "exited")
                /\ UNCHANGED pipe
      /\ UNCHANGED <<given, data, pc, turn, out>>

(***************************************************************************)
(* Main reads part turn back to where it was, with the same assertion.     *)
(***************************************************************************)
ReadBack ==
  LET p == FromChild(turn)
      got == worker[turn].got
  IN  /\ pc = "read"
      /\ \/ /\ pipe[p] # <<>>
            /\ data' = [data EXCEPT ![Split[turn - 1] + got + 1] = Head(pipe[p])]
            /\ pipe' = [pipe EXCEPT ![p] = Tail(@)]
            /\ worker' = [worker EXCEPT ![turn].got = got + 1]
            /\ UNCHANGED <<pc, ends>>
         \/ /\ AtEnd(p)
            /\ pc' = IF got = Size(turn) THEN "wait" ELSE "aborted"
            /\ ends' = ends \ {<<Main, p, "r">>}
            /\ UNCHANGED <<data, pipe, worker>>
      /\ UNCHANGED <<given, turn, out>>

WaitChild ==
  /\ pc = "wait"
  /\ worker[turn].st \in {"exited", "aborted"}
  /\ NextTurn("read", "merge")
  /\ UNCHANGED <<given, data, worker, pipe, ends, out>>

-----------------------------------------------------------------------------
Merge ==
  /\ pc = "merge"
  /\ out' = MergeSort(data, Split)
  /\ pc' = "done"
  /\ UNCHANGED <<given, data, turn, worker, pipe, ends>>

MainStep ==
  \/ Begin \/ Merge
  \/ CreateThread \/ Join
  \/ Fork \/ CloseInMain \/ WritePart \/ ReadBack \/ WaitChild

WorkerStep(k) ==
  \/ SortStep(k)
  \/ ChildCloses(k) \/ ChildReads(k) \/ ChildWrites(k)

Next == MainStep \/ \E k \in Part : WorkerStep(k)

(***************************************************************************)
(* The system runs every process and every thread that can run.            *)
(***************************************************************************)
Fairness ==
  /\ WF_vars(MainStep)
  /\ \A c \in Counts : \A k \in 1 .. c : WF_vars(k <= count /\ WorkerStep(k))

Spec == Init /\ [][Next]_vars /\ Fairness

-----------------------------------------------------------------------------
(***************************************************************************)
(* Type invariant.                                                         *)
(***************************************************************************)
Worker ==
  [st : {"none", "sort", "forked", "read", "write", "exited", "aborted"},
   numbers : Seq(Value), i : Nat, j : Nat, sent : 0 .. MaxSize, got : 0 .. MaxSize]

TypeOK ==
  /\ input \in Seq(Value) /\ Len(input) <= MaxSize
  /\ count \in Counts
  /\ threaded \in BOOLEAN
  /\ data \in [DOMAIN input -> Value]
  /\ pc \in {"begin", "create", "join", "fork", "close", "write", "read", "wait",
             "merge", "done", "aborted"}
  /\ turn \in Part
  /\ worker \in [Part -> Worker]
  /\ \A k \in Part : Len(worker[k].numbers) <= MaxSize
  /\ pipe \in [Pipe -> Seq(Value)]
  /\ \A p \in Pipe : Len(pipe[p]) <= Capacity
  /\ ends \subseteq (Part \cup {Main}) \X Pipe \X {"r", "w"}
  /\ out \in Seq(Value) /\ Len(out) <= MaxSize

(***************************************************************************)
(* w has the numbers of v, each as often as v, in order.                   *)
(***************************************************************************)
Ascending(v) == \A i, j \in DOMAIN v : i < j => v[i] <= v[j]

Permuted(v, w) ==
  /\ DOMAIN w = DOMAIN v
  /\ \E p \in [DOMAIN v -> DOMAIN v] :
       /\ \A i, j \in DOMAIN v : p[i] = p[j] => i = j
       /\ \A i \in DOMAIN v : w[i] = v[p[i]]

Sorts(w, v) == Ascending(w) /\ Permuted(v, w)

(***************************************************************************)
(* What the program prints is the numbers of the files, all of them, in    *)
(* order: whatever the number of processes, with threads or without, and   *)
(* however the workers and main take turns.                                *)
(***************************************************************************)
PrintsSorted == pc = "done" => Sorts(out, input)

(***************************************************************************)
(* At any time the numbers of a part of the input are those main has not   *)
(* sent or has got back, those in the two pipes and those at the child:    *)
(* none is lost, doubled or mixed with another part, and none that is sent *)
(* overtakes another.  What a child gives back is sorted.                  *)
(***************************************************************************)
EachPartKept ==
  \A k \in Part :
    LET w == worker[k]
        mine == PartOf(data, k)
        first == PartOf(input, k)
    IN  ~ Alone =>
          CASE w.st \in {"none", "forked", "read"} ->
                 w.numbers \o pipe[ToChild(k)] \o SubSeq(mine, w.sent + 1, Size(k)) = first
            [] w.st \in {"write", "exited"} /\ ~ threaded ->
                 Sorts(SubSeq(mine, 1, w.got) \o pipe[FromChild(k)] \o w.numbers, first)
            [] w.st = "sort" -> Permuted(first, mine)
            [] w.st = "exited" /\ threaded -> Sorts(mine, first)
            [] OTHER -> FALSE

(***************************************************************************)
(* A child holds no write end but its own: those main had open when it was *)
(* forked are closed again.  Otherwise a reader that has all its numbers   *)
(* would wait for another child to exit.                                   *)
(***************************************************************************)
OneWriterPerPipe ==
  \A d \in ends : d[3] = "w" /\ d[1] # Main =>
    \/ d[2] = FromChild(d[1])
    \/ d[2] = ToChild(d[1]) /\ worker[d[1]].st = "forked"

(***************************************************************************)
(* The program comes to its end: main, blocked on a full pipe to one child *)
(* or on an empty one from another, and the children, blocked on main,     *)
(* never all wait for each other, and no assertion fails.                  *)
(***************************************************************************)
Finishes == <>(pc = "done")
=============================================================================
