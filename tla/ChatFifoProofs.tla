--------------------------- MODULE ChatFifoProofs ---------------------------
(***************************************************************************)
(* Machine-checked proofs about the chat server in FIFO mode, for any      *)
(* servers, clients, rooms and numbers of lines, any reordering and loss   *)
(* of datagrams, and any clients that use /quit beside those that do not.  *)
(***************************************************************************)
EXTENDS ChatFifo, FiniteSetTheorems, SequenceTheorems, TLAPS

Facts == INSTANCE ListingLemmas

-----------------------------------------------------------------------------
(***************************************************************************)
(* Facts about the operators.                                              *)
(***************************************************************************)

LEMMA UpToFinite ==
  ASSUME NEW n \in Nat
  PROVE  /\ IsFiniteSet(0 .. n) /\ Cardinality(0 .. n) = n + 1
         /\ IsFiniteSet(1 .. n) /\ Cardinality(1 .. n) = n
<1>1. n \in Int /\ 0 \in Int /\ 1 \in Int OBVIOUS
<1>2. Cardinality(0 .. n) = IF 0 > n THEN 0 ELSE n - 0 + 1 BY <1>1, FS_Interval
<1>3. Cardinality(1 .. n) = IF 1 > n THEN 0 ELSE n - 1 + 1 BY <1>1, FS_Interval
<1>4. IsFiniteSet(0 .. n) /\ IsFiniteSet(1 .. n) BY <1>1, FS_Interval
<1> QED BY <1>2, <1>3, <1>4

(* A sequence put behind another.                                          *)
LEMMA Joined ==
  ASSUME NEW S, NEW L \in Seq(S), NEW M \in Seq(S)
  PROVE  /\ L \o M \in Seq(S) /\ Len(L \o M) = Len(L) + Len(M)
         /\ \A i \in 1 .. Len(L) : i \in 1 .. Len(L \o M) /\ (L \o M)[i] = L[i]
         /\ \A i \in 1 .. Len(M) : (L \o M)[Len(L) + i] = M[i]
         /\ \A i \in 1 .. Len(L \o M) :
              i \in 1 .. Len(L) \/ \E k \in 1 .. Len(M) : i = Len(L) + k
<1>1. Len(L) \in Nat /\ Len(M) \in Nat BY LenProperties
<1> DEFINE N == L \o M
<1>2. /\ N \in Seq(S) /\ Len(N) = Len(L) + Len(M)
      /\ \A i \in 1 .. Len(L) + Len(M) : N[i] = IF i <= Len(L) THEN L[i] ELSE M[i - Len(L)]
  BY ConcatProperties
<1> HIDE DEF N
<1>3. ASSUME NEW i \in 1 .. Len(L) PROVE i \in 1 .. Len(N) /\ N[i] = L[i]
  BY <1>1, <1>2
<1>4. ASSUME NEW i \in 1 .. Len(M) PROVE N[Len(L) + i] = M[i]
  <2>1. Len(L) + i \in 1 .. Len(L) + Len(M) /\ ~(Len(L) + i <= Len(L)) BY <1>1
  <2>2. (Len(L) + i) - Len(L) = i BY <1>1
  <2> QED BY <1>2, <2>1, <2>2
<1>5. ASSUME NEW i \in 1 .. Len(N), i \notin 1 .. Len(L)
      PROVE  \E k \in 1 .. Len(M) : i = Len(L) + k
  <2>1. i - Len(L) \in 1 .. Len(M) /\ i = Len(L) + (i - Len(L)) BY <1>1, <1>2, <1>5
  <2> QED BY <2>1
<1> QED BY <1>2, <1>3, <1>4, <1>5 DEF N

LEMMA MatchesFacts ==
  ASSUME NEW q \in Seq(Line), NEW c, NEW g, NEW n \in Nat,
         NEW i \in Matches(q, c, g, n)
  PROVE  /\ i \in 1 .. Len(q) /\ q[i] \in Line
         /\ q[i].addr = c /\ q[i].room = g /\ q[i].seq = n
BY DEF Matches

(* The first entry GetMsgIndex finds is one it looks for.                  *)
LEMMA GetMsgFacts ==
  ASSUME NEW q \in Seq(Line), NEW c, NEW g, NEW n \in Nat,
         Matches(q, c, g, n) # {}
  PROVE  \E i \in 1 .. Len(q) :
           /\ GetMsg(q, c, g, n) = q[i] /\ q[i] \in Line
           /\ q[i].addr = c /\ q[i].room = g /\ q[i].seq = n
<1> DEFINE I == Matches(q, c, g, n)
<1>1. I \in SUBSET Nat BY MatchesFacts
<1>2. \E i \in I : \A j \in I : i <= j BY <1>1, Facts!LeastNumber
<1>3. PICK i \in I : GetMsg(q, c, g, n) = q[i] BY <1>2 DEF GetMsg
<1> QED BY <1>3, MatchesFacts

(* A queue does not hold more successive numbers than it has entries.      *)
LEMMA NumbersEnd ==
  ASSUME NEW q \in Seq(Line), NEW c, NEW g, NEW n \in Nat
  PROVE  \E m \in 0 .. Len(q) : Matches(q, c, g, n + m) = {}
<1> SUFFICES ASSUME \A m \in 0 .. Len(q) : Matches(q, c, g, n + m) # {} PROVE FALSE
  OBVIOUS
<1> DEFINE f == [m \in 0 .. Len(q) |-> CHOOSE i \in 1 .. Len(q) : q[i].seq = n + m]
<1>1. Len(q) \in Nat BY LenProperties
<1>2. ASSUME NEW m \in 0 .. Len(q) PROVE f[m] \in 1 .. Len(q) /\ q[f[m]].seq = n + m
  <2>2. PICK i \in Matches(q, c, g, n + m) : TRUE OBVIOUS
  <2>3. \E j \in 1 .. Len(q) : q[j].seq = n + m BY <2>2, LenProperties DEF Matches
  <2> QED BY <2>3
<1>3. f = [m \in 0 .. Len(q) |-> f[m]] OBVIOUS
<1> HIDE DEF f
<1>4. f \in [0 .. Len(q) -> 1 .. Len(q)] BY <1>2, <1>3
<1>5. /\ IsFiniteSet(0 .. Len(q)) /\ Cardinality(0 .. Len(q)) = Len(q) + 1
      /\ IsFiniteSet(1 .. Len(q)) /\ Cardinality(1 .. Len(q)) = Len(q)
  BY <1>1, UpToFinite
<1>7. Cardinality(1 .. Len(q)) < Cardinality(0 .. Len(q)) BY <1>1, <1>5
<1>8. PICK x, y \in 0 .. Len(q) : x # y /\ f[x] = f[y]
  BY <1>4, <1>5, <1>7, FS_PigeonHole
<1>9. q[f[x]].seq = n + x /\ q[f[y]].seq = n + y BY <1>2
<1>10. n + x = n + y BY <1>8, <1>9
<1> QED BY <1>1, <1>8, <1>10

(* The delivery loop ends, at a number the queue does not hold, and has    *)
(* delivered lines of the queue under the numbers before it.               *)
LEMMA DeliverableFacts ==
  ASSUME NEW q \in Seq(Line), NEW c, NEW g, NEW n \in Nat,
         NEW b, b = Deliverable(q, c, g, n)
  PROVE  /\ b \in Seq(Line)
         /\ Matches(q, c, g, n + Len(b)) = {}
         /\ \A i \in 1 .. Len(b) : \E j \in 1 .. Len(q) :
              b[i] = q[j] /\ q[j].addr = c /\ q[j].room = g /\ q[j].seq = n + i - 1
<1> DEFINE T == {m \in 0 .. Len(q) : Matches(q, c, g, n + m) = {}}
           IsEnd(k) == /\ \A j \in 0 .. k - 1 : Matches(q, c, g, n + j) # {}
                       /\ Matches(q, c, g, n + k) = {}
<1>1. Len(q) \in Nat BY LenProperties
<1>2. PICK k \in T : \A m \in T : k <= m
  <2>1. T \in SUBSET Nat BY <1>1
  <2>2. T # {} BY NumbersEnd
  <2> QED BY <2>1, <2>2, Facts!LeastNumber
<1>3. k \in 0 .. Len(q) /\ IsEnd(k)
  <2>1. k \in 0 .. Len(q) /\ Matches(q, c, g, n + k) = {} BY <1>2
  <2>2. ASSUME NEW j \in 0 .. k - 1 PROVE Matches(q, c, g, n + j) # {}
    <3>1. j \in 0 .. Len(q) /\ ~(k <= j) BY <1>1, <2>1
    <3>2. j \notin T BY <1>2, <3>1
    <3> QED BY <3>1, <3>2
  <2> QED BY <2>1, <2>2
<1>4. PICK e \in 0 .. Len(q) :
        IsEnd(e) /\ b = [i \in 1 .. e |-> GetMsg(q, c, g, n + i - 1)]
  BY <1>3 DEF Deliverable
<1>5. ASSUME NEW i \in 1 .. e
      PROVE  \E j \in 1 .. Len(q) :
               /\ b[i] = q[j] /\ q[j] \in Line
               /\ q[j].addr = c /\ q[j].room = g /\ q[j].seq = n + i - 1
  <2>1. n + i - 1 \in Nat /\ i - 1 \in 0 .. e - 1 /\ n + (i - 1) = n + i - 1 BY <1>1
  <2>2. Matches(q, c, g, n + i - 1) # {} BY <1>4, <2>1
  <2> QED BY <1>4, <2>1, <2>2, GetMsgFacts
<1>6. b \in [1 .. e -> Line] BY <1>4, <1>5
<1>7. b \in Seq(Line) /\ Len(b) = e BY <1>1, <1>6
<1> QED BY <1>4, <1>5, <1>7

(* AtPlaces is that of the lemmas about it.                                *)
LEMMA PlacesSame == \A q, K : AtPlaces(q, K) = Facts!AtPlaces(q, K)
<1>1. \A T : Cardinality(T) = Facts!Cardinality(T)
  <2> TAKE T
  <2> QED BY DEF Cardinality, Facts!Cardinality
<1>2. \A K, i : Rank(K, i) = Facts!Rank(K, i) BY <1>1 DEF Rank, Facts!Rank
<1>3. \A K, k : Nth(K, k) = Facts!Nth(K, k) BY <1>2 DEF Nth, Facts!Nth
<1> QED BY <1>1, <1>3 DEF AtPlaces, Facts!AtPlaces

\* The queue left after the delivery of batch b from queue q.
Rest(left, q, b) == left = Left(q, b)

(* RemoveByIndex leaves lines of the queue, none of those delivered.       *)
LEMMA LeftFacts ==
  ASSUME NEW q \in Seq(Line), NEW b, NEW left, Rest(left, q, b)
  PROVE  /\ left \in Seq(Line)
         /\ \A i \in DOMAIN left : \E j \in 1 .. Len(q) :
              left[i] = q[j] /\ \A k \in DOMAIN b : b[k] # q[j]
<1> DEFINE K == {i \in DOMAIN q : \A j \in DOMAIN b : b[j] # q[i]}
<1>1. Len(q) \in Nat /\ DOMAIN q = 1 .. Len(q) BY LenProperties
<1>2. K \in SUBSET DOMAIN q OBVIOUS
<1>3. left = Facts!AtPlaces(q, K) BY PlacesSame DEF Rest, Left
<1>4. /\ left \in Seq(Line) /\ Len(left) = Facts!Cardinality(K)
      /\ \A k \in 1 .. Facts!Cardinality(K) :
           Facts!Nth(K, k) \in K /\ left[k] = q[Facts!Nth(K, k)]
  <2> HIDE DEF K
  <2> QED BY <1>2, <1>3, Facts!AtPlacesFacts
<1> QED BY <1>1, <1>4

-----------------------------------------------------------------------------
(***************************************************************************)
(* Type correctness.                                                       *)
(***************************************************************************)

LEMMA TypeInit == Init => TypeOK
<1> SUFFICES ASSUME Init PROVE TypeOK OBVIOUS
<1>1. <<>> \in Seq(Line) OBVIOUS
<1> QED BY <1>1 DEF Init, TypeOK, NoRoom

(* What the handler of a line does, with its delivery batch named.         *)
LEMMA RecvFacts ==
  ASSUME TypeOK, NEW s \in Server, Recv(s)
  PROVE  \E d \in sent, b \in Seq(Line) :
           LET c == d.line.addr
               g == d.line.room
               q == Append(hbq[s], d.line)
           IN  /\ d \notin gone /\ d.dst = s /\ gone' = gone \cup {d}
               /\ d.line \in Line /\ c \in Client /\ g \in Room
               /\ q \in Seq(Line)
               /\ b = Deliverable(q, c, g, expected[s][c][g])
               /\ \E left : Rest(left, q, b) /\ hbq' = [hbq EXCEPT ![s] = left]
               /\ expected' = [expected EXCEPT ![s][c][g] = @ + Len(b)]
               /\ log' = [log EXCEPT ![s][c][g] = @ \o b]
               /\ inbox' = [r \in Client |-> IF Home[r] = s /\ room[r] = g
                                             THEN inbox[r] \o b ELSE inbox[r]]
               /\ UNCHANGED <<room, seqs, cast, sent, lost>>
<1>1. PICK d \in InFlight :
        /\ d.dst = s
        /\ gone' = gone \cup {d}
        /\ FifoDeliver(s, d.line)
        /\ UNCHANGED <<room, seqs, cast, sent, lost>>
  BY DEF Recv
<1> DEFINE c == d.line.addr
           g == d.line.room
           q == Append(hbq[s], d.line)
           b == Deliverable(q, c, g, expected[s][c][g])
<1>2. d \in sent /\ d \notin gone BY DEF InFlight
<1>3. d.line \in Line /\ c \in Client /\ g \in Room
  BY <1>2 DEF TypeOK, Datagram, Line
<1>4. q \in Seq(Line) BY <1>3, AppendProperties DEF TypeOK
<1>5. expected[s][c][g] \in Nat BY <1>3 DEF TypeOK
<1>6. b \in Seq(Line) BY <1>4, <1>5, DeliverableFacts
<1>7. /\ \E left : Rest(left, q, b) /\ hbq' = [hbq EXCEPT ![s] = left]
      /\ expected' = [expected EXCEPT ![s][c][g] = @ + Len(b)]
      /\ log' = [log EXCEPT ![s][c][g] = @ \o b]
      /\ inbox' = [r \in Client |-> IF Home[r] = s /\ room[r] = g
                                    THEN inbox[r] \o b ELSE inbox[r]]
  BY <1>1 DEF FifoDeliver, Rest
<1> HIDE DEF b
<1>8. b = Deliverable(q, c, g, expected[s][c][g]) BY DEF b
<1> QED BY <1>1, <1>2, <1>3, <1>4, <1>6, <1>7, <1>8

LEMMA ClientMsgType ==
  ASSUME TypeOK, NEW c \in Client, ClientMsg(c)
  PROVE  TypeOK'
<1> DEFINE g == room[c]
           x == [addr |-> c, room |-> g, seq |-> seqs[c][g], nth |-> Len(cast[c][g]) + 1]
<1>1. g \in Room BY DEF TypeOK, ClientMsg
<1>2. x \in Line
  <2>1. seqs[c][g] \in Nat /\ Len(cast[c][g]) \in Nat BY <1>1, LenProperties DEF TypeOK
  <2> QED BY <1>1, <2>1 DEF Line
<1>3. seqs' \in [Client -> [Room -> Nat]]
  <2>1. seqs' = [seqs EXCEPT ![c][g] = @ + 1] BY DEF ClientMsg
  <2> QED BY <1>1, <2>1 DEF TypeOK
<1>4. cast' \in [Client -> [Room -> Seq(Line)]]
  <2>1. cast' = [cast EXCEPT ![c][g] = Append(@, x)] BY DEF ClientMsg
  <2> HIDE DEF x, g
  <2>2. Append(cast[c][g], x) \in Seq(Line) BY <1>1, <1>2, AppendProperties DEF TypeOK
  <2> QED BY <1>1, <2>1, <2>2 DEF TypeOK
<1>5. sent' \subseteq Datagram
  <2>1. sent' = sent \cup {[dst |-> t, line |-> x] : t \in Server} BY DEF ClientMsg
  <2> QED BY <1>2, <2>1 DEF TypeOK, Datagram
<1>6. sent \subseteq sent' BY DEF ClientMsg
<1>7. UNCHANGED <<room, hbq, expected, gone, lost, log, inbox>> BY DEF ClientMsg
<1> QED BY <1>3, <1>4, <1>5, <1>6, <1>7 DEF TypeOK

LEMMA RecvType ==
  ASSUME TypeOK, NEW s \in Server, Recv(s)
  PROVE  TypeOK'
<1>1. PICK d \in sent, b \in Seq(Line) :
        LET c == d.line.addr
            g == d.line.room
            q == Append(hbq[s], d.line)
        IN  /\ gone' = gone \cup {d}
            /\ c \in Client /\ g \in Room
            /\ q \in Seq(Line)
            /\ \E left : Rest(left, q, b) /\ hbq' = [hbq EXCEPT ![s] = left]
            /\ expected' = [expected EXCEPT ![s][c][g] = @ + Len(b)]
            /\ log' = [log EXCEPT ![s][c][g] = @ \o b]
            /\ inbox' = [r \in Client |-> IF Home[r] = s /\ room[r] = g
                                          THEN inbox[r] \o b ELSE inbox[r]]
            /\ UNCHANGED <<room, seqs, cast, sent, lost>>
  BY RecvFacts
<1> DEFINE c == d.line.addr
           g == d.line.room
<1>2. c \in Client /\ g \in Room BY <1>1
<1>3. hbq' \in [Server -> Seq(Line)]
  <2>1. PICK left : Rest(left, Append(hbq[s], d.line), b) /\ hbq' = [hbq EXCEPT ![s] = left]
    BY <1>1
  <2>2. Append(hbq[s], d.line) \in Seq(Line) BY <1>1
  <2>3. left \in Seq(Line) BY <2>1, <2>2, LeftFacts
  <2> QED BY <2>1, <2>3 DEF TypeOK
<1>4. expected' \in [Server -> [Client -> [Room -> Nat]]]
  <2>1. expected' = [expected EXCEPT ![s][c][g] = @ + Len(b)] BY <1>1
  <2>2. Len(b) \in Nat BY LenProperties
  <2> HIDE DEF c, g
  <2>3. expected[s][c][g] + Len(b) \in Nat BY <1>2, <2>2 DEF TypeOK
  <2> QED BY <1>2, <2>1, <2>3 DEF TypeOK
<1>5. log' \in [Server -> [Client -> [Room -> Seq(Line)]]]
  <2>1. log' = [log EXCEPT ![s][c][g] = @ \o b] BY <1>1
  <2> HIDE DEF c, g
  <2>2. log[s][c][g] \o b \in Seq(Line) BY <1>2, ConcatProperties DEF TypeOK
  <2> QED BY <1>2, <2>1, <2>2 DEF TypeOK
<1>6. inbox' \in [Client -> Seq(Line)]
  <2>1. \A r \in Client : inbox[r] \o b \in Seq(Line) BY ConcatProperties DEF TypeOK
  <2> QED BY <1>1, <2>1 DEF TypeOK
<1>7. UNCHANGED <<room, seqs, cast, sent, lost>> /\ gone' = gone \cup {d} BY <1>1
<1> QED BY <1>3, <1>4, <1>5, <1>6, <1>7 DEF TypeOK

LEMMA TypeStep == TypeOK /\ [Next]_vars => TypeOK'
<1> SUFFICES ASSUME TypeOK, [Next]_vars PROVE TypeOK' OBVIOUS
<1>1. ASSUME NEW c \in Client, NEW g \in Room, Join(c, g) PROVE TypeOK'
  BY <1>1 DEF TypeOK, Join
<1>2. ASSUME NEW c \in Client, Part(c) PROVE TypeOK' BY <1>2 DEF TypeOK, Part
<1>3. ASSUME NEW c \in Client, Quit(c) PROVE TypeOK' BY <1>3 DEF TypeOK, Quit
<1>4. ASSUME NEW c \in Client, ClientMsg(c) PROVE TypeOK' BY <1>4, ClientMsgType
<1>5. ASSUME NEW s \in Server, Recv(s) PROVE TypeOK' BY <1>5, RecvType
<1>6. ASSUME NEW d \in InFlight, Lose(d) PROVE TypeOK'
  BY <1>6 DEF TypeOK, Lose, InFlight
<1>7. CASE UNCHANGED vars BY <1>7 DEF TypeOK, vars
<1> QED BY <1>1, <1>2, <1>3, <1>4, <1>5, <1>6, <1>7 DEF Next

(* Every variable stays in its range, the numbers of a client that quits   *)
(* and comes back included.                                                *)
THEOREM TypeCorrect == Spec => []TypeOK
BY TypeInit, TypeStep, PTL DEF Spec

-----------------------------------------------------------------------------
(***************************************************************************)
(* The inductive invariant: for a client that does not quit, the number on *)
(* a line is its position among the lines typed in the room, on both       *)
(* sides, and what a server has not delivered is at least two numbers      *)
(* ahead of what it has.                                                   *)
(***************************************************************************)

\* The k-th line of client c in room g.
LineOf(c, g, k) == [addr |-> c, room |-> g, seq |-> k - 1, nth |-> k]

To(s, x) == [dst |-> s, line |-> x]

(***************************************************************************)
(* The sender's side: the record counts the lines, and stamps them.        *)
(***************************************************************************)
CastInv ==
  \A c \in Stayers, g \in Room :
    /\ seqs[c][g] = Len(cast[c][g])
    /\ \A k \in 1 .. Len(cast[c][g]) : cast[c][g][k] = LineOf(c, g, k)

SentInv ==
  \A d \in sent : LET x == d.line IN
    x.addr \in Stayers =>
      /\ x = LineOf(x.addr, x.room, x.nth)
      /\ x.nth \in 1 .. Len(cast[x.addr][x.room])

(***************************************************************************)
(* The receiver's side: it expects the number after those it has           *)
(* delivered, which are the first ones, and each line in its log or queue  *)
(* has come in.                                                            *)
(***************************************************************************)
LogInv ==
  \A s \in Server, c \in Stayers, g \in Room :
    /\ expected[s][c][g] = Len(log[s][c][g])
    /\ Len(log[s][c][g]) <= Len(cast[c][g])
    /\ \A k \in 1 .. Len(log[s][c][g]) :
         log[s][c][g][k] = LineOf(c, g, k) /\ To(s, LineOf(c, g, k)) \in gone

QueueInv ==
  \A s \in Server : \A i \in 1 .. Len(hbq[s]) :
    LET x == hbq[s][i]
    IN  x.addr \in Stayers =>
          To(s, x) \in gone /\ Len(log[s][x.addr][x.room]) + 1 < x.nth

(***************************************************************************)
(* What a client was sent, its server has delivered; and in this order.    *)
(***************************************************************************)
InboxInv ==
  \A r \in Client : \A i \in 1 .. Len(inbox[r]) :
    LET x == inbox[r][i]
    IN  x.addr \in Stayers =>
          /\ x.nth <= Len(log[Home[r]][x.addr][x.room])
          /\ \A j \in 1 .. Len(inbox[r]) :
               /\ i < j
               /\ inbox[r][j].addr = x.addr /\ inbox[r][j].room = x.room
               => x.nth < inbox[r][j].nth

Inv == TypeOK /\ CastInv /\ SentInv /\ LogInv /\ QueueInv /\ InboxInv

LEMMA InvInit == Init => Inv
<1> SUFFICES ASSUME Init PROVE Inv OBVIOUS
<1>1. CastInv BY DEF Init, CastInv, Stayers
<1>2. LogInv BY DEF Init, LogInv, Stayers
<1>3. SentInv /\ QueueInv /\ InboxInv BY DEF Init, SentInv, QueueInv, InboxInv
<1> QED BY <1>1, <1>2, <1>3, TypeInit DEF Inv

(* Types of what the invariant speaks of.                                  *)
LEMMA InvTypes ==
  ASSUME TypeOK
  PROVE  /\ \A c \in Client, g \in Room :
              /\ cast[c][g] \in Seq(Line) /\ Len(cast[c][g]) \in Nat
              /\ seqs[c][g] \in Nat
         /\ \A s \in Server, c \in Client, g \in Room :
              /\ log[s][c][g] \in Seq(Line) /\ Len(log[s][c][g]) \in Nat
              /\ expected[s][c][g] \in Nat
         /\ \A s \in Server :
              /\ hbq[s] \in Seq(Line) /\ Len(hbq[s]) \in Nat
              /\ \A i \in 1 .. Len(hbq[s]) : hbq[s][i] \in Line
         /\ \A r \in Client :
              /\ inbox[r] \in Seq(Line) /\ Len(inbox[r]) \in Nat
              /\ \A i \in 1 .. Len(inbox[r]) : inbox[r][i] \in Line
         /\ \A d \in sent : d.line \in Line /\ d = To(d.dst, d.line)
         /\ Stayers \subseteq Client
         /\ \A x \in Line : x.addr \in Client /\ x.room \in Room /\ x.nth \in Nat
<1>1. \A c \in Client, g \in Room : cast[c][g] \in Seq(Line) /\ seqs[c][g] \in Nat
  BY DEF TypeOK
<1>2. \A s \in Server, c \in Client, g \in Room :
        log[s][c][g] \in Seq(Line) /\ expected[s][c][g] \in Nat
  BY DEF TypeOK
<1>3. \A s \in Server : hbq[s] \in Seq(Line) BY DEF TypeOK
<1>4. \A r \in Client : inbox[r] \in Seq(Line) BY DEF TypeOK
<1>5. \A d \in sent : d.line \in Line /\ d = To(d.dst, d.line)
  BY DEF TypeOK, Datagram, To
<1>6. \A x \in Line : x.addr \in Client /\ x.room \in Room /\ x.nth \in Nat BY DEF Line
<1>7. \A q \in Seq(Line) : Len(q) \in Nat /\ \A i \in 1 .. Len(q) : q[i] \in Line
  BY LenProperties, ElementOfSeq
<1> QED BY <1>1, <1>2, <1>3, <1>4, <1>5, <1>6, <1>7 DEF Stayers

(* Rooms, and the counters of a client that quits, are not in it.          *)
LEMMA CommandStep ==
  ASSUME Inv, TypeOK', \A c \in Stayers : seqs'[c] = seqs[c],
         UNCHANGED <<cast, hbq, expected, sent, gone, log, inbox>>
  PROVE  Inv'
<1>1. CastInv' BY DEF Inv, CastInv
<1>2. SentInv' BY DEF Inv, SentInv
<1>3. LogInv' BY DEF Inv, LogInv
<1>4. QueueInv' BY DEF Inv, QueueInv
<1>5. InboxInv' BY DEF Inv, InboxInv
<1> QED BY <1>1, <1>2, <1>3, <1>4, <1>5 DEF Inv

LEMMA LoseStep ==
  ASSUME Inv, TypeOK', NEW d \in InFlight, Lose(d)
  PROVE  Inv'
<1>1. /\ gone \subseteq gone'
      /\ UNCHANGED <<seqs, cast, hbq, expected, sent, log, inbox>>
  BY DEF Lose
<1>2. CastInv' BY <1>1 DEF Inv, CastInv
<1>3. SentInv' BY <1>1 DEF Inv, SentInv
<1>4. LogInv' BY <1>1 DEF Inv, LogInv
<1>5. QueueInv' BY <1>1 DEF Inv, QueueInv
<1>6. InboxInv' BY <1>1 DEF Inv, InboxInv
<1> QED BY <1>2, <1>3, <1>4, <1>5, <1>6 DEF Inv

(* A line takes the next number and the next place.                        *)
LEMMA ClientMsgStep ==
  ASSUME Inv, TypeOK', NEW c \in Client, ClientMsg(c)
  PROVE  Inv'
<1> DEFINE g == room[c]
           x == [addr |-> c, room |-> g, seq |-> seqs[c][g], nth |-> Len(cast[c][g]) + 1]
           n == Len(cast[c][g])
<1>a. TypeOK BY DEF Inv
<1>1. g \in Room /\ n \in Nat
  <2>1. g \in Room BY DEF Inv, TypeOK, ClientMsg
  <2> QED BY <1>a, <2>1, InvTypes
<1>2. /\ seqs' = [seqs EXCEPT ![c][g] = @ + 1]
      /\ cast' = [cast EXCEPT ![c][g] = Append(@, x)]
      /\ sent' = sent \cup {To(t, x) : t \in Server}
      /\ UNCHANGED <<room, hbq, expected, gone, lost, log, inbox>>
  BY DEF ClientMsg, To
<1>3. x.addr = c /\ x.room = g /\ x.nth = n + 1 /\ (seqs[c][g] = n => x = LineOf(c, g, n + 1))
  BY <1>1 DEF LineOf
<1>4. c \in Stayers => seqs[c][g] = n BY <1>1 DEF Inv, CastInv
<1> HIDE DEF x
<1>5. \A k \in Client, h \in Room :
        IF k = c /\ h = g
        THEN cast'[k][h] = Append(cast[c][g], x) /\ seqs'[k][h] = seqs[c][g] + 1
        ELSE cast'[k][h] = cast[k][h] /\ seqs'[k][h] = seqs[k][h]
  BY <1>1, <1>2 DEF Inv, TypeOK
<1>6. cast[c][g] \in Seq(Line) /\ x \in Line
  <2>1. c \in DOMAIN cast /\ g \in DOMAIN cast[c] /\ cast[c][g] \in Seq(Line)
    BY <1>1 DEF Inv, TypeOK
  <2>2. Server # {} BY ServerAssumption
  <2>3. PICK t \in Server : To(t, x) \in sent' BY <1>2, <2>2
  <2>4. To(t, x).line \in Line BY <2>3 DEF TypeOK, Datagram
  <2> QED BY <2>1, <2>4 DEF To
<1>7. /\ Len(Append(cast[c][g], x)) = n + 1
      /\ Append(cast[c][g], x)[n + 1] = x
      /\ \A i \in 1 .. n : Append(cast[c][g], x)[i] = cast[c][g][i]
  BY <1>1, <1>6, AppendProperties
<1>8. \A k \in Client, h \in Room : Len(cast[k][h]) <= Len(cast'[k][h])
  BY <1>a, <1>1, <1>5, <1>7, InvTypes
<1>9. CastInv'
  <2> SUFFICES ASSUME NEW k \in Stayers, NEW h \in Room
               PROVE  /\ seqs'[k][h] = Len(cast'[k][h])
                      /\ \A i \in 1 .. Len(cast'[k][h]) : cast'[k][h][i] = LineOf(k, h, i)
    BY DEF CastInv, LineOf, Stayers
  <2>1. k \in Client BY DEF Stayers
  <2>2. CASE k = c /\ h = g
    <3>1. cast'[k][h] = Append(cast[c][g], x) /\ seqs'[k][h] = n + 1
      BY <1>4, <1>5, <2>1, <2>2
    <3>2. ASSUME NEW i \in 1 .. n + 1 PROVE Append(cast[c][g], x)[i] = LineOf(c, g, i)
      <4>1. CASE i = n + 1 BY <1>3, <1>4, <1>7, <2>2, <4>1
      <4>2. CASE i # n + 1
        <5>1. i \in 1 .. n BY <1>1, <4>2
        <5> QED BY <1>1, <1>7, <2>2, <5>1 DEF Inv, CastInv
      <4> QED BY <4>1, <4>2
    <3> QED BY <1>7, <2>2, <3>1, <3>2
  <2>3. CASE ~(k = c /\ h = g) BY <1>5, <2>1, <2>3 DEF Inv, CastInv
  <2> QED BY <2>2, <2>3
<1>10. SentInv'
  <2> SUFFICES ASSUME NEW d \in sent', d.line.addr \in Stayers
               PROVE  /\ d.line = LineOf(d.line.addr, d.line.room, d.line.nth)
                      /\ d.line.nth \in 1 .. Len(cast'[d.line.addr][d.line.room])
    BY DEF SentInv, LineOf, Stayers
  <2>1. CASE d \in sent
    <3> DEFINE y == d.line
    <3>1. y.addr \in Client /\ y.room \in Room /\ y.nth \in Nat BY <1>a, <2>1, InvTypes
    <3>2. y = LineOf(y.addr, y.room, y.nth) /\ y.nth \in 1 .. Len(cast[y.addr][y.room])
      BY <2>1 DEF Inv, SentInv
    <3>3. Len(cast[y.addr][y.room]) \in Nat /\ Len(cast'[y.addr][y.room]) \in Nat
      <4>1. Len(cast[y.addr][y.room]) \in Nat BY <1>a, <3>1, InvTypes
      <4>2. cast'[y.addr][y.room] \in Seq(Line) BY <3>1 DEF TypeOK
      <4> QED BY <4>1, <4>2, LenProperties
    <3>4. Len(cast[y.addr][y.room]) <= Len(cast'[y.addr][y.room]) BY <1>8, <3>1
    <3>5. y.nth \in 1 .. Len(cast'[y.addr][y.room])
      <4> HIDE DEF y
      <4> QED BY <3>1, <3>2, <3>3, <3>4
    <3> QED BY <3>2, <3>5
  <2>2. CASE d \notin sent
    <3>1. d.line = x BY <1>2, <2>2 DEF To
    <3>2. cast'[c][g] = Append(cast[c][g], x) BY <1>1, <1>5
    <3> QED BY <1>1, <1>3, <1>4, <1>7, <3>1, <3>2
  <2> QED BY <2>1, <2>2
<1>11. LogInv'
  <2>1. \A s \in Server, k \in Stayers, h \in Room : Len(log[s][k][h]) <= Len(cast'[k][h])
    <3> TAKE s \in Server, k \in Stayers, h \in Room
    <3>1. k \in Client BY DEF Stayers
    <3>2. PICK m \in Nat : m = Len(log[s][k][h]) BY <1>a, <3>1, InvTypes
    <3>3. PICK e \in Nat : e = Len(cast[k][h]) BY <1>a, <3>1, InvTypes
    <3>4. Len(cast'[k][h]) \in Nat
      <4>1. cast'[k][h] \in Seq(Line) BY <3>1 DEF TypeOK
      <4> QED BY <4>1, LenProperties
    <3>5. PICK f \in Nat : f = Len(cast'[k][h]) BY <3>4
    <3>6. m <= e BY <3>2, <3>3 DEF Inv, LogInv
    <3>7. e <= f BY <1>8, <3>1, <3>3, <3>5
    <3>8. m <= f BY <3>6, <3>7
    <3> QED BY <3>2, <3>5, <3>8
  <2> QED BY <1>2, <2>1 DEF Inv, LogInv
<1>12. QueueInv' BY <1>2 DEF Inv, QueueInv
<1>13. InboxInv' BY <1>2 DEF Inv, InboxInv
<1> QED BY <1>9, <1>10, <1>11, <1>12, <1>13 DEF Inv

(***************************************************************************)
(* The handler of a line.                                                  *)
(***************************************************************************)

\* The line it comes in as, the queue the handler walks, and what it delivers.
From(c, g, x) == c = x.addr /\ g = x.room

Walked(q, s, x) == q = Append(hbq[s], x)

Batch(b, q, s, c, g) == b = Deliverable(q, c, g, expected[s][c][g])

(* Each line in the queue the handler walks has come in, and the new one   *)
(* was not delivered before.                                               *)
LEMMA QueuedLine ==
  ASSUME Inv, NEW s \in Server, NEW d \in sent, d \notin gone, d.dst = s,
         gone' = gone \cup {d},
         NEW q, Walked(q, s, d.line),
         NEW j \in 1 .. Len(q), q[j].addr \in Stayers
  PROVE  LET x == q[j]
         IN  /\ x = LineOf(x.addr, x.room, x.nth)
             /\ x.addr \in Client /\ x.room \in Room /\ x.nth \in Nat
             /\ x.nth <= Len(cast[x.addr][x.room])
             /\ Len(log[s][x.addr][x.room]) < x.nth
             /\ To(s, x) \in gone'
             /\ x = d.line \/ Len(log[s][x.addr][x.room]) + 1 < x.nth
<1> DEFINE x == q[j]
<1>a. TypeOK BY DEF Inv
<1>1. hbq[s] \in Seq(Line) /\ d.line \in Line /\ d = To(s, d.line) BY <1>a, InvTypes
<1>2. /\ Len(hbq[s]) \in Nat /\ Len(q) = Len(hbq[s]) + 1
      /\ q[Len(hbq[s]) + 1] = d.line
      /\ \A i \in 1 .. Len(hbq[s]) : q[i] = hbq[s][i]
  BY <1>1, AppendProperties, LenProperties DEF Walked
<1>3. CASE j = Len(hbq[s]) + 1
  <2>1. x = d.line /\ To(s, x) \in gone' /\ d = To(s, x) BY <1>1, <1>2, <1>3
  <2>2. x.addr \in Client /\ x.room \in Room /\ x.nth \in Nat BY <1>a, <2>1, InvTypes
  <2>3. x = LineOf(x.addr, x.room, x.nth) /\ x.nth \in 1 .. Len(cast[x.addr][x.room])
    BY <2>1 DEF Inv, SentInv
  <2>4. Len(log[s][x.addr][x.room]) \in Nat /\ Len(cast[x.addr][x.room]) \in Nat
    BY <1>a, <2>2, InvTypes
  <2>5. Len(log[s][x.addr][x.room]) < x.nth
    <3> SUFFICES ASSUME ~(Len(log[s][x.addr][x.room]) < x.nth) PROVE FALSE OBVIOUS
    <3>1. x.nth \in 1 .. Len(log[s][x.addr][x.room])
      <4> HIDE DEF x
      <4>1. PICK m \in Nat : m = Len(log[s][x.addr][x.room]) BY <2>4
      <4>2. x.nth \in Nat /\ x.nth >= 1 /\ ~(m < x.nth) BY <2>2, <2>3, <4>1
      <4>3. x.nth \in 1 .. m BY <4>2
      <4> QED BY <4>1, <4>3
    <3>2. To(s, LineOf(x.addr, x.room, x.nth)) \in gone BY <2>2, <3>1 DEF Inv, LogInv
    <3> QED BY <2>1, <2>3, <3>2
  <2> QED BY <2>1, <2>2, <2>3, <2>4, <2>5
<1>4. CASE j # Len(hbq[s]) + 1
  <2>1. j \in 1 .. Len(hbq[s]) /\ x = hbq[s][j] BY <1>2, <1>4
  <2>2. x.addr \in Client /\ x.room \in Room /\ x.nth \in Nat BY <1>a, <2>1, InvTypes
  <2>3. To(s, x) \in gone /\ Len(log[s][x.addr][x.room]) + 1 < x.nth
    BY <2>1 DEF Inv, QueueInv
  <2>4. To(s, x) \in sent /\ To(s, x).line = x BY <2>3 DEF Inv, TypeOK, To
  <2>5. x = LineOf(x.addr, x.room, x.nth) /\ x.nth \in 1 .. Len(cast[x.addr][x.room])
    BY <2>4 DEF Inv, SentInv
  <2>6. Len(log[s][x.addr][x.room]) \in Nat /\ Len(cast[x.addr][x.room]) \in Nat
    BY <1>a, <2>2, InvTypes
  <2>7. /\ Len(log[s][x.addr][x.room]) < x.nth
        /\ x.nth <= Len(cast[x.addr][x.room])
    <3> HIDE DEF x
    <3> QED BY <2>2, <2>3, <2>5, <2>6
  <2> QED BY <2>2, <2>3, <2>5, <2>7
<1> QED BY <1>3, <1>4

(* The lines of a batch are the next ones of their client in its room.     *)
LEMMA BatchLines ==
  ASSUME Inv, NEW s \in Server, NEW d \in sent, d \notin gone, d.dst = s,
         gone' = gone \cup {d},
         NEW c \in Stayers, NEW g \in Room,
         NEW q \in Seq(Line), Walked(q, s, d.line),
         NEW b, Batch(b, q, s, c, g)
  PROVE  \A i \in 1 .. Len(b) :
           /\ b[i] = LineOf(c, g, Len(log[s][c][g]) + i)
           /\ To(s, b[i]) \in gone'
           /\ Len(log[s][c][g]) + i <= Len(cast[c][g])
<1> SUFFICES ASSUME NEW i \in 1 .. Len(b)
             PROVE  /\ b[i] = LineOf(c, g, Len(log[s][c][g]) + i)
                    /\ To(s, b[i]) \in gone'
                    /\ Len(log[s][c][g]) + i <= Len(cast[c][g])
  OBVIOUS
<1> DEFINE n == Len(log[s][c][g])
<1>a. TypeOK BY DEF Inv
<1>1. n \in Nat /\ Len(cast[c][g]) \in Nat
  <2>1. c \in Client BY DEF Stayers
  <2> QED BY <1>a, <2>1, InvTypes
<1>2. expected[s][c][g] = n BY DEF Inv, LogInv
<1>x. b = Deliverable(q, c, g, n) BY <1>2 DEF Batch
<1>3. b \in Seq(Line)
  <2> HIDE DEF n
  <2> QED BY <1>1, <1>x, DeliverableFacts
<1>4. i \in Nat BY <1>3, LenProperties
<1>5. PICK j \in 1 .. Len(q) :
        b[i] = q[j] /\ q[j].addr = c /\ q[j].room = g /\ q[j].seq = n + i - 1
  <2> HIDE DEF n
  <2> QED BY <1>1, <1>x, DeliverableFacts
<1>6. LET x == q[j]
      IN  /\ x = LineOf(c, g, x.nth) /\ x.nth \in Nat /\ x.nth <= Len(cast[c][g])
          /\ To(s, x) \in gone'
  BY <1>5, QueuedLine
<1>7. q[j].seq = q[j].nth - 1 BY <1>6 DEF LineOf
<1>8. q[j].nth - 1 = n + i - 1 BY <1>5, <1>7
<1>9. q[j].nth = n + i
  <2> HIDE DEF n
  <2>1. q[j].nth \in Nat BY <1>6
  <2> QED BY <1>1, <1>4, <1>8, <2>1
<1>10. b[i] = LineOf(c, g, n + i) /\ To(s, b[i]) \in gone' /\ n + i <= Len(cast[c][g])
  <2> HIDE DEF n
  <2>1. /\ q[j] = LineOf(c, g, q[j].nth) /\ q[j].nth <= Len(cast[c][g])
        /\ To(s, q[j]) \in gone'
    BY <1>6
  <2>2. b[i] = q[j] BY <1>5
  <2>3. q[j] = LineOf(c, g, n + i) BY <1>9, <2>1
  <2>4. To(s, b[i]) \in gone' BY <2>1, <2>2
  <2> QED BY <1>9, <2>1, <2>2, <2>3, <2>4
<1> QED BY <1>10

(* The lines of a batch are of its client, in its room.                    *)
LEMMA BatchOf ==
  ASSUME TypeOK, NEW s \in Server, NEW c \in Client, NEW g \in Room,
         NEW q \in Seq(Line), NEW b, Batch(b, q, s, c, g)
  PROVE  \A i \in 1 .. Len(b) : b[i].addr = c /\ b[i].room = g
<1>1. expected[s][c][g] \in Nat BY InvTypes
<1> QED BY <1>1, DeliverableFacts DEF Batch

\* A line left in the queue of s when n lines of c in g are delivered.
IsLeft(x, s, c, g, n) ==
  /\ To(s, x) \in gone'
  /\ x.addr \in Client /\ x.room \in Room /\ x.nth \in Nat
  /\ Len(log[s][x.addr][x.room]) + (IF x.addr = c /\ x.room = g THEN n ELSE 0) + 1 < x.nth

(* What is left in the queue is behind a gap.                              *)
LEMMA LeftLines ==
  ASSUME Inv, NEW s \in Server, NEW d \in sent, d \notin gone, d.dst = s,
         gone' = gone \cup {d},
         NEW c, NEW g, From(c, g, d.line),
         NEW q \in Seq(Line), Walked(q, s, d.line),
         NEW b, Batch(b, q, s, c, g),
         NEW left, Rest(left, q, b)
  PROVE  \A i \in 1 .. Len(left) : left[i].addr \in Stayers =>
           IsLeft(left[i], s, c, g, Len(b))
<1> SUFFICES ASSUME NEW i \in 1 .. Len(left), left[i].addr \in Stayers
             PROVE  IsLeft(left[i], s, c, g, Len(b))
  OBVIOUS
<1> DEFINE x == left[i]
           n == Len(log[s][x.addr][x.room])
<1>a. TypeOK BY DEF Inv
<1>1. i \in DOMAIN left
  <2>1. left \in Seq(Line) BY LeftFacts
  <2> QED BY <2>1, LenProperties
<1>2. PICK j \in 1 .. Len(q) : x = q[j] /\ \A k \in DOMAIN b : b[k] # q[j]
  BY <1>1, LeftFacts
<1>3. /\ x = LineOf(x.addr, x.room, x.nth)
      /\ x.addr \in Client /\ x.room \in Room /\ x.nth \in Nat
      /\ n < x.nth
      /\ To(s, x) \in gone'
      /\ x = d.line \/ n + 1 < x.nth
  BY <1>2, QueuedLine
<1>4. n \in Nat BY <1>a, <1>3, InvTypes
<1> HIDE DEF x
<1>5. ASSUME x.addr = c, x.room = g PROVE n + Len(b) + 1 < x.nth
  <2>1. n = Len(log[s][c][g]) /\ c \in Stayers BY <1>5 DEF x
  <2>2. expected[s][c][g] = n BY <1>3, <1>5, <2>1 DEF Inv, LogInv
  <2> HIDE DEF n
  <2>3. b \in Seq(Line) /\ Matches(q, c, g, n + Len(b)) = {}
    BY <1>4, <2>2, DeliverableFacts DEF Batch
  <2>4. Len(b) \in Nat /\ DOMAIN b = 1 .. Len(b) BY <2>3, LenProperties
  <2>5. ASSUME x.nth <= n + Len(b) PROVE FALSE
    <3>1. PICK k \in 1 .. Len(b) : n + k = x.nth
      <4>1. x.nth - n \in 1 .. Len(b) /\ n + (x.nth - n) = x.nth
        BY <1>3, <1>4, <2>4, <2>5, SMTT(30)
      <4> QED BY <4>1
    <3>2. b[k] = LineOf(c, g, n + k)
      <4>1. g \in Room BY <1>3, <1>5
      <4>2. \A m \in 1 .. Len(b) : b[m] = LineOf(c, g, Len(log[s][c][g]) + m)
        BY <2>1, <4>1, BatchLines
      <4> QED BY <2>1, <4>2
    <3>3. b[k] = x BY <1>3, <1>5, <3>1, <3>2
    <3> QED BY <1>2, <2>4, <3>3
  <2>6. ASSUME x.nth = n + Len(b) + 1 PROVE FALSE
    <3>1. x.seq = x.nth - 1 BY <1>3 DEF LineOf
    <3>2. x.seq = n + Len(b)
      <4>1. PICK m \in Nat : m = n + Len(b) BY <1>4, <2>4
      <4>2. x.nth = m + 1 BY <2>6, <4>1
      <4> QED BY <3>1, <4>1, <4>2
    <3>3. j \in DOMAIN q BY LenProperties
    <3>4. j \in Matches(q, c, g, n + Len(b)) BY <1>2, <1>5, <3>2, <3>3 DEF Matches
    <3> QED BY <2>3, <3>4
  <2> QED BY <1>3, <1>4, <2>4, <2>5, <2>6
<1>6. ASSUME ~(x.addr = c /\ x.room = g) PROVE n + 1 < x.nth
  BY <1>3, <1>6 DEF From
<1>7. IsLeft(x, s, c, g, Len(b))
  <2>1. CASE x.addr = c /\ x.room = g
    <3>1. n + Len(b) + 1 < x.nth BY <1>5, <2>1
    <3> QED BY <1>3, <2>1, <3>1 DEF IsLeft
  <2>2. CASE ~(x.addr = c /\ x.room = g)
    <3>1. n + 1 < x.nth BY <1>6, <2>2
    <3>2. n + 0 + 1 < x.nth BY <1>4, <3>1
    <3> QED BY <1>3, <2>2, <3>2 DEF IsLeft
  <2> QED BY <2>1, <2>2
<1> QED BY <1>7 DEF x

\* The handler of d at s, walking q and delivering b of client c in room g.
Handles(s, d, q, b, c, g) ==
  /\ d \notin gone /\ d.dst = s /\ gone' = gone \cup {d}
  /\ From(c, g, d.line) /\ Walked(q, s, d.line) /\ Batch(b, q, s, c, g)
  /\ \E left : Rest(left, q, b) /\ hbq' = [hbq EXCEPT ![s] = left]
  /\ expected' = [expected EXCEPT ![s][c][g] = @ + Len(b)]
  /\ log' = [log EXCEPT ![s][c][g] = @ \o b]
  /\ inbox' = [r \in Client |-> IF Home[r] = s /\ room[r] = g
                                THEN inbox[r] \o b ELSE inbox[r]]
  /\ UNCHANGED <<room, seqs, cast, sent, lost>>

LEMMA RecvNamed ==
  ASSUME TypeOK, NEW s \in Server, Recv(s)
  PROVE  \E d \in sent, b \in Seq(Line), c \in Client, g \in Room, q \in Seq(Line) :
           Handles(s, d, q, b, c, g)
<1>1. PICK d \in sent, b \in Seq(Line) :
        LET c == d.line.addr
            g == d.line.room
            q == Append(hbq[s], d.line)
        IN  /\ d \notin gone /\ d.dst = s /\ gone' = gone \cup {d}
            /\ d.line \in Line /\ c \in Client /\ g \in Room
            /\ q \in Seq(Line)
            /\ b = Deliverable(q, c, g, expected[s][c][g])
            /\ \E left : Rest(left, q, b) /\ hbq' = [hbq EXCEPT ![s] = left]
            /\ expected' = [expected EXCEPT ![s][c][g] = @ + Len(b)]
            /\ log' = [log EXCEPT ![s][c][g] = @ \o b]
            /\ inbox' = [r \in Client |-> IF Home[r] = s /\ room[r] = g
                                          THEN inbox[r] \o b ELSE inbox[r]]
            /\ UNCHANGED <<room, seqs, cast, sent, lost>>
  BY RecvFacts
<1>2. /\ d.line.addr \in Client /\ d.line.room \in Room
      /\ Append(hbq[s], d.line) \in Seq(Line)
  BY <1>1
<1> USE <1>2
<1> WITNESS d \in sent, b \in Seq(Line), d.line.addr \in Client, d.line.room \in Room,
            Append(hbq[s], d.line) \in Seq(Line)
<1> QED BY <1>1 DEF Handles, From, Walked, Batch

LEMMA RecvStep ==
  ASSUME Inv, TypeOK', NEW s \in Server, Recv(s)
  PROVE  Inv'
<1>a. TypeOK BY DEF Inv
<1>0. PICK d \in sent, b \in Seq(Line), c \in Client, g \in Room, q \in Seq(Line) :
        Handles(s, d, q, b, c, g)
  BY <1>a, RecvNamed
<1>1. /\ d \notin gone /\ d.dst = s /\ gone' = gone \cup {d}
      /\ From(c, g, d.line) /\ Walked(q, s, d.line) /\ Batch(b, q, s, c, g)
      /\ \E left : Rest(left, q, b) /\ hbq' = [hbq EXCEPT ![s] = left]
      /\ expected' = [expected EXCEPT ![s][c][g] = @ + Len(b)]
      /\ log' = [log EXCEPT ![s][c][g] = @ \o b]
      /\ inbox' = [r \in Client |-> IF Home[r] = s /\ room[r] = g
                                    THEN inbox[r] \o b ELSE inbox[r]]
      /\ UNCHANGED <<room, seqs, cast, sent, lost>>
  BY <1>0 DEF Handles
<1>2. PICK left : Rest(left, q, b) /\ hbq' = [hbq EXCEPT ![s] = left] BY <1>1
<1>3. Len(b) \in Nat BY LenProperties
<1>4. \A t \in Server, k \in Client, h \in Room :
        IF t = s /\ k = c /\ h = g
        THEN /\ expected'[t][k][h] = expected[s][c][g] + Len(b)
             /\ log'[t][k][h] = log[s][c][g] \o b
        ELSE expected'[t][k][h] = expected[t][k][h] /\ log'[t][k][h] = log[t][k][h]
  <2> TAKE t \in Server, k \in Client, h \in Room
  <2>1. /\ expected' = [expected EXCEPT ![s][c][g] = @ + Len(b)]
        /\ log' = [log EXCEPT ![s][c][g] = @ \o b]
    BY <1>1
  <2>2. /\ DOMAIN expected = Server /\ DOMAIN expected[s] = Client
        /\ DOMAIN expected[s][c] = Room
        /\ DOMAIN log = Server /\ DOMAIN log[s] = Client /\ DOMAIN log[s][c] = Room
    BY <1>a DEF TypeOK
  <2> QED BY <2>1, <2>2
<1>5. log[s][c][g] \in Seq(Line) /\ Len(log[s][c][g]) \in Nat BY <1>a, InvTypes
<1>6. /\ Len(log[s][c][g] \o b) = Len(log[s][c][g]) + Len(b)
      /\ \A i \in 1 .. Len(log[s][c][g]) : (log[s][c][g] \o b)[i] = log[s][c][g][i]
      /\ \A i \in 1 .. Len(b) : (log[s][c][g] \o b)[Len(log[s][c][g]) + i] = b[i]
  <2> DEFINE L == log[s][c][g]
  <2>1. L \in Seq(Line) BY <1>5
  <2> HIDE DEF L
  <2>2. /\ Len(L \o b) = Len(L) + Len(b)
        /\ \A i \in 1 .. Len(L) : (L \o b)[i] = L[i]
        /\ \A i \in 1 .. Len(b) : (L \o b)[Len(L) + i] = b[i]
    BY <2>1, Joined
  <2> QED BY <2>2 DEF L
<1>7. c \in Stayers => \A i \in 1 .. Len(b) :
        /\ b[i] = LineOf(c, g, Len(log[s][c][g]) + i)
        /\ To(s, b[i]) \in gone'
        /\ Len(log[s][c][g]) + i <= Len(cast[c][g])
  BY <1>1, BatchLines
<1>b. \A i \in 1 .. Len(left) : left[i].addr \in Stayers =>
           IsLeft(left[i], s, c, g, Len(b))
  BY <1>1, <1>2, LeftLines
<1>8. CastInv' BY <1>1 DEF Inv, CastInv
<1>9. SentInv' BY <1>1 DEF Inv, SentInv
<1>10. LogInv'
  <2> SUFFICES ASSUME NEW t \in Server, NEW k \in Stayers, NEW h \in Room
               PROVE  /\ expected'[t][k][h] = Len(log'[t][k][h])
                      /\ Len(log'[t][k][h]) <= Len(cast[k][h])
                      /\ \A i \in 1 .. Len(log'[t][k][h]) :
                           /\ log'[t][k][h][i] = LineOf(k, h, i)
                           /\ To(t, LineOf(k, h, i)) \in gone'
    BY <1>1 DEF LogInv, LineOf, Stayers, To
  <2>1. k \in Client BY DEF Stayers
  <2>2. gone \subseteq gone' BY <1>1
  <2>3. /\ expected[t][k][h] = Len(log[t][k][h])
        /\ Len(log[t][k][h]) <= Len(cast[k][h])
        /\ \A i \in 1 .. Len(log[t][k][h]) :
             log[t][k][h][i] = LineOf(k, h, i) /\ To(t, LineOf(k, h, i)) \in gone
    BY DEF Inv, LogInv
  <2>4. CASE ~(t = s /\ k = c /\ h = g) BY <1>4, <2>1, <2>2, <2>3, <2>4
  <2>5. CASE t = s /\ k = c /\ h = g
    <3> DEFINE n == Len(log[s][c][g])
    <3>1. /\ expected'[t][k][h] = n + Len(b) /\ log'[t][k][h] = log[s][c][g] \o b
          /\ Len(log'[t][k][h]) = n + Len(b)
      BY <1>4, <1>6, <2>3, <2>5
    <3>2. Len(cast[c][g]) \in Nat BY <1>a, InvTypes
    <3>3. n + Len(b) <= Len(cast[c][g])
      <4>1. CASE Len(b) = 0 BY <1>5, <2>3, <2>5, <4>1
      <4>2. CASE Len(b) # 0
        <5>1. Len(b) \in 1 .. Len(b) BY <1>3, <4>2
        <5> QED BY <1>7, <2>5, <5>1
      <4> QED BY <4>1, <4>2
    <3>4. ASSUME NEW i \in 1 .. n + Len(b)
          PROVE  /\ (log[s][c][g] \o b)[i] = LineOf(c, g, i)
                 /\ To(s, LineOf(c, g, i)) \in gone'
      <4>1. CASE i \in 1 .. n BY <1>6, <2>2, <2>3, <2>5, <4>1
      <4>2. CASE i \notin 1 .. n
        <5> HIDE DEF n
        <5>1. n \in Nat BY <1>5 DEF n
        <5>2. PICK m \in 1 .. Len(b) : i = n + m
          <6>1. i - n \in 1 .. Len(b) /\ i = n + (i - n) BY <1>3, <4>2, <5>1
          <6> QED BY <6>1
        <5>3. b[m] = LineOf(c, g, n + m) /\ To(s, b[m]) \in gone' BY <1>7, <2>5 DEF n
        <5>4. (log[s][c][g] \o b)[n + m] = b[m] BY <1>6 DEF n
        <5> QED BY <5>2, <5>3, <5>4
      <4> QED BY <4>1, <4>2
    <3> QED BY <2>5, <3>1, <3>3, <3>4
  <2> QED BY <2>4, <2>5
<1>11. QueueInv'
  <2> SUFFICES ASSUME NEW t \in Server, NEW i \in 1 .. Len(hbq'[t]),
                      hbq'[t][i].addr \in Stayers
               PROVE  LET x == hbq'[t][i]
                      IN  /\ To(t, x) \in gone'
                          /\ Len(log'[t][x.addr][x.room]) + 1 < x.nth
    BY DEF QueueInv, Stayers, To
  <2>1. CASE t # s
    <3>1. hbq'[t] = hbq[t] BY <1>2, <2>1 DEF Inv, TypeOK
    <3> DEFINE x == hbq[t][i]
    <3>2. x.addr \in Client /\ x.room \in Room BY <1>a, <3>1, InvTypes
    <3>3. log'[t][x.addr][x.room] = log[t][x.addr][x.room] BY <1>4, <2>1, <3>2
    <3>4. To(t, x) \in gone /\ Len(log[t][x.addr][x.room]) + 1 < x.nth
      BY <3>1 DEF Inv, QueueInv
    <3> QED BY <1>1, <3>1, <3>3, <3>4
  <2>2. CASE t = s
    <3>1. hbq'[t] = left BY <1>2, <2>2 DEF Inv, TypeOK
    <3> DEFINE x == left[i]
               n == Len(log[s][x.addr][x.room])
    <3>2. i \in 1 .. Len(left) /\ x.addr \in Stayers BY <3>1
    <3>3. /\ To(s, x) \in gone'
          /\ x.addr \in Client /\ x.room \in Room /\ x.nth \in Nat
          /\ n + (IF x.addr = c /\ x.room = g THEN Len(b) ELSE 0) + 1 < x.nth
      BY <1>b, <3>2 DEF IsLeft
    <3>4. Len(log'[s][x.addr][x.room]) =
            IF x.addr = c /\ x.room = g THEN n + Len(b) ELSE n
      <4>1. CASE x.addr = c /\ x.room = g
        <5>1. log'[s][x.addr][x.room] = log[s][c][g] \o b BY <1>4, <3>3, <4>1
        <5> QED BY <1>6, <4>1, <5>1
      <4>2. CASE ~(x.addr = c /\ x.room = g)
        <5>1. log'[s][x.addr][x.room] = log[s][x.addr][x.room] BY <1>4, <3>3, <4>2
        <5> HIDE DEF x
        <5> QED BY <4>2, <5>1
      <4> QED BY <4>1, <4>2
    <3>5. n \in Nat BY <1>a, <3>3, InvTypes
    <3>6. Len(log'[s][x.addr][x.room]) + 1 < x.nth
      <4> HIDE DEF n, x
      <4>1. CASE x.addr = c /\ x.room = g
        <5>1. n + Len(b) + 1 < x.nth BY <3>3, <4>1
        <5> QED BY <3>4, <4>1, <5>1
      <4>2. CASE ~(x.addr = c /\ x.room = g)
        <5>1. n + 0 + 1 < x.nth BY <3>3, <4>2
        <5>2. n + 1 < x.nth BY <3>5, <5>1
        <5> QED BY <3>4, <4>2, <5>2
      <4> QED BY <4>1, <4>2
    <3> QED BY <2>2, <3>1, <3>3, <3>6
  <2> QED BY <2>1, <2>2
<1>12. InboxInv'
  <2> SUFFICES ASSUME NEW r \in Client, NEW i \in 1 .. Len(inbox'[r]),
                      inbox'[r][i].addr \in Stayers
               PROVE  LET x == inbox'[r][i]
                      IN  /\ x.nth <= Len(log'[Home[r]][x.addr][x.room])
                          /\ \A j \in 1 .. Len(inbox'[r]) :
                               /\ i < j
                               /\ inbox'[r][j].addr = x.addr /\ inbox'[r][j].room = x.room
                               => x.nth < inbox'[r][j].nth
    BY DEF InboxInv, Stayers
  <2>1. Home[r] \in Server BY HomeAssumption
  <2>2. inbox[r] \in Seq(Line) /\ Len(inbox[r]) \in Nat BY <1>a, InvTypes
  <2>3. \A j \in 1 .. Len(inbox[r]) : inbox[r][j].addr \in Stayers =>
          LET y == inbox[r][j]
          IN  /\ y.nth \in Nat
              /\ y.addr \in Client /\ y.room \in Room
              /\ y.nth <= Len(log[Home[r]][y.addr][y.room])
    BY <1>a, InvTypes DEF Inv, InboxInv
  <2>4. \A k \in Client, h \in Room :
          /\ Len(log[Home[r]][k][h]) \in Nat
          /\ Len(log'[Home[r]][k][h]) \in Nat
          /\ Len(log[Home[r]][k][h]) <= Len(log'[Home[r]][k][h])
    <3> TAKE k \in Client, h \in Room
    <3>1. Len(log[Home[r]][k][h]) \in Nat BY <1>a, <2>1, InvTypes
    <3>2. CASE Home[r] = s /\ k = c /\ h = g
      <4>1. log'[Home[r]][k][h] = log[s][c][g] \o b BY <1>4, <2>1, <3>2
      <4>2. Len(log'[Home[r]][k][h]) = Len(log[Home[r]][k][h]) + Len(b)
        BY <1>6, <3>2, <4>1
      <4>3. PICK m \in Nat : m = Len(log[Home[r]][k][h]) BY <3>1
      <4>4. PICK e \in Nat : e = Len(b) BY <1>3
      <4>5. Len(log'[Home[r]][k][h]) = m + e BY <4>2, <4>3, <4>4
      <4>6. m + e \in Nat /\ m <= m + e OBVIOUS
      <4> QED BY <4>3, <4>5, <4>6
    <3>3. CASE ~(Home[r] = s /\ k = c /\ h = g)
      <4>1. log'[Home[r]][k][h] = log[Home[r]][k][h] BY <1>4, <2>1, <3>3
      <4> QED BY <3>1, <4>1
    <3> QED BY <3>2, <3>3
  <2>7. ASSUME NEW v \in Nat, NEW k \in Client, NEW h \in Room,
               v <= Len(log[Home[r]][k][h])
        PROVE  v <= Len(log'[Home[r]][k][h])
    <3>1. PICK l \in Nat : l = Len(log[Home[r]][k][h]) BY <2>4
    <3>2. PICK l2 \in Nat : l2 = Len(log'[Home[r]][k][h]) BY <2>4
    <3>3. l <= l2 BY <2>4, <3>1, <3>2
    <3>4. v <= l BY <2>7, <3>1
    <3>5. v <= l2 BY <3>3, <3>4
    <3> QED BY <3>2, <3>5
  <2>5. CASE ~(Home[r] = s /\ room[r] = g)
    <3>1. inbox'[r] = inbox[r] BY <1>1, <2>5
    <3>2. \A j \in 1 .. Len(inbox[r]) : inbox[r][j].addr \in Stayers =>
            LET y == inbox[r][j] IN y.nth <= Len(log'[Home[r]][y.addr][y.room])
      BY <2>3, <2>7
    <3> QED BY <3>1, <3>2 DEF Inv, InboxInv
  <2>6. CASE Home[r] = s /\ room[r] = g
    <3> DEFINE n == Len(log[s][c][g])
               m == Len(inbox[r])
    <3>1. inbox'[r] = inbox[r] \o b BY <1>1, <2>6
    <3>2. /\ \A j \in 1 .. m : inbox'[r][j] = inbox[r][j]
          /\ \A j \in 1 .. Len(b) : inbox'[r][m + j] = b[j]
          /\ \A j \in 1 .. Len(inbox'[r]) :
               j \in 1 .. m \/ \E k \in 1 .. Len(b) : j = m + k
      <4> DEFINE L == inbox[r]
      <4>1. L \in Seq(Line) BY <2>2
      <4> HIDE DEF L
      <4>2. /\ \A j \in 1 .. Len(L) : (L \o b)[j] = L[j]
            /\ \A j \in 1 .. Len(b) : (L \o b)[Len(L) + j] = b[j]
            /\ \A j \in 1 .. Len(L \o b) :
                 j \in 1 .. Len(L) \/ \E k \in 1 .. Len(b) : j = Len(L) + k
        BY <4>1, Joined
      <4> QED BY <3>1, <4>2 DEF L
    <3>3. \A j \in 1 .. Len(b) :
            /\ b[j].addr = c /\ b[j].room = g
            /\ c \in Stayers => b[j].nth = n + j
      <4>1. \A j \in 1 .. Len(b) : b[j].addr = c /\ b[j].room = g
        BY <1>1, <1>a, BatchOf
      <4>2. \A k \in Nat : LineOf(c, g, k).nth = k BY DEF LineOf
      <4>3. ASSUME c \in Stayers, NEW j \in 1 .. Len(b) PROVE b[j].nth = n + j
        <5>1. b[j] = LineOf(c, g, n + j) BY <1>7, <4>3
        <5>2. n + j \in Nat BY <1>3, <1>5
        <5> QED BY <4>2, <5>1, <5>2
      <4> QED BY <4>1, <4>3
    <3> HIDE DEF n, m
    <3>4. n \in Nat /\ m \in Nat BY <1>5, <2>2 DEF n, m
    <3>5. CASE i \in 1 .. m
      <4> DEFINE x == inbox[r][i]
      <4>1. inbox'[r][i] = x /\ x.addr \in Stayers BY <3>2, <3>5
      <4>2. /\ x.nth \in Nat /\ x.addr \in Client /\ x.room \in Room
            /\ x.nth <= Len(log[Home[r]][x.addr][x.room])
        BY <2>3, <3>5, <4>1 DEF m
      <4>3. x.nth <= Len(log'[Home[r]][x.addr][x.room])
        BY <2>7, <4>2
      <4>4. ASSUME NEW j \in 1 .. Len(inbox'[r]), i < j,
                   inbox'[r][j].addr = x.addr, inbox'[r][j].room = x.room
            PROVE  x.nth < inbox'[r][j].nth
        <5>1. CASE j \in 1 .. m
          <6>1. inbox'[r][j] = inbox[r][j] BY <3>2, <5>1
          <6> QED BY <3>5, <4>1, <4>4, <5>1, <6>1 DEF Inv, InboxInv, m
        <5>2. CASE j \notin 1 .. m
          <6>1. PICK k \in 1 .. Len(b) : j = m + k BY <3>2, <5>2
          <6>2. inbox'[r][j] = b[k] BY <3>2, <6>1
          <6>3. x.addr = c /\ x.room = g /\ b[k].nth = n + k
            BY <3>3, <4>1, <4>4, <6>2
          <6>4. x.nth <= n BY <2>6, <4>2, <6>3 DEF n
          <6> HIDE DEF x
          <6> QED BY <1>3, <3>4, <4>2, <6>2, <6>3, <6>4
        <5> QED BY <5>1, <5>2
      <4> QED BY <4>1, <4>3, <4>4
    <3>6. CASE i \notin 1 .. m
      <4>1. PICK k \in 1 .. Len(b) : i = m + k BY <3>2, <3>6
      <4>2. inbox'[r][i] = b[k] BY <3>2, <4>1
      <4>3. b[k].addr = c /\ b[k].room = g /\ c \in Stayers /\ b[k].nth = n + k
        BY <3>3, <4>2
      <4>4. Len(log'[Home[r]][c][g]) = n + Len(b)
        <5>1. log'[Home[r]][c][g] = log[s][c][g] \o b BY <1>4, <2>1, <2>6
        <5> QED BY <1>6, <5>1 DEF n
      <4>5. b[k].nth <= Len(log'[Home[r]][c][g]) BY <1>3, <3>4, <4>3, <4>4
      <4>6. ASSUME NEW j \in 1 .. Len(inbox'[r]), i < j
            PROVE  b[k].nth < inbox'[r][j].nth
        <5>1. j \notin 1 .. m BY <1>3, <3>4, <4>1, <4>6
        <5>2. PICK l \in 1 .. Len(b) : j = m + l BY <3>2, <5>1
        <5>3. inbox'[r][j] = b[l] /\ b[l].nth = n + l BY <3>2, <3>3, <4>3, <5>2
        <5>4. k < l BY <1>3, <3>4, <4>1, <4>6, <5>2
        <5> QED BY <1>3, <3>4, <4>3, <5>3, <5>4
      <4> QED BY <4>2, <4>3, <4>5, <4>6
    <3> QED BY <3>5, <3>6
  <2> QED BY <2>5, <2>6
<1> QED BY <1>8, <1>9, <1>10, <1>11, <1>12 DEF Inv

LEMMA InvStep == Inv /\ [Next]_vars => Inv'
<1> SUFFICES ASSUME Inv, [Next]_vars PROVE Inv' OBVIOUS
<1>1. TypeOK' BY TypeStep DEF Inv
<1>2. ASSUME NEW c \in Client, NEW g \in Room, Join(c, g) PROVE Inv'
  BY <1>1, <1>2, CommandStep DEF Join
<1>3. ASSUME NEW c \in Client, Part(c) PROVE Inv' BY <1>1, <1>3, CommandStep DEF Part
<1>4. ASSUME NEW c \in Client, Quit(c) PROVE Inv'
  <2>1. \A k \in Stayers : seqs'[k] = seqs[k] BY <1>4 DEF Quit, Stayers, Inv, TypeOK
  <2> QED BY <1>1, <1>4, <2>1, CommandStep DEF Quit
<1>5. ASSUME NEW c \in Client, ClientMsg(c) PROVE Inv' BY <1>1, <1>5, ClientMsgStep
<1>6. ASSUME NEW s \in Server, Recv(s) PROVE Inv' BY <1>1, <1>6, RecvStep
<1>7. ASSUME NEW d \in InFlight, Lose(d) PROVE Inv' BY <1>1, <1>7, LoseStep
<1>8. CASE UNCHANGED vars BY <1>1, <1>8, CommandStep DEF vars
<1> QED BY <1>2, <1>3, <1>4, <1>5, <1>6, <1>7, <1>8 DEF Next

(* Numbers and positions stay in step on both sides, through reordering,   *)
(* losses and the /quit of others.                                         *)
THEOREM InvCorrect == Spec => []Inv
BY InvInit, InvStep, PTL DEF Spec

(* A line of a client that does not quit waits in a queue only for an      *)
(* earlier one of the same client and room.                                *)
THEOREM HeldCorrect == Spec => []HeldForEarlierLine
<1>1. Inv => HeldForEarlierLine
  <2> SUFFICES ASSUME Inv, NEW s \in Server, NEW i \in DOMAIN hbq[s],
                      hbq[s][i].addr \in Stayers
               PROVE  Len(log[s][hbq[s][i].addr][hbq[s][i].room]) + 1 < hbq[s][i].nth
    BY DEF HeldForEarlierLine
  <2>1. hbq[s] \in Seq(Line) BY DEF Inv, TypeOK
  <2>2. i \in 1 .. Len(hbq[s]) BY <2>1, LenProperties
  <2> QED BY <2>2 DEF Inv, QueueInv
<1> QED BY InvCorrect, <1>1, PTL

(* The lines of a client that does not quit are received in the order they *)
(* were typed, and none of them twice.                                     *)
THEOREM FifoOrderCorrect == Spec => []FifoOrder
<1>1. Inv => FifoOrder
  <2> SUFFICES ASSUME Inv, NEW c \in Stayers, NEW r \in Client,
                      NEW i \in DOMAIN inbox[r], NEW j \in DOMAIN inbox[r], i < j,
                      inbox[r][i].addr = c, inbox[r][j].addr = c,
                      inbox[r][i].room = inbox[r][j].room
               PROVE  inbox[r][i].nth < inbox[r][j].nth
    BY DEF FifoOrder, InTypedOrder
  <2>1. inbox[r] \in Seq(Line) BY DEF Inv, TypeOK
  <2>2. DOMAIN inbox[r] = 1 .. Len(inbox[r]) BY <2>1, LenProperties
  <2> QED BY <2>2 DEF Inv, InboxInv
<1> QED BY InvCorrect, <1>1, PTL

-----------------------------------------------------------------------------
(***************************************************************************)
(* The refinement.                                                         *)
(***************************************************************************)

LEMMA InitRefines == Init => Broadcast!Init
BY DEF Init, Broadcast!Init, StayersLog, StayersCast, Stayers

\* What the logs and the lists of lines typed look like to the service.
LEMMA ServiceView ==
  /\ \A c \in Stayers : StayersCast[c] = cast[c] /\ StayersCast'[c] = cast'[c]
  /\ \A s \in Server, c \in Stayers :
       StayersLog[s][c] = log[s][c] /\ StayersLog'[s][c] = log'[s][c]
BY DEF StayersCast, StayersLog, Stayers

(* A line of a client that stays is a multicast.                           *)
LEMMA ClientMsgRefines ==
  ASSUME TypeOK, TypeOK', NEW c \in Client, ClientMsg(c)
  PROVE  [Broadcast!Next]_<<StayersCast, StayersLog>>
<1> DEFINE g == room[c]
           x == [addr |-> c, room |-> g, seq |-> seqs[c][g], nth |-> Len(cast[c][g]) + 1]
           n == Len(cast[c][g])
<1>1. g \in Room BY DEF TypeOK, ClientMsg
<1>2. UNCHANGED log /\ cast' = [cast EXCEPT ![c][g] = Append(@, x)] BY DEF ClientMsg
<1> HIDE DEF x
<1>3. UNCHANGED StayersLog BY <1>2 DEF StayersLog
<1>4. CASE c \notin Stayers
  <2>1. \A k \in Stayers : cast'[k] = cast[k] BY <1>2, <1>4 DEF TypeOK, Stayers
  <2>2. UNCHANGED StayersCast BY <2>1 DEF StayersCast, Stayers
  <2> QED BY <1>3, <2>2
<1>5. CASE c \in Stayers
  <2>1. cast[c][g] \in Seq(Line) /\ n \in Nat BY <1>1, InvTypes
  <2>2. cast'[c][g] = Append(cast[c][g], x) BY <1>1, <1>2 DEF TypeOK
  <2>3. x \in Line
    <3>1. seqs[c][g] \in Nat BY <1>1, InvTypes
    <3> QED BY <1>1, <2>1, <3>1 DEF Line, x
  <2>4. /\ Len(cast'[c][g]) = n + 1
        /\ \A i \in 1 .. n : cast[c][g][i] = cast'[c][g][i]
    BY <2>1, <2>2, <2>3, AppendProperties
  <2>5. Broadcast!Prefix(StayersCast[c][g], StayersCast'[c][g])
    <3>1. StayersCast[c][g] = cast[c][g] /\ StayersCast'[c][g] = cast'[c][g]
      BY <1>5, ServiceView
    <3> QED BY <2>1, <2>4, <3>1 DEF Broadcast!Prefix
  <2>6. Len(StayersCast'[c][g]) = Len(StayersCast[c][g]) + 1
    BY <1>5, <2>4, ServiceView
  <2>7. StayersCast' = [StayersCast EXCEPT ![c][g] = StayersCast'[c][g]]
    <3>1. cast' = [cast EXCEPT ![c][g] = cast'[c][g]] BY <1>1, <1>2, <2>2 DEF TypeOK
    <3> QED BY <1>5, <3>1 DEF StayersCast, Stayers, TypeOK
  <2>8. Broadcast!Multicast(c, g)
    BY <1>3, <2>5, <2>6, <2>7 DEF Broadcast!Multicast
  <2> QED BY <1>1, <1>5, <2>8 DEF Broadcast!Next
<1> QED BY <1>4, <1>5

(* A line that comes in delivers the next lines of one client in one room, *)
(* or none.                                                                *)
LEMMA RecvRefines ==
  ASSUME Inv, Inv', NEW s \in Server, Recv(s)
  PROVE  [Broadcast!Next]_<<StayersCast, StayersLog>>
<1>a. TypeOK /\ TypeOK' BY DEF Inv
<1>1. PICK b \in Seq(Line), c \in Client, g \in Room :
        log' = [log EXCEPT ![s][c][g] = @ \o b] /\ UNCHANGED cast
  <2>1. PICK d \in sent, b \in Seq(Line), c \in Client, g \in Room, q \in Seq(Line) :
          Handles(s, d, q, b, c, g)
    BY <1>a, RecvNamed
  <2> QED BY <2>1 DEF Handles
<1>2. UNCHANGED StayersCast BY <1>1 DEF StayersCast
<1>3. CASE c \notin Stayers
  <2>1. \A t \in Server, k \in Stayers : log'[t][k] = log[t][k]
    BY <1>a, <1>1, <1>3 DEF TypeOK, Stayers
  <2>2. UNCHANGED StayersLog BY <2>1 DEF StayersLog, Stayers
  <2> QED BY <1>2, <2>2
<1>4. CASE c \in Stayers
  <2>1. log[s][c][g] \in Seq(Line) /\ Len(log[s][c][g]) \in Nat BY <1>a, InvTypes
  <2>2. log'[s][c][g] = log[s][c][g] \o b BY <1>a, <1>1 DEF TypeOK
  <2>3. Len(b) \in Nat BY LenProperties
  <2>4. log' = [log EXCEPT ![s][c][g] = log'[s][c][g]] BY <1>a, <1>1, <2>2 DEF TypeOK
  <2>5. CASE Len(b) = 0
    <3>1. b = <<>> BY <2>5, EmptySeq
    <3>2. log[s][c][g] \o b = log[s][c][g] BY <2>1, <3>1, ConcatEmptySeq
    <3>3. log' = log
      <4>1. log' = [log EXCEPT ![s][c][g] = log[s][c][g]] BY <2>2, <2>4, <3>2
      <4>2. log \in [Server -> [Client -> [Room -> Seq(Line)]]] BY <1>a DEF TypeOK
      <4> QED BY <4>1, <4>2
    <3>4. UNCHANGED StayersLog BY <3>3 DEF StayersLog
    <3> QED BY <1>2, <3>4
  <2>6. CASE Len(b) # 0
    <3>1. /\ StayersLog[s][c][g] = log[s][c][g] /\ StayersLog'[s][c][g] = log'[s][c][g]
          /\ StayersCast[c][g] = cast[c][g]
      BY <1>4, ServiceView
    <3>2. Broadcast!Prefix(StayersLog'[s][c][g], StayersCast[c][g])
      <4>1. /\ Len(log'[s][c][g]) <= Len(cast[c][g])
            /\ \A k \in 1 .. Len(log'[s][c][g]) : log'[s][c][g][k] = LineOf(c, g, k)
        BY <1>1, <1>4 DEF Inv, LogInv, LineOf, Stayers
      <4>2. \A k \in 1 .. Len(cast[c][g]) : cast[c][g][k] = LineOf(c, g, k)
        BY <1>4 DEF Inv, CastInv
      <4>3. Len(log'[s][c][g]) \in Nat /\ Len(cast[c][g]) \in Nat
        <5>1. log'[s][c][g] \in Seq(Line) BY <1>a DEF TypeOK
        <5> QED BY <1>a, <5>1, InvTypes, LenProperties
      <4>4. \A k \in 1 .. Len(log'[s][c][g]) : log'[s][c][g][k] = cast[c][g][k]
        BY <4>1, <4>2, <4>3
      <4> QED BY <3>1, <4>1, <4>4 DEF Broadcast!Prefix
    <3>3. Len(StayersLog[s][c][g]) < Len(StayersLog'[s][c][g])
      <4>1. Len(log'[s][c][g]) = Len(log[s][c][g]) + Len(b)
        BY <2>1, <2>2, ConcatProperties
      <4> QED BY <2>1, <2>3, <2>6, <3>1, <4>1
    <3>4. StayersLog' = [StayersLog EXCEPT ![s][c][g] = StayersLog'[s][c][g]]
      BY <1>a, <1>4, <2>4 DEF StayersLog, Stayers, TypeOK
    <3>5. Broadcast!Deliver(s, c, g)
      BY <1>2, <3>2, <3>3, <3>4 DEF Broadcast!Deliver
    <3> QED BY <1>4, <3>5 DEF Broadcast!Next
  <2> QED BY <2>5, <2>6
<1> QED BY <1>3, <1>4

LEMMA StepRefines ==
  Inv /\ Inv' /\ [Next]_vars => [Broadcast!Next]_<<StayersCast, StayersLog>>
<1> SUFFICES ASSUME Inv, Inv', [Next]_vars
             PROVE  [Broadcast!Next]_<<StayersCast, StayersLog>>
  OBVIOUS
<1>a. TypeOK /\ TypeOK' BY DEF Inv
<1>1. CASE UNCHANGED <<cast, log>>
  BY <1>1 DEF StayersCast, StayersLog
<1>2. ASSUME NEW c \in Client, ClientMsg(c)
      PROVE  [Broadcast!Next]_<<StayersCast, StayersLog>>
  BY <1>a, <1>2, ClientMsgRefines
<1>3. ASSUME NEW s \in Server, Recv(s)
      PROVE  [Broadcast!Next]_<<StayersCast, StayersLog>>
  BY <1>3, RecvRefines
<1>4. ASSUME NEW c \in Client, Part(c) \/ Quit(c) \/ \E g \in Room : Join(c, g)
      PROVE  UNCHANGED <<cast, log>>
  BY <1>4 DEF Part, Quit, Join
<1>5. ASSUME NEW d \in InFlight, Lose(d) PROVE UNCHANGED <<cast, log>>
  BY <1>5 DEF Lose
<1>6. CASE UNCHANGED vars BY <1>1, <1>6 DEF vars
<1> QED BY <1>1, <1>2, <1>3, <1>4, <1>5, <1>6 DEF Next

(* The servers implement FIFO broadcast for the clients that do not quit:  *)
(* what a server has delivered of a client in a room is a prefix of what   *)
(* the client typed there, and only grows.                                 *)
THEOREM Implements == Spec => ImplementsFifo
<1>1. Init => Broadcast!Init BY InitRefines
<1>2. Inv /\ Inv' /\ [Next]_vars => [Broadcast!Next]_<<StayersCast, StayersLog>>
  BY StepRefines
<1> QED BY <1>1, <1>2, InvCorrect, PTL DEF Spec, ImplementsFifo, Broadcast!Spec
=============================================================================
