-------------------------- MODULE ChatSessionProofs -------------------------
(***************************************************************************)
(* Machine-checked proofs about the sessions of the chat servers and       *)
(* unordered delivery, for any servers, clients, rooms and nicks, whatever *)
(* the network delays or loses.                                            *)
(***************************************************************************)
EXTENDS ChatSession, FiniteSetTheorems, SequenceTheorems, TLAPS

Facts == INSTANCE ListingLemmas

-----------------------------------------------------------------------------
(***************************************************************************)
(* The inductive invariant.                                                *)
(***************************************************************************)

\* The number in a line tells it from the sender's other lines.
SentInv ==
  /\ \A d \in sent : d.line.n <= typed[d.line.addr]
  /\ \A d, e \in sent :
       d.line.addr = e.line.addr /\ d.line.n = e.line.n => d.line = e.line

\* What a client received came from its server, in a datagram of its own.
InboxInv ==
  \A c \in Client : \A i \in DOMAIN inbox[c] :
    [dst |-> Home[c], line |-> inbox[c][i]] \in gone

IInv == TypeOK /\ OneRecordEach /\ ToldTheTruth /\ SentInv /\ InboxInv /\ AtMostOnce

-----------------------------------------------------------------------------
(***************************************************************************)
(* Tables with one record for each client.                                 *)
(***************************************************************************)
Single(t) == \A i, j \in DOMAIN t : t[i].addr = t[j].addr => i = j

RoomIn(t, c) ==
  IF Known(t, c) /\ InRoom(t[Index(t, c)]) THEN t[Index(t, c)].room ELSE NoRoom

RoomBy(r) == IF InRoom(r) THEN r.room ELSE NoRoom

(* GetClientIndex finds a record of the client, if there is one.           *)
LEMMA IndexFacts ==
  ASSUME NEW t \in Seq(Record), NEW c, Known(t, c)
  PROVE  Index(t, c) \in DOMAIN t /\ t[Index(t, c)].addr = c
<1> DEFINE I == {i \in DOMAIN t : t[i].addr = c}
<1>1. Len(t) \in Nat /\ DOMAIN t = 1 .. Len(t) BY LenProperties
<1>2. I \in SUBSET Nat /\ I # {} BY <1>1 DEF Known
<1>3. PICK n \in I : \A m \in I : n <= m
  <2> HIDE DEF I
  <2> QED BY <1>2, Facts!LeastNumber
<1>4. n \in DOMAIN t /\ t[n].addr = c OBVIOUS
<1>5. \A j \in 1 .. n - 1 : t[j].addr # c
  <2> SUFFICES ASSUME NEW j \in 1 .. n - 1, t[j].addr = c PROVE FALSE OBVIOUS
  <2>1. n \in 1 .. Len(t) /\ j \in Nat BY <1>1, <1>4
  <2>2. j \in 1 .. Len(t) /\ j < n BY <1>1, <2>1
  <2>3. j \in I BY <1>1, <2>2
  <2>4. n <= j BY <1>3, <2>3
  <2> QED BY <2>1, <2>2, <2>4
<1> QED BY <1>4, <1>5 DEF Index

LEMMA IndexOfRecord ==
  ASSUME NEW t \in Seq(Record), Single(t), NEW i \in DOMAIN t
  PROVE  Index(t, t[i].addr) = i
<1>1. Known(t, t[i].addr) BY DEF Known
<1>2. Index(t, t[i].addr) \in DOMAIN t /\ t[Index(t, t[i].addr)].addr = t[i].addr
  BY <1>1, IndexFacts
<1> QED BY <1>2 DEF Single

(* The room of a client depends on its record only.                        *)
LEMMA RoomByRecords ==
  ASSUME NEW t \in Seq(Record), Single(t), NEW w \in Seq(Record), Single(w), NEW d,
         RecordsOf(t, d) = RecordsOf(w, d)
  PROVE  RoomIn(t, d) = RoomIn(w, d)
<1>1. Known(t, d) <=> RecordsOf(t, d) # {} BY DEF Known, RecordsOf
<1>2. Known(w, d) <=> RecordsOf(w, d) # {} BY DEF Known, RecordsOf
<1>3. CASE ~ Known(t, d) BY <1>1, <1>2, <1>3 DEF RoomIn
<1>4. CASE Known(t, d)
  <2>1. Known(w, d) BY <1>1, <1>2, <1>4
  <2>2. Index(t, d) \in DOMAIN t /\ t[Index(t, d)].addr = d BY <1>4, IndexFacts
  <2>3. Index(w, d) \in DOMAIN w /\ w[Index(w, d)].addr = d BY <2>1, IndexFacts
  <2>4. t[Index(t, d)] \in RecordsOf(w, d) BY <2>2 DEF RecordsOf
  <2>5. PICK j \in DOMAIN w : w[j].addr = d /\ w[j] = t[Index(t, d)] BY <2>4 DEF RecordsOf
  <2>6. j = Index(w, d) BY <2>3, <2>5 DEF Single
  <2>7. t[Index(t, d)] = w[Index(w, d)] BY <2>5, <2>6
  <2> QED BY <1>4, <2>1, <2>7 DEF RoomIn
<1> QED BY <1>3, <1>4

(***************************************************************************)
(* std::remove takes the record out and keeps the others in their order,   *)
(* although the record it compares with is another one after its first     *)
(* move: the next, which none of the later ones is equal to.               *)
(***************************************************************************)
LEMMA RemovedFacts ==
  ASSUME NEW t \in Seq(Record), Single(t), NEW k \in DOMAIN t
  PROVE  /\ Removed(t, k) \in Seq(Record)
         /\ DOMAIN Removed(t, k) = 1 .. Len(t) - 1
         /\ \A i \in 1 .. Len(t) - 1 :
              Removed(t, k)[i] = IF i < k THEN t[i] ELSE t[i + 1]
<1> DEFINE n == Len(t)
           V(i) == [j \in 1 .. n |-> IF k <= j /\ j < i THEN t[j + 1] ELSE t[j]]
           Step(was, i) ==
             IF t[i].addr = was.v[k].addr THEN was
             ELSE [v |-> [was.v EXCEPT ![was.out] = t[i]], out |-> was.out + 1]
           F(f) == [i \in k .. n |-> IF i = k THEN [v |-> t, out |-> k] ELSE Step(f[i - 1], i)]
           moved == CHOOSE f : f = F(f)
           g == [i \in k .. n |-> [v |-> V(i), out |-> i]]
<1>1. /\ n \in Nat /\ DOMAIN t = 1 .. n /\ k \in 1 .. n
      /\ \A i \in 1 .. n : t[i] \in Record
      /\ t = [i \in 1 .. n |-> t[i]]
  BY LenProperties, ElementOfSeq
<1>2. V(k) = t BY <1>1
<1>3. ASSUME NEW i \in k + 1 .. n PROVE Step([v |-> V(i - 1), out |-> i - 1], i) = [v |-> V(i), out |-> i]
  <2>1. /\ i \in 1 .. n /\ i - 1 \in 1 .. n /\ k <= i - 1 /\ i - 1 \in Int /\ i # k
        /\ i - 1 + 1 = i /\ (k < i - 1 => k + 1 \in 1 .. n /\ k + 1 # i)
    BY <1>1
  <2>2. V(i - 1)[k] = IF k < i - 1 THEN t[k + 1] ELSE t[k] BY <1>1, <2>1
  <2>3. t[i].addr # V(i - 1)[k].addr BY <1>1, <2>1, <2>2 DEF Single
  <2>4. [V(i - 1) EXCEPT ![i - 1] = t[i]] = V(i)
    <3>1. [V(i - 1) EXCEPT ![i - 1] = t[i]]
            = [j \in 1 .. n |-> IF j = i - 1 THEN t[i] ELSE V(i - 1)[j]]
      OBVIOUS
    <3>2. ASSUME NEW j \in 1 .. n
          PROVE  (IF j = i - 1 THEN t[i] ELSE V(i - 1)[j])
                   = (IF k <= j /\ j < i THEN t[j + 1] ELSE t[j])
      BY <1>1, <2>1
    <3> QED BY <3>1, <3>2
  <2> QED BY <2>1, <2>3, <2>4
<1> HIDE DEF V, Step
<1>4. g = F(g)
  <2>1. ASSUME NEW i \in k .. n
        PROVE  g[i] = IF i = k THEN [v |-> t, out |-> k] ELSE Step(g[i - 1], i)
    <3>1. CASE i = k BY <1>2, <3>1
    <3>2. CASE i # k
      <4>1. i \in k + 1 .. n /\ i - 1 \in k .. n BY <1>1, <3>2
      <4>2. g[i - 1] = [v |-> V(i - 1), out |-> i - 1] BY <4>1
      <4> QED BY <1>3, <3>2, <4>1, <4>2
    <3> QED BY <3>1, <3>2
  <2> HIDE DEF g
  <2>2. g = [i \in k .. n |-> g[i]] BY DEF g
  <2> QED BY <2>1, <2>2
<1>5. moved = F(moved) BY <1>4
<1>6. \A i \in k .. n : moved[i] = g[i]
  <2> DEFINE Bad == {i \in k .. n : moved[i] # g[i]}
  <2> SUFFICES ASSUME Bad # {} PROVE FALSE OBVIOUS
  <2>1. Bad \in SUBSET Nat BY <1>1
  <2> HIDE DEF moved
  <2>2. PICK i \in Bad : \A j \in Bad : i <= j
    <3> HIDE DEF Bad
    <3> QED BY <2>1, Facts!LeastNumber
  <2>3. i \in k .. n /\ moved[i] # g[i] OBVIOUS
  <2>4. moved[i] = IF i = k THEN [v |-> t, out |-> k] ELSE Step(moved[i - 1], i)
    BY <1>5, <2>3
  <2>5. CASE i = k BY <1>2, <2>3, <2>4, <2>5
  <2>6. CASE i # k
    <3>1. i \in k + 1 .. n /\ i - 1 \in k .. n /\ ~(i <= i - 1) BY <1>1, <2>3, <2>6
    <3>2. moved[i - 1] = g[i - 1] BY <2>2, <3>1
    <3>3. g[i - 1] = [v |-> V(i - 1), out |-> i - 1] BY <3>1
    <3> QED BY <1>3, <2>3, <2>4, <2>6, <3>1, <3>2, <3>3
  <2> QED BY <2>5, <2>6
<1>7. Removed(t, k) = SubSeq(V(n), 1, n - 1)
  <2>1. n \in k .. n BY <1>1
  <2>2. moved[n] = [v |-> V(n), out |-> n] BY <1>6, <2>1
  <2>3. Removed(t, k) = SubSeq(moved[n].v, 1, moved[n].out - 1) BY DEF Removed, Step
  <2> HIDE DEF moved
  <2> QED BY <2>2, <2>3
<1>8. V(n) \in Seq(Record) /\ Len(V(n)) = n
  <2>1. V(n) \in [1 .. n -> Record] BY <1>1 DEF V
  <2>2. V(n) \in Seq(Record) BY <1>1, <2>1, IsASeq
  <2> QED BY <1>1, <2>1, <2>2, LenProperties DEF V
<1>9. /\ SubSeq(V(n), 1, n - 1) \in Seq(Record)
      /\ Len(SubSeq(V(n), 1, n - 1)) = n - 1
      /\ \A i \in 1 .. n - 1 : SubSeq(V(n), 1, n - 1)[i] = V(n)[i]
  BY <1>1, <1>8, SubSeqProperties
<1>10. \A i \in 1 .. n - 1 : V(n)[i] = IF i < k THEN t[i] ELSE t[i + 1] BY <1>1 DEF V
<1> QED BY <1>7, <1>9, <1>10, LenProperties

-----------------------------------------------------------------------------
(***************************************************************************)
(* What a command of c makes of the table of c's server.                   *)
(***************************************************************************)
GoodTable(t, s) ==
  t \in Seq(Record) /\ Single(t) /\ \A i \in DOMAIN t : Home[t[i].addr] = s

LEMMA GoodTables ==
  ASSUME TypeOK, OneRecordEach, NEW s \in Server
  PROVE  GoodTable(clients[s], s)
BY DEF TypeOK, OneRecordEach, GoodTable, Single

\* The table of c's server becomes w, in which c alone may have changed.
Becomes(c, w) ==
  /\ GoodTable(w, Home[c])
  /\ \A d \in Client \ {c} : RecordsOf(w, d) = RecordsOf(clients[Home[c]], d)
  /\ clients' = [clients EXCEPT ![Home[c]] = w]

LEMMA TableFacts ==
  ASSUME TypeOK, OneRecordEach, NEW c \in Client
  PROVE  /\ Home[c] \in Server /\ GoodTable(Table(c), Home[c])
         /\ Index(Table(c), c) \in DOMAIN Table(c)
         /\ Mine(c) \in Record /\ Mine(c).addr = c
         /\ RoomOf(c) = RoomBy(Mine(c))
         /\ \A d \in Client \ {c} : RecordsOf(Table(c), d) = RecordsOf(clients[Home[c]], d)
<1> DEFINE t == clients[Home[c]]
           T == Table(c)
           new == [addr |-> c, room |-> Fresh, nick |-> c]
<1>1. Home[c] \in Server BY HomeAssumption
<1>2. GoodTable(t, Home[c]) BY <1>1, GoodTables
<1>3. new \in Record BY DEF Record, Names, Fresh
<1>4. T = IF Known(t, c) THEN t ELSE Append(t, new) BY DEF Table
<1>5. RoomOf(c) = RoomIn(t, c) BY DEF RoomOf, RoomIn
<1> HIDE DEF t, T, new
<1>6. GoodTable(T, Home[c]) /\ Known(T, c)
      /\ \A d \in Client \ {c} : RecordsOf(T, d) = RecordsOf(t, d)
  <2>1. CASE Known(t, c) BY <1>2, <1>4, <2>1
  <2>2. CASE ~ Known(t, c)
    <3>1. t \in Seq(Record) /\ Len(t) \in Nat /\ DOMAIN t = 1 .. Len(t)
      BY <1>2, LenProperties DEF GoodTable
    <3>2. T = Append(t, new) BY <1>4, <2>2
    <3>3. /\ T \in Seq(Record) /\ Len(T) = Len(t) + 1
          /\ \A i \in 1 .. Len(t) : T[i] = t[i]
          /\ T[Len(t) + 1] = new
      BY <1>3, <3>1, <3>2, AppendProperties
    <3>4. DOMAIN T = DOMAIN t \cup {Len(t) + 1} /\ Len(t) + 1 \notin DOMAIN t
      BY <3>1, <3>3, LenProperties
    <3>5. new.addr = c BY DEF new
    <3>6. \A i \in DOMAIN t : T[i] = t[i] /\ T[i].addr # c BY <2>2, <3>1, <3>3 DEF Known
    <3>7. Single(T) BY <1>2, <3>3, <3>4, <3>5, <3>6 DEF Single, GoodTable
    <3>8. \A i \in DOMAIN T : Home[T[i].addr] = Home[c]
      BY <1>2, <3>3, <3>4, <3>5, <3>6 DEF GoodTable
    <3>9. Known(T, c) BY <3>3, <3>4, <3>5 DEF Known
    <3>10. ASSUME NEW d \in Client \ {c} PROVE RecordsOf(T, d) = RecordsOf(t, d)
      <4>1. {i \in DOMAIN T : T[i].addr = d} = {i \in DOMAIN t : t[i].addr = d}
        BY <3>3, <3>4, <3>5, <3>6
      <4> QED BY <3>6, <4>1 DEF RecordsOf
    <3> QED BY <3>3, <3>7, <3>8, <3>9, <3>10 DEF GoodTable
  <2> QED BY <2>1, <2>2
<1>7. T \in Seq(Record) BY <1>6 DEF GoodTable
<1>8. Index(T, c) \in DOMAIN T /\ T[Index(T, c)].addr = c BY <1>6, <1>7, IndexFacts
<1>9. T[Index(T, c)] \in Record BY <1>7, <1>8, ElementOfSeq, LenProperties
<1>10. RoomIn(t, c) = RoomBy(T[Index(T, c)])
  <2>1. CASE Known(t, c) BY <1>4, <2>1 DEF RoomIn, RoomBy
  <2>2. CASE ~ Known(t, c)
    <3>1. T = Append(t, new) BY <1>4, <2>2
    <3>2. t \in Seq(Record) /\ Len(t) \in Nat /\ DOMAIN t = 1 .. Len(t)
      BY <1>2, LenProperties DEF GoodTable
    <3>3. /\ Len(T) = Len(t) + 1
          /\ \A i \in 1 .. Len(t) : T[i] = t[i]
          /\ T[Len(t) + 1] = new
      BY <1>3, <3>1, <3>2, AppendProperties
    <3>4. Index(T, c) \in 1 .. Len(t) + 1 BY <1>7, <1>8, <3>3, LenProperties
    <3>5. Index(T, c) = Len(t) + 1 BY <1>8, <2>2, <3>2, <3>3, <3>4 DEF Known
    <3>6. T[Index(T, c)].room = 0 BY <3>3, <3>5 DEF new, Fresh
    <3> QED BY <2>2, <3>6 DEF RoomIn, RoomBy, InRoom, NoRoom
  <2> QED BY <2>1, <2>2
<1> QED BY <1>1, <1>5, <1>6, <1>8, <1>9, <1>10 DEF Mine, T, t

(* A change of c's record changes c's record, and c's room is what it says. *)
LEMMA UpdateFacts ==
  ASSUME TypeOK, OneRecordEach, NEW c \in Client, NEW r \in Record, r.addr = c, Update(c, r)
  PROVE  \E w : Becomes(c, w) /\ RoomIn(w, c) = RoomBy(r)
<1> DEFINE T == Table(c)
           k == Index(T, c)
           w == [T EXCEPT ![k] = r]
<1>1. /\ GoodTable(T, Home[c]) /\ k \in DOMAIN T /\ T[k].addr = c
      /\ \A d \in Client \ {c} : RecordsOf(T, d) = RecordsOf(clients[Home[c]], d)
  BY TableFacts DEF Mine
<1>2. clients' = [clients EXCEPT ![Home[c]] = w] BY DEF Update
<1> HIDE DEF T, k
<1>3. T \in Seq(Record) /\ DOMAIN T = 1 .. Len(T) BY <1>1, LenProperties DEF GoodTable
<1>4. /\ w \in Seq(Record) /\ DOMAIN w = DOMAIN T /\ w[k] = r
      /\ \A i \in DOMAIN T : i # k => w[i] = T[i]
  BY <1>1, <1>3, ExceptSeq, LenProperties
<1> HIDE DEF w
<1>5. \A i \in DOMAIN T : w[i].addr = T[i].addr BY <1>1, <1>4
<1>6. GoodTable(w, Home[c]) BY <1>1, <1>4, <1>5 DEF GoodTable, Single
<1>7. ASSUME NEW d \in Client \ {c} PROVE RecordsOf(w, d) = RecordsOf(T, d)
  <2>1. {i \in DOMAIN w : w[i].addr = d} = {i \in DOMAIN T : T[i].addr = d} BY <1>4, <1>5
  <2>2. \A i \in DOMAIN T : T[i].addr = d => w[i] = T[i] BY <1>1, <1>4
  <2> QED BY <2>1, <2>2 DEF RecordsOf
<1>8. RoomIn(w, c) = RoomBy(r)
  <2>1. Index(w, c) = k BY <1>1, <1>4, <1>5, <1>6, IndexOfRecord DEF GoodTable
  <2>2. Known(w, c) BY <1>1, <1>4, <1>5 DEF Known
  <2> QED BY <1>4, <2>1, <2>2 DEF RoomIn, RoomBy
<1>9. Becomes(c, w) BY <1>1, <1>2, <1>6, <1>7 DEF Becomes
<1> QED BY <1>8, <1>9

(* Quit takes c's record out and no other.                                 *)
LEMMA QuitFacts ==
  ASSUME TypeOK, OneRecordEach, NEW c \in Client, Quit(c)
  PROVE  \E w : Becomes(c, w) /\ RoomIn(w, c) = NoRoom
<1> DEFINE T == Table(c)
           k == Index(T, c)
           w == Removed(T, k)
<1>1. /\ GoodTable(T, Home[c]) /\ k \in DOMAIN T /\ T[k].addr = c
      /\ \A d \in Client \ {c} : RecordsOf(T, d) = RecordsOf(clients[Home[c]], d)
  BY TableFacts DEF Mine
<1>2. clients' = [clients EXCEPT ![Home[c]] = w] BY DEF Quit
<1> HIDE DEF T, k
<1>3. T \in Seq(Record) /\ Len(T) \in Nat /\ DOMAIN T = 1 .. Len(T) /\ Single(T)
  BY <1>1, LenProperties DEF GoodTable
<1>4. /\ w \in Seq(Record) /\ DOMAIN w = 1 .. Len(T) - 1
      /\ \A i \in 1 .. Len(T) - 1 : w[i] = IF i < k THEN T[i] ELSE T[i + 1]
  BY <1>1, <1>3, RemovedFacts
<1> HIDE DEF w
<1> DEFINE from(i) == IF i < k THEN i ELSE i + 1
<1>5. ASSUME NEW i \in DOMAIN w PROVE from(i) \in DOMAIN T /\ from(i) # k /\ w[i] = T[from(i)]
  BY <1>1, <1>3, <1>4
<1>6. ASSUME NEW j \in DOMAIN T, j # k PROVE \E i \in DOMAIN w : from(i) = j
  <2>1. CASE j < k BY <1>1, <1>3, <1>4, <2>1
  <2>2. CASE j > k
    <3>1. j - 1 \in DOMAIN w /\ ~(j - 1 < k) /\ j - 1 + 1 = j BY <1>1, <1>3, <1>4, <2>2
    <3> QED BY <3>1
  <2> QED BY <1>1, <1>3, <1>6, <2>1, <2>2
<1>7. \A i, j \in DOMAIN w : from(i) = from(j) => i = j BY <1>1, <1>3, <1>4
<1> HIDE DEF from
<1>8. Single(w) BY <1>3, <1>5, <1>7 DEF Single
<1>9. GoodTable(w, Home[c]) BY <1>1, <1>4, <1>5, <1>8 DEF GoodTable
<1>10. ~ Known(w, c) BY <1>1, <1>3, <1>5 DEF Known, Single
<1>11. ASSUME NEW d \in Client \ {c} PROVE RecordsOf(w, d) = RecordsOf(T, d)
  <2>1. ASSUME NEW r \in RecordsOf(w, d) PROVE r \in RecordsOf(T, d)
    <3>1. PICK i \in DOMAIN w : w[i].addr = d /\ r = w[i] BY DEF RecordsOf
    <3> QED BY <1>5, <3>1 DEF RecordsOf
  <2>2. ASSUME NEW r \in RecordsOf(T, d) PROVE r \in RecordsOf(w, d)
    <3>1. PICK j \in DOMAIN T : T[j].addr = d /\ r = T[j] BY DEF RecordsOf
    <3>2. j # k BY <1>1, <3>1
    <3>3. PICK i \in DOMAIN w : from(i) = j BY <1>6, <3>2
    <3> QED BY <1>5, <3>1, <3>3 DEF RecordsOf
  <2> QED BY <2>1, <2>2
<1>12. Becomes(c, w) BY <1>1, <1>2, <1>9, <1>11 DEF Becomes
<1> QED BY <1>10, <1>12 DEF RoomIn

(* What holds of the tables afterwards.                                    *)
LEMMA BecomesFacts ==
  ASSUME TypeOK, OneRecordEach, NEW c \in Client, NEW w, Becomes(c, w)
  PROVE  /\ clients' \in [Server -> Seq(Record)] /\ OneRecordEach'
         /\ RoomOf(c)' = RoomIn(w, c)
         /\ \A d \in Client \ {c} : RoomOf(d)' = RoomOf(d)
         /\ \A s \in Server, d \in Client \ {c} :
              RecordsOf(clients'[s], d) = RecordsOf(clients[s], d)
<1>1. Home[c] \in Server /\ \A d \in Client : Home[d] \in Server BY HomeAssumption
<1>2. clients \in [Server -> Seq(Record)] BY DEF TypeOK
<1>3. /\ clients' \in [Server -> Seq(Record)] /\ clients'[Home[c]] = w
      /\ \A s \in Server : s # Home[c] => clients'[s] = clients[s]
  BY <1>1, <1>2 DEF Becomes, GoodTable
<1>4. \A s \in Server : GoodTable(clients'[s], s) BY <1>3, GoodTables DEF Becomes
<1>5. OneRecordEach' BY <1>4 DEF OneRecordEach, GoodTable, Single
<1>6. \A d \in Client : RoomOf(d) = RoomIn(clients[Home[d]], d) BY DEF RoomOf, RoomIn
<1>7. \A d \in Client : RoomOf(d)' = RoomIn(clients'[Home[d]], d) BY DEF RoomOf, RoomIn
<1>8. \A s \in Server, d \in Client \ {c} :
        RecordsOf(clients'[s], d) = RecordsOf(clients[s], d)
  BY <1>3 DEF Becomes
<1>9. ASSUME NEW d \in Client \ {c} PROVE RoomOf(d)' = RoomOf(d)
  <2>1. RoomIn(clients'[Home[d]], d) = RoomIn(clients[Home[d]], d)
    BY <1>1, <1>4, <1>8, GoodTables, RoomByRecords DEF GoodTable
  <2> QED BY <1>6, <1>7, <2>1
<1> QED BY <1>3, <1>5, <1>7, <1>8, <1>9

-----------------------------------------------------------------------------
(***************************************************************************)
(* Commands and lines: what both do to the sessions.                       *)
(***************************************************************************)

(* A command answers with the room it leaves the record of its sender in.  *)
LEMMA CommandAnswers ==
  ASSUME TypeOK, OneRecordEach, ToldTheTruth, NEW c \in Client, Command(c)
  PROVE  /\ \E w : Becomes(c, w) /\ told' = [told EXCEPT ![c] = RoomIn(w, c)]
         /\ \A w : RoomIn(w, c) \in Room \cup {NoRoom} \/ ~ GoodTable(w, Home[c])
         /\ UNCHANGED <<typed, sent, gone, lost, inbox>>
<1> DEFINE r == Mine(c)
           Goal == \E w : Becomes(c, w) /\ told' = [told EXCEPT ![c] = RoomIn(w, c)]
<1>1. r \in Record /\ r.addr = c /\ RoomOf(c) = RoomBy(r) BY TableFacts
<1>2. told[c] = RoomBy(r) BY <1>1 DEF ToldTheTruth
<1> HIDE DEF r
<1>3. ASSUME NEW q \in Record, q.addr = c, Update(c, q), Answer(c, RoomBy(q)) PROVE Goal
  BY <1>3, UpdateFacts DEF Answer
<1>4. ASSUME NEW g \in Room \cup {0}, Join(c, g) PROVE Goal
  <2>1. CASE g <= 0
    <3>1. g = 0 BY <2>1, RoomAssumption
    <3>2. Update(c, r) /\ Answer(c, RoomBy(r)) BY <1>2, <1>4, <3>1 DEF Join, r
    <3> QED BY <1>1, <1>3, <3>2
  <2>2. CASE g > 0 /\ InRoom(r)
    <3>1. Update(c, r) /\ Answer(c, r.room) BY <1>4, <2>2, RoomAssumption DEF Join, r
    <3> QED BY <1>1, <1>3, <2>2, <3>1 DEF RoomBy
  <2>3. CASE g > 0 /\ ~ InRoom(r)
    <3> DEFINE q == [r EXCEPT !.room = g]
    <3>1. Update(c, q) /\ Answer(c, g) BY <1>4, <2>3, RoomAssumption DEF Join, r
    <3>2. g \in Room BY <2>3
    <3>3. q \in Record /\ q.addr = c /\ RoomBy(q) = g
      BY <1>1, <2>3, <3>2 DEF Record, RoomBy, InRoom
    <3> HIDE DEF q
    <3> QED BY <1>3, <3>1, <3>3
  <2> QED BY <2>1, <2>2, <2>3, RoomAssumption
<1>5. ASSUME NEW m \in Nick[c], SetNick(c, m) PROVE Goal
  <2> DEFINE q == [r EXCEPT !.nick = m]
  <2>1. Update(c, q) /\ Answer(c, RoomBy(r)) BY <1>2, <1>5 DEF SetNick, r
  <2>2. m \in Names BY DEF Names
  <2>3. q \in Record /\ q.addr = c /\ RoomBy(q) = RoomBy(r)
    BY <1>1, <2>2 DEF Record, RoomBy, InRoom
  <2> HIDE DEF q
  <2> QED BY <1>3, <2>1, <2>3
<1>6. ASSUME EmptyNick(c) \/ BadCommand(c) PROVE Goal
  <2>1. Update(c, r) /\ Answer(c, RoomBy(r)) BY <1>2, <1>6 DEF EmptyNick, BadCommand, r
  <2> QED BY <1>1, <1>3, <2>1
<1>7. ASSUME Part(c) PROVE Goal
  <2> DEFINE q == [r EXCEPT !.room = Outside]
  <2>1. Update(c, q) /\ Answer(c, NoRoom) BY <1>7 DEF Part, r
  <2>2. q \in Record /\ q.addr = c /\ RoomBy(q) = NoRoom
    BY <1>1 DEF Record, RoomBy, InRoom, Outside
  <2> HIDE DEF q
  <2> QED BY <1>3, <2>1, <2>2
<1>8. ASSUME Quit(c) PROVE Goal BY <1>8, QuitFacts DEF Quit, Answer
<1>9. Goal BY <1>4, <1>5, <1>6, <1>7, <1>8 DEF Command
<1>10. ASSUME NEW w, GoodTable(w, Home[c]) PROVE RoomIn(w, c) \in Room \cup {NoRoom}
  <2>1. w \in Seq(Record) BY <1>10 DEF GoodTable
  <2>2. CASE Known(w, c)
    <3>1. Index(w, c) \in DOMAIN w BY <2>1, <2>2, IndexFacts
    <3>2. w[Index(w, c)] \in Record BY <2>1, <3>1, ElementOfSeq, LenProperties
    <3> QED BY <3>2 DEF RoomIn, Record, InRoom, Fresh, Outside
  <2>3. CASE ~ Known(w, c) BY <2>3 DEF RoomIn
  <2> QED BY <2>2, <2>3
<1>11. UNCHANGED <<typed, sent, gone, lost, inbox>>
  BY DEF Command, Join, SetNick, EmptyNick, Part, Quit, BadCommand
<1> QED BY <1>9, <1>10, <1>11

(* A line goes out under the number of the line, from a client in a room.  *)
Typed(c, x) ==
  /\ x \in Line /\ x.addr = c /\ x.n = typed[c] + 1
  /\ typed' = [typed EXCEPT ![c] = @ + 1]
  /\ sent' = sent \cup {[dst |-> s, line |-> x] : s \in Server}

LEMMA LineGoesOut ==
  ASSUME TypeOK, OneRecordEach, NEW c \in Client, ClientMsg(c)
  PROVE  /\ \E w : Becomes(c, w) /\ RoomIn(w, c) = RoomOf(c)
         /\ (\E x : Typed(c, x)) \/ UNCHANGED <<typed, sent>>
         /\ UNCHANGED <<gone, lost, inbox, told>>
<1> DEFINE r == Mine(c)
           x == [addr |-> c, n |-> typed[c] + 1, room |-> r.room, nick |-> r.nick]
<1>1. r \in Record /\ r.addr = c /\ RoomOf(c) = RoomBy(r) BY TableFacts
<1>2. Update(c, r) BY DEF ClientMsg
<1>3. \E w : Becomes(c, w) /\ RoomIn(w, c) = RoomOf(c) BY <1>1, <1>2, UpdateFacts
<1>4. CASE InRoom(r)
  <2>1. r.room \in Room /\ r.nick \in Names
    BY <1>1, <1>4 DEF Record, InRoom, Fresh, Outside
  <2>2. typed[c] + 1 \in Nat BY DEF TypeOK
  <2>3. x \in Line BY <2>1, <2>2 DEF Line
  <2>4. Typed(c, x) BY <1>4, <2>3 DEF Typed, ClientMsg
  <2> QED BY <1>3, <2>4 DEF ClientMsg
<1>5. CASE ~ InRoom(r) BY <1>3, <1>5 DEF ClientMsg
<1> QED BY <1>4, <1>5

-----------------------------------------------------------------------------
(***************************************************************************)
(* Deliver: a client gets one copy of a line or none.                      *)
(***************************************************************************)
LEMMA CopiesFacts ==
  ASSUME TypeOK, OneRecordEach, NEW s \in Server, NEW x \in Line, NEW c \in Client
  PROVE  \/ Copies(s, x)[c] = <<>>
         \/ Copies(s, x)[c] = <<x>> /\ Home[c] = s
<1> DEFINE t == clients[s]
           due == {i \in DOMAIN t : t[i].addr = c /\ t[i].room = x.room}
<1>1. Copies(s, x)[c] = [i \in 1 .. Cardinality(due) |-> x] BY DEF Copies
<1>2. Single(t) /\ \A i \in DOMAIN t : Home[t[i].addr] = s BY GoodTables DEF GoodTable
<1> HIDE DEF t
<1>3. CASE due = {}
  <2>1. Cardinality(due) = 0 BY <1>3, FS_EmptySet
  <2> HIDE DEF due
  <2>2. Copies(s, x)[c] = [i \in 1 .. 0 |-> x] BY <1>1, <2>1
  <2> QED BY <2>2
<1>4. CASE due # {}
  <2>1. PICK i : i \in due BY <1>4
  <2>2. due = {i} BY <1>2, <2>1 DEF Single
  <2>3. Cardinality(due) = 1 BY <2>2, FS_Singleton
  <2>4. Home[c] = s BY <1>2, <2>1
  <2> HIDE DEF due
  <2>5. Copies(s, x)[c] = [j \in 1 .. 1 |-> x] BY <1>1, <2>3
  <2> QED BY <2>4, <2>5
<1> QED BY <1>3, <1>4

LEMMA DeliverFacts ==
  ASSUME TypeOK, OneRecordEach, NEW s \in Server, NEW x \in Line, UnorderedDeliver(s, x),
         NEW c \in Client
  PROVE  /\ inbox'[c] \in Seq(Line)
         /\ \/ inbox'[c] = inbox[c]
            \/ inbox'[c] = Append(inbox[c], x) /\ Home[c] = s
<1>1. inbox[c] \in Seq(Line) BY DEF TypeOK
<1>2. inbox'[c] = inbox[c] \o Copies(s, x)[c] BY DEF UnorderedDeliver
<1>3. CASE Copies(s, x)[c] = <<>> BY <1>1, <1>2, <1>3
<1>4. CASE Copies(s, x)[c] = <<x>> /\ Home[c] = s
  <2>1. inbox'[c] = Append(inbox[c], x) BY <1>1, <1>2, <1>4, AppendIsConcat
  <2> QED BY <1>1, <1>4, <2>1, AppendProperties
<1> QED BY <1>3, <1>4, CopiesFacts

-----------------------------------------------------------------------------
(***************************************************************************)
(* The invariant is inductive.                                             *)
(***************************************************************************)
LEMMA InvInit == Init => IInv
<1> SUFFICES ASSUME Init PROVE IInv OBVIOUS
<1>1. <<>> \in Seq(Record) /\ <<>> \in Seq(Line) /\ DOMAIN <<>> = {} OBVIOUS
<1>2. TypeOK BY <1>1 DEF Init, TypeOK
<1>3. OneRecordEach BY <1>1 DEF Init, OneRecordEach
<1>4. \A c \in Client : clients[Home[c]] = <<>> BY HomeAssumption DEF Init
<1>5. ToldTheTruth BY <1>1, <1>4 DEF Init, ToldTheTruth, RoomOf, Known
<1>6. SentInv /\ InboxInv /\ AtMostOnce BY <1>1 DEF Init, SentInv, InboxInv, AtMostOnce
<1> QED BY <1>2, <1>3, <1>5, <1>6 DEF IInv

LEMMA CommandStep ==
  ASSUME IInv, NEW c \in Client, Command(c)
  PROVE  IInv'
<1>0. TypeOK /\ OneRecordEach /\ ToldTheTruth BY DEF IInv
<1>1. PICK w : Becomes(c, w) /\ told' = [told EXCEPT ![c] = RoomIn(w, c)]
  BY <1>0, CommandAnswers
<1>2. RoomIn(w, c) \in Room \cup {NoRoom} BY <1>0, <1>1, CommandAnswers DEF Becomes
<1>3. UNCHANGED <<typed, sent, gone, lost, inbox>> BY <1>0, CommandAnswers
<1>4. /\ clients' \in [Server -> Seq(Record)] /\ OneRecordEach'
      /\ RoomOf(c)' = RoomIn(w, c)
      /\ \A d \in Client \ {c} : RoomOf(d)' = RoomOf(d)
  BY <1>0, <1>1, BecomesFacts
<1>5. told \in [Client -> Room \cup {NoRoom}] BY <1>0 DEF TypeOK
<1>6. TypeOK' BY <1>0, <1>1, <1>2, <1>3, <1>4, <1>5 DEF TypeOK
<1>7. ToldTheTruth'
  <2> SUFFICES ASSUME NEW d \in Client PROVE told'[d] = RoomOf(d)' BY DEF ToldTheTruth
  <2>1. CASE d = c BY <1>1, <1>4, <1>5, <2>1
  <2>2. CASE d # c BY <1>0, <1>1, <1>4, <1>5, <2>2 DEF ToldTheTruth
  <2> QED BY <2>1, <2>2
<1>8. SentInv' /\ InboxInv' /\ AtMostOnce' BY <1>3 DEF IInv, SentInv, InboxInv, AtMostOnce
<1> QED BY <1>4, <1>6, <1>7, <1>8 DEF IInv

LEMMA LineStep ==
  ASSUME IInv, NEW c \in Client, ClientMsg(c)
  PROVE  IInv'
<1>0. TypeOK /\ OneRecordEach /\ ToldTheTruth /\ SentInv BY DEF IInv
<1>1. PICK w : Becomes(c, w) /\ RoomIn(w, c) = RoomOf(c) BY <1>0, LineGoesOut
<1>2. UNCHANGED <<gone, lost, inbox, told>> BY <1>0, LineGoesOut
<1>3. /\ clients' \in [Server -> Seq(Record)] /\ OneRecordEach'
      /\ RoomOf(c)' = RoomOf(c)
      /\ \A d \in Client \ {c} : RoomOf(d)' = RoomOf(d)
  BY <1>0, <1>1, BecomesFacts
<1>4. ToldTheTruth' BY <1>0, <1>2, <1>3 DEF ToldTheTruth
<1>5. /\ typed' \in [Client -> Nat] /\ sent' \subseteq Datagram /\ sent \subseteq sent'
      /\ SentInv'
  <2>1. CASE UNCHANGED <<typed, sent>> BY <1>0, <2>1 DEF TypeOK, SentInv
  <2>2. CASE \E x : Typed(c, x)
    <3>1. PICK x : Typed(c, x) BY <2>2
    <3>2. x \in Line /\ x.addr = c /\ x.n = typed[c] + 1 BY <3>1 DEF Typed
    <3>3. sent' = sent \cup {[dst |-> s, line |-> x] : s \in Server} BY <3>1 DEF Typed
    <3>4. /\ typed' \in [Client -> Nat] /\ typed'[c] = typed[c] + 1 /\ typed[c] \in Nat
          /\ \A d \in Client : d # c => typed'[d] = typed[d]
      BY <1>0, <3>1 DEF Typed, TypeOK
    <3>5. sent \subseteq Datagram BY <1>0 DEF TypeOK
    <3>6. \A d \in sent : d.line \in Line /\ d.line.addr \in Client /\ d.line.n \in Nat
      BY <3>5 DEF Datagram, Line
    <3>7. \A d \in sent' : d \in sent \/ d.line = x BY <3>3
    <3>8. sent' \subseteq Datagram BY <3>2, <3>3, <3>5 DEF Datagram
    <3>9. \A d \in sent : d.line.addr = c => d.line.n <= typed[c] BY <1>0 DEF SentInv
    <3>10. \A d \in sent' : d.line.n <= typed'[d.line.addr]
      <4> TAKE d \in sent'
      <4>1. CASE d.line = x BY <3>2, <3>4, <4>1
      <4>2. CASE d \in sent /\ d.line.addr = c BY <3>4, <3>6, <3>9, <4>2
      <4>3. CASE d \in sent /\ d.line.addr # c BY <1>0, <3>4, <3>6, <4>3 DEF SentInv
      <4> QED BY <3>7, <4>1, <4>2, <4>3
    <3>11. ASSUME NEW d \in sent', NEW e \in sent',
                  d.line.addr = e.line.addr, d.line.n = e.line.n
           PROVE  d.line = e.line
      <4>1. \A a \in sent : a.line.addr = c => a.line.n # x.n BY <3>2, <3>4, <3>6, <3>9
      <4>2. CASE d \in sent /\ e \in sent BY <1>0, <3>11, <4>2 DEF SentInv
      <4>3. CASE d.line = x /\ e.line = x BY <4>3
      <4>4. CASE d \in sent /\ e.line = x BY <3>2, <3>11, <4>1, <4>4
      <4>5. CASE d.line = x /\ e \in sent BY <3>2, <3>11, <4>1, <4>5
      <4> QED BY <3>7, <4>2, <4>3, <4>4, <4>5
    <3> QED BY <3>3, <3>4, <3>8, <3>10, <3>11 DEF SentInv
  <2> QED BY <1>0, <2>1, <2>2, LineGoesOut
<1>6. TypeOK' BY <1>0, <1>2, <1>3, <1>5 DEF TypeOK
<1>7. InboxInv' /\ AtMostOnce' BY <1>2 DEF IInv, InboxInv, AtMostOnce
<1> QED BY <1>3, <1>4, <1>5, <1>6, <1>7 DEF IInv

LEMMA RecvStep ==
  ASSUME IInv, NEW s \in Server, Recv(s)
  PROVE  IInv'
<1>0. TypeOK /\ OneRecordEach /\ ToldTheTruth /\ SentInv /\ InboxInv /\ AtMostOnce BY DEF IInv
<1>1. PICK d \in InFlight : /\ d.dst = s /\ gone' = gone \cup {d}
                            /\ UnorderedDeliver(s, d.line)
                            /\ UNCHANGED <<clients, typed, sent, lost, told>>
  BY DEF Recv
<1> DEFINE x == d.line
<1>2. /\ d \in sent /\ d \notin gone /\ gone \subseteq sent /\ lost \subseteq gone
      /\ d = [dst |-> s, line |-> x] /\ x \in Line
  BY <1>0, <1>1 DEF InFlight, TypeOK, Datagram
<1> HIDE DEF x
<1>3. \A c \in Client :
        /\ inbox[c] \in Seq(Line) /\ inbox'[c] \in Seq(Line)
        /\ \/ inbox'[c] = inbox[c]
           \/ inbox'[c] = Append(inbox[c], x) /\ Home[c] = s
  BY <1>0, <1>1, <1>2, DeliverFacts DEF TypeOK, x
<1>4. inbox' \in [Client -> Seq(Line)]
  <2>1. inbox' = [c \in Client |-> inbox'[c]] BY <1>1 DEF UnorderedDeliver
  <2> QED BY <1>3, <2>1
<1>5. TypeOK' BY <1>0, <1>1, <1>2, <1>4 DEF TypeOK
<1>6. OneRecordEach' /\ ToldTheTruth' /\ SentInv'
  BY <1>0, <1>1 DEF OneRecordEach, ToldTheTruth, RoomOf, SentInv
<1>7. ASSUME NEW c \in Client, inbox'[c] # inbox[c]
      PROVE  /\ Home[c] = s
             /\ Len(inbox[c]) \in Nat /\ DOMAIN inbox[c] = 1 .. Len(inbox[c])
             /\ DOMAIN inbox'[c] = 1 .. Len(inbox[c]) + 1
             /\ \A i \in DOMAIN inbox[c] : inbox'[c][i] = inbox[c][i]
             /\ inbox'[c][Len(inbox[c]) + 1] = x
  <2>1. inbox'[c] = Append(inbox[c], x) /\ Home[c] = s /\ inbox[c] \in Seq(Line)
    BY <1>3, <1>7
  <2>2. Len(inbox[c]) \in Nat /\ DOMAIN inbox[c] = 1 .. Len(inbox[c])
    BY <2>1, LenProperties
  <2>3. /\ inbox'[c] \in Seq(Line) /\ Len(inbox'[c]) = Len(inbox[c]) + 1
        /\ \A i \in 1 .. Len(inbox[c]) : inbox'[c][i] = inbox[c][i]
        /\ inbox'[c][Len(inbox[c]) + 1] = x
    BY <1>2, <2>1, AppendProperties
  <2> QED BY <2>1, <2>2, <2>3, LenProperties
<1>8. InboxInv'
  <2> SUFFICES ASSUME NEW c \in Client, NEW i \in DOMAIN inbox'[c]
               PROVE  [dst |-> Home[c], line |-> inbox'[c][i]] \in gone'
    BY DEF InboxInv
  <2>1. CASE inbox'[c] = inbox[c] BY <1>0, <1>1, <2>1 DEF InboxInv
  <2>2. CASE inbox'[c] # inbox[c] /\ i \in DOMAIN inbox[c]
    BY <1>0, <1>1, <1>7, <2>2 DEF InboxInv
  <2>3. CASE inbox'[c] # inbox[c] /\ i \notin DOMAIN inbox[c]
    <3>1. i = Len(inbox[c]) + 1 BY <1>7, <2>3
    <3> QED BY <1>1, <1>2, <1>7, <2>3, <3>1
  <2> QED BY <2>1, <2>2, <2>3
<1>9. AtMostOnce'
  <2> SUFFICES ASSUME NEW c \in Client, NEW i \in DOMAIN inbox'[c], NEW j \in DOMAIN inbox'[c],
                      inbox'[c][i].addr = inbox'[c][j].addr, inbox'[c][i].n = inbox'[c][j].n
               PROVE  i = j
    BY DEF AtMostOnce
  <2>1. CASE inbox'[c] = inbox[c] BY <1>0, <2>1 DEF AtMostOnce
  <2>2. CASE inbox'[c] # inbox[c]
    <3>1. ASSUME NEW k \in DOMAIN inbox[c]
          PROVE  inbox[c][k].addr # x.addr \/ inbox[c][k].n # x.n
      <4> DEFINE e == [dst |-> Home[c], line |-> inbox[c][k]]
      <4>1. e \in gone /\ e \in sent BY <1>0, <1>2 DEF InboxInv
      <4>2. e # d BY <1>2, <4>1
      <4>3. e.line # d.line BY <1>2, <1>7, <2>2, <4>2 DEF x
      <4> QED BY <1>0, <1>2, <4>1, <4>3 DEF SentInv, x
    <3>2. CASE i \in DOMAIN inbox[c] /\ j \in DOMAIN inbox[c]
      BY <1>0, <1>7, <2>2, <3>2 DEF AtMostOnce
    <3>3. CASE i \notin DOMAIN inbox[c] /\ j \notin DOMAIN inbox[c] BY <1>7, <2>2, <3>3
    <3>4. CASE i \in DOMAIN inbox[c] /\ j \notin DOMAIN inbox[c]
      <4>1. j = Len(inbox[c]) + 1 BY <1>7, <2>2, <3>4
      <4> QED BY <1>7, <2>2, <3>1, <3>4, <4>1
    <3>5. CASE i \notin DOMAIN inbox[c] /\ j \in DOMAIN inbox[c]
      <4>1. i = Len(inbox[c]) + 1 BY <1>7, <2>2, <3>5
      <4> QED BY <1>7, <2>2, <3>1, <3>5, <4>1
    <3> QED BY <3>2, <3>3, <3>4, <3>5
  <2> QED BY <2>1, <2>2
<1> QED BY <1>5, <1>6, <1>8, <1>9 DEF IInv

LEMMA InvStep == IInv /\ [Next]_vars => IInv'
<1> SUFFICES ASSUME IInv, [Next]_vars PROVE IInv' OBVIOUS
<1>1. ASSUME NEW d \in InFlight, Lose(d) PROVE IInv'
  <2>1. /\ gone' = gone \cup {d} /\ lost' = lost \cup {d} /\ d \in sent
        /\ UNCHANGED <<clients, typed, sent, inbox, told>>
    BY <1>1 DEF Lose, InFlight
  <2>2. TypeOK' BY <2>1 DEF IInv, TypeOK
  <2>3. OneRecordEach' /\ ToldTheTruth' /\ SentInv' /\ AtMostOnce'
    BY <2>1 DEF IInv, OneRecordEach, ToldTheTruth, RoomOf, SentInv, AtMostOnce
  <2>4. InboxInv' BY <2>1 DEF IInv, InboxInv
  <2> QED BY <2>2, <2>3, <2>4 DEF IInv
<1>2. CASE UNCHANGED vars
  <2>1. UNCHANGED <<clients, typed, sent, gone, lost, inbox, told>> BY <1>2 DEF vars
  <2>2. TypeOK' BY <2>1 DEF IInv, TypeOK
  <2>3. OneRecordEach' /\ ToldTheTruth' /\ SentInv' /\ AtMostOnce'
    BY <2>1 DEF IInv, OneRecordEach, ToldTheTruth, RoomOf, SentInv, AtMostOnce
  <2>4. InboxInv' BY <2>1 DEF IInv, InboxInv
  <2> QED BY <2>2, <2>3, <2>4 DEF IInv
<1> QED BY <1>1, <1>2, CommandStep, LineStep, RecvStep DEF Next

(***************************************************************************)
(* The invariant holds.                                                    *)
(***************************************************************************)
THEOREM InvCorrect == Spec => []IInv
<1> QED BY InvInit, InvStep, PTL DEF Spec

(***************************************************************************)
(* The variables of the server keep their types.                           *)
(***************************************************************************)
THEOREM TypeCorrect == Spec => []TypeOK
<1>1. IInv => TypeOK BY DEF IInv
<1> QED BY <1>1, InvCorrect, PTL

(***************************************************************************)
(* clients_ has one record of a client at most, at the client's server,    *)
(* through every order of joins, quits and returns.                        *)
(***************************************************************************)
THEOREM OneRecordEachCorrect == Spec => []OneRecordEach
<1>1. IInv => OneRecordEach BY DEF IInv
<1> QED BY <1>1, InvCorrect, PTL

(***************************************************************************)
(* The answers tell a client the room its server has it in.                *)
(***************************************************************************)
THEOREM ToldTheTruthCorrect == Spec => []ToldTheTruth
<1>1. IInv => ToldTheTruth BY DEF IInv
<1> QED BY <1>1, InvCorrect, PTL

(***************************************************************************)
(* No client receives a line twice.                                        *)
(***************************************************************************)
THEOREM AtMostOnceCorrect == Spec => []AtMostOnce
<1>1. IInv => AtMostOnce BY DEF IInv
<1> QED BY <1>1, InvCorrect, PTL

(***************************************************************************)
(* A client's datagram changes no record but its own, although Quit gives  *)
(* std::remove a reference into the vector that is being moved.            *)
(***************************************************************************)
THEOREM OthersUntouchedCorrect == Spec => OthersUntouched
<1> DEFINE A == \A c \in Client : Command(c) \/ ClientMsg(c) =>
                  \A s \in Server, d \in Client \ {c} :
                    RecordsOf(clients'[s], d) = RecordsOf(clients[s], d)
<1>1. IInv /\ [Next]_vars => [A]_vars
  <2> SUFFICES ASSUME IInv, NEW c \in Client, Command(c) \/ ClientMsg(c)
               PROVE  \A s \in Server, d \in Client \ {c} :
                        RecordsOf(clients'[s], d) = RecordsOf(clients[s], d)
    OBVIOUS
  <2>1. TypeOK /\ OneRecordEach /\ ToldTheTruth BY DEF IInv
  <2>2. \E w : Becomes(c, w) BY <2>1, CommandAnswers, LineGoesOut
  <2> QED BY <2>1, <2>2, BecomesFacts
<1> QED BY <1>1, InvCorrect, PTL DEF Spec, OthersUntouched
=============================================================================
