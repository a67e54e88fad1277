---------------------------- MODULE MySortProofs ----------------------------
(***************************************************************************)
(* Machine-checked proofs about the parallel sort, for any numbers in the  *)
(* files, any number of processes or threads, pipes of any capacity, and   *)
(* any order in which main and the workers take their steps.               *)
(***************************************************************************)
EXTENDS MySort, FiniteSetTheorems, SequenceTheorems, TLAPS

Facts == INSTANCE ListingLemmas

-----------------------------------------------------------------------------
(***************************************************************************)
(* Loops, as functions defined step by step: the sets T[i] are a loop      *)
(* invariant, and st[i] is the body.                                       *)
(***************************************************************************)

(* What is kept by every step holds after every step.                      *)
LEMMA Kept ==
  ASSUME NEW n \in Nat, NEW T, NEW f, f[0] \in T[0],
         \A i \in 1 .. n : f[i - 1] \in T[i - 1] => f[i] \in T[i]
  PROVE  \A i \in 0 .. n : f[i] \in T[i]
<1> DEFINE S == {i \in Nat : i <= n => f[i] \in T[i]}
<1>1. 0 \in S OBVIOUS
<1>2. ASSUME NEW i \in Nat, i \in S PROVE i + 1 \in S
  <2>1. CASE i + 1 <= n
    <3>1. i + 1 \in 1 .. n /\ (i + 1) - 1 = i /\ i <= n BY <2>1
    <3> QED BY <1>2, <3>1
  <2> QED BY <2>1
<1> HIDE DEF S
<1>3. Nat \subseteq S BY <1>1, <1>2, Facts!InductionInSet
<1> QED BY <1>3 DEF S

Body(n, T, st) == \A i \in 1 .. n : \A x \in T[i - 1] : st[i][x] \in T[i]

Run(g, n, x0, st) ==
  /\ g = [i \in 0 .. n |-> g[i]] /\ g[0] = x0
  /\ \A i \in 1 .. n : g[i] = st[i][g[i - 1]]

(* There is such a function.                                               *)
LEMMA Loop ==
  ASSUME NEW n \in Nat, NEW T, NEW x0 \in T[0], NEW st, Body(n, T, st)
  PROVE  \E g : Run(g, n, x0, st) /\ \A i \in 0 .. n : g[i] \in T[i]
<1> USE DEF Body, Run
<1> DEFINE P(m, g) == Run(g, m, x0, st) /\ \A i \in 0 .. m : g[i] \in T[i]
           S == {m \in Nat : m <= n => \E g : P(m, g)}
<1>1. 0 \in S
  <2> DEFINE g == [i \in 0 .. 0 |-> x0]
  <2>1. P(0, g) OBVIOUS
  <2> QED BY <2>1
<1>2. ASSUME NEW m \in Nat, m \in S PROVE m + 1 \in S
  <2> SUFFICES ASSUME m + 1 <= n PROVE \E g : P(m + 1, g) OBVIOUS
  <2>1. PICK g : P(m, g) BY <1>2
  <2> DEFINE h == [i \in 0 .. m + 1 |-> IF i = m + 1 THEN st[m + 1][g[m]] ELSE g[i]]
  <2>2. h[m + 1] = st[m + 1][g[m]] /\ \A i \in 0 .. m : h[i] = g[i] OBVIOUS
  <2>3. h = [i \in 0 .. m + 1 |-> h[i]] OBVIOUS
  <2> HIDE DEF h
  <2>4. h[0] = x0 BY <2>1, <2>2
  <2>5. m + 1 \in 1 .. n /\ (m + 1) - 1 = m /\ m \in 0 .. m OBVIOUS
  <2>6. h[m + 1] \in T[m + 1] BY <2>1, <2>2, <2>5
  <2>7. ASSUME NEW i \in 1 .. m + 1 PROVE h[i] = st[i][h[i - 1]]
    <3>1. CASE i = m + 1 BY <2>2, <2>5, <3>1
    <3>2. CASE i # m + 1
      <4>1. i \in 1 .. m /\ i \in 0 .. m /\ i - 1 \in 0 .. m BY <3>2
      <4> QED BY <2>1, <2>2, <4>1
    <3> QED BY <3>1, <3>2
  <2>8. ASSUME NEW i \in 0 .. m + 1 PROVE h[i] \in T[i]
    <3>1. CASE i = m + 1 BY <2>6, <3>1
    <3>2. CASE i # m + 1
      <4>1. i \in 0 .. m BY <3>2
      <4> QED BY <2>1, <2>2, <4>1
    <3> QED BY <3>1, <3>2
  <2> QED BY <2>3, <2>4, <2>7, <2>8
<1> HIDE DEF S
<1>3. Nat \subseteq S BY <1>1, <1>2, Facts!InductionInSet
<1> QED BY <1>3 DEF S

(* A function that grows at every step grows.                              *)
LEMMA Grows ==
  ASSUME NEW n \in Nat, NEW f, \A i \in 0 .. n : f[i] \in Int,
         \A i \in 1 .. n : f[i - 1] < f[i]
  PROVE  \A i, j \in 0 .. n : i < j => f[i] < f[j]
<1> DEFINE T == [j \in 0 .. n |-> {x \in Int : \A i \in 0 .. n : i < j => f[i] < x}]
<1>1. f[0] \in T[0] OBVIOUS
<1>2. ASSUME NEW j \in 1 .. n, f[j - 1] \in T[j - 1] PROVE f[j] \in T[j]
  <2>1. j - 1 \in 0 .. n /\ j \in 0 .. n OBVIOUS
  <2>2. ASSUME NEW i \in 0 .. n, i < j PROVE f[i] < f[j]
    <3>1. f[i] \in Int /\ f[j - 1] \in Int /\ f[j] \in Int /\ f[j - 1] < f[j] BY <2>1
    <3>2. CASE i = j - 1 BY <3>1, <3>2
    <3>3. CASE i < j - 1
      <4>1. f[i] < f[j - 1] BY <1>2, <2>1, <3>3
      <4> QED BY <3>1, <4>1
    <3> QED BY <2>2, <3>2, <3>3
  <2> QED BY <2>1, <2>2
<1> HIDE DEF T
<1>3. \A j \in 0 .. n : f[j] \in T[j] BY <1>1, <1>2, Kept
<1> QED BY <1>3 DEF T

-----------------------------------------------------------------------------
(***************************************************************************)
(* DivideEqual: k parts, none empty if there are k numbers, which together *)
(* are the whole.                                                          *)
(***************************************************************************)
LEMMA DivideFacts ==
  ASSUME NEW n \in Nat, NEW k \in Nat \ {0}, k <= n
  PROVE  LET split == DivideEqual(n, k)
         IN  /\ split \in [0 .. k -> Nat]
             /\ split[0] = 0 /\ split[k] = n
             /\ \A i \in 1 .. k : split[i - 1] < split[i]
<1> DEFINE l == n \div k
           r == n % k
           Add(x, i) == x + l + (IF i - 1 < r THEN 1 ELSE 0)
           F(s) == [i \in 0 .. k |-> IF i = 0 THEN 0 ELSE Add(s[i - 1], i)]
           split == CHOOSE s : s = F(s)
           Sum(i) == i * l + (IF i <= r THEN i ELSE r)
           T == [i \in 0 .. k |-> {Sum(i)}]
           st == [i \in 1 .. k |-> [x \in T[i - 1] |-> Add(x, i)]]
<1>1. l \in Nat /\ r \in 0 .. k - 1 /\ n = k * l + r /\ l >= 1
  <2>1. l \in Int /\ r \in 0 .. k - 1 /\ n = k * l + r BY SMT
  <2>2. l >= 1 BY <2>1, SMT
  <2> QED BY <2>1, <2>2
<1> HIDE DEF l, r
<1>2. Sum(0) = 0 /\ Sum(k) = n BY <1>1
<1>3. ASSUME NEW i \in 1 .. k PROVE Add(Sum(i - 1), i) = Sum(i)
  <2>1. i * l = (i - 1) * l + l BY <1>1
  <2> QED BY <1>1, <2>1
<1>4. ASSUME NEW i \in 0 .. k PROVE Sum(i) \in Nat
  <2>1. i * l \in Nat BY <1>1
  <2> QED BY <1>1, <2>1
<1> HIDE DEF Sum
<1>5. Body(k, T, st)
  <2> SUFFICES ASSUME NEW i \in 1 .. k, NEW x \in T[i - 1] PROVE st[i][x] \in T[i] BY DEF Body
  <2>1. i - 1 \in 0 .. k /\ x = Sum(i - 1) OBVIOUS
  <2>2. st[i][x] = Add(x, i) OBVIOUS
  <2> HIDE DEF Add, st
  <2> QED BY <1>3, <2>1, <2>2
<1>6. 0 \in T[0] BY <1>2
<1>7. \E g : Run(g, k, 0, st) /\ \A i \in 0 .. k : g[i] \in T[i]
  <2> HIDE DEF T, st
  <2> QED BY <1>5, <1>6, Loop
<1>8. PICK g : Run(g, k, 0, st) /\ \A i \in 0 .. k : g[i] \in T[i] BY <1>7
<1>9. \A i \in 1 .. k : g[i] = Add(g[i - 1], i)
  <2> TAKE i \in 1 .. k
  <2>1. i - 1 \in 0 .. k OBVIOUS
  <2>2. g[i - 1] \in T[i - 1] BY <1>8, <2>1
  <2> HIDE DEF Add, T
  <2> QED BY <1>8, <2>2 DEF Run
<1> HIDE DEF T, st, Add
<1>10. g = F(g)
  <2>1. \A i \in 0 .. k : i = 0 \/ i \in 1 .. k OBVIOUS
  <2>2. \A i \in 0 .. k : g[i] = IF i = 0 THEN 0 ELSE Add(g[i - 1], i)
    BY <1>8, <1>9, <2>1 DEF Run
  <2>3. F(g) = [i \in 0 .. k |-> g[i]] BY <2>2
  <2> QED BY <1>8, <2>3 DEF Run
<1>11. split = F(split) BY <1>10
<1>12. split = DivideEqual(n, k) BY DEF DivideEqual, Add, l, r
<1> HIDE DEF split
<1>13. split[0] = 0 /\ \A i \in 1 .. k : split[i] = Add(split[i - 1], i) BY <1>11
<1>14. \A i \in 0 .. k : split[i] \in T[i]
  <2>1. split[0] \in T[0] BY <1>6, <1>13
  <2>2. ASSUME NEW i \in 1 .. k, split[i - 1] \in T[i - 1] PROVE split[i] \in T[i]
    <3>1. i - 1 \in 0 .. k OBVIOUS
    <3>2. split[i - 1] = Sum(i - 1) BY <2>2, <3>1 DEF T
    <3>3. split[i] = Sum(i) BY <1>3, <1>13, <3>2
    <3> QED BY <3>3 DEF T
  <2> QED BY <2>1, <2>2, Kept
<1>15. \A i \in 0 .. k : split[i] = Sum(i) BY <1>14 DEF T
<1>16. split \in [0 .. k -> Nat] BY <1>4, <1>11, <1>15
<1>17. ASSUME NEW i \in 1 .. k PROVE split[i - 1] < split[i]
  <2>1. split[i] = Add(split[i - 1], i) /\ split[i - 1] \in Nat BY <1>13, <1>16
  <2> QED BY <1>1, <2>1 DEF Add
<1>18. split[k] = n BY <1>2, <1>15
<1> QED BY <1>12, <1>13, <1>16, <1>17, <1>18

-----------------------------------------------------------------------------
(***************************************************************************)
(* Permutations, and what one comparison of BubbleSort does.               *)
(***************************************************************************)
Plan(p, v, w) ==
  /\ p \in [DOMAIN v -> DOMAIN v]
  /\ \A i, j \in DOMAIN v : p[i] = p[j] => i = j
  /\ \A i \in DOMAIN v : w[i] = v[p[i]]

LEMMA PermutedSelf ==
  ASSUME NEW v PROVE Permuted(v, v)
<1> DEFINE p == [i \in DOMAIN v |-> i]
<1>1. Plan(p, v, v) BY DEF Plan
<1> QED BY <1>1 DEF Permuted, Plan

LEMMA PermutedAgain ==
  ASSUME NEW u, NEW v, NEW w, Permuted(u, v), Permuted(v, w)
  PROVE  Permuted(u, w)
<1>1. PICK p : Plan(p, u, v) BY DEF Permuted, Plan
<1>2. PICK q : Plan(q, v, w) BY DEF Permuted, Plan
<1>3. DOMAIN v = DOMAIN u /\ DOMAIN w = DOMAIN v BY DEF Permuted
<1> DEFINE r == [i \in DOMAIN u |-> p[q[i]]]
<1>4. Plan(r, u, w) BY <1>1, <1>2, <1>3 DEF Plan
<1> QED BY <1>3, <1>4 DEF Permuted, Plan

LEMMA ExchangeFacts ==
  ASSUME NEW D, NEW S \in SUBSET Int, NEW v \in [D -> S], NEW i \in D, NEW j \in D, i # j
  PROVE  LET w == Exchange(v, i, j)
         IN  /\ w \in [D -> S]
             /\ w[i] = IF v[i] < v[j] THEN v[j] ELSE v[i]
             /\ w[j] = IF v[i] < v[j] THEN v[i] ELSE v[j]
             /\ \A x \in D : x # i /\ x # j => w[x] = v[x]
             /\ Permuted(v, w)
<1> DEFINE w == Exchange(v, i, j)
<1>1. /\ w \in [D -> S]
      /\ w[i] = IF v[i] < v[j] THEN v[j] ELSE v[i]
      /\ w[j] = IF v[i] < v[j] THEN v[i] ELSE v[j]
      /\ \A x \in D : x # i /\ x # j => w[x] = v[x]
  BY DEF Exchange
<1>2. Permuted(v, w)
  <2>1. CASE v[i] < v[j]
    <3> DEFINE p == [x \in D |-> IF x = i THEN j ELSE IF x = j THEN i ELSE x]
    <3> HIDE DEF w
    <3>1. Plan(p, v, w) BY <1>1, <2>1 DEF Plan
    <3> HIDE DEF p
    <3> QED BY <1>1, <3>1 DEF Permuted, Plan
  <2>2. CASE ~ (v[i] < v[j]) BY <2>2, PermutedSelf DEF Exchange
  <2> QED BY <2>1, <2>2
<1> QED BY <1>1, <1>2

(* In the loops: the numbers before i are in order, and of those the ones  *)
(* before j are not above number i.                                        *)
Ordered(v, i, j) ==
  /\ \A a, b \in 1 .. i - 1 : a < b => v[a] <= v[b]
  /\ \A a \in 1 .. j - 1 : v[a] <= v[i]

LEMMA OrderedStep ==
  ASSUME NEW n \in Nat, NEW S \in SUBSET Int, NEW v \in [1 .. n -> S],
         NEW i \in 1 .. n, NEW j \in 1 .. i - 1, Ordered(v, i, j)
  PROVE  Ordered(Exchange(v, i, j), i, j + 1)
<1> DEFINE w == Exchange(v, i, j)
<1>1. j \in 1 .. n /\ i # j OBVIOUS
<1>2. /\ w[i] = IF v[i] < v[j] THEN v[j] ELSE v[i]
      /\ w[j] = IF v[i] < v[j] THEN v[i] ELSE v[j]
      /\ \A x \in 1 .. n : x # i /\ x # j => w[x] = v[x]
  BY <1>1 DEF Exchange
<1> HIDE DEF w
<1>3. \A a \in 1 .. i - 1 : a # j => w[a] = v[a] BY <1>2
<1>4. \A a \in 1 .. n : v[a] \in Int OBVIOUS
<1>5. w[j] <= v[j] /\ w[j] <= w[i] /\ v[i] <= w[i] /\ w[i] \in Int /\ w[j] \in Int
  <2>1. v[i] \in Int /\ v[j] \in Int BY <1>1, <1>4
  <2> QED BY <1>2, <2>1
<1>6. ASSUME NEW a \in 1 .. i - 1, NEW b \in 1 .. i - 1, a < b
      PROVE  w[a] <= w[b]
  <2>1. a \in 1 .. n /\ b \in 1 .. n OBVIOUS
  <2>2. v[a] <= v[b] /\ v[a] \in Int /\ v[b] \in Int BY <1>4, <1>6, <2>1 DEF Ordered
  <2>3. CASE a # j /\ b # j BY <1>3, <2>2, <2>3
  <2>4. CASE a = j
    <3>1. w[b] = v[b] BY <1>3, <1>6, <2>4
    <3> QED BY <1>5, <2>2, <2>4, <3>1
  <2>5. CASE b = j
    <3>1. v[a] <= v[i] BY <1>6, <2>5 DEF Ordered
    <3>2. w[a] = v[a] BY <1>3, <1>6, <2>5
    <3> QED BY <1>2, <2>2, <2>5, <3>1, <3>2
  <2> QED BY <2>3, <2>4, <2>5
<1>7. ASSUME NEW a \in 1 .. j PROVE w[a] <= w[i]
  <2>1. CASE a = j BY <1>5, <2>1
  <2>2. CASE a # j
    <3>1. v[a] <= v[i] BY <2>2 DEF Ordered
    <3>2. w[a] = v[a] BY <1>3, <2>2
    <3>3. v[a] \in Int /\ v[i] \in Int BY <1>4
    <3> QED BY <1>5, <3>1, <3>2, <3>3
  <2> QED BY <2>1, <2>2
<1>8. j + 1 - 1 = j OBVIOUS
<1> QED BY <1>6, <1>7, <1>8 DEF Ordered, w

LEMMA OrderedNext ==
  ASSUME NEW v, NEW i \in Nat \ {0}, Ordered(v, i, i)
  PROVE  Ordered(v, i + 1, 1)
<1>1. ASSUME NEW a \in 1 .. i, NEW b \in 1 .. i, a < b PROVE v[a] <= v[b]
  <2>1. a \in 1 .. i - 1 BY <1>1
  <2>2. CASE b = i BY <2>1, <2>2 DEF Ordered
  <2>3. CASE b # i BY <1>1, <2>1, <2>3 DEF Ordered
  <2> QED BY <2>2, <2>3
<1> QED BY <1>1 DEF Ordered

(* The inner loop.                                                         *)
LEMMA InsertFacts ==
  ASSUME NEW n \in Nat, NEW S \in SUBSET Int, NEW v \in [1 .. n -> S],
         NEW i \in 1 .. n, Ordered(v, i, 1)
  PROVE  /\ Insert(v, i) \in [1 .. n -> S] /\ Permuted(v, Insert(v, i))
         /\ Ordered(Insert(v, i), i + 1, 1)
<1> DEFINE m == i - 1
           F(f) == [j \in 0 .. m |-> IF j = 0 THEN v ELSE Exchange(f[j - 1], i, j)]
           step == CHOOSE f : f = F(f)
           T == [j \in 0 .. m |->
                  {w \in [1 .. n -> S] : Permuted(v, w) /\ Ordered(w, i, j + 1)}]
           st == [j \in 1 .. m |-> [w \in T[j - 1] |-> Exchange(w, i, j)]]
<1>1. m \in Nat /\ v \in T[0] BY PermutedSelf
<1>2. ASSUME NEW j \in 1 .. m, NEW w \in T[j - 1] PROVE Exchange(w, i, j) \in T[j]
  <2>1. j - 1 \in 0 .. m /\ j \in 0 .. m /\ j \in 1 .. n /\ i # j /\ (j - 1) + 1 = j OBVIOUS
  <2>2. w \in [1 .. n -> S] /\ Permuted(v, w) /\ Ordered(w, i, j) BY <2>1
  <2> HIDE DEF T
  <2>3. Exchange(w, i, j) \in [1 .. n -> S] /\ Permuted(w, Exchange(w, i, j))
    BY <2>1, <2>2, ExchangeFacts
  <2>4. Permuted(v, Exchange(w, i, j)) BY <2>2, <2>3, PermutedAgain
  <2>5. Ordered(Exchange(w, i, j), i, j + 1) BY <2>2, OrderedStep
  <2> QED BY <2>1, <2>3, <2>4, <2>5 DEF T
<1>3. Body(m, T, st)
  <2> SUFFICES ASSUME NEW j \in 1 .. m, NEW w \in T[j - 1] PROVE st[j][w] \in T[j] BY DEF Body
  <2>1. st[j][w] = Exchange(w, i, j) OBVIOUS
  <2> HIDE DEF T, st
  <2> QED BY <1>2, <2>1
<1>4. PICK g : Run(g, m, v, st) /\ \A j \in 0 .. m : g[j] \in T[j]
  <2> HIDE DEF T, st, m
  <2> QED BY <1>1, <1>3, Loop
<1>5. \A j \in 1 .. m : g[j] = Exchange(g[j - 1], i, j)
  <2> TAKE j \in 1 .. m
  <2>1. j - 1 \in 0 .. m OBVIOUS
  <2>2. g[j - 1] \in T[j - 1] BY <1>4, <2>1
  <2> HIDE DEF T
  <2> QED BY <1>4, <2>2 DEF Run
<1> HIDE DEF T, st
<1>6. g = F(g)
  <2>1. \A j \in 0 .. m : j = 0 \/ j \in 1 .. m OBVIOUS
  <2>2. \A j \in 0 .. m : g[j] = IF j = 0 THEN v ELSE Exchange(g[j - 1], i, j)
    BY <1>4, <1>5, <2>1 DEF Run
  <2>3. F(g) = [j \in 0 .. m |-> g[j]] BY <2>2
  <2> QED BY <1>4, <2>3 DEF Run
<1>7. step = F(step) BY <1>6
<1>8. step[m] = Insert(v, i) BY DEF Insert
<1> HIDE DEF step
<1>9. step[0] = v /\ \A j \in 1 .. m : step[j] = Exchange(step[j - 1], i, j) BY <1>7
<1>10. \A j \in 0 .. m : step[j] \in T[j]
  <2>1. step[0] \in T[0] BY <1>1, <1>9
  <2>2. \A j \in 1 .. m : step[j - 1] \in T[j - 1] => step[j] \in T[j] BY <1>2, <1>9
  <2> HIDE DEF m
  <2> QED BY <1>1, <2>1, <2>2, Kept
<1>11. m \in 0 .. m /\ m + 1 = i OBVIOUS
<1>12. step[m] \in [1 .. n -> S] /\ Permuted(v, step[m]) /\ Ordered(step[m], i, i)
  <2>1. step[m] \in T[m] BY <1>10, <1>11
  <2> HIDE DEF m
  <2> QED BY <1>11, <2>1 DEF T
<1>13. Ordered(step[m], i + 1, 1)
  <2>1. i \in Nat \ {0} OBVIOUS
  <2> QED BY <1>12, <2>1, OrderedNext
<1> QED BY <1>8, <1>12, <1>13

(* The outer loop.                                                         *)
LEMMA BubbleFacts ==
  ASSUME NEW S \in SUBSET Int, NEW v \in Seq(S)
  PROVE  /\ BubbleSort(v) \in Seq(S) /\ Len(BubbleSort(v)) = Len(v)
         /\ Sorts(BubbleSort(v), v)
<1> DEFINE n == Len(v)
           F(f) == [i \in 0 .. n |-> IF i = 0 THEN v ELSE Insert(f[i - 1], i)]
           upTo == CHOOSE f : f = F(f)
           T == [i \in 0 .. n |->
                  {w \in [1 .. n -> S] : Permuted(v, w) /\ Ordered(w, i + 1, 1)}]
           st == [i \in 1 .. n |-> [w \in T[i - 1] |-> Insert(w, i)]]
<1>1. n \in Nat /\ v \in [1 .. n -> S] BY LenProperties
<1> HIDE DEF n
<1>2. v \in T[0]
  <2>1. Ordered(v, 1, 1) BY DEF Ordered
  <2> QED BY <1>1, <2>1, PermutedSelf
<1>3. ASSUME NEW i \in 1 .. n, NEW w \in T[i - 1] PROVE Insert(w, i) \in T[i]
  <2>1. i - 1 \in 0 .. n /\ i \in 0 .. n /\ (i - 1) + 1 = i BY <1>1
  <2>2. w \in [1 .. n -> S] /\ Permuted(v, w) /\ Ordered(w, i, 1) BY <2>1
  <2> HIDE DEF T
  <2>3. /\ Insert(w, i) \in [1 .. n -> S] /\ Permuted(w, Insert(w, i))
        /\ Ordered(Insert(w, i), i + 1, 1)
    BY <1>1, <2>2, InsertFacts
  <2>4. Permuted(v, Insert(w, i)) BY <2>2, <2>3, PermutedAgain
  <2> QED BY <2>1, <2>3, <2>4 DEF T
<1>4. Body(n, T, st)
  <2> SUFFICES ASSUME NEW i \in 1 .. n, NEW w \in T[i - 1] PROVE st[i][w] \in T[i] BY DEF Body
  <2>1. st[i][w] = Insert(w, i) OBVIOUS
  <2> HIDE DEF T, st
  <2> QED BY <1>3, <2>1
<1>5. PICK g : Run(g, n, v, st) /\ \A i \in 0 .. n : g[i] \in T[i]
  <2> HIDE DEF T, st
  <2> QED BY <1>1, <1>2, <1>4, Loop
<1>6. \A i \in 1 .. n : g[i] = Insert(g[i - 1], i)
  <2> TAKE i \in 1 .. n
  <2>1. i - 1 \in 0 .. n BY <1>1
  <2>2. g[i - 1] \in T[i - 1] BY <1>5, <2>1
  <2> HIDE DEF T
  <2> QED BY <1>5, <2>2 DEF Run
<1> HIDE DEF T, st
<1>7. g = F(g)
  <2>1. \A i \in 0 .. n : i = 0 \/ i \in 1 .. n BY <1>1
  <2>2. \A i \in 0 .. n : g[i] = IF i = 0 THEN v ELSE Insert(g[i - 1], i)
    BY <1>5, <1>6, <2>1 DEF Run
  <2>3. F(g) = [i \in 0 .. n |-> g[i]] BY <2>2
  <2> QED BY <1>5, <2>3 DEF Run
<1>8. upTo = F(upTo) BY <1>7
<1>9. upTo[n] = BubbleSort(v) BY DEF BubbleSort, n
<1> HIDE DEF upTo
<1>10. upTo[0] = v /\ \A i \in 1 .. n : upTo[i] = Insert(upTo[i - 1], i) BY <1>1, <1>8
<1>11. \A i \in 0 .. n : upTo[i] \in T[i]
  <2>1. upTo[0] \in T[0] BY <1>2, <1>10
  <2>2. \A i \in 1 .. n : upTo[i - 1] \in T[i - 1] => upTo[i] \in T[i] BY <1>3, <1>10
  <2> QED BY <1>1, <2>1, <2>2, Kept
<1>12. n \in 0 .. n /\ n + 1 - 1 = n BY <1>1
<1>13. /\ upTo[n] \in [1 .. n -> S] /\ Permuted(v, upTo[n])
       /\ Ordered(upTo[n], n + 1, 1)
  BY <1>11, <1>12 DEF T
<1>14. Ascending(upTo[n])
  <2> DEFINE w == upTo[n]
  <2> HIDE DEF w
  <2> SUFFICES ASSUME NEW i \in 1 .. n, NEW j \in 1 .. n, i < j PROVE w[i] <= w[j]
    BY <1>13 DEF Ascending, w
  <2> QED BY <1>12, <1>13 DEF Ordered, w
<1>15. upTo[n] \in Seq(S) /\ Len(upTo[n]) = n
  <2> DEFINE w == upTo[n]
  <2>1. w \in [1 .. n -> S] BY <1>13
  <2> HIDE DEF w
  <2> QED BY <1>1, <2>1 DEF w
<1> QED BY <1>9, <1>13, <1>14, <1>15 DEF Sorts, n

-----------------------------------------------------------------------------
(***************************************************************************)
(* MergeSort.  The positions still in the heap: of every range those       *)
(* behind its first number.                                                *)
(***************************************************************************)
Left(h) == {x \in Nat : \E r \in h : r[1] < x /\ x <= r[2]}

HeapOf(v, n, h) ==
  /\ h \in SUBSET (Nat \X Nat)
  /\ \A r \in h : r[1] < r[2] /\ r[2] <= n
  /\ \A r \in h : \A a, b \in Nat : r[1] < a /\ a < b /\ b <= r[2] => v[a] <= v[b]
  /\ \A r, q \in h : r # q => r[2] <= q[1] \/ q[2] <= r[1]

LEMMA SmallestAt ==
  ASSUME NEW n \in Nat, NEW v, \A i \in 1 .. n : v[i] \in Int,
         NEW K \in SUBSET (1 .. n), K # {}
  PROVE  \E x \in K : \A y \in K : v[x] <= v[y]
<1> DEFINE Has(J) == \E x \in J : \A y \in J : v[x] <= v[y]
           S == {m \in Nat : m <= n => \A J \in SUBSET (1 .. m) : J # {} => Has(J)}
<1>1. 0 \in S
  <2>1. ASSUME NEW J \in SUBSET (1 .. 0), J # {} PROVE FALSE
    <3>1. PICK x \in J : TRUE BY <2>1
    <3>2. x \in 1 .. 0 OBVIOUS
    <3> QED BY <3>2
  <2> HIDE DEF Has
  <2> QED BY <2>1
<1>2. ASSUME NEW m \in Nat, m \in S PROVE m + 1 \in S
  <2>1. m <= n => \A J \in SUBSET (1 .. m) : J # {} => Has(J) BY <1>2
  <2> HIDE DEF S
  <2> SUFFICES ASSUME m + 1 <= n, NEW J \in SUBSET (1 .. m + 1), J # {} PROVE Has(J)
    BY DEF S
  <2> DEFINE I == J \ {m + 1}
  <2>2. I \in SUBSET (1 .. m) OBVIOUS
  <2>3. \A x \in J : v[x] \in Int OBVIOUS
  <2>4. CASE I = {}
    <3>1. J = {m + 1} BY <2>4
    <3> QED BY <2>3, <3>1
  <2>5. CASE I # {}
    <3>1. Has(I)
      <4> HIDE DEF Has, I
      <4> QED BY <2>1, <2>2, <2>5
    <3>2. PICK x \in I : \A y \in I : v[x] <= v[y] BY <3>1
    <3>3. CASE m + 1 \in J /\ v[m + 1] <= v[x]
      <4>1. \A y \in J : v[m + 1] <= v[y]
        <5> TAKE y \in J
        <5>1. v[m + 1] \in Int /\ v[x] \in Int /\ v[y] \in Int BY <2>3, <3>3
        <5>2. y = m + 1 \/ y \in I OBVIOUS
        <5> QED BY <3>2, <3>3, <5>1, <5>2
      <4> QED BY <3>3, <4>1
    <3>4. CASE ~ (m + 1 \in J /\ v[m + 1] <= v[x])
      <4>1. \A y \in J : v[x] <= v[y]
        <5> TAKE y \in J
        <5>1. x \in J /\ v[x] \in Int /\ v[y] \in Int BY <2>3
        <5>2. y = m + 1 \/ y \in I OBVIOUS
        <5> QED BY <3>2, <3>4, <5>1, <5>2
      <4> QED BY <4>1
    <3> QED BY <3>4, <3>3
  <2> QED BY <2>4, <2>5
<1> HIDE DEF S
<1>3. Nat \subseteq S BY <1>1, <1>2, Facts!InductionInSet
<1>4. n \in S BY <1>3
<1> QED BY <1>4 DEF S

LEMMA TopFacts ==
  ASSUME NEW n \in Nat, NEW v, \A i \in 1 .. n : v[i] \in Int,
         NEW h, HeapOf(v, n, h), h # {}
  PROVE  Top(v, h) \in h /\ \A q \in h : v[Top(v, h)[1] + 1] <= v[q[1] + 1]
<1> DEFINE K == {r[1] + 1 : r \in h}
<1>1. K \in SUBSET (1 .. n) /\ K # {}
  <2>1. \A r \in h : r[1] \in Nat /\ r[2] \in Nat /\ r[1] < r[2] /\ r[2] <= n BY DEF HeapOf
  <2>2. \A r \in h : r[1] + 1 \in 1 .. n BY <2>1
  <2> QED BY <2>2
<1>2. PICK x \in K : \A y \in K : v[x] <= v[y]
  <2> HIDE DEF K
  <2> QED BY <1>1, SmallestAt
<1>3. PICK r \in h : x = r[1] + 1 OBVIOUS
<1>4. \A q \in h : v[r[1] + 1] <= v[q[1] + 1] BY <1>2, <1>3
<1> QED BY <1>4 DEF Top

LEMMA PoppedFacts ==
  ASSUME NEW n \in Nat, NEW v, \A i \in 1 .. n : v[i] \in Int,
         NEW h, HeapOf(v, n, h), h # {}, NEW x, x = Top(v, h)[1] + 1
  PROVE  /\ x \in Left(h) /\ \A y \in Left(h) : v[x] <= v[y]
         /\ HeapOf(v, n, Popped(v, h)) /\ Left(Popped(v, h)) = Left(h) \ {x}
<1>1. PICK r : r = Top(v, h) OBVIOUS
<1>2. r \in h /\ \A q \in h : v[r[1] + 1] <= v[q[1] + 1] BY <1>1, TopFacts
<1>3. \A q \in h : q[1] \in Nat /\ q[2] \in Nat /\ q[1] < q[2] /\ q[2] <= n BY DEF HeapOf
<1>4. x = r[1] + 1 /\ x \in Nat /\ r[1] < x /\ x <= r[2] BY <1>1, <1>2, <1>3
<1>5. x \in Left(h) BY <1>2, <1>4 DEF Left
<1>6. ASSUME NEW y \in Left(h) PROVE v[x] <= v[y]
  <2>1. PICK q \in h : q[1] < y /\ y <= q[2] BY DEF Left
  <2>2. y \in Nat /\ q[1] \in Nat /\ q[2] \in Nat /\ q[2] <= n BY <1>3 DEF Left
  <2>3. q[1] + 1 \in 1 .. n /\ y \in 1 .. n /\ x \in 1 .. n BY <1>2, <1>3, <1>4, <2>1, <2>2
  <2>4. v[x] \in Int /\ v[y] \in Int /\ v[q[1] + 1] \in Int BY <2>3
  <2>5. v[x] <= v[q[1] + 1] BY <1>2, <1>4
  <2>6. y = q[1] + 1 \/ v[q[1] + 1] <= v[y]
    <3>1. CASE q[1] + 1 < y
      <4>1. q[1] + 1 \in Nat /\ q[1] < q[1] + 1 BY <2>2
      <4> QED BY <2>1, <2>2, <3>1, <4>1 DEF HeapOf
    <3> QED BY <2>1, <2>2, <3>1
  <2> QED BY <2>4, <2>5, <2>6
<1> DEFINE rest == h \ {r}
           g == Popped(v, h)
<1>7. g = IF x # r[2] THEN rest \cup {<<x, r[2]>>} ELSE rest BY <1>1, <1>4 DEF Popped
<1>8. \A q \in rest : q[2] <= r[1] \/ r[2] <= q[1] BY <1>2 DEF HeapOf
<1>9. HeapOf(v, n, rest) BY DEF HeapOf
<1>10. Left(rest) = Left(h) \ {y \in Nat : r[1] < y /\ y <= r[2]}
  <2>1. ASSUME NEW y \in Left(rest) PROVE y \in Left(h) /\ ~ (r[1] < y /\ y <= r[2])
    <3>1. PICK q \in rest : q[1] < y /\ y <= q[2] BY DEF Left
    <3>2. y \in Nat /\ r[1] \in Nat /\ r[2] \in Nat /\ q[1] \in Nat /\ q[2] \in Nat
      BY <1>2, <1>3 DEF Left
    <3>3. q[2] <= r[1] \/ r[2] <= q[1] BY <1>8
    <3> QED BY <3>1, <3>2, <3>3 DEF Left
  <2>2. ASSUME NEW y \in Left(h), ~ (r[1] < y /\ y <= r[2]) PROVE y \in Left(rest)
    BY <2>2 DEF Left
  <2> QED BY <2>1, <2>2 DEF Left
<1> HIDE DEF rest, g
<1>11. CASE x = r[2]
  <2>1. {y \in Nat : r[1] < y /\ y <= r[2]} = {x} BY <1>2, <1>3, <1>4, <1>11
  <2> QED BY <1>5, <1>6, <1>7, <1>9, <1>10, <1>11, <2>1 DEF g
<1>12. CASE x # r[2]
  <2> DEFINE q == <<x, r[2]>>
  <2>1. g = rest \cup {q} /\ q \in Nat \X Nat /\ q[1] = x /\ q[2] = r[2] /\ x < r[2] /\ r[2] <= n
    BY <1>2, <1>3, <1>4, <1>7, <1>12
  <2> HIDE DEF q
  <2>2. \A a, b \in Nat : x < a /\ a < b /\ b <= r[2] => v[a] <= v[b]
    <3> TAKE a, b \in Nat
    <3> HAVE x < a /\ a < b /\ b <= r[2]
    <3>1. r[1] < a BY <1>2, <1>3, <1>4
    <3> QED BY <1>2, <3>1 DEF HeapOf
  <2>3. \A p \in rest : p[2] <= q[1] \/ q[2] <= p[1]
    <3> TAKE p \in rest
    <3>1. p[2] \in Nat /\ p[1] \in Nat /\ r[1] \in Nat BY <1>2, <1>3 DEF rest
    <3>2. p[2] <= r[1] \/ r[2] <= p[1] BY <1>8
    <3> QED BY <1>4, <2>1, <3>1, <3>2
  <2>4. HeapOf(v, n, g)
    <3>1. g \in SUBSET (Nat \X Nat) /\ \A p \in g : p[1] < p[2] /\ p[2] <= n
      BY <1>9, <2>1 DEF HeapOf
    <3>2. \A p \in g : \A a, b \in Nat : p[1] < a /\ a < b /\ b <= p[2] => v[a] <= v[b]
      BY <1>9, <2>1, <2>2 DEF HeapOf
    <3>3. \A p, s \in g : p # s => p[2] <= s[1] \/ s[2] <= p[1]
      BY <1>9, <2>1, <2>3 DEF HeapOf
    <3> QED BY <3>1, <3>2, <3>3 DEF HeapOf
  <2>5. Left(g) = Left(rest) \cup {y \in Nat : x < y /\ y <= r[2]} BY <2>1 DEF Left
  <2>6. {y \in Nat : r[1] < y /\ y <= r[2]} = {x} \cup {y \in Nat : x < y /\ y <= r[2]}
    BY <1>2, <1>3, <1>4
  <2>7. {y \in Nat : r[1] < y /\ y <= r[2]} \subseteq Left(h) BY <1>2 DEF Left
  <2>8. Left(g) = Left(h) \ {x}
    <3>1. \A y \in Nat : r[1] < y /\ y <= r[2] <=> y = x \/ (x < y /\ y <= r[2])
      BY <1>2, <1>3, <1>4
    <3>2. ~ (x < x) BY <1>4
    <3> QED BY <1>4, <1>10, <2>5, <2>6, <2>7, <3>1, <3>2
  <2> QED BY <1>5, <1>6, <2>4, <2>8 DEF g
<1> QED BY <1>11, <1>12

(* What no step adds to is at most what it was.                            *)
LEMMA Shrinks ==
  ASSUME NEW n \in Nat, NEW f, \A i \in 1 .. n : f[i] \subseteq f[i - 1]
  PROVE  \A i, j \in 0 .. n : i <= j => f[j] \subseteq f[i]
<1> DEFINE T == [j \in 0 .. n |-> {X \in {f[l] : l \in 0 .. n} : \A i \in 0 .. n : i <= j => X \subseteq f[i]}]
<1>1. f[0] \in T[0]
  <2>1. \A i \in 0 .. n : i <= 0 => i = 0 OBVIOUS
  <2> QED BY <2>1
<1>2. ASSUME NEW j \in 1 .. n, f[j - 1] \in T[j - 1] PROVE f[j] \in T[j]
  <2>1. j - 1 \in 0 .. n /\ j \in 0 .. n OBVIOUS
  <2>2. ASSUME NEW i \in 0 .. n, i <= j PROVE f[j] \subseteq f[i]
    <3>1. CASE i = j BY <3>1
    <3>2. CASE i # j
      <4>1. i <= j - 1 BY <2>2, <3>2
      <4>2. f[j - 1] \subseteq f[i] BY <1>2, <2>1, <4>1
      <4> QED BY <4>2
    <3> QED BY <3>1, <3>2
  <2> QED BY <2>1, <2>2
<1> HIDE DEF T
<1>3. \A j \in 0 .. n : f[j] \in T[j] BY <1>1, <1>2, Kept
<1> QED BY <1>3 DEF T

(* The parts of n numbers, as MergeSort is given them: each in order.      *)
Cut(split, k, n) ==
  /\ split \in [0 .. k -> Nat] /\ split[0] = 0 /\ split[k] = n
  /\ \A i \in 1 .. k : split[i - 1] < split[i]

InParts(v, split, k) ==
  \A i \in 1 .. k : \A a, b \in Nat :
    split[i - 1] < a /\ a < b /\ b <= split[i] => v[a] <= v[b]

LEMMA Cover ==
  ASSUME NEW k \in Nat \ {0}, NEW n \in Nat, NEW split, Cut(split, k, n), NEW x \in 1 .. n
  PROVE  \E i \in 1 .. k : split[i - 1] < x /\ x <= split[i]
<1> DEFINE S == {i \in 1 .. k : x <= split[i]}
<1>1. k \in S /\ S \in SUBSET Nat BY DEF Cut
<1> HIDE DEF S
<1>2. PICK i \in S : \A j \in S : i <= j BY <1>1, Facts!LeastNumber
<1>3. i \in 1 .. k /\ x <= split[i] BY <1>2 DEF S
<1>4. CASE i = 1 BY <1>3, <1>4 DEF Cut
<1>5. CASE i # 1
  <2>1. i - 1 \in 1 .. k /\ i - 1 \in 0 .. k BY <1>3, <1>5
  <2>2. i - 1 \notin S BY <1>2, <1>3
  <2>3. split[i - 1] \in Nat BY <2>1 DEF Cut
  <2> QED BY <1>3, <2>1, <2>2, <2>3 DEF S
<1> QED BY <1>4, <1>5

LEMMA CutFacts ==
  ASSUME NEW k \in Nat \ {0}, NEW n \in Nat, NEW split, Cut(split, k, n)
  PROVE  \A i \in 1 .. k : /\ split[i - 1] \in 0 .. n /\ split[i] \in 0 .. n
                           /\ \A j \in 1 .. k : i < j => split[i] <= split[j - 1]
<1>1. \A i \in 0 .. k : split[i] \in Int BY DEF Cut
<1>2. \A i, j \in 0 .. k : i < j => split[i] < split[j]
  <2>1. \A i \in 1 .. k : split[i - 1] < split[i] BY DEF Cut
  <2> QED BY <1>1, <2>1, Grows
<1>3. ASSUME NEW i \in 0 .. k PROVE split[i] \in 0 .. n
  <2>1. split[i] \in Nat /\ split[k] = n /\ k \in 0 .. k BY DEF Cut
  <2>2. i = k \/ split[i] < split[k] BY <1>2, <2>1
  <2> QED BY <2>1, <2>2
<1>4. ASSUME NEW i \in 1 .. k, NEW j \in 1 .. k, i < j PROVE split[i] <= split[j - 1]
  <2>1. i \in 0 .. k /\ j - 1 \in 0 .. k /\ i <= j - 1 BY <1>4
  <2>2. split[i] \in Int /\ split[j - 1] \in Int BY <1>1, <2>1
  <2>3. i = j - 1 \/ split[i] < split[j - 1] BY <1>2, <2>1
  <2> QED BY <2>2, <2>3
<1>5. \A i \in 1 .. k : i - 1 \in 0 .. k /\ i \in 0 .. k OBVIOUS
<1> QED BY <1>3, <1>4, <1>5

Heap(split, k) == {<<split[i - 1], split[i]>> : i \in 1 .. k}

LEMMA HeapFacts ==
  ASSUME NEW k \in Nat \ {0}, NEW n \in Nat, NEW split, Cut(split, k, n),
         NEW v, InParts(v, split, k)
  PROVE  HeapOf(v, n, Heap(split, k)) /\ Left(Heap(split, k)) = 1 .. n
<1> DEFINE h == Heap(split, k)
<1>1. \A r \in h : \E i \in 1 .. k : r = <<split[i - 1], split[i]>> BY DEF Heap
<1>2. \A i \in 1 .. k : <<split[i - 1], split[i]>> \in h BY DEF Heap
<1> HIDE DEF h
<1>3. \A i \in 1 .. k : /\ split[i - 1] \in 0 .. n /\ split[i] \in 0 .. n
                        /\ split[i - 1] < split[i]
                        /\ \A j \in 1 .. k : i < j => split[i] <= split[j - 1]
  BY CutFacts DEF Cut
<1>4. ASSUME NEW r \in h
      PROVE  r \in Nat \X Nat /\ r[1] < r[2] /\ r[2] <= n /\ r[1] \in Nat /\ r[2] \in Nat
  <2>1. PICK i \in 1 .. k : r = <<split[i - 1], split[i]>> BY <1>1
  <2> QED BY <1>3, <2>1
<1>5. ASSUME NEW r \in h, NEW a \in Nat, NEW b \in Nat, r[1] < a, a < b, b <= r[2]
      PROVE  v[a] <= v[b]
  <2>1. PICK i \in 1 .. k : r = <<split[i - 1], split[i]>> BY <1>1
  <2>2. split[i - 1] < a /\ b <= split[i] BY <1>5, <2>1
  <2> QED BY <1>5, <2>2 DEF InParts
<1>6. ASSUME NEW r \in h, NEW q \in h, r # q PROVE r[2] <= q[1] \/ q[2] <= r[1]
  <2>1. PICK i \in 1 .. k : r = <<split[i - 1], split[i]>> BY <1>1
  <2>2. PICK j \in 1 .. k : q = <<split[j - 1], split[j]>> BY <1>1
  <2>3. i # j BY <1>6, <2>1, <2>2
  <2>4. i < j \/ j < i BY <2>3
  <2> QED BY <1>3, <2>1, <2>2, <2>4
<1>7. HeapOf(v, n, h)
  <2>1. h \in SUBSET (Nat \X Nat) BY <1>4
  <2> QED BY <1>4, <1>5, <1>6, <2>1 DEF HeapOf
<1>8. ASSUME NEW x \in 1 .. n PROVE x \in Left(h)
  <2>1. PICK i \in 1 .. k : split[i - 1] < x /\ x <= split[i] BY Cover
  <2> DEFINE r == <<split[i - 1], split[i]>>
  <2>2. r \in h /\ r[1] < x /\ x <= r[2] BY <1>2, <2>1
  <2> HIDE DEF r
  <2> QED BY <2>2 DEF Left
<1>9. ASSUME NEW x \in Left(h) PROVE x \in 1 .. n BY <1>4 DEF Left
<1>10. Left(h) = 1 .. n BY <1>8, <1>9
<1> QED BY <1>7, <1>10 DEF h

(* The heaps with c numbers left.  One that has any gives up the smallest. *)
Numbers(v, n) == \A i \in 1 .. n : v[i] \in Int

HeapsWith(v, n, c) ==
  {h \in SUBSET (Nat \X Nat) :
     /\ HeapOf(v, n, h) /\ Left(h) \in SUBSET (1 .. n)
     /\ IsFiniteSet(Left(h)) /\ Cardinality(Left(h)) = c}

LEMMA PoppedWith ==
  ASSUME NEW n \in Nat, NEW v, Numbers(v, n),
         NEW c \in Nat, NEW d, d = c + 1, NEW h \in HeapsWith(v, n, d),
         NEW x, x = Top(v, h)[1] + 1
  PROVE  /\ Popped(v, h) \in HeapsWith(v, n, c)
         /\ x \in Left(h) /\ x \in 1 .. n /\ \A y \in Left(h) : v[x] <= v[y]
         /\ Left(Popped(v, h)) = Left(h) \ {x}
<1>1. /\ HeapOf(v, n, h) /\ Left(h) \in SUBSET (1 .. n)
      /\ IsFiniteSet(Left(h)) /\ Cardinality(Left(h)) = c + 1
  BY DEF HeapsWith
<1>2. h # {}
  <2> SUFFICES ASSUME h = {} PROVE FALSE OBVIOUS
  <2>1. Left(h) = {} BY DEF Left
  <2>2. Cardinality(Left(h)) = 0 BY <2>1, FS_EmptySet
  <2> QED BY <1>1, <2>2
<1>3. /\ x \in Left(h) /\ \A y \in Left(h) : v[x] <= v[y]
      /\ HeapOf(v, n, Popped(v, h)) /\ Left(Popped(v, h)) = Left(h) \ {x}
  BY <1>1, <1>2, PoppedFacts DEF Numbers
<1>4. /\ IsFiniteSet(Left(h) \ {x})
      /\ Cardinality(Left(h) \ {x}) = Cardinality(Left(h)) - 1
  <2>1. PICK X : X = Left(h) OBVIOUS
  <2>2. IsFiniteSet(X) /\ x \in X BY <1>1, <1>3, <2>1
  <2>3. /\ IsFiniteSet(X \ {x})
        /\ Cardinality(X \ {x}) =
             IF x \in X THEN Cardinality(X) - 1 ELSE Cardinality(X)
    BY <2>2, FS_RemoveElement, ZenonT(30)
  <2> QED BY <2>1, <2>2, <2>3
<1>5. Popped(v, h) \in SUBSET (Nat \X Nat) BY <1>3 DEF HeapOf
<1>6. Cardinality(Left(h) \ {x}) = c BY <1>1, <1>4
<1>7. x \in 1 .. n /\ Left(h) \ {x} \in SUBSET (1 .. n) BY <1>1, <1>3
<1>8. Popped(v, h) \in HeapsWith(v, n, c) BY <1>3, <1>4, <1>5, <1>6, <1>7 DEF HeapsWith
<1> QED BY <1>3, <1>7, <1>8

(* The heap after every turn.                                              *)
Heaps(v, n, heap) ==
  /\ Left(heap[0]) = 1 .. n
  /\ \A m \in 0 .. n : heap[m] \in HeapsWith(v, n, n - m)
  /\ \A m \in 1 .. n : heap[m] = Popped(v, heap[m - 1])

LEMMA HeapsFacts ==
  ASSUME NEW n \in Nat, NEW v, Numbers(v, n), NEW heap, Heaps(v, n, heap)
  PROVE  LET pos == [m \in 1 .. n |-> Top(v, heap[m - 1])[1] + 1]
         IN  /\ pos \in [1 .. n -> 1 .. n]
             /\ \A i, j \in 1 .. n : i < j => pos[i] # pos[j] /\ v[pos[i]] <= v[pos[j]]
<1> DEFINE pos == [m \in 1 .. n |-> Top(v, heap[m - 1])[1] + 1]
<1>1. ASSUME NEW m \in 1 .. n
      PROVE  /\ pos[m] \in Left(heap[m - 1]) /\ pos[m] \in 1 .. n
             /\ \A y \in Left(heap[m - 1]) : v[pos[m]] <= v[y]
             /\ Left(heap[m]) = Left(heap[m - 1]) \ {pos[m]}
  <2>1. PICK c \in Nat : c = n - m OBVIOUS
  <2>2. PICK d : d = c + 1 OBVIOUS
  <2>3. PICK h \in HeapsWith(v, n, d) : h = heap[m - 1]
    <3>1. m - 1 \in 0 .. n /\ d = n - (m - 1) BY <2>1, <2>2
    <3> QED BY <3>1 DEF Heaps
  <2>4. PICK x : x = Top(v, h)[1] + 1 OBVIOUS
  <2>5. pos[m] = x /\ heap[m] = Popped(v, h) BY <2>3, <2>4 DEF Heaps
  <2> HIDE DEF pos
  <2>6. /\ x \in Left(h) /\ x \in 1 .. n /\ \A y \in Left(h) : v[x] <= v[y]
        /\ Left(Popped(v, h)) = Left(h) \ {x}
    BY <2>2, <2>4, PoppedWith
  <2> QED BY <2>3, <2>5, <2>6
<1> HIDE DEF pos
<1> DEFINE left == [m \in 0 .. n |-> Left(heap[m])]
<1>2. \A i, j \in 0 .. n : i <= j => left[j] \subseteq left[i]
  <2>1. \A i \in 1 .. n : i - 1 \in 0 .. n /\ i \in 0 .. n OBVIOUS
  <2>2. \A i \in 1 .. n : Left(heap[i]) \subseteq Left(heap[i - 1]) BY <1>1
  <2>3. \A i \in 1 .. n : left[i] \subseteq left[i - 1] BY <2>1, <2>2
  <2> HIDE DEF left
  <2> QED BY <2>3, Shrinks
<1>3. ASSUME NEW i \in 1 .. n, NEW j \in 1 .. n, i < j
      PROVE  pos[i] # pos[j] /\ v[pos[i]] <= v[pos[j]]
  <2>1. i \in 0 .. n /\ j - 1 \in 0 .. n /\ i <= j - 1 BY <1>3
  <2>2. Left(heap[j - 1]) \subseteq Left(heap[i]) BY <1>2, <2>1
  <2>3. pos[j] \in Left(heap[i]) BY <1>1, <2>2
  <2> QED BY <1>1, <2>3
<1>4. pos \in [1 .. n -> 1 .. n] BY <1>1 DEF pos
<1> QED BY <1>3, <1>4 DEF pos

LEMMA MergeFacts ==
  ASSUME NEW S \in SUBSET Int, NEW v \in Seq(S), NEW k \in Nat \ {0}, NEW split,
         Cut(split, k, Len(v)), InParts(v, split, k)
  PROVE  /\ MergeSort(v, split) \in Seq(S) /\ Len(MergeSort(v, split)) = Len(v)
         /\ Sorts(MergeSort(v, split), v)
<1> DEFINE n == Len(v)
           h0 == {<<split[i - 1], split[i]>> : i \in 1 .. Cardinality(DOMAIN split) - 1}
           F(f) == [m \in 0 .. n |-> IF m = 0 THEN h0 ELSE Popped(v, f[m - 1])]
           heap == CHOOSE f : f = F(f)
<1>1. n \in Nat /\ v \in [1 .. n -> S] BY LenProperties
<1> HIDE DEF n
<1>2. Numbers(v, n) BY <1>1 DEF Numbers
<1>3. Cardinality(DOMAIN split) - 1 = k
  <2>1. DOMAIN split = 0 .. k BY DEF Cut
  <2>2. Cardinality(0 .. k) = IF 0 > k THEN 0 ELSE k - 0 + 1
    <3>1. 0 \in Int /\ k \in Int OBVIOUS
    <3> QED BY <3>1, FS_Interval
  <2> QED BY <2>1, <2>2
<1>4. HeapOf(v, n, h0) /\ Left(h0) = 1 .. n
  <2>1. Cut(split, k, n) BY DEF n
  <2>2. h0 = Heap(split, k) BY <1>3 DEF Heap
  <2> HIDE DEF h0
  <2> QED BY <1>1, <2>1, <2>2, HeapFacts
<1>5. MergeSort(v, split) = [m \in 1 .. n |-> v[Top(v, heap[m - 1])[1] + 1]]
  BY DEF MergeSort, n
<1> DEFINE T == [m \in 0 .. n |-> HeapsWith(v, n, n - m)]
           st == [m \in 1 .. n |-> [h \in T[m - 1] |-> Popped(v, h)]]
<1>6. h0 \in T[0]
  <2>1. IsFiniteSet(1 .. n) /\ Cardinality(1 .. n) = n
    <3>1. n \in Int /\ 1 \in Int BY <1>1
    <3>2. IsFiniteSet(1 .. n) /\ Cardinality(1 .. n) = IF 1 > n THEN 0 ELSE n - 1 + 1
      BY <3>1, FS_Interval
    <3> QED BY <1>1, <3>2
  <2>2. h0 \in SUBSET (Nat \X Nat) BY <1>4 DEF HeapOf
  <2>3. T[0] = HeapsWith(v, n, n) BY <1>1
  <2> HIDE DEF T, h0
  <2> QED BY <1>4, <2>1, <2>2, <2>3 DEF HeapsWith
<1> HIDE DEF h0
<1>7. ASSUME NEW m \in 1 .. n, NEW h \in T[m - 1] PROVE Popped(v, h) \in T[m]
  <2>1. /\ m - 1 \in 0 .. n /\ m \in 0 .. n /\ n - m \in Nat
        /\ (n - m) + 1 = n - (m - 1)
    BY <1>1
  <2>2. PICK c \in Nat : c = n - m BY <2>1
  <2>3. PICK d : d = c + 1 OBVIOUS
  <2>4. h \in HeapsWith(v, n, d) BY <2>1, <2>2, <2>3
  <2>5. PICK x : x = Top(v, h)[1] + 1 OBVIOUS
  <2> HIDE DEF T
  <2>6. Popped(v, h) \in HeapsWith(v, n, n - m)
    BY <1>1, <1>2, <2>2, <2>3, <2>5, <2>4, PoppedWith
  <2> USE DEF T
  <2> QED BY <2>1, <2>6
<1>8. Body(n, T, st)
  <2> SUFFICES ASSUME NEW m \in 1 .. n, NEW h \in T[m - 1] PROVE st[m][h] \in T[m] BY DEF Body
  <2>1. st[m][h] = Popped(v, h) OBVIOUS
  <2> HIDE DEF T, st
  <2> QED BY <1>7, <2>1
<1>9. PICK g : Run(g, n, h0, st) /\ \A m \in 0 .. n : g[m] \in T[m]
  <2> HIDE DEF T, st
  <2> QED BY <1>1, <1>6, <1>8, Loop
<1>10. \A m \in 1 .. n : g[m] = Popped(v, g[m - 1])
  <2> TAKE m \in 1 .. n
  <2>1. m - 1 \in 0 .. n BY <1>1
  <2>2. g[m - 1] \in T[m - 1] BY <1>9, <2>1
  <2> HIDE DEF T
  <2> QED BY <1>9, <2>2 DEF Run
<1> HIDE DEF T, st
<1>11. g = F(g)
  <2>1. \A m \in 0 .. n : m = 0 \/ m \in 1 .. n BY <1>1
  <2>2. \A m \in 0 .. n : g[m] = IF m = 0 THEN h0 ELSE Popped(v, g[m - 1])
    BY <1>9, <1>10, <2>1 DEF Run
  <2>3. F(g) = [m \in 0 .. n |-> g[m]] BY <2>2
  <2> QED BY <1>9, <2>3 DEF Run
<1>12. heap = F(heap) BY <1>11
<1> HIDE DEF heap
<1>13. heap[0] = h0 /\ \A m \in 1 .. n : heap[m] = Popped(v, heap[m - 1]) BY <1>1, <1>12
<1>14. \A m \in 0 .. n : heap[m] \in T[m]
  <2>1. \A m \in 1 .. n : heap[m - 1] \in T[m - 1] => heap[m] \in T[m] BY <1>7, <1>13
  <2> QED BY <1>1, <1>6, <1>13, <2>1, Kept
<1>15. Heaps(v, n, heap) BY <1>4, <1>13, <1>14 DEF Heaps, T
<1> DEFINE pos == [m \in 1 .. n |-> Top(v, heap[m - 1])[1] + 1]
<1>16. /\ pos \in [1 .. n -> 1 .. n]
       /\ \A i, j \in 1 .. n : i < j => pos[i] # pos[j] /\ v[pos[i]] <= v[pos[j]]
  <2> HIDE DEF pos
  <2> QED BY <1>1, <1>2, <1>15, HeapsFacts DEF pos
<1> DEFINE w == MergeSort(v, split)
<1>17. w = [m \in 1 .. n |-> v[pos[m]]] BY <1>5
<1> HIDE DEF pos, w
<1>18. w \in [1 .. n -> S] BY <1>1, <1>16, <1>17
<1>19. Plan(pos, v, w)
  <2>1. \A i, j \in 1 .. n : pos[i] = pos[j] => i = j
    <3> SUFFICES ASSUME NEW i \in 1 .. n, NEW j \in 1 .. n, pos[i] = pos[j], i # j PROVE FALSE
      OBVIOUS
    <3>1. i < j \/ j < i OBVIOUS
    <3> QED BY <1>16, <3>1
  <2>2. DOMAIN v = 1 .. n BY <1>1
  <2> QED BY <1>16, <1>17, <2>1, <2>2 DEF Plan
<1>20. Permuted(v, w) BY <1>1, <1>18, <1>19 DEF Permuted, Plan
<1>21. Ascending(w) BY <1>16, <1>17, <1>18 DEF Ascending
<1>22. w \in Seq(S) /\ Len(w) = n BY <1>1, <1>18
<1> QED BY <1>20, <1>21, <1>22 DEF Sorts, w, n

-----------------------------------------------------------------------------
(***************************************************************************)
(* Parts of a vector.                                                      *)
(***************************************************************************)
LEMMA PieceFacts ==
  ASSUME NEW S, NEW n \in Nat, NEW v \in [1 .. n -> S], NEW a \in 0 .. n, NEW b \in 0 .. n, a <= b
  PROVE  LET s == SubSeq(v, a + 1, b)
         IN  /\ s \in Seq(S) /\ Len(s) = b - a
             /\ s = [i \in 1 .. b - a |-> v[a + i]]
             /\ \A i \in 1 .. b - a : s[i] = v[a + i]
<1>1. SubSeq(v, a + 1, b) = [i \in 1 .. b - a |-> v[a + i]]
  <2>1. SubSeq(v, a + 1, b) = [i \in 1 .. 1 + b - (a + 1) |-> v[i + (a + 1) - 1]] OBVIOUS
  <2>2. 1 + b - (a + 1) = b - a /\ \A i \in Int : i + (a + 1) - 1 = a + i OBVIOUS
  <2> QED BY <2>1, <2>2
<1>2. \A i \in 1 .. b - a : v[a + i] \in S
  <2>1. \A i \in 1 .. b - a : a + i \in 1 .. n OBVIOUS
  <2> QED BY <2>1
<1>3. b - a \in Nat OBVIOUS
<1> QED BY <1>1, <1>2, <1>3

Piece(v, split, i) == SubSeq(v, split[i - 1] + 1, split[i])

(* A permutation of every part is a permutation of the whole.              *)
LEMMA PiecesPermuted ==
  ASSUME NEW S, NEW n \in Nat, NEW u \in [1 .. n -> S], NEW v \in [1 .. n -> S],
         NEW k \in Nat \ {0}, NEW split, Cut(split, k, n),
         \A i \in 1 .. k : Permuted(Piece(u, split, i), Piece(v, split, i))
  PROVE  Permuted(u, v)
<1>1. \A i \in 1 .. k : /\ split[i - 1] \in 0 .. n /\ split[i] \in 0 .. n
                        /\ split[i - 1] < split[i]
                        /\ \A j \in 1 .. k : i < j => split[i] <= split[j - 1]
  BY CutFacts DEF Cut
<1> DEFINE size(i) == split[i] - split[i - 1]
<1>2. ASSUME NEW i \in 1 .. k
      PROVE  \E q \in [1 .. size(i) -> 1 .. size(i)] :
               /\ \A a, b \in 1 .. size(i) : q[a] = q[b] => a = b
               /\ \A a \in 1 .. size(i) : v[split[i - 1] + a] = u[split[i - 1] + q[a]]
  <2> DEFINE s == Piece(u, split, i)
             t == Piece(v, split, i)
             l == size(i)
  <2>1. split[i - 1] \in 0 .. n /\ split[i] \in 0 .. n /\ split[i - 1] <= split[i] BY <1>1
  <2>2. PICK x \in 0 .. n : x = split[i - 1] BY <2>1
  <2>3. PICK y \in 0 .. n : y = split[i] BY <2>1
  <2>4. l = y - x /\ x <= y /\ s = SubSeq(u, x + 1, y) /\ t = SubSeq(v, x + 1, y)
    BY <2>1, <2>2, <2>3 DEF Piece
  <2> HIDE DEF l, s, t
  <2>5. s = [a \in 1 .. l |-> u[x + a]] /\ \A a \in 1 .. l : s[a] = u[x + a]
    BY <2>4, PieceFacts
  <2>6. \A a \in 1 .. l : t[a] = v[x + a] BY <2>4, PieceFacts
  <2>7. PICK q : Plan(q, s, t) BY DEF Permuted, Plan, s, t
  <2>8. DOMAIN s = 1 .. l BY <2>5
  <2>9. q \in [1 .. l -> 1 .. l] /\ \A a, b \in 1 .. l : q[a] = q[b] => a = b
    BY <2>7, <2>8 DEF Plan
  <2>10. \A a \in 1 .. l : v[x + a] = u[x + q[a]] BY <2>5, <2>6, <2>7, <2>8, <2>9 DEF Plan
  <2> QED BY <2>2, <2>9, <2>10 DEF l
<1> DEFINE Q(i) == CHOOSE q \in [1 .. size(i) -> 1 .. size(i)] :
                     /\ \A a, b \in 1 .. size(i) : q[a] = q[b] => a = b
                     /\ \A a \in 1 .. size(i) : v[split[i - 1] + a] = u[split[i - 1] + q[a]]
<1>3. ASSUME NEW i \in 1 .. k
      PROVE  /\ Q(i) \in [1 .. size(i) -> 1 .. size(i)]
             /\ \A a, b \in 1 .. size(i) : Q(i)[a] = Q(i)[b] => a = b
             /\ \A a \in 1 .. size(i) : v[split[i - 1] + a] = u[split[i - 1] + Q(i)[a]]
  BY <1>2
<1> HIDE DEF Q
<1> DEFINE at(x) == CHOOSE i \in 1 .. k : split[i - 1] < x /\ x <= split[i]
<1>4. ASSUME NEW x \in 1 .. n
      PROVE  at(x) \in 1 .. k /\ split[at(x) - 1] < x /\ x <= split[at(x)]
  BY Cover
<1> HIDE DEF at
<1> DEFINE p == [x \in 1 .. n |-> split[at(x) - 1] + Q(at(x))[x - split[at(x) - 1]]]
<1> DEFINE Lands(x, i, f, y) ==
             /\ i \in 1 .. k /\ f \in 0 .. n /\ f = split[i - 1] /\ split[i] \in 0 .. n
             /\ x - f \in 1 .. size(i)
             /\ Q(i)[x - f] \in 1 .. size(i) /\ y = f + Q(i)[x - f]
             /\ f < y /\ y <= split[i] /\ y \in 1 .. n /\ v[x] = u[y]
<1>5. ASSUME NEW x \in 1 .. n PROVE \E i, f : Lands(x, i, f, p[x])
  <2>1. PICK i : i = at(x) OBVIOUS
  <2>2. i \in 1 .. k /\ split[i - 1] < x /\ x <= split[i] BY <1>4, <2>1
  <2>3. PICK f \in 0 .. n : f = split[i - 1] BY <1>1, <2>2
  <2>4. split[i] \in 0 .. n /\ x - f \in 1 .. size(i)
    <3>1. split[i] \in 0 .. n BY <1>1, <2>2
    <3>2. f < x /\ x <= split[i] BY <2>2, <2>3
    <3> QED BY <2>3, <3>1, <3>2
  <2>5. PICK a \in 1 .. size(i) : a = x - f BY <2>4
  <2>6. p[x] = f + Q(i)[a] BY <2>1, <2>3, <2>5
  <2>7. PICK y : y = p[x] OBVIOUS
  <2> HIDE DEF p
  <2>8. Q(i)[a] \in 1 .. size(i) /\ v[f + a] = u[f + Q(i)[a]]
    <3> HIDE DEF size
    <3>1. Q(i) \in [1 .. size(i) -> 1 .. size(i)] BY <1>3, <2>2
    <3>2. v[split[i - 1] + a] = u[split[i - 1] + Q(i)[a]] BY <1>3, <2>2
    <3> QED BY <2>3, <3>1, <3>2
  <2>9. f + a = x BY <2>3, <2>5
  <2>10. f < y /\ y <= split[i] /\ y \in 1 .. n
    <3>1. PICK b \in 1 .. size(i) : b = Q(i)[a] BY <2>8
    <3>2. y = f + b BY <2>6, <2>7, <3>1
    <3>3. PICK e \in 0 .. n : e = split[i] BY <2>4
    <3>4. b \in 1 .. e - f BY <2>3, <3>1, <3>3
    <3> QED BY <3>2, <3>3, <3>4
  <2>11. Lands(x, i, f, y)
    BY <2>2, <2>3, <2>4, <2>5, <2>6, <2>7, <2>8, <2>9, <2>10
  <2> QED BY <2>7, <2>11
<1>6. p \in [1 .. n -> 1 .. n] /\ \A x \in 1 .. n : v[x] = u[p[x]]
  <2>1. \A x \in 1 .. n : p[x] \in 1 .. n /\ v[x] = u[p[x]]
    <3> HIDE DEF p
    <3> QED BY <1>5
  <2> QED BY <2>1
<1> HIDE DEF p
<1>7. ASSUME NEW x \in 1 .. n, NEW z \in 1 .. n, p[x] = p[z] PROVE x = z
  <2>1. PICK i, f : Lands(x, i, f, p[x]) BY <1>5
  <2>2. PICK j, g : Lands(z, j, g, p[z]) BY <1>5
  <2>3. PICK y : y = p[x] /\ y = p[z] BY <1>7
  <2>4. Lands(x, i, f, y) /\ Lands(z, j, g, y)
    <3> HIDE DEF Lands
    <3> QED BY <2>1, <2>2, <2>3
  <2>5. i = j
    <3>1. SUFFICES ASSUME i # j PROVE FALSE OBVIOUS
    <3>2. i < j => split[i] <= g BY <1>1, <2>4
    <3>3. j < i => split[j] <= f BY <1>1, <2>4
    <3>4. i \in Int /\ j \in Int BY <2>4
    <3>5. /\ f \in Int /\ g \in Int /\ split[i] \in Int /\ split[j] \in Int /\ y \in Int
          /\ f < y /\ y <= split[i] /\ g < y /\ y <= split[j]
      <4>1. /\ f \in 0 .. n /\ g \in 0 .. n /\ split[i] \in 0 .. n /\ split[j] \in 0 .. n
            /\ y \in 1 .. n /\ f < y /\ y <= split[i] /\ g < y /\ y <= split[j]
        BY <2>4, Zenon
      <4>2. \A x1 \in 0 .. n : x1 \in Int OBVIOUS
      <4> HIDE DEF Lands
      <4> QED BY <4>1, <4>2
    <3> HIDE DEF Lands
    <3> QED BY <3>1, <3>2, <3>3, <3>4, <3>5
  <2>6. f = g BY <2>4, <2>5
  <2>7. Q(i)[x - f] = Q(i)[z - f]
    <3>1. /\ y = f + Q(i)[x - f] /\ Q(i)[x - f] \in 1 .. size(i) /\ f \in 0 .. n
          /\ y = f + Q(i)[z - f] /\ Q(i)[z - f] \in 1 .. size(i)
      BY <2>4, <2>5, <2>6
    <3>2. PICK a, b : a = Q(i)[x - f] /\ b = Q(i)[z - f] OBVIOUS
    <3>3. y = f + a /\ y = f + b /\ a \in Int /\ b \in Int /\ f \in Int BY <3>1, <3>2
    <3>4. a = b BY <3>3
    <3> QED BY <3>2, <3>4
  <2>8. x - f = z - f
    <3>1. i \in 1 .. k /\ x - f \in 1 .. size(i) /\ z - f \in 1 .. size(i)
      BY <2>4, <2>5, <2>6
    <3>2. \A a, b \in 1 .. size(i) : Q(i)[a] = Q(i)[b] => a = b BY <1>3, <3>1
    <3> HIDE DEF Lands, size
    <3> QED BY <2>7, <3>1, <3>2
  <2>9. x \in Int /\ z \in Int /\ f \in Int BY <2>4
  <2> QED BY <2>8, <2>9
<1>8. Plan(p, u, v)
  <2>1. DOMAIN u = 1 .. n OBVIOUS
  <2> QED BY <1>6, <1>7, <2>1 DEF Plan
<1> QED BY <1>8 DEF Permuted, Plan

-----------------------------------------------------------------------------
(***************************************************************************)
(* The inductive invariant.  First what holds of one part: w is its        *)
(* worker, to and from are its pipes, mine is what the vector of main has  *)
(* there now, first what it had at the beginning.                          *)
(***************************************************************************)
Content(w, to, from, mine, first, size, th) ==
  CASE w.st \in {"none", "forked", "read"} ->
         w.numbers \o to \o SubSeq(mine, w.sent + 1, size) = first
    [] w.st \in {"write", "exited"} /\ ~ th ->
         Sorts(SubSeq(mine, 1, w.got) \o from \o w.numbers, first)
    [] w.st = "sort" -> Permuted(first, mine)
    [] w.st = "exited" /\ th -> Sorts(mine, first)
    [] OTHER -> FALSE

PartInv(w, to, from, mine, first, size, th) ==
  /\ w.st \in (IF th THEN {"none", "sort", "exited"}
                     ELSE {"none", "forked", "read", "write", "exited"})
  /\ Content(w, to, from, mine, first, size, th)
  /\ w.st = "none" => w = NewWorker /\ to = <<>>
  /\ w.st \in {"none", "forked", "read"} => w.got = 0 /\ from = <<>>
  /\ w.sent <= size /\ w.got <= size
  /\ w.st \in {"forked", "exited"} /\ ~ th => w.numbers = <<>>
  /\ w.st \in {"write", "exited"} /\ ~ th => to = <<>>
  /\ w.st = "sort" =>
       /\ w.i \in 2 .. size + 1 /\ w.j \in 1 .. w.i - 1
       /\ w.i = size + 1 => w.j = 1
       /\ Ordered(mine, w.i, w.j)

Holds(k) ==
  PartInv(worker[k], pipe[ToChild(k)], pipe[FromChild(k)],
          PartOf(data, k), PartOf(input, k), Size(k), threaded)

(***************************************************************************)
(* How far main is with part k: its worker is created, it is sent to it,   *)
(* it is read back, its worker is over.                                    *)
(***************************************************************************)
Started(k) ==
  \/ pc \in {"create", "fork"} /\ k < turn
  \/ pc \in {"close", "write"} /\ k <= turn
  \/ pc \in {"join", "read", "wait", "merge", "done"}

Fed(k) ==
  \/ pc \in {"fork", "close", "write"} /\ k < turn
  \/ pc \in {"read", "wait", "merge", "done"}

Over(k) ==
  \/ pc \in {"join", "read", "wait"} /\ k < turn
  \/ pc \in {"merge", "done"}

Back(k) == Over(k) \/ (pc = "wait" /\ k = turn)

Reached(k) ==
  /\ worker[k].st = "none" <=> ~ Started(k)
  /\ Over(k) => worker[k].st = "exited"
  /\ ~ threaded =>
       /\ worker[k].st \in {"write", "exited"} => Fed(k)
       /\ Fed(k) => worker[k].sent = Size(k)
       /\ Back(k) => worker[k].got = Size(k)

Places ==
  /\ pc # "aborted"
  /\ pc = "begin" => data = input /\ turn = 1
  /\ pc \notin {"begin", "done"} => ~ Alone
  /\ pc \in {"create", "join"} => threaded
  /\ pc \in {"fork", "close", "write", "read", "wait"} => ~ threaded

Parts ==
  \A k \in Part : IF Alone THEN worker[k].st = "none" ELSE Holds(k) /\ Reached(k)

(***************************************************************************)
(* The write ends: main has none but those of the child it is about, and   *)
(* a child has its own as long as it can write.                            *)
(***************************************************************************)
Descriptors ==
  /\ \A d \in ends : d[1] = Main /\ d[3] = "w" =>
       \/ pc \in {"close", "write"} /\ d[2] = ToChild(turn)
       \/ pc = "close" /\ d[2] = FromChild(turn)
  /\ pc \in {"close", "write"} => <<Main, ToChild(turn), "w">> \in ends
  /\ \A k \in Part : worker[k].st \in {"forked", "read", "write"} =>
       <<k, FromChild(k), "w">> \in ends

IInv ==
  TypeOK /\ Places /\ Parts /\ OneWriterPerPipe /\ Descriptors /\ PrintsSorted

-----------------------------------------------------------------------------
(***************************************************************************)
(* What the steps do to one part.                                          *)
(***************************************************************************)
LEMMA Associative ==
  ASSUME NEW s \in Seq(Value), NEW t \in Seq(Value), NEW u \in Seq(Value)
  PROVE  (s \o t) \o u = s \o (t \o u)
BY ConcatAssociative

LEMMA MoveHead ==
  ASSUME NEW a \in Seq(Value), NEW b \in Seq(Value), b # <<>>
  PROVE  /\ Append(a, Head(b)) \o Tail(b) = a \o b
         /\ Append(a, Head(b)) \in Seq(Value) /\ Tail(b) \in Seq(Value)
         /\ Len(b) \in Nat /\ Len(b) > 0 /\ Len(Tail(b)) = Len(b) - 1
<1>1. Head(b) \in Value /\ Tail(b) \in Seq(Value) /\ Len(Tail(b)) = Len(b) - 1
  BY HeadTailProperties
<1>2. Len(b) \in Nat /\ Len(b) > 0 BY EmptySeq, LenProperties
<1>3. <<Head(b)>> \o Tail(b) = b BY HeadTailProperties
<1>4. Append(a, Head(b)) = a \o <<Head(b)>> /\ <<Head(b)>> \in Seq(Value) BY <1>1
<1>5. (a \o <<Head(b)>>) \o Tail(b) = a \o (<<Head(b)>> \o Tail(b))
  BY <1>1, <1>4, Associative
<1> QED BY <1>1, <1>2, <1>3, <1>4, <1>5

LEMMA MoveInside ==
  ASSUME NEW s \in Seq(Value), NEW a \in Seq(Value), NEW b \in Seq(Value), b # <<>>
  PROVE  s \o Append(a, Head(b)) \o Tail(b) = s \o a \o b
<1>1. PICK c \in Seq(Value), t \in Seq(Value) :
        c = Append(a, Head(b)) /\ t = Tail(b) /\ c \o t = a \o b
  BY MoveHead
<1>2. (s \o c) \o t = s \o (c \o t) BY Associative, SMTT(30)
<1>3. (s \o a) \o b = s \o (a \o b) BY Associative, SMTT(30)
<1> QED BY <1>1, <1>2, <1>3

LEMMA AppendInside ==
  ASSUME NEW s \in Seq(Value), NEW a \in Seq(Value), NEW b \in Seq(Value), NEW e \in Value
  PROVE  s \o a \o (<<e>> \o b) = s \o Append(a, e) \o b
<1>1. PICK u : u = <<e>> OBVIOUS
<1>2. u \in Seq(Value) /\ Append(a, e) = a \o u BY <1>1, AppendIsConcat
<1>3. PICK c : c = s \o a OBVIOUS
<1>4. c \in Seq(Value) BY <1>3, ConcatProperties
<1>5. s \o (a \o u) = c \o u BY <1>2, <1>3, Associative
<1>6. (c \o u) \o b = c \o (u \o b) BY <1>2, <1>4, Associative
<1> QED BY <1>1, <1>2, <1>3, <1>5, <1>6

LEMMA FrontFacts ==
  ASSUME NEW s \in Seq(Value), NEW m \in Nat, m <= Len(s)
  PROVE  /\ SubSeq(s, 1, m) \in Seq(Value) /\ Len(SubSeq(s, 1, m)) = m
         /\ \A i \in 1 .. m : SubSeq(s, 1, m)[i] = s[i]
<1>1. Len(s) \in Nat /\ s \in [1 .. Len(s) -> Value] BY LenProperties
<1>2. \A i \in 1 .. m : s[i] \in Value BY <1>1
<1>3. 1 \in Int /\ m \in Int OBVIOUS
<1>4. /\ SubSeq(s, 1, m) \in Seq(Value)
      /\ Len(SubSeq(s, 1, m)) = IF 1 <= m THEN m - 1 + 1 ELSE 0
      /\ \A i \in 1 .. m - 1 + 1 : SubSeq(s, 1, m)[i] = s[1 + i - 1]
  BY <1>2, <1>3, SubSeqProperties
<1> QED BY <1>4

LEMMA FrontChanged ==
  ASSUME NEW s \in Seq(Value), NEW m \in Nat, m + 1 <= Len(s), NEW e \in Value
  PROVE  SubSeq([s EXCEPT ![m + 1] = e], 1, m + 1) = Append(SubSeq(s, 1, m), e)
<1> DEFINE t == [s EXCEPT ![m + 1] = e]
<1>1. Len(s) \in Nat /\ m + 1 \in 1 .. Len(s) /\ m <= Len(s) BY LenProperties
<1>2. /\ t \in Seq(Value) /\ Len(t) = Len(s)
      /\ \A i \in 1 .. Len(s) : t[i] = IF i = m + 1 THEN e ELSE s[i]
  BY <1>1, ExceptSeq
<1> HIDE DEF t
<1> DEFINE a == SubSeq(t, 1, m + 1)
           b == SubSeq(s, 1, m)
<1>3. a \in Seq(Value) /\ Len(a) = m + 1 /\ \A i \in 1 .. m + 1 : a[i] = t[i]
  BY <1>1, <1>2, FrontFacts
<1>4. b \in Seq(Value) /\ Len(b) = m /\ \A i \in 1 .. m : b[i] = s[i]
  BY <1>1, FrontFacts
<1> HIDE DEF a, b
<1> DEFINE c == Append(b, e)
<1>5. /\ c \in Seq(Value) /\ Len(c) = m + 1
      /\ \A i \in 1 .. m + 1 : c[i] = IF i = m + 1 THEN e ELSE b[i]
  BY <1>4, AppendProperties
<1> HIDE DEF c
<1>6. \A i \in 1 .. m + 1 : a[i] = c[i] BY <1>1, <1>2, <1>3, <1>4, <1>5
<1>7. a = c BY <1>3, <1>5, <1>6, SeqEqual
<1> QED BY <1>7 DEF a, b, c, t

LEMMA SortsLength ==
  ASSUME NEW a \in Seq(Value), NEW b \in Seq(Value), NEW c \in Seq(Value), NEW v \in Seq(Value),
         Sorts(a \o b \o c, v)
  PROVE  Len(a) + Len(b) + Len(c) = Len(v)
<1>1. PICK d \in Seq(Value) : d = a \o b /\ Len(d) = Len(a) + Len(b) BY ConcatProperties
<1>2. PICK w \in Seq(Value) : w = d \o c /\ Len(w) = Len(d) + Len(c) BY ConcatProperties
<1>3. DOMAIN w = DOMAIN v BY <1>1, <1>2 DEF Sorts, Permuted
<1>4. Len(w) = Len(v)
  <2>1. /\ Len(w) \in Nat /\ Len(v) \in Nat
        /\ DOMAIN w = 1 .. Len(w) /\ DOMAIN v = 1 .. Len(v)
    BY LenProperties
  <2>2. \A x, y \in Nat : 1 .. x = 1 .. y => x = y
    <3> TAKE x, y \in Nat
    <3> HAVE 1 .. x = 1 .. y
    <3>1. x = 0 \/ x \in 1 .. y BY SMT
    <3>2. y = 0 \/ y \in 1 .. x BY SMT
    <3> QED BY <3>1, <3>2, SMT
  <2> QED BY <1>3, <2>1, <2>2
<1> QED BY <1>1, <1>2, <1>4

Typed(w, to, from, mine, first, size) ==
  /\ w \in Worker /\ to \in Seq(Value) /\ from \in Seq(Value) /\ size \in Nat \ {0}
  /\ mine \in Seq(Value) /\ Len(mine) = size
  /\ first \in Seq(Value) /\ Len(first) = size

LEMMA WorkerTyped ==
  ASSUME NEW w \in Worker
  PROVE  /\ w.numbers \in Seq(Value) /\ w.sent \in Nat /\ w.got \in Nat
         /\ w.i \in Nat /\ w.j \in Nat /\ Len(w.numbers) \in Nat
<1>1. MaxSize \in Nat BY SortAssumption
<1>2. w.numbers \in Seq(Value) /\ w.sent \in 0 .. MaxSize /\ w.got \in 0 .. MaxSize
  BY DEF Worker
<1> QED BY <1>1, <1>2, LenProperties DEF Worker

(* Main sends a number.                                                    *)
LEMMA Sends ==
  ASSUME NEW w, NEW to, NEW from, NEW mine, NEW first, NEW size, NEW th \in BOOLEAN,
         Typed(w, to, from, mine, first, size),
         PartInv(w, to, from, mine, first, size, th),
         w.st \in {"forked", "read"}, w.sent + 1 <= size,
         NEW x, x.st = w.st, x.numbers = w.numbers, x.got = w.got, x.sent = w.sent + 1
  PROVE  PartInv(x, Append(to, mine[w.sent + 1]), from, mine, first, size, th)
<1>1. w.numbers \in Seq(Value) /\ w.sent \in Nat BY WorkerTyped DEF Typed
<1> DEFINE e == mine[w.sent + 1]
           rest == SubSeq(mine, w.sent + 1 + 1, size)
<1>2. SubSeq(mine, w.sent + 1, size) = <<e>> \o rest
  <2>1. w.sent + 1 \in 1 .. Len(mine) /\ size \in w.sent + 1 .. Len(mine) BY <1>1 DEF Typed
  <2> QED BY <2>1, SubSeqRecursiveFirst DEF Typed
<1>3. e \in Value /\ rest \in Seq(Value)
  <2>1. w.sent + 1 \in 1 .. Len(mine) /\ mine \in [1 .. Len(mine) -> Value]
    BY <1>1 DEF Typed
  <2>2. w.sent + 1 + 1 \in Int /\ size \in Int BY <1>1 DEF Typed
  <2>3. \A i \in w.sent + 1 + 1 .. size : mine[i] \in Value BY <1>1, <2>1 DEF Typed
  <2> QED BY <2>1, <2>2, <2>3, SubSeqProperties
<1> HIDE DEF e, rest
<1>4. w.numbers \o to \o (<<e>> \o rest) = first BY <1>2 DEF PartInv, Content
<1>5. w.numbers \o Append(to, e) \o rest = first
  <2>1. PICK num \in Seq(Value) : num = w.numbers BY <1>1
  <2>2. num \o to \o (<<e>> \o rest) = num \o Append(to, e) \o rest
    <3>1. PICK r \in Seq(Value) : r = rest BY <1>3
    <3>2. PICK t \in Seq(Value) : t = to BY DEF Typed
    <3>3. PICK z \in Value : z = e BY <1>3
    <3>4. num \o t \o (<<z>> \o r) = num \o Append(t, z) \o r BY AppendInside
    <3> QED BY <3>1, <3>2, <3>3, <3>4
  <2> QED BY <1>4, <2>1, <2>2
<1>6. Content(x, Append(to, e), from, mine, first, size, th) BY <1>5 DEF Content, rest
<1> QED BY <1>6 DEF PartInv, e

(* The child reads one.                                                    *)
LEMMA Receives ==
  ASSUME NEW w, NEW to, NEW from, NEW mine, NEW first, NEW size, NEW th \in BOOLEAN,
         Typed(w, to, from, mine, first, size),
         PartInv(w, to, from, mine, first, size, th),
         w.st = "read", to # <<>>,
         NEW x, x.st = w.st, x.got = w.got, x.sent = w.sent,
         x.numbers = Append(w.numbers, Head(to))
  PROVE  PartInv(x, Tail(to), from, mine, first, size, th)
<1>1. w.numbers \in Seq(Value) /\ to \in Seq(Value) BY WorkerTyped DEF Typed
<1>2. x.numbers \o Tail(to) = w.numbers \o to BY <1>1, MoveHead
<1>3. w.numbers \o to \o SubSeq(mine, w.sent + 1, size) = first BY DEF PartInv, Content
<1>4. Content(x, Tail(to), from, mine, first, size, th) BY <1>2, <1>3 DEF Content
<1> QED BY <1>4 DEF PartInv

(* What it has read is no more than its part, and all of it at the end.    *)
LEMMA Fits ==
  ASSUME NEW w, NEW to, NEW from, NEW mine, NEW first, NEW size, NEW th \in BOOLEAN,
         Typed(w, to, from, mine, first, size),
         PartInv(w, to, from, mine, first, size, th), w.st = "read"
  PROVE  /\ Len(w.numbers) <= size
         /\ w.sent = size /\ to = <<>> => w.numbers = first /\ Len(w.numbers) = size
<1>1. PICK num \in Seq(Value), t \in Seq(Value) : num = w.numbers /\ t = to
  BY WorkerTyped DEF Typed
<1>2. /\ w.sent \in Nat /\ w.sent <= size /\ size \in Nat
      /\ mine \in Seq(Value) /\ Len(mine) = size
      /\ first \in Seq(Value) /\ Len(first) = size
  BY WorkerTyped DEF Typed, PartInv
<1>3. PICK r \in Seq(Value) : r = SubSeq(mine, w.sent + 1, size)
  <2>1. mine \in [1 .. Len(mine) -> Value] BY <1>2, LenProperties
  <2>2. w.sent + 1 \in Int /\ size \in Int BY <1>2
  <2>3. \A i \in w.sent + 1 .. size : mine[i] \in Value BY <1>2, <2>1
  <2> QED BY <2>2, <2>3, SubSeqProperties
<1>4. num \o t \o r = first BY <1>1, <1>3 DEF PartInv, Content
<1>5. Len(num) <= size
  <2>1. PICK c \in Seq(Value) : c = num \o t /\ Len(c) = Len(num) + Len(t) BY ConcatProperties
  <2>2. Len(c \o r) = Len(c) + Len(r) BY ConcatProperties
  <2>3. Len(num) \in Nat /\ Len(t) \in Nat /\ Len(r) \in Nat BY LenProperties
  <2> QED BY <1>2, <1>4, <2>1, <2>2, <2>3
<1>6. ASSUME w.sent = size, to = <<>> PROVE num = first
  <2>1. r = <<>> BY <1>2, <1>3, <1>6, SubSeqEmpty
  <2>2. num \o <<>> = num BY ConcatEmptySeq
  <2> QED BY <1>1, <1>4, <1>6, <2>1, <2>2
<1> QED BY <1>1, <1>2, <1>5, <1>6

(* It has read them all, and sorts them.                                   *)
LEMMA AllRead ==
  ASSUME NEW w, NEW from, NEW mine, NEW first, NEW size, NEW th \in BOOLEAN,
         Typed(w, <<>>, from, mine, first, size),
         PartInv(w, <<>>, from, mine, first, size, th),
         w.st = "read", w.sent = size,
         NEW x, x.st = "write", x.got = w.got, x.sent = w.sent,
         x.numbers = BubbleSort(w.numbers)
  PROVE  PartInv(x, <<>>, from, mine, first, size, th)
<1>1. w.numbers = first BY Fits
<1>2. Value \in SUBSET Int /\ first \in Seq(Value) BY SortAssumption DEF Typed
<1>3. x.numbers \in Seq(Value) /\ Sorts(x.numbers, first) BY <1>1, <1>2, BubbleFacts
<1>4. from = <<>> /\ w.got = 0 BY DEF PartInv
<1>5. SubSeq(mine, 1, x.got) \o from \o x.numbers = x.numbers
  <2>1. SubSeq(mine, 1, x.got) = <<>> BY <1>4, SubSeqEmpty
  <2>2. <<>> \o <<>> = <<>> /\ <<>> \o x.numbers = x.numbers
    BY <1>3, ConcatEmptySeq, EmptySeq
  <2> QED BY <1>4, <2>1, <2>2
<1>6. ~ th BY DEF PartInv
<1>7. Content(x, <<>>, from, mine, first, size, th) BY <1>3, <1>5, <1>6 DEF Content
<1> QED BY <1>6, <1>7 DEF PartInv

(* The child gives a number back.                                          *)
LEMMA Gives ==
  ASSUME NEW w, NEW to, NEW from, NEW mine, NEW first, NEW size, NEW th \in BOOLEAN,
         Typed(w, to, from, mine, first, size),
         PartInv(w, to, from, mine, first, size, th),
         w.st = "write", w.numbers # <<>>,
         NEW x, x.st = w.st, x.got = w.got, x.sent = w.sent, x.numbers = Tail(w.numbers)
  PROVE  PartInv(x, to, Append(from, Head(w.numbers)), mine, first, size, th)
<1>1. w.numbers \in Seq(Value) /\ from \in Seq(Value) /\ w.got \in Nat
  BY WorkerTyped DEF Typed
<1> DEFINE s == SubSeq(mine, 1, w.got)
<1>2. Sorts(s \o from \o w.numbers, first) /\ ~ th /\ w.got <= size BY DEF PartInv, Content
<1>3. s \in Seq(Value) BY <1>1, <1>2, FrontFacts DEF Typed
<1> HIDE DEF s
<1>4. s \o Append(from, Head(w.numbers)) \o x.numbers = s \o from \o w.numbers
  <2>1. PICK num \in Seq(Value) : num = w.numbers BY <1>1
  <2>2. s \o Append(from, Head(num)) \o Tail(num) = s \o from \o num
    <3>1. num # <<>> BY <2>1
    <3>2. PICK f \in Seq(Value), t \in Seq(Value) : f = s /\ t = from BY <1>1, <1>3
    <3>3. f \o Append(t, Head(num)) \o Tail(num) = f \o t \o num
      BY <3>1, MoveInside
    <3> QED BY <3>2, <3>3
  <2> QED BY <2>1, <2>2
<1>5. Content(x, to, Append(from, Head(w.numbers)), mine, first, size, th)
  BY <1>2, <1>4 DEF Content, s
<1> QED BY <1>2, <1>5 DEF PartInv

(* Main reads one back, to where it was.                                   *)
Replaced(w, v, a, i, e) == w = [v EXCEPT ![a + i] = e]

LEMMA GotRoom ==
  ASSUME NEW w, NEW to, NEW from, NEW mine, NEW first, NEW size, NEW th \in BOOLEAN,
         Typed(w, to, from, mine, first, size),
         PartInv(w, to, from, mine, first, size, th), ~ th, from # <<>>
  PROVE  w.got + 1 <= size /\ w.st \in {"write", "exited"}
<1>1. w.numbers \in Seq(Value) /\ from \in Seq(Value) /\ w.got \in Nat
      /\ mine \in Seq(Value) /\ Len(mine) = size
  BY WorkerTyped DEF Typed
<1> DEFINE s == SubSeq(mine, 1, w.got)
<1>2. w.st \in {"write", "exited"} BY DEF PartInv
<1>3. Sorts(s \o from \o w.numbers, first) /\ w.got <= size BY <1>2 DEF PartInv, Content
<1>4. s \in Seq(Value) /\ Len(s) = w.got BY <1>1, <1>3, FrontFacts
<1>5. w.got + Len(from) + Len(w.numbers) = size
  <2>1. PICK num \in Seq(Value) : num = w.numbers BY <1>1
  <2>2. PICK f \in Seq(Value) : f = s BY <1>4
  <2>3. first \in Seq(Value) /\ Len(first) = size BY DEF Typed
  <2>4. PICK t \in Seq(Value), v \in Seq(Value) : t = from /\ v = first BY <1>1, <2>3
  <2>5. Sorts(f \o t \o num, v) BY <1>3, <2>1, <2>2, <2>4
  <2> HIDE DEF s
  <2>6. Len(f) + Len(t) + Len(num) = Len(v) BY <2>5, SortsLength
  <2> QED BY <1>4, <2>1, <2>2, <2>3, <2>4, <2>6
<1>6. w.got + 1 <= size
  <2>1. Len(from) \in Nat /\ Len(from) > 0 /\ Len(w.numbers) \in Nat
    BY <1>1, MoveHead, LenProperties
  <2> QED BY <1>1, <1>5, <2>1
<1> QED BY <1>2, <1>6

LEMMA GotBack ==
  ASSUME NEW w, NEW to, NEW from, NEW mine, NEW first, NEW size, NEW th \in BOOLEAN,
         Typed(w, to, from, mine, first, size),
         PartInv(w, to, from, mine, first, size, th), ~ th, from # <<>>,
         NEW x, x.st = w.st, x.got = w.got + 1, x.sent = w.sent, x.numbers = w.numbers,
         NEW m, Replaced(m, mine, 0, x.got, Head(from))
  PROVE  PartInv(x, to, Tail(from), m, first, size, th)
<1>1. w.numbers \in Seq(Value) /\ from \in Seq(Value) /\ w.got \in Nat
      /\ mine \in Seq(Value) /\ Len(mine) = size
  BY WorkerTyped DEF Typed
<1> DEFINE s == SubSeq(mine, 1, w.got)
<1>2. w.got + 1 <= size /\ w.st \in {"write", "exited"} BY GotRoom
<1>3. Sorts(s \o from \o w.numbers, first) /\ w.got <= size BY <1>2 DEF PartInv, Content
<1>4. s \in Seq(Value) /\ Len(s) = w.got BY <1>1, <1>3, FrontFacts
<1>5. m = [mine EXCEPT ![w.got + 1] = Head(from)]
  <2>1. 0 + x.got = w.got + 1 BY <1>1
  <2> QED BY <2>1 DEF Replaced
<1>6. SubSeq(m, 1, w.got + 1) = Append(s, Head(from))
  <2>1. Head(from) \in Value BY <1>1, HeadTailProperties
  <2> QED BY <1>1, <1>2, <1>5, <2>1, FrontChanged
<1> HIDE DEF s
<1>7. SubSeq(m, 1, x.got) \o Tail(from) \o x.numbers = s \o from \o w.numbers
  <2>1. Append(s, Head(from)) \o Tail(from) = s \o from BY <1>1, <1>4, MoveHead
  <2> QED BY <1>6, <2>1
<1>8. Content(x, to, Tail(from), m, first, size, th) BY <1>2, <1>3, <1>7 DEF Content
<1> QED BY <1>2, <1>8 DEF PartInv

(* The worker of a part starts.                                            *)
LEMMA Starts ==
  ASSUME NEW w, NEW to, NEW from, NEW mine, NEW first, NEW size, NEW th \in BOOLEAN,
         Typed(w, to, from, mine, first, size),
         PartInv(w, to, from, mine, first, size, th), w.st = "none",
         NEW x, x = [w EXCEPT !.st = IF th THEN "sort" ELSE "forked"]
  PROVE  PartInv(x, to, from, mine, first, size, th)
<1>1. w = NewWorker /\ to = <<>> /\ from = <<>> BY DEF PartInv
<1>2. /\ x.st = IF th THEN "sort" ELSE "forked"
      /\ x.numbers = <<>> /\ x.i = 2 /\ x.j = 1 /\ x.sent = 0 /\ x.got = 0
  BY <1>1 DEF NewWorker
<1>3. w.numbers = <<>> /\ w.sent = 0 BY <1>1 DEF NewWorker
<1>4. <<>> \o <<>> \o SubSeq(mine, 1, size) = first
  BY <1>1, <1>3 DEF PartInv, Content
<1>5. mine = first
  <2>1. mine \in Seq(Value) /\ SubSeq(mine, 1, size) = mine BY SubSeqFull DEF Typed
  <2>2. <<>> \o <<>> = <<>> /\ <<>> \o mine = mine BY <2>1, ConcatEmptySeq, EmptySeq
  <2> QED BY <1>4, <2>1, <2>2
<1>6. Content(x, to, from, mine, first, size, th)
  <2>1. CASE th BY <1>2, <1>5, <2>1, PermutedSelf DEF Content
  <2>2. CASE ~ th
    <3>1. x.sent + 1 = 1 /\ x.st = "forked" BY <1>2, <2>2
    <3>2. x.numbers \o to \o SubSeq(mine, x.sent + 1, size) = first BY <1>1, <1>2, <1>4, <3>1
    <3> QED BY <3>1, <3>2 DEF Content
  <2> QED BY <2>1, <2>2
<1>7. Ordered(mine, 2, 1) BY DEF Ordered
<1>8. size \in Nat \ {0} BY DEF Typed
<1> QED BY <1>1, <1>2, <1>6, <1>7, <1>8 DEF PartInv

(* A thread compares two numbers of its part.                              *)
LEMMA Compares ==
  ASSUME NEW w, NEW to, NEW from, NEW mine, NEW first, NEW size, NEW th \in BOOLEAN,
         Typed(w, to, from, mine, first, size),
         PartInv(w, to, from, mine, first, size, th), w.st = "sort", w.i <= size,
         NEW x, x.st = w.st, x.numbers = w.numbers, x.sent = w.sent, x.got = w.got,
         x.i = (IF w.j + 1 < w.i THEN w.i ELSE w.i + 1),
         x.j = (IF w.j + 1 < w.i THEN w.j + 1 ELSE 1)
  PROVE  PartInv(x, to, from, Exchange(mine, w.i, w.j), first, size, th)
<1> DEFINE m == Exchange(mine, w.i, w.j)
<1>1. /\ w.i \in 2 .. size + 1 /\ w.j \in 1 .. w.i - 1
      /\ Ordered(mine, w.i, w.j) /\ Permuted(first, mine) /\ th
  BY DEF PartInv, Content
<1>2. size \in Nat /\ mine \in [1 .. size -> Value] /\ Value \in SUBSET Int
  <2>1. mine \in [1 .. Len(mine) -> Value] BY LenProperties DEF Typed
  <2> QED BY <2>1, SortAssumption DEF Typed
<1>3. PICK i \in 1 .. size : i = w.i /\ 2 <= i BY <1>1, <1>2
<1>4. PICK j \in 1 .. i - 1 : j = w.j BY <1>1, <1>3
<1>5. m = Exchange(mine, i, j) /\ Ordered(mine, i, j) BY <1>1, <1>3, <1>4
<1> HIDE DEF m
<1>6. Permuted(mine, m)
  <2>1. j \in 1 .. size /\ i # j BY <1>2, <1>3
  <2> QED BY <1>2, <1>5, <2>1, ExchangeFacts
<1>7. Permuted(first, m) BY <1>1, <1>6, PermutedAgain
<1>8. Ordered(m, i, j + 1) BY <1>2, <1>5, OrderedStep
<1>9. /\ x.i \in 2 .. size + 1 /\ x.j \in 1 .. x.i - 1
      /\ x.i = size + 1 => x.j = 1
      /\ Ordered(m, x.i, x.j)
  <2>1. CASE j + 1 < i
    <3>1. x.i = i /\ x.j = j + 1 BY <1>3, <1>4, <2>1
    <3> QED BY <1>2, <1>3, <1>8, <2>1, <3>1
  <2>2. CASE ~ (j + 1 < i)
    <3>1. x.i = i + 1 /\ x.j = 1 /\ j + 1 = i BY <1>3, <1>4, <2>2
    <3>2. Ordered(m, i, i) BY <1>8, <3>1
    <3>3. Ordered(m, i + 1, 1) BY <1>3, <3>2, OrderedNext
    <3> QED BY <1>2, <1>3, <3>1, <3>3
  <2> QED BY <2>1, <2>2
<1>10. Content(x, to, from, m, first, size, th) BY <1>1, <1>7 DEF Content, PartInv
<1> QED BY <1>1, <1>9, <1>10 DEF PartInv, m

(* It has sorted its part.                                                 *)
LEMMA ThreadDone ==
  ASSUME NEW w, NEW to, NEW from, NEW mine, NEW first, NEW size, NEW th \in BOOLEAN,
         Typed(w, to, from, mine, first, size),
         PartInv(w, to, from, mine, first, size, th), w.st = "sort", ~ (w.i <= size),
         NEW x, x.st = "exited", x.sent = w.sent, x.got = w.got
  PROVE  PartInv(x, to, from, mine, first, size, th)
<1>1. /\ w.i \in 2 .. size + 1 /\ Ordered(mine, w.i, w.j) /\ Permuted(first, mine) /\ th
  BY DEF PartInv, Content
<1>2. size \in Nat /\ DOMAIN mine = 1 .. size BY LenProperties DEF Typed
<1>3. w.i - 1 = size BY <1>1, <1>2
<1>4. Ascending(mine) BY <1>1, <1>2, <1>3 DEF Ordered, Ascending
<1>5. Content(x, to, from, mine, first, size, th) BY <1>1, <1>4 DEF Content, Sorts
<1> QED BY <1>1, <1>5 DEF PartInv

(* A child closes the ends it does not use, or exits.                      *)
LEMMA Goes ==
  ASSUME NEW w, NEW to, NEW from, NEW mine, NEW first, NEW size, NEW th \in BOOLEAN,
         PartInv(w, to, from, mine, first, size, th), NEW x,
         x.numbers = w.numbers, x.got = w.got, x.sent = w.sent,
         \/ w.st = "forked" /\ x.st = "read"
         \/ w.st = "write" /\ x.st = "exited" /\ w.numbers = <<>>
  PROVE  PartInv(x, to, from, mine, first, size, th)
<1>1. CASE w.st = "forked" BY <1>1 DEF PartInv, Content
<1>2. CASE w.st = "write" BY <1>2 DEF PartInv, Content
<1> QED BY <1>1, <1>2

(* What is back when the worker is over.                                   *)
LEMMA PartBack ==
  ASSUME NEW w, NEW to, NEW from, NEW mine, NEW first, NEW size, NEW th \in BOOLEAN,
         Typed(w, to, from, mine, first, size),
         PartInv(w, to, from, mine, first, size, th), w.st = "exited"
  PROVE  /\ ~ th /\ from = <<>> => w.got = size
         /\ th \/ w.got = size => Sorts(mine, first)
<1>1. CASE th BY <1>1 DEF PartInv, Content
<1>2. CASE ~ th
  <2>1. /\ w.numbers = <<>> /\ w.got <= size /\ w.got \in Nat
        /\ Sorts(SubSeq(mine, 1, w.got) \o from \o <<>>, first)
    BY <1>2, WorkerTyped DEF PartInv, Content, Typed
  <2>2. /\ mine \in Seq(Value) /\ Len(mine) = size /\ first \in Seq(Value)
        /\ Len(first) = size /\ from \in Seq(Value) /\ size \in Nat
    BY DEF Typed
  <2>3. PICK f \in Seq(Value) : f = SubSeq(mine, 1, w.got) /\ Len(f) = w.got
    BY <2>1, <2>2, FrontFacts
  <2>4. PICK t \in Seq(Value), v \in Seq(Value), e \in Seq(Value) :
          t = from /\ v = first /\ e = <<>> /\ Len(e) = 0 /\ Len(t) \in Nat
    BY <2>2, EmptySeq, LenProperties
  <2>5. Sorts(f \o t \o e, v) BY <2>1, <2>3, <2>4
  <2>6. Len(f) + Len(t) + Len(e) = Len(v) BY <2>5, SortsLength
  <2>7. w.got + Len(from) = size BY <2>1, <2>2, <2>3, <2>4, <2>6
  <2>8. from = <<>> => w.got = size BY <2>1, <2>2, <2>7, EmptySeq
  <2>9. ASSUME w.got = size PROVE Sorts(mine, first)
    <3>1. from = <<>> BY <2>2, <2>4, <2>7, <2>9, EmptySeq
    <3>2. f = mine BY <2>2, <2>3, <2>9, SubSeqFull
    <3>3. f \o <<>> = f BY ConcatEmptySeq
    <3> QED BY <2>1, <2>3, <3>1, <3>2, <3>3
  <2> QED BY <1>2, <2>8, <2>9
<1> QED BY <1>1, <1>2

-----------------------------------------------------------------------------
(***************************************************************************)
(* The parts of the vector of main.                                        *)
(***************************************************************************)
Outside(w, v, split, i, n) ==
  \A x \in 1 .. n : x <= split[i - 1] \/ split[i] < x => w[x] = v[x]

LEMMA OtherPiece ==
  ASSUME NEW n \in Nat, NEW v \in [1 .. n -> Value], NEW w \in [1 .. n -> Value],
         NEW k \in Nat \ {0}, NEW split, Cut(split, k, n),
         NEW i \in 1 .. k, NEW j \in 1 .. k, i # j,
         Outside(w, v, split, i, n)
  PROVE  Piece(w, split, j) = Piece(v, split, j)
<1>1. /\ split[i - 1] \in 0 .. n /\ split[i] \in 0 .. n
      /\ split[j - 1] \in 0 .. n /\ split[j] \in 0 .. n /\ split[j - 1] < split[j]
      /\ i < j => split[i] <= split[j - 1]
      /\ j < i => split[j] <= split[i - 1]
  BY CutFacts DEF Cut
<1>2. PICK a, b : a = split[j - 1] /\ b = split[j] OBVIOUS
<1>3. a \in 0 .. n /\ b \in 0 .. n /\ a <= b BY <1>1, <1>2
<1>4. \A x \in 1 .. b - a : w[a + x] = v[a + x]
  <2> TAKE x \in 1 .. b - a
  <2>1. a + x \in 1 .. n /\ a < a + x /\ a + x <= b BY <1>3
  <2>2. i < j \/ j < i OBVIOUS
  <2>3. a + x <= split[i - 1] \/ split[i] < a + x BY <1>1, <1>2, <2>1, <2>2, SMTT(30)
  <2> QED BY <2>1, <2>3 DEF Outside
<1>5. SubSeq(v, a + 1, b) = [x \in 1 .. b - a |-> v[a + x]] BY <1>3, PieceFacts
<1>6. SubSeq(w, a + 1, b) = [x \in 1 .. b - a |-> w[a + x]] BY <1>3, PieceFacts
<1>7. [x \in 1 .. b - a |-> w[a + x]] = [x \in 1 .. b - a |-> v[a + x]] BY <1>4
<1> QED BY <1>2, <1>5, <1>6, <1>7 DEF Piece

(* Two numbers of a part exchanged, or one of them replaced.               *)
Exchanged(w, v, a, i, j) == w = Exchange(v, a + i, a + j)

LEMMA PieceExchange ==
  ASSUME NEW n \in Nat, NEW v \in [1 .. n -> Value], NEW a \in 0 .. n, NEW b \in 0 .. n, a <= b,
         NEW i \in 1 .. b - a, NEW j \in 1 .. b - a, i # j,
         NEW w, Exchanged(w, v, a, i, j)
  PROVE  /\ w \in [1 .. n -> Value]
         /\ \A x \in 1 .. n : x <= a \/ b < x => w[x] = v[x]
         /\ Exchanged(SubSeq(w, a + 1, b), SubSeq(v, a + 1, b), 0, i, j)
<1> DEFINE s == SubSeq(v, a + 1, b)
           t == SubSeq(w, a + 1, b)
           u == Exchange(s, i, j)
<1>1. Value \in SUBSET Int BY SortAssumption
<1>2. /\ a + i \in 1 .. n /\ a + j \in 1 .. n /\ a + i # a + j
      /\ a < a + i /\ a + i <= b /\ a < a + j /\ a + j <= b
  OBVIOUS
<1>3. PICK x, y : x = a + i /\ y = a + j OBVIOUS
<1>4. /\ w \in [1 .. n -> Value]
      /\ w[x] = IF v[x] < v[y] THEN v[y] ELSE v[x]
      /\ w[y] = IF v[x] < v[y] THEN v[x] ELSE v[y]
      /\ \A z \in 1 .. n : z # x /\ z # y => w[z] = v[z]
  <2>1. x \in 1 .. n /\ y \in 1 .. n /\ w = Exchange(v, x, y) BY <1>2, <1>3 DEF Exchanged
  <2> HIDE DEF s, t, u
  <2> QED BY <1>2, <1>3, <2>1 DEF Exchange
<1>5. s \in Seq(Value) /\ Len(s) = b - a /\ \A z \in 1 .. b - a : s[z] = v[a + z]
  BY PieceFacts
<1>6. t \in Seq(Value) /\ Len(t) = b - a /\ \A z \in 1 .. b - a : t[z] = w[a + z]
  BY <1>4, PieceFacts
<1> HIDE DEF s, t
<1>7. /\ u \in [1 .. b - a -> Value]
      /\ u[i] = IF s[i] < s[j] THEN s[j] ELSE s[i]
      /\ u[j] = IF s[i] < s[j] THEN s[i] ELSE s[j]
      /\ \A z \in 1 .. b - a : z # i /\ z # j => u[z] = s[z]
  <2>1. s \in [1 .. b - a -> Value] BY <1>5, LenProperties
  <2> QED BY <2>1 DEF Exchange
<1> HIDE DEF u
<1>8. \A z \in 1 .. b - a : t[z] = u[z]
  <2> TAKE z \in 1 .. b - a
  <2>1. s[i] = v[x] /\ s[j] = v[y] BY <1>3, <1>5
  <2>2. CASE z = i BY <1>3, <1>4, <1>6, <1>7, <2>1, <2>2
  <2>3. CASE z = j BY <1>3, <1>4, <1>6, <1>7, <2>1, <2>3
  <2>4. CASE z # i /\ z # j
    <3>1. a + z \in 1 .. n /\ a + z # x /\ a + z # y BY <1>3, <2>4
    <3> QED BY <1>4, <1>5, <1>6, <1>7, <2>4, <3>1
  <2> QED BY <2>2, <2>3, <2>4
<1>9. t = u
  <2>1. t \in [1 .. b - a -> Value] BY <1>6, LenProperties
  <2> QED BY <1>7, <1>8, <2>1
<1>10. \A z \in 1 .. n : z <= a \/ b < z => w[z] = v[z] BY <1>2, <1>3, <1>4
<1>11. 0 + i = i /\ 0 + j = j OBVIOUS
<1> QED BY <1>4, <1>9, <1>10, <1>11 DEF Exchanged, s, t, u

LEMMA PieceExcept ==
  ASSUME NEW n \in Nat, NEW v \in [1 .. n -> Value], NEW a \in 0 .. n, NEW b \in 0 .. n, a <= b,
         NEW i \in 1 .. b - a, NEW e \in Value, NEW w, Replaced(w, v, a, i, e)
  PROVE  /\ w \in [1 .. n -> Value]
         /\ \A x \in 1 .. n : x <= a \/ b < x => w[x] = v[x]
         /\ Replaced(SubSeq(w, a + 1, b), SubSeq(v, a + 1, b), 0, i, e)
<1> DEFINE s == SubSeq(v, a + 1, b)
           t == SubSeq(w, a + 1, b)
<1>1. a + i \in 1 .. n /\ a < a + i /\ a + i <= b OBVIOUS
<1>2. /\ w \in [1 .. n -> Value] /\ \A x \in 1 .. n : w[x] = IF x = a + i THEN e ELSE v[x]
  BY <1>1 DEF Replaced
<1>3. s = [x \in 1 .. b - a |-> v[a + x]] BY PieceFacts
<1>4. t = [x \in 1 .. b - a |-> w[a + x]] BY <1>2, PieceFacts
<1>5. \A x \in 1 .. b - a : w[a + x] = IF x = i THEN e ELSE v[a + x]
  <2> TAKE x \in 1 .. b - a
  <2>1. a + x \in 1 .. n /\ (a + x = a + i <=> x = i) OBVIOUS
  <2> QED BY <1>2, <2>1
<1> HIDE DEF s, t
<1>6. t = [s EXCEPT ![i] = e] BY <1>3, <1>4, <1>5
<1>7. \A x \in 1 .. n : x <= a \/ b < x => w[x] = v[x] BY <1>1, <1>2
<1>8. 0 + i = i OBVIOUS
<1> QED BY <1>2, <1>6, <1>7, <1>8 DEF Replaced, s, t

LEMMA SplitFacts ==
  ASSUME TypeOK, ~ Alone
  PROVE  /\ Len(data) \in Nat /\ Len(data) = Len(input) /\ Len(data) <= MaxSize
         /\ data \in [1 .. Len(data) -> Value] /\ input \in [1 .. Len(data) -> Value]
         /\ data \in Seq(Value)
         /\ count \in Nat \ {0} /\ Cut(Split, count, Len(data))
         /\ \A k \in Part : /\ Split[k - 1] \in 0 .. Len(data) /\ Split[k] \in 0 .. Len(data)
                            /\ Split[k - 1] <= Split[k]
                            /\ Size(k) \in Nat \ {0} /\ Size(k) <= MaxSize
<1>1. /\ input \in Seq(Value) /\ Len(input) <= MaxSize /\ data \in [DOMAIN input -> Value]
      /\ count \in Counts
  BY DEF TypeOK
<1>2. Len(input) \in Nat /\ DOMAIN input = 1 .. Len(input) /\ input \in [1 .. Len(input) -> Value]
  BY <1>1, LenProperties
<1>3. data \in Seq(Value) /\ Len(data) = Len(input) BY <1>1, <1>2
<1>4. count \in Nat \ {0} BY <1>1, SortAssumption
<1>5. count <= Len(data) BY <1>2, <1>3, <1>4 DEF Alone
<1>6. Cut(Split, count, Len(data)) BY <1>2, <1>3, <1>4, <1>5, DivideFacts DEF Cut, Split
<1>7. ASSUME NEW k \in Part
      PROVE  /\ Split[k - 1] \in 0 .. Len(data) /\ Split[k] \in 0 .. Len(data)
             /\ Split[k - 1] <= Split[k]
             /\ Size(k) \in Nat \ {0} /\ Size(k) <= MaxSize
  <2>1. PICK s : s = Split OBVIOUS
  <2>2. PICK n \in Nat, c \in Nat \ {0} : n = Len(data) /\ s = Split /\ c = count
    BY <1>2, <1>3, <1>4, <2>1
  <2>3. Cut(s, c, n) /\ k \in 1 .. c BY <1>6, <2>2 DEF Part
  <2>4. s[k - 1] \in 0 .. n /\ s[k] \in 0 .. n /\ s[k - 1] < s[k] BY <2>3, CutFacts DEF Cut
  <2>5. MaxSize \in Nat /\ n <= MaxSize BY <1>1, <1>3, <2>2, SortAssumption
  <2>6. s[k] - s[k - 1] \in Nat \ {0} /\ s[k] - s[k - 1] <= MaxSize BY <2>4, <2>5
  <2> QED BY <2>2, <2>4, <2>6 DEF Size
<1> QED BY <1>1, <1>2, <1>3, <1>4, <1>6, <1>7

LEMMA PartsTyped ==
  ASSUME TypeOK, ~ Alone, NEW k \in Part
  PROVE  /\ Typed(worker[k], pipe[ToChild(k)], pipe[FromChild(k)],
                  PartOf(data, k), PartOf(input, k), Size(k))
         /\ ToChild(k) \in Pipe /\ FromChild(k) \in Pipe
<1>1. ToChild(k) \in Pipe /\ FromChild(k) \in Pipe BY DEF ToChild, FromChild, Pipe
<1>2. /\ worker[k] \in Worker /\ pipe[ToChild(k)] \in Seq(Value)
      /\ pipe[FromChild(k)] \in Seq(Value)
  BY <1>1 DEF TypeOK
<1>3. PICK n \in Nat :
        n = Len(data) /\ data \in [1 .. n -> Value] /\ input \in [1 .. n -> Value]
  BY SplitFacts
<1>4. PICK a \in 0 .. n, b \in 0 .. n : a = Split[k - 1] /\ b = Split[k] /\ a <= b
  BY <1>3, SplitFacts
<1>5. PartOf(data, k) \in Seq(Value) /\ Len(PartOf(data, k)) = b - a
  BY <1>3, <1>4, PieceFacts, SMTT(30) DEF PartOf
<1>6. PartOf(input, k) \in Seq(Value) /\ Len(PartOf(input, k)) = b - a
  BY <1>3, <1>4, PieceFacts DEF PartOf
<1>7. Size(k) = b - a /\ Size(k) \in Nat \ {0} BY <1>4, SplitFacts DEF Size
<1> QED BY <1>1, <1>2, <1>5, <1>6, <1>7 DEF Typed

-----------------------------------------------------------------------------
(***************************************************************************)
(* The steps.  First what a step leaves as it is.                          *)
(***************************************************************************)
LEMMA Frame ==
  ASSUME UNCHANGED given, Len(data') = Len(data)
  PROVE  /\ Alone' = Alone /\ Part' = Part /\ Split' = Split /\ Pipe' = Pipe
         /\ \A k : Size(k)' = Size(k) /\ PartOf(input, k)' = PartOf(input, k)
<1>1. input' = input /\ count' = count /\ threaded' = threaded BY DEF given
<1>2. Alone' = Alone /\ Part' = Part /\ Split' = Split BY <1>1 DEF Alone, Part, Split
<1>3. Pipe' = Pipe BY <1>2 DEF Pipe
<1>4. \A k : Size(k)' = Size(k) /\ PartOf(input, k)' = PartOf(input, k)
  BY <1>1, <1>2 DEF Size, PartOf
<1> QED BY <1>2, <1>3, <1>4

LEMMA HoldsOn ==
  ASSUME UNCHANGED given, Len(data') = Len(data), NEW k, Holds(k),
         worker'[k] = worker[k], pipe'[ToChild(k)] = pipe[ToChild(k)],
         pipe'[FromChild(k)] = pipe[FromChild(k)],
         SubSeq(data', Split[k - 1] + 1, Split[k]) = SubSeq(data, Split[k - 1] + 1, Split[k])
  PROVE  Holds(k)'
<1>1. Split' = Split /\ Size(k)' = Size(k) /\ PartOf(input, k)' = PartOf(input, k)
  BY Frame
<1>2. PartOf(data, k)' = PartOf(data, k) BY <1>1 DEF PartOf
<1>3. threaded' = threaded BY DEF given
<1>4. ToChild(k)' = ToChild(k) /\ FromChild(k)' = FromChild(k) BY DEF ToChild, FromChild
<1> QED BY <1>1, <1>2, <1>3, <1>4 DEF Holds

(* A step of main that leaves data, workers and pipes alone.               *)
LEMMA MainMoves ==
  ASSUME Parts, UNCHANGED <<given, data, worker, pipe>>,
         \A k \in Part : ~ Alone => Reached(k)'
  PROVE  Parts'
<1>1. Alone' = Alone /\ Part' = Part BY Frame
<1>2. ASSUME NEW k \in Part, ~ Alone PROVE Holds(k)'
  <2>1. Holds(k) BY <1>2 DEF Parts
  <2> QED BY <2>1, HoldsOn
<1> QED BY <1>1, <1>2 DEF Parts

LEMMA BeginStep ==
  ASSUME IInv, Begin PROVE IInv'
<1> USE DEF IInv
<1>1. /\ pc = "begin" /\ data = input /\ turn = 1
      /\ UNCHANGED <<given, data, turn, worker, pipe, ends>>
  BY DEF Begin, Places
<1>2. input' = input /\ count' = count /\ threaded' = threaded BY <1>1 DEF given
<1>3. Alone' = Alone /\ Part' = Part /\ Pipe' = Pipe BY <1>1, Frame
<1>4. pc' \in {"done", "create", "fork"} BY DEF Begin
<1>5. out' \in Seq(Value) /\ Len(out') <= MaxSize /\ (pc' = "done" => Sorts(out', input))
  <2>1. Value \in SUBSET Int /\ data \in Seq(Value) /\ Len(data) <= MaxSize
    BY <1>1, SortAssumption DEF TypeOK
  <2>2. /\ BubbleSort(data) \in Seq(Value) /\ Len(BubbleSort(data)) = Len(data)
        /\ Sorts(BubbleSort(data), data)
    BY <2>1, BubbleFacts
  <2>3. CASE Alone BY <1>1, <2>1, <2>2, <2>3 DEF Begin
  <2>4. CASE ~ Alone BY <2>4 DEF Begin, TypeOK
  <2> QED BY <2>3, <2>4
<1>6. TypeOK' BY <1>1, <1>2, <1>3, <1>4, <1>5 DEF TypeOK
<1>7. Places' BY <1>1, <1>2, <1>3 DEF Begin, Places
<1>8. ASSUME NEW k \in Part, ~ Alone PROVE Reached(k)'
  <2>1. Reached(k) BY <1>8 DEF Parts
  <2>2. worker[k].st = "none" BY <1>1, <2>1 DEF Reached, Started
  <2>3. k \in Nat /\ k >= 1 BY DEF Part
  <2>4. pc' \in {"create", "fork"} BY <1>8 DEF Begin
  <2>5. ~ Started(k)' /\ ~ Fed(k)' /\ ~ Over(k)' /\ ~ Back(k)'
    BY <1>1, <2>3, <2>4 DEF Started, Fed, Over, Back
  <2> QED BY <1>1, <2>2, <2>5 DEF Reached
<1>9. Parts' BY <1>1, <1>8, MainMoves
<1>10. OneWriterPerPipe' BY <1>1 DEF OneWriterPerPipe, FromChild, ToChild
<1>11. Descriptors' BY <1>1, <1>3, <1>4 DEF Descriptors, FromChild, ToChild
<1>12. PrintsSorted' BY <1>2, <1>5 DEF PrintsSorted
<1> QED BY <1>6, <1>7, <1>9, <1>10, <1>11, <1>12

LEMMA NextTurnFacts ==
  ASSUME TypeOK, NEW same, NEW next, NextTurn(same, next), count' = count
  PROVE  /\ turn' \in Part /\ turn \in Nat /\ count \in Nat
         /\ \/ turn < count /\ turn' = turn + 1 /\ pc' = same
            \/ turn = count /\ turn' = 1 /\ pc' = next
<1>1. count \in Nat \ {0} /\ turn \in 1 .. count BY SortAssumption DEF TypeOK, Part
<1>2. CASE turn < count BY <1>1, <1>2 DEF NextTurn, Part
<1>3. CASE ~ (turn < count) BY <1>1, <1>3 DEF NextTurn, Part
<1> QED BY <1>1, <1>2, <1>3

LEMMA JoinStep ==
  ASSUME IInv, Join PROVE IInv'
<1> USE DEF IInv
<1>1. /\ pc = "join" /\ worker[turn].st = "exited" /\ NextTurn("join", "merge")
      /\ UNCHANGED <<given, data, worker, pipe, ends, out>>
  BY DEF Join
<1>2. input' = input /\ count' = count /\ threaded' = threaded BY <1>1 DEF given
<1>3. Alone' = Alone /\ Part' = Part /\ Pipe' = Pipe BY <1>1, Frame
<1>4. /\ turn' \in Part /\ turn \in Nat /\ count \in Nat
      /\ \/ turn < count /\ turn' = turn + 1 /\ pc' = "join"
         \/ turn = count /\ turn' = 1 /\ pc' = "merge"
  BY <1>1, <1>2, NextTurnFacts
<1>5. ~ Alone /\ threaded BY <1>1 DEF Places
<1>6. TypeOK' BY <1>1, <1>2, <1>3, <1>4 DEF TypeOK
<1>7. Places' BY <1>1, <1>2, <1>3, <1>4, <1>5 DEF Places
<1>8. ASSUME NEW k \in Part PROVE Reached(k)'
  <2>1. Reached(k) BY <1>5 DEF Parts
  <2>2. k \in Nat /\ k <= count BY <1>4 DEF Part
  <2>3. worker[k].st # "none" BY <1>1, <2>1 DEF Reached, Started
  <2>4. Started(k)' BY <1>4 DEF Started
  <2>5. Over(k)' => k < turn \/ k = turn BY <1>4, <2>2 DEF Over
  <2>6. k < turn => worker[k].st = "exited" BY <1>1, <2>1 DEF Reached, Over
  <2> QED BY <1>1, <1>2, <1>5, <2>3, <2>4, <2>5, <2>6 DEF Reached
<1>9. Parts' BY <1>1, <1>8, MainMoves
<1>10. OneWriterPerPipe' BY <1>1 DEF OneWriterPerPipe, FromChild, ToChild
<1>11. Descriptors' BY <1>1, <1>3, <1>4 DEF Descriptors, FromChild, ToChild
<1>12. PrintsSorted' BY <1>4 DEF PrintsSorted
<1> QED BY <1>6, <1>7, <1>9, <1>10, <1>11, <1>12

LEMMA CloseStep ==
  ASSUME IInv, CloseInMain PROVE IInv'
<1> USE DEF IInv
<1>1. /\ pc = "close" /\ pc' = "write"
      /\ ends' = ends \ {<<Main, ToChild(turn), "r">>, <<Main, FromChild(turn), "w">>}
      /\ UNCHANGED <<given, data, turn, worker, pipe, out>>
  BY DEF CloseInMain
<1>2. input' = input /\ count' = count /\ threaded' = threaded BY <1>1 DEF given
<1>3. Alone' = Alone /\ Part' = Part /\ Pipe' = Pipe BY <1>1, Frame
<1>4. ~ Alone /\ ~ threaded /\ turn \in Part BY <1>1 DEF Places, TypeOK
<1>5. TypeOK' BY <1>1, <1>2, <1>3 DEF TypeOK
<1>6. Places' BY <1>1, <1>2, <1>3, <1>4 DEF Places
<1>7. ASSUME NEW k \in Part PROVE Reached(k)'
  <2>1. Reached(k) BY <1>4 DEF Parts
  <2>2. /\ Started(k)' <=> Started(k)
        /\ Fed(k)' <=> Fed(k)
        /\ ~ Over(k)' /\ ~ Back(k)'
    BY <1>1 DEF Started, Fed, Over, Back
  <2>3. Size(k)' = Size(k) BY <1>1, Frame
  <2> QED BY <1>1, <1>2, <2>1, <2>2, <2>3 DEF Reached
<1>8. Parts' BY <1>1, <1>7, MainMoves
<1>9. OneWriterPerPipe' BY <1>1 DEF OneWriterPerPipe, FromChild, ToChild
<1>10. Descriptors'
  <2>1. ASSUME NEW d \in ends, d[1] = Main, d[3] = "w", d # <<Main, FromChild(turn), "w">>
        PROVE  d[2] = ToChild(turn)
    <3>1. d = <<d[1], d[2], d[3]>> BY DEF TypeOK
    <3> QED BY <1>1, <2>1, <3>1 DEF Descriptors
  <2>2. <<Main, ToChild(turn), "w">> \in ends' BY <1>1 DEF Descriptors, ToChild, FromChild
  <2>3. ASSUME NEW k \in Part, worker[k].st \in {"forked", "read", "write"}
        PROVE  <<k, FromChild(k), "w">> \in ends'
    <3>1. k # Main BY DEF Part, Main
    <3> QED BY <1>1, <2>3, <3>1 DEF Descriptors, ToChild, FromChild
  <2> QED BY <1>1, <1>3, <2>1, <2>2, <2>3 DEF Descriptors, FromChild, ToChild
<1>11. PrintsSorted' BY <1>1 DEF PrintsSorted
<1> QED BY <1>5, <1>6, <1>8, <1>9, <1>10, <1>11

LEMMA WaitStep ==
  ASSUME IInv, WaitChild PROVE IInv'
<1> USE DEF IInv
<1>1. /\ pc = "wait" /\ worker[turn].st \in {"exited", "aborted"} /\ NextTurn("read", "merge")
      /\ UNCHANGED <<given, data, worker, pipe, ends, out>>
  BY DEF WaitChild
<1>2. input' = input /\ count' = count /\ threaded' = threaded BY <1>1 DEF given
<1>3. Alone' = Alone /\ Part' = Part /\ Pipe' = Pipe BY <1>1, Frame
<1>4. /\ turn' \in Part /\ turn \in Nat /\ count \in Nat
      /\ \/ turn < count /\ turn' = turn + 1 /\ pc' = "read"
         \/ turn = count /\ turn' = 1 /\ pc' = "merge"
  BY <1>1, <1>2, NextTurnFacts
<1>5. ~ Alone /\ ~ threaded BY <1>1 DEF Places
<1>6. TypeOK' BY <1>1, <1>2, <1>3, <1>4 DEF TypeOK
<1>7. Places' BY <1>1, <1>2, <1>3, <1>4, <1>5 DEF Places
<1>8. ASSUME NEW k \in Part PROVE Reached(k)'
  <2>1. Reached(k) /\ Holds(k) BY <1>5 DEF Parts
  <2>2. k \in Nat /\ k <= count BY <1>4 DEF Part
  <2>3. worker[k].st # "none" /\ Started(k)' /\ Fed(k) /\ Fed(k)'
    BY <1>1, <1>4, <2>1 DEF Reached, Started, Fed
  <2>4. Over(k)' \/ Back(k)' => Back(k) /\ (Over(k) \/ k = turn)
    BY <1>1, <1>4, <2>2 DEF Over, Back
  <2>5. worker[k].st # "aborted" BY <2>1 DEF Holds, PartInv
  <2>6. Size(k)' = Size(k) BY <1>1, Frame
  <2> QED BY <1>1, <1>2, <1>5, <2>1, <2>3, <2>4, <2>5, <2>6 DEF Reached
<1>9. Parts' BY <1>1, <1>8, MainMoves
<1>10. OneWriterPerPipe' BY <1>1 DEF OneWriterPerPipe, FromChild, ToChild
<1>11. Descriptors' BY <1>1, <1>3, <1>4 DEF Descriptors, FromChild, ToChild
<1>12. PrintsSorted' BY <1>4 DEF PrintsSorted
<1> QED BY <1>6, <1>7, <1>9, <1>10, <1>11, <1>12

(* All parts are back and sorted: the merge is the whole, sorted.          *)
LEMMA MergeStep ==
  ASSUME IInv, Merge PROVE IInv'
<1> USE DEF IInv
<1>1. /\ pc = "merge" /\ pc' = "done" /\ out' = MergeSort(data, Split)
      /\ UNCHANGED <<given, data, turn, worker, pipe, ends>>
  BY DEF Merge
<1>2. input' = input /\ count' = count /\ threaded' = threaded BY <1>1 DEF given
<1>3. Alone' = Alone /\ Part' = Part /\ Pipe' = Pipe BY <1>1, Frame
<1>4. ~ Alone BY <1>1 DEF Places
<1>5. PICK n \in Nat, c \in Nat \ {0} :
        /\ n = Len(data) /\ c = count /\ n <= MaxSize /\ data \in [1 .. n -> Value]
        /\ input \in [1 .. n -> Value] /\ data \in Seq(Value)
  BY <1>4, SplitFacts
<1>6. PICK s : s = Split OBVIOUS
<1>7. Cut(s, c, n) /\ Part = 1 .. c BY <1>4, <1>5, <1>6, SplitFacts DEF Part
<1>8. ASSUME NEW k \in 1 .. c
      PROVE  Sorts(Piece(data, s, k), Piece(input, s, k))
  <2>1. k \in Part BY <1>7
  <2>2. Holds(k) /\ Reached(k) BY <1>4, <2>1 DEF Parts
  <2>3. worker[k].st = "exited" /\ (~ threaded => worker[k].got = Size(k))
    BY <1>1, <2>2 DEF Reached, Over, Back
  <2>4. Typed(worker[k], pipe[ToChild(k)], pipe[FromChild(k)],
              PartOf(data, k), PartOf(input, k), Size(k))
    BY <1>4, <2>1, PartsTyped
  <2>5. threaded \in BOOLEAN BY DEF TypeOK
  <2>6. Sorts(PartOf(data, k), PartOf(input, k))
    BY <2>2, <2>3, <2>4, <2>5, PartBack DEF Holds
  <2> QED BY <1>6, <2>6 DEF PartOf, Piece
<1>9. Permuted(input, data)
  <2>1. \A k \in 1 .. c : Permuted(Piece(input, s, k), Piece(data, s, k)) BY <1>8 DEF Sorts
  <2> QED BY <1>5, <1>7, <2>1, PiecesPermuted
<1>10. InParts(data, s, c)
  <2> SUFFICES ASSUME NEW k \in 1 .. c, NEW x \in Nat, NEW y \in Nat,
                      s[k - 1] < x, x < y, y <= s[k]
               PROVE  data[x] <= data[y]
    BY DEF InParts
  <2>1. Ascending(Piece(data, s, k)) BY <1>8 DEF Sorts
  <2>2. PICK a \in 0 .. n : a = s[k - 1] BY <1>7, CutFacts
  <2>3. PICK b \in 0 .. n : b = s[k] BY <1>7, CutFacts
  <2>4. a <= b /\ x - a \in 1 .. b - a /\ y - a \in 1 .. b - a /\ x - a < y - a
        /\ a + (x - a) = x /\ a + (y - a) = y
    BY <2>2, <2>3
  <2>5. PICK p : p = SubSeq(data, a + 1, b) OBVIOUS
  <2>6. p \in Seq(Value) /\ Len(p) = b - a /\ \A i \in 1 .. b - a : p[i] = data[a + i]
    BY <1>5, <2>4, <2>5, PieceFacts
  <2>7. Ascending(p) BY <2>1, <2>2, <2>3, <2>5 DEF Piece
  <2>8. DOMAIN p = 1 .. b - a BY <2>6, LenProperties
  <2>9. p[x - a] <= p[y - a] BY <2>4, <2>7, <2>8 DEF Ascending
  <2> QED BY <2>4, <2>6, <2>9
<1>11. /\ out' \in Seq(Value) /\ Len(out') = n /\ Sorts(out', data)
  <2>1. Value \in SUBSET Int BY SortAssumption
  <2>2. Cut(s, c, Len(data)) BY <1>5, <1>7
  <2>3. /\ MergeSort(data, s) \in Seq(Value) /\ Len(MergeSort(data, s)) = Len(data)
        /\ Sorts(MergeSort(data, s), data)
    BY <1>5, <1>10, <2>1, <2>2, MergeFacts
  <2> QED BY <1>1, <1>5, <1>6, <2>3
<1>12. Sorts(out', input') BY <1>2, <1>9, <1>11, PermutedAgain DEF Sorts
<1>13. TypeOK' BY <1>1, <1>2, <1>3, <1>5, <1>11 DEF TypeOK
<1>14. Places' BY <1>1, <1>2, <1>3 DEF Places
<1>15. ASSUME NEW k \in Part PROVE Reached(k)'
  <2>1. Reached(k) BY <1>4 DEF Parts
  <2>2. /\ Started(k) /\ Fed(k) /\ Over(k) /\ Back(k)
        /\ Started(k)' /\ Fed(k)' /\ Over(k)' /\ Back(k)'
    BY <1>1 DEF Started, Fed, Over, Back
  <2>3. Size(k)' = Size(k) BY <1>1, Frame
  <2> QED BY <1>1, <1>2, <2>1, <2>2, <2>3 DEF Reached
<1>16. Parts' BY <1>1, <1>15, MainMoves
<1>17. OneWriterPerPipe' BY <1>1 DEF OneWriterPerPipe, FromChild, ToChild
<1>18. Descriptors' BY <1>1, <1>3 DEF Descriptors, FromChild, ToChild
<1>19. PrintsSorted' BY <1>12 DEF PrintsSorted
<1> QED BY <1>13, <1>14, <1>16, <1>17, <1>18, <1>19

(***************************************************************************)
(* A step about one part: the others are as before.                        *)
(***************************************************************************)
LEMMA OnePart ==
  ASSUME Parts, ~ Alone, UNCHANGED given, Len(data') = Len(data), NEW k \in Part, Holds(k)',
         \A j \in Part : j # k =>
           /\ worker'[j] = worker[j]
           /\ pipe'[ToChild(j)] = pipe[ToChild(j)] /\ pipe'[FromChild(j)] = pipe[FromChild(j)]
           /\ SubSeq(data', Split[j - 1] + 1, Split[j]) = SubSeq(data, Split[j - 1] + 1, Split[j]),
         \A j \in Part : Reached(j)'
  PROVE  Parts'
<1>1. Alone' = Alone /\ Part' = Part BY Frame
<1>2. ASSUME NEW j \in Part PROVE Holds(j)'
  <2>1. CASE j = k BY <2>1
  <2>2. CASE j # k
    <3>1. Holds(j) BY DEF Parts
    <3> QED BY <2>2, <3>1, HoldsOn
  <2> QED BY <2>1, <2>2
<1> QED BY <1>1, <1>2 DEF Parts

(* One that leaves main where it is.                                       *)
LEMMA WorkerMoves ==
  ASSUME Parts, ~ Alone, UNCHANGED <<given, pc, turn>>, Len(data') = Len(data),
         NEW k \in Part, Holds(k)',
         \A j \in Part : j # k =>
           /\ worker'[j] = worker[j]
           /\ pipe'[ToChild(j)] = pipe[ToChild(j)] /\ pipe'[FromChild(j)] = pipe[FromChild(j)]
           /\ SubSeq(data', Split[j - 1] + 1, Split[j]) = SubSeq(data, Split[j - 1] + 1, Split[j]),
         worker[k].st # "none", worker'[k].st # "none",
         worker[k].st = "exited" => worker'[k].st = "exited",
         ~ threaded /\ worker'[k].st \in {"write", "exited"} => Fed(k),
         worker'[k].sent = worker[k].sent \/ ~ Fed(k),
         worker'[k].got = worker[k].got \/ ~ Back(k)
  PROVE  Parts'
<1>1. ASSUME NEW j \in Part PROVE Reached(j)'
  <2>1. Reached(j) BY DEF Parts
  <2>2. /\ Started(j)' <=> Started(j)
        /\ Fed(j)' <=> Fed(j)
        /\ Over(j)' <=> Over(j)
        /\ Back(j)' <=> Back(j)
    BY DEF Started, Fed, Over, Back
  <2>3. Size(j)' = Size(j) /\ threaded' = threaded BY Frame DEF given
  <2>4. CASE j = k BY <2>1, <2>2, <2>3, <2>4 DEF Reached
  <2>5. CASE j # k BY <2>1, <2>2, <2>3, <2>5 DEF Reached
  <2> QED BY <2>4, <2>5
<1> QED BY <1>1, OnePart

LEMMA PipeNames ==
  ASSUME NEW j, NEW k
  PROVE  /\ ToChild(j) # FromChild(k)
         /\ ToChild(j) = ToChild(k) <=> j = k
         /\ FromChild(j) = FromChild(k) <=> j = k
BY DEF ToChild, FromChild

LEMMA HoldsNext ==
  ASSUME UNCHANGED given, Len(data') = Len(data), NEW k,
         PartInv(worker'[k], pipe'[ToChild(k)], pipe'[FromChild(k)],
                 SubSeq(data', Split[k - 1] + 1, Split[k]), PartOf(input, k), Size(k), threaded)
  PROVE  Holds(k)'
<1>1. Split' = Split /\ Size(k)' = Size(k) /\ PartOf(input, k)' = PartOf(input, k)
  BY Frame
<1>2. PartOf(data, k)' = SubSeq(data', Split[k - 1] + 1, Split[k]) BY <1>1 DEF PartOf
<1>3. threaded' = threaded BY DEF given
<1>4. ToChild(k)' = ToChild(k) /\ FromChild(k)' = FromChild(k) BY DEF ToChild, FromChild
<1> QED BY <1>1, <1>2, <1>3, <1>4 DEF Holds

LEMMA CreateStep ==
  ASSUME IInv, CreateThread PROVE IInv'
<1> USE DEF IInv
<1>1. /\ pc = "create" /\ worker' = [worker EXCEPT ![turn].st = "sort"]
      /\ NextTurn("create", "join") /\ UNCHANGED <<given, data, pipe, ends, out>>
  BY DEF CreateThread, Become
<1>2. input' = input /\ count' = count /\ threaded' = threaded BY <1>1 DEF given
<1>3. Alone' = Alone /\ Part' = Part /\ Pipe' = Pipe /\ \A k : Size(k)' = Size(k)
  BY <1>1, Frame
<1>4. PICK t \in Part :
        /\ t = turn /\ turn' \in Part /\ turn \in Nat /\ count \in Nat
        /\ \/ t < count /\ turn' = t + 1 /\ pc' = "create"
           \/ t = count /\ turn' = 1 /\ pc' = "join"
  BY <1>1, <1>2, NextTurnFacts DEF TypeOK
<1>5. ~ Alone /\ threaded BY <1>1 DEF Places
<1>6. /\ worker' \in [Part -> Worker]
      /\ worker'[t] = [worker[t] EXCEPT !.st = "sort"] /\ worker'[t].st = "sort"
      /\ \A k \in Part : k # t => worker'[k] = worker[k]
      /\ \A k \in Part : worker'[k].numbers = worker[k].numbers
  <2>1. PICK w : w = [worker[t] EXCEPT !.st = "sort"] OBVIOUS
  <2>2. w \in Worker /\ w.st = "sort" /\ w.numbers = worker[t].numbers
    BY <2>1 DEF TypeOK, Worker
  <2>3. worker' = [worker EXCEPT ![t] = w] BY <1>1, <1>4, <2>1
  <2> QED BY <2>1, <2>2, <2>3 DEF TypeOK
<1>7. Holds(t) /\ worker[t].st = "none"
  <2>1. Holds(t) /\ Reached(t) BY <1>4, <1>5 DEF Parts
  <2>2. ~ Started(t) BY <1>1, <1>4 DEF Started
  <2> QED BY <2>1, <2>2 DEF Reached
<1>8. TypeOK' BY <1>1, <1>2, <1>3, <1>4, <1>6 DEF TypeOK
<1>9. Places' BY <1>1, <1>2, <1>3, <1>4, <1>5 DEF Places
<1>10. Holds(t)'
  <2>1. PartInv(worker'[t], pipe[ToChild(t)], pipe[FromChild(t)],
                PartOf(data, t), PartOf(input, t), Size(t), threaded)
    BY <1>4, <1>5, <1>6, <1>7, PartsTyped, Starts DEF Holds
  <2> QED BY <1>1, <2>1, HoldsNext DEF PartOf
<1>11. ASSUME NEW k \in Part PROVE Reached(k)'
  <2>1. Reached(k) BY <1>5 DEF Parts
  <2>2. k \in Nat /\ 1 <= k /\ k <= count BY <1>4 DEF Part
  <2>3. Started(k)' <=> Started(k) \/ k = t BY <1>1, <1>4, <2>2 DEF Started
  <2>4. worker'[k].st = "none" <=> worker[k].st = "none" /\ k # t BY <1>6, <1>7
  <2>5. ~ Over(k)' BY <1>4, <2>2 DEF Over
  <2> QED BY <1>2, <1>5, <2>1, <2>3, <2>4, <2>5 DEF Reached
<1>12. Parts' BY <1>1, <1>5, <1>6, <1>10, <1>11, OnePart
<1>13. OneWriterPerPipe'
  <2>1. \A k \in Part : worker[k].st = "forked" => worker'[k].st = "forked" BY <1>6, <1>7
  <2> QED BY <1>1, <2>1 DEF OneWriterPerPipe, FromChild, ToChild, TypeOK, Main
<1>14. Descriptors'
  <2>1. \A k \in Part : worker'[k].st \in {"forked", "read", "write"} =>
          worker[k].st \in {"forked", "read", "write"}
    BY <1>6
  <2> QED BY <1>1, <1>3, <1>4, <2>1 DEF Descriptors, FromChild, ToChild
<1>15. PrintsSorted' BY <1>4 DEF PrintsSorted
<1> QED BY <1>8, <1>9, <1>12, <1>13, <1>14, <1>15

LEMMA SortingStep ==
  ASSUME IInv, NEW k \in Part, SortStep(k) PROVE IInv'
<1> USE DEF IInv
<1> DEFINE w == worker[k]
           x == worker'[k]
<1>1. /\ w.st = "sort" /\ UNCHANGED <<given, pc, turn, pipe, ends, out>>
      /\ IF w.i <= Size(k)
           THEN /\ data' = Exchange(data, Split[k - 1] + w.i, Split[k - 1] + w.j)
                /\ worker' = [worker EXCEPT
                     ![k].i = IF w.j + 1 < w.i THEN w.i ELSE w.i + 1,
                     ![k].j = IF w.j + 1 < w.i THEN w.j + 1 ELSE 1]
           ELSE /\ worker' = [worker EXCEPT ![k].st = "exited"]
                /\ UNCHANGED data
  BY DEF SortStep, Become
<1>2. input' = input /\ count' = count /\ threaded' = threaded BY <1>1 DEF given
<1>3. ~ Alone BY <1>1 DEF Parts
<1>4. Holds(k) /\ Reached(k) BY <1>3 DEF Parts
<1>5. threaded BY <1>1, <1>4 DEF Holds, PartInv
<1>6. w \in Worker /\ w.i \in Nat /\ w.j \in Nat /\ worker \in [Part -> Worker]
  BY WorkerTyped DEF TypeOK
<1>7. /\ worker' \in [Part -> Worker]
      /\ \A j \in Part : j # k => worker'[j] = worker[j]
      /\ x.numbers = w.numbers /\ x.sent = w.sent /\ x.got = w.got
      /\ x.st \in {"sort", "exited"}
  <2>1. CASE w.i <= Size(k)
    <3>1. PICK i \in Nat, j \in Nat :
            /\ i = (IF w.j + 1 < w.i THEN w.i ELSE w.i + 1)
            /\ j = (IF w.j + 1 < w.i THEN w.j + 1 ELSE 1)
      BY <1>6
    <3>2. worker' = [worker EXCEPT ![k].i = i, ![k].j = j] BY <1>1, <2>1, <3>1
    <3> QED BY <1>1, <1>6, <3>2 DEF Worker
  <2>2. CASE ~ (w.i <= Size(k)) BY <1>1, <1>6, <2>2, SMTT(30) DEF Worker
  <2> QED BY <2>1, <2>2
<1>8. /\ data' \in [DOMAIN input -> Value] /\ Len(data') = Len(data)
      /\ \A j \in Part : j # k =>
           SubSeq(data', Split[j - 1] + 1, Split[j]) = SubSeq(data, Split[j - 1] + 1, Split[j])
      /\ PartInv(x, pipe'[ToChild(k)], pipe'[FromChild(k)],
                 SubSeq(data', Split[k - 1] + 1, Split[k]), PartOf(input, k), Size(k), threaded)
  <2>1. CASE w.i <= Size(k)
    <3>1. PICK n \in Nat, c \in Nat \ {0} :
            /\ n = Len(data) /\ c = count /\ data \in [1 .. n -> Value] /\ data \in Seq(Value)
            /\ DOMAIN input = 1 .. n
      BY <1>3, SplitFacts
    <3>2. PICK s : s = Split OBVIOUS
    <3>3. Cut(s, c, n) /\ Part = 1 .. c BY <1>3, <3>1, <3>2, SplitFacts DEF Part
    <3>4. PICK a \in 0 .. n, b \in 0 .. n : a = s[k - 1] /\ b = s[k] /\ a <= b
      BY <1>3, <3>1, <3>2, SplitFacts
    <3>5. Size(k) = b - a BY <3>2, <3>4 DEF Size
    <3>6. PICK i \in 1 .. b - a : i = w.i
      BY <1>1, <1>4, <1>6, <2>1, <3>5 DEF Holds, PartInv
    <3>7. PICK j \in 1 .. b - a : j = w.j /\ i # j
      BY <1>1, <1>4, <1>6, <3>6 DEF Holds, PartInv
    <3>8. Exchanged(data', data, a, i, j)
      BY <1>1, <2>1, <3>2, <3>4, <3>6, <3>7 DEF Exchanged
    <3>9. /\ data' \in [1 .. n -> Value]
          /\ \A y \in 1 .. n : y <= a \/ b < y => data'[y] = data[y]
          /\ Exchanged(SubSeq(data', a + 1, b), SubSeq(data, a + 1, b), 0, i, j)
      BY <3>1, <3>4, <3>7, <3>8, PieceExchange
    <3>10. ASSUME NEW h \in Part, h # k
           PROVE  SubSeq(data', Split[h - 1] + 1, Split[h])
                    = SubSeq(data, Split[h - 1] + 1, Split[h])
      <4>1. PICK v \in [1 .. n -> Value], u \in [1 .. n -> Value] : v = data /\ u = data'
        BY <3>1, <3>9
      <4>2. Piece(u, s, h) = Piece(v, s, h)
        <5>1. Outside(u, v, s, k, n) BY <3>4, <3>9, <4>1 DEF Outside
        <5>2. k \in 1 .. c /\ h \in 1 .. c BY <3>3
        <5> QED BY <3>3, <3>10, <5>1, <5>2, OtherPiece
      <4> QED BY <3>2, <4>1, <4>2 DEF Piece
    <3>11. Len(data') = n /\ DOMAIN data' = 1 .. n BY <3>9
    <3>12. PartInv(x, pipe[ToChild(k)], pipe[FromChild(k)],
                   Exchange(PartOf(data, k), w.i, w.j), PartOf(input, k), Size(k), threaded)
      <4>1. Typed(w, pipe[ToChild(k)], pipe[FromChild(k)],
                  PartOf(data, k), PartOf(input, k), Size(k))
        BY <1>3, PartsTyped
      <4>2. /\ x.st = w.st
            /\ x.i = (IF w.j + 1 < w.i THEN w.i ELSE w.i + 1)
            /\ x.j = (IF w.j + 1 < w.i THEN w.j + 1 ELSE 1)
        BY <1>1, <1>6, <2>1 DEF Worker
      <4>3. PartInv(w, pipe[ToChild(k)], pipe[FromChild(k)],
                    PartOf(data, k), PartOf(input, k), Size(k), threaded)
        BY <1>4 DEF Holds
      <4> HIDE DEF w, x
      <4>4. PICK th \in BOOLEAN : th = threaded BY <1>5
      <4> QED BY <1>1, <1>7, <2>1, <4>1, <4>2, <4>3, <4>4, Compares
    <3>13. SubSeq(data', Split[k - 1] + 1, Split[k]) = Exchange(PartOf(data, k), w.i, w.j)
      <4>1. 0 + i = w.i /\ 0 + j = w.j BY <3>6, <3>7
      <4>2. PartOf(data, k) = SubSeq(data, a + 1, b) BY <3>2, <3>4 DEF PartOf
      <4>3. SubSeq(data', a + 1, b) = Exchange(SubSeq(data, a + 1, b), w.i, w.j)
        BY <3>9, <4>1 DEF Exchanged
      <4> QED BY <3>2, <3>4, <4>2, <4>3
    <3> QED BY <1>1, <3>1, <3>9, <3>10, <3>11, <3>12, <3>13
  <2>2. CASE ~ (w.i <= Size(k))
    <3>1. x.st = "exited" /\ data' = data BY <1>1, <1>6, <2>2 DEF Worker
    <3>2. Typed(w, pipe[ToChild(k)], pipe[FromChild(k)],
                PartOf(data, k), PartOf(input, k), Size(k))
      BY <1>3, PartsTyped
    <3>3. PartInv(x, pipe[ToChild(k)], pipe[FromChild(k)],
                  PartOf(data, k), PartOf(input, k), Size(k), threaded)
      <4>1. PICK th \in BOOLEAN : th = threaded BY <1>5
      <4>2. PartInv(w, pipe[ToChild(k)], pipe[FromChild(k)],
                    PartOf(data, k), PartOf(input, k), Size(k), threaded)
        BY <1>4 DEF Holds
      <4>3. w.st = "sort" BY <1>1
      <4> HIDE DEF w, x
      <4> QED BY <1>7, <2>2, <3>1, <3>2, <4>1, <4>2, <4>3, ThreadDone
    <3>4. PartOf(data, k) = SubSeq(data', Split[k - 1] + 1, Split[k]) BY <3>1 DEF PartOf
    <3>5. pipe' = pipe BY <1>1
    <3>6. data' \in [DOMAIN input -> Value] BY <3>1 DEF TypeOK
    <3> HIDE DEF x
    <3> QED BY <3>1, <3>3, <3>4, <3>5, <3>6
  <2> QED BY <2>1, <2>2
<1>9. Alone' = Alone /\ Part' = Part /\ Pipe' = Pipe BY <1>1, <1>8, Frame
<1>10. TypeOK' BY <1>1, <1>2, <1>7, <1>8, <1>9 DEF TypeOK
<1>11. Places'
  <2>1. pc # "begin"
    <3>1. Started(k) BY <1>1, <1>4 DEF Reached
    <3> QED BY <3>1 DEF Started
  <2> QED BY <1>1, <1>2, <1>9, <2>1 DEF Places
<1>12. Parts'
  <2>1. Holds(k)' BY <1>1, <1>8, HoldsNext
  <2> QED BY <1>1, <1>3, <1>5, <1>7, <1>8, <2>1, WorkerMoves
<1>13. OneWriterPerPipe'
  <2>1. \A j \in Part : worker[j].st = "forked" => worker'[j].st = "forked" BY <1>1, <1>7
  <2> QED BY <1>1, <2>1 DEF OneWriterPerPipe, FromChild, ToChild, TypeOK, Main
<1>14. Descriptors'
  <2>1. \A j \in Part : worker'[j].st \in {"forked", "read", "write"} =>
          worker[j].st \in {"forked", "read", "write"}
    BY <1>7
  <2> QED BY <1>1, <1>9, <2>1 DEF Descriptors, FromChild, ToChild
<1>15. PrintsSorted' BY <1>1, <1>2 DEF PrintsSorted
<1> QED BY <1>10, <1>11, <1>12, <1>13, <1>14, <1>15

(***************************************************************************)
(* The steps of a child.  First the descriptors: it may close its own.     *)
(***************************************************************************)
LEMMA DescriptorsOn ==
  ASSUME TypeOK, OneWriterPerPipe, Descriptors, UNCHANGED <<given, pc, turn>>,
         NEW k \in Part, ends' \subseteq ends,
         \A d \in ends : d[1] # k => d \in ends',
         \A j \in Part : j # k => worker'[j] = worker[j],
         worker'[k].st # "forked",
         worker[k].st = "forked" => <<k, ToChild(k), "w">> \notin ends',
         worker'[k].st \in {"read", "write"} =>
           /\ worker[k].st \in {"forked", "read", "write"}
           /\ <<k, FromChild(k), "w">> \in ends => <<k, FromChild(k), "w">> \in ends'
  PROVE  OneWriterPerPipe' /\ Descriptors'
<1>1. Part' = Part /\ \A j : ToChild(j)' = ToChild(j) /\ FromChild(j)' = FromChild(j)
  BY DEF given, Part, ToChild, FromChild
<1>2. \A d \in ends : d = <<d[1], d[2], d[3]>> /\ d[1] \in Part \cup {Main} BY DEF TypeOK
<1>3. \A j \in Part : j # Main BY DEF Part, Main
<1>4. OneWriterPerPipe'
  <2> SUFFICES ASSUME NEW d \in ends', d[3] = "w", d[1] # Main
               PROVE  \/ d[2] = FromChild(d[1])
                      \/ d[2] = ToChild(d[1]) /\ worker'[d[1]].st = "forked"
    BY <1>1 DEF OneWriterPerPipe, ToChild, FromChild, Main
  <2>1. \/ d[2] = FromChild(d[1])
        \/ d[2] = ToChild(d[1]) /\ worker[d[1]].st = "forked"
    BY DEF OneWriterPerPipe
  <2>2. d = <<d[1], d[2], "w">> /\ d[1] \in Part BY <1>2
  <2> QED BY <2>1, <2>2
<1>5. ASSUME NEW d \in ends', d[1] = Main, d[3] = "w"
      PROVE  \/ pc \in {"close", "write"} /\ d[2] = ToChild(turn)
             \/ pc = "close" /\ d[2] = FromChild(turn)
  BY <1>5 DEF Descriptors
<1>6. ASSUME pc \in {"close", "write"} PROVE <<Main, ToChild(turn), "w">> \in ends'
  BY <1>3, <1>6 DEF Descriptors
<1>7. ASSUME NEW j \in Part, worker'[j].st \in {"forked", "read", "write"}
      PROVE  <<j, FromChild(j), "w">> \in ends'
  <2>1. CASE j = k BY <1>7, <2>1 DEF Descriptors
  <2>2. CASE j # k BY <1>7, <2>2 DEF Descriptors
  <2> QED BY <2>1, <2>2
<1>8. Descriptors' BY <1>1, <1>5, <1>6, <1>7 DEF Descriptors, ToChild, FromChild, Main
<1> QED BY <1>4, <1>8

LEMMA ChildClosesStep ==
  ASSUME IInv, NEW k \in Part, ChildCloses(k) PROVE IInv'
<1> USE DEF IInv
<1>1. /\ worker[k].st = "forked" /\ UNCHANGED <<given, data, pc, turn, pipe, out>>
      /\ ends' = ends \ {<<k, ToChild(k), "w">>, <<k, FromChild(k), "r">>}
      /\ worker' = [worker EXCEPT ![k].st = "read"]
  BY DEF ChildCloses, Become
<1>2. input' = input /\ count' = count /\ threaded' = threaded BY <1>1 DEF given
<1>3. ~ Alone BY <1>1 DEF Parts
<1>4. Holds(k) /\ Reached(k) BY <1>3 DEF Parts
<1>5. ~ threaded BY <1>1, <1>4 DEF Holds, PartInv
<1>6. /\ worker' \in [Part -> Worker] /\ worker'[k].st = "read"
      /\ worker'[k].numbers = worker[k].numbers /\ worker'[k].sent = worker[k].sent
      /\ worker'[k].got = worker[k].got
      /\ \A j \in Part : j # k => worker'[j] = worker[j]
  BY <1>1 DEF TypeOK, Worker
<1>7. Alone' = Alone /\ Part' = Part /\ Pipe' = Pipe BY <1>1, Frame
<1>8. TypeOK' BY <1>1, <1>2, <1>6, <1>7 DEF TypeOK
<1>9. Places' BY <1>1, <1>2, <1>7 DEF Places
<1>10. Parts'
  <2>1. PICK th \in BOOLEAN : th = threaded BY DEF TypeOK
  <2>2. Typed(worker[k], pipe[ToChild(k)], pipe[FromChild(k)],
              PartOf(data, k), PartOf(input, k), Size(k))
    BY <1>3, PartsTyped
  <2>3. PartInv(worker'[k], pipe[ToChild(k)], pipe[FromChild(k)],
                PartOf(data, k), PartOf(input, k), Size(k), threaded)
    <3>1. PartInv(worker[k], pipe[ToChild(k)], pipe[FromChild(k)],
                  PartOf(data, k), PartOf(input, k), Size(k), th)
      BY <1>4, <2>1 DEF Holds
    <3>2. worker[k].st = "forked" /\ worker'[k].st = "read" BY <1>1, <1>6
    <3> QED BY <1>6, <2>1, <2>2, <3>1, <3>2, Goes
  <2>4. Holds(k)' BY <1>1, <2>3, HoldsNext DEF PartOf
  <2> QED BY <1>1, <1>3, <1>6, <2>4, WorkerMoves
<1>11. OneWriterPerPipe' /\ Descriptors'
  <2>1. <<k, ToChild(k), "w">> \notin ends' BY <1>1
  <2>2. <<k, FromChild(k), "w">> \in ends => <<k, FromChild(k), "w">> \in ends'
    BY <1>1 DEF ToChild, FromChild
  <2>3. ends' \subseteq ends /\ \A d \in ends : d[1] # k => d \in ends' BY <1>1
  <2>4. UNCHANGED <<given, pc, turn>> /\ worker[k].st = "forked" BY <1>1
  <2> QED BY <1>6, <2>1, <2>2, <2>3, <2>4, DescriptorsOn
<1>12. PrintsSorted' BY <1>1, <1>2 DEF PrintsSorted
<1> QED BY <1>8, <1>9, <1>10, <1>11, <1>12

LEMMA ChildReadsStep ==
  ASSUME IInv, NEW k \in Part, ChildReads(k) PROVE IInv'
<1> USE DEF IInv
<1> DEFINE p == ToChild(k)
           w == worker[k]
           x == worker'[k]
<1>1. w.st = "read" /\ UNCHANGED <<given, data, pc, turn, out>> BY DEF ChildReads
<1>2. input' = input /\ count' = count /\ threaded' = threaded BY <1>1 DEF given
<1>3. ~ Alone BY <1>1 DEF Parts
<1>4. Holds(k) /\ Reached(k) BY <1>3 DEF Parts
<1>5. PICK th \in BOOLEAN : th = threaded BY DEF TypeOK
<1>6. /\ Typed(w, pipe[p], pipe[FromChild(k)], PartOf(data, k), PartOf(input, k), Size(k))
      /\ p \in Pipe /\ w \in Worker /\ pipe[p] \in Seq(Value) /\ w.numbers \in Seq(Value)
      /\ Len(w.numbers) \in Nat /\ Len(w.numbers) <= MaxSize
  BY <1>3, PartsTyped, WorkerTyped DEF Typed, TypeOK
<1>7. /\ PartInv(w, pipe[p], pipe[FromChild(k)], PartOf(data, k), PartOf(input, k), Size(k), th)
      /\ ~ threaded
  BY <1>1, <1>4, <1>5 DEF Holds, PartInv
<1>8. Alone' = Alone /\ Part' = Part /\ Pipe' = Pipe BY <1>1, Frame
<1>9. Places' BY <1>1, <1>2, <1>8 DEF Places
<1>10. PrintsSorted' BY <1>1, <1>2 DEF PrintsSorted
<1>11. SubSeq(data', Split[k - 1] + 1, Split[k]) = PartOf(data, k) BY <1>1 DEF PartOf
<1>12. CASE pipe[p] # <<>> /\ worker' = [worker EXCEPT ![k].numbers = Append(@, Head(pipe[p]))]
            /\ pipe' = [pipe EXCEPT ![p] = Tail(@)] /\ UNCHANGED ends
  <2>1. PICK num \in Seq(Value), to \in Seq(Value) :
          num = Append(w.numbers, Head(pipe[p])) /\ to = Tail(pipe[p])
          /\ Len(to) <= Len(pipe[p]) /\ Len(num) \in Nat /\ Len(num) = Len(w.numbers) + 1
    <3>1. PICK a \in Seq(Value), b \in Seq(Value) : a = w.numbers /\ b = pipe[p] BY <1>6
    <3>2. b # <<>> BY <1>12, <3>1
    <3>3. Append(a, Head(b)) \in Seq(Value) /\ Tail(b) \in Seq(Value)
          /\ Len(b) \in Nat /\ Len(Tail(b)) = Len(b) - 1 /\ Len(Tail(b)) <= Len(b)
      BY <3>2, MoveHead
    <3>4. Head(b) \in Value BY <3>2, HeadTailProperties
    <3>5. Len(Append(a, Head(b))) = Len(a) + 1 /\ Len(a) \in Nat BY <3>4, AppendProperties
    <3>6. Len(Append(a, Head(b))) \in Nat BY <3>5
    <3> HIDE DEF w, p
    <3> QED BY <3>1, <3>3, <3>5, <3>6
  <2>2. /\ worker' \in [Part -> Worker] /\ x.numbers = num /\ x.st = w.st
        /\ x.sent = w.sent /\ x.got = w.got
        /\ \A j \in Part : j # k => worker'[j] = worker[j]
    <3>1. worker' = [worker EXCEPT ![k].numbers = num] BY <1>12, <2>1
    <3> QED BY <1>6, <3>1 DEF TypeOK, Worker
  <2>3. /\ pipe' \in [Pipe -> Seq(Value)] /\ pipe'[p] = to
        /\ \A q \in Pipe : q # p => pipe'[q] = pipe[q]
    <3>1. pipe' = [pipe EXCEPT ![p] = to] BY <1>12, <2>1
    <3> QED BY <1>6, <3>1 DEF TypeOK
  <2>4. PartInv(x, to, pipe[FromChild(k)], PartOf(data, k), PartOf(input, k), Size(k), th)
    <3>1. w.st = "read" /\ pipe[p] # <<>> BY <1>1, <1>12
    <3>2. x.numbers = Append(w.numbers, Head(pipe[p])) /\ to = Tail(pipe[p]) BY <2>1, <2>2
    <3> HIDE DEF p, w, x
    <3>3. PartInv(x, Tail(pipe[p]), pipe[FromChild(k)],
                  PartOf(data, k), PartOf(input, k), Size(k), th)
      BY <1>6, <1>7, <2>2, <3>1, <3>2, Receives
    <3> QED BY <3>2, <3>3
  <2>5. Len(num) <= MaxSize
    <3>1. Len(x.numbers) <= Size(k)
      <4>1. x \in Worker BY <2>2
      <4>2. Typed(x, to, pipe[FromChild(k)], PartOf(data, k), PartOf(input, k), Size(k))
        BY <1>6, <2>1, <4>1 DEF Typed
      <4> HIDE DEF w, x
      <4> QED BY <1>1, <2>2, <2>4, <4>2, Fits
    <3>2. Size(k) <= MaxSize /\ Size(k) \in Nat /\ MaxSize \in Nat
      BY <1>3, SplitFacts, SortAssumption
    <3> QED BY <2>1, <2>2, <3>1, <3>2
  <2>6. TypeOK'
    <3>1. \A q \in Pipe : Len(pipe'[q]) <= Capacity
      <4>1. Len(pipe[p]) \in Nat /\ Len(to) \in Nat /\ Capacity \in Nat
        BY <1>6, LenProperties, SortAssumption
      <4>2. \A q \in Pipe : Len(pipe[q]) <= Capacity BY DEF TypeOK
      <4>3. Len(to) <= Capacity
        <5>1. Len(to) <= Len(pipe[p]) /\ Len(pipe[p]) <= Capacity BY <1>6, <2>1, <4>2
        <5> QED BY <4>1, <5>1
      <4> QED BY <2>3, <4>2, <4>3
    <3>2. \A j \in Part : Len(worker'[j].numbers) <= MaxSize BY <2>2, <2>5 DEF TypeOK
    <3> QED BY <1>1, <1>2, <1>8, <1>12, <2>2, <2>3, <3>1, <3>2 DEF TypeOK
  <2>7. Parts'
    <3>1. \A j \in Part :
            /\ pipe'[FromChild(j)] = pipe[FromChild(j)]
            /\ j # k => pipe'[ToChild(j)] = pipe[ToChild(j)]
      BY <1>3, <2>3, PipeNames, PartsTyped
    <3>2. Holds(k)' BY <1>1, <1>5, <1>11, <2>3, <2>4, <3>1, HoldsNext
    <3> QED BY <1>1, <1>3, <2>2, <3>1, <3>2, WorkerMoves
  <2>8. OneWriterPerPipe' /\ Descriptors' BY <1>1, <1>12, <2>2, DescriptorsOn
  <2> QED BY <1>9, <1>10, <2>6, <2>7, <2>8
<1>13. CASE /\ AtEnd(p)
            /\ worker' = [worker EXCEPT
                 ![k].numbers = BubbleSort(@),
                 ![k].st = IF Len(w.numbers) = Size(k) THEN "write" ELSE "aborted"]
            /\ ends' = IF Len(w.numbers) = Size(k)
                         THEN ends \ {<<k, p, "r">>} ELSE {d \in ends : d[1] # k}
            /\ UNCHANGED pipe
  <2>1. pipe[p] = <<>> /\ ~ \E d \in ends : d[2] = p /\ d[3] = "w" BY <1>13 DEF AtEnd
  <2>2. Fed(k) /\ w.sent = Size(k)
    <3>1. Started(k) BY <1>1, <1>4 DEF Reached
    <3>2. turn \in Nat /\ k \in Nat
      <4>1. turn \in Part BY DEF TypeOK
      <4> QED BY <4>1 DEF Part
    <3>3. pc \in {"close", "write"} => <<Main, ToChild(turn), "w">> \in ends BY DEF Descriptors
    <3>4. ~ (pc \in {"close", "write"} /\ k = turn) BY <2>1, <3>3
    <3>5. pc \notin {"create", "join"} BY <1>7 DEF Places
    <3>6. Fed(k) BY <3>1, <3>2, <3>4, <3>5 DEF Started, Fed
    <3> QED BY <1>4, <1>7, <3>6 DEF Reached
  <2>3. PICK num \in Seq(Value) :
          /\ num = BubbleSort(w.numbers) /\ Len(num) = Len(w.numbers)
    <3>1. PICK a \in Seq(Value) : a = w.numbers BY <1>6
    <3>2. Value \in SUBSET Int BY SortAssumption
    <3>3. BubbleSort(a) \in Seq(Value) /\ Len(BubbleSort(a)) = Len(a) BY <3>2, BubbleFacts
    <3> QED BY <3>1, <3>3
  <2>4. PICK st \in {"write", "aborted"} :
          st = (IF Len(w.numbers) = Size(k) THEN "write" ELSE "aborted")
    OBVIOUS
  <2>5. /\ worker' \in [Part -> Worker] /\ x.numbers = num /\ x.st = st
        /\ x.sent = w.sent /\ x.got = w.got
        /\ \A j \in Part : j # k => worker'[j] = worker[j]
    <3>1. worker' = [worker EXCEPT ![k].numbers = num, ![k].st = st] BY <1>13, <2>3, <2>4
    <3> QED BY <1>6, <3>1 DEF TypeOK, Worker
  <2>6. Len(w.numbers) = Size(k)
    <3>1. w.sent = Size(k) BY <2>2
    <3> HIDE DEF w
    <3> QED BY <1>1, <1>6, <1>7, <2>1, <3>1, Fits
  <2>7. x.st = "write" /\ ends' = ends \ {<<k, p, "r">>} BY <1>13, <2>4, <2>5, <2>6
  <2>8. PartInv(x, pipe[p], pipe[FromChild(k)], PartOf(data, k), PartOf(input, k), Size(k), th)
    <3>1. w.st = "read" /\ w.sent = Size(k) /\ x.st = "write" BY <1>1, <2>2, <2>7
    <3>2. x.numbers = BubbleSort(w.numbers) /\ pipe[p] = <<>> BY <2>1, <2>3, <2>5
    <3> HIDE DEF p, w, x
    <3>3. PartInv(x, <<>>, pipe[FromChild(k)], PartOf(data, k), PartOf(input, k), Size(k), th)
      BY <1>6, <1>7, <2>5, <3>1, <3>2, AllRead
    <3> QED BY <3>2, <3>3
  <2>9. TypeOK'
    <3>1. \A j \in Part : Len(worker'[j].numbers) <= MaxSize
      BY <1>6, <2>3, <2>5 DEF TypeOK
    <3> QED BY <1>1, <1>2, <1>8, <1>13, <2>5, <2>7, <3>1 DEF TypeOK
  <2>10. Parts'
    <3>1. Holds(k)' BY <1>1, <1>5, <1>11, <1>13, <2>8, HoldsNext
    <3> QED BY <1>1, <1>3, <1>13, <2>2, <2>5, <2>7, <3>1, WorkerMoves
  <2>11. OneWriterPerPipe' /\ Descriptors'
    <3>1. ends' \subseteq ends /\ \A d \in ends : d[1] # k => d \in ends' BY <2>7
    <3>2. <<k, FromChild(k), "w">> \in ends => <<k, FromChild(k), "w">> \in ends' BY <2>7
    <3> QED BY <1>1, <2>5, <2>7, <3>1, <3>2, DescriptorsOn
  <2> QED BY <1>9, <1>10, <2>9, <2>10, <2>11
<1> QED BY <1>12, <1>13 DEF ChildReads

LEMMA ChildWritesStep ==
  ASSUME IInv, NEW k \in Part, ChildWrites(k) PROVE IInv'
<1> USE DEF IInv
<1> DEFINE p == FromChild(k)
           w == worker[k]
           x == worker'[k]
<1>1. w.st = "write" /\ UNCHANGED <<given, data, pc, turn, out>> BY DEF ChildWrites
<1>2. input' = input /\ count' = count /\ threaded' = threaded BY <1>1 DEF given
<1>3. ~ Alone BY <1>1 DEF Parts
<1>4. Holds(k) /\ Reached(k) BY <1>3 DEF Parts
<1>5. PICK th \in BOOLEAN : th = threaded BY DEF TypeOK
<1>6. /\ Typed(w, pipe[ToChild(k)], pipe[p], PartOf(data, k), PartOf(input, k), Size(k))
      /\ p \in Pipe /\ w \in Worker /\ pipe[p] \in Seq(Value) /\ w.numbers \in Seq(Value)
      /\ Len(w.numbers) \in Nat /\ Len(w.numbers) <= MaxSize
  BY <1>3, PartsTyped, WorkerTyped DEF Typed, TypeOK
<1>7. /\ PartInv(w, pipe[ToChild(k)], pipe[p],
                 PartOf(data, k), PartOf(input, k), Size(k), th)
      /\ ~ threaded /\ Fed(k)
  BY <1>1, <1>4, <1>5 DEF Holds, PartInv, Reached
<1>8. Alone' = Alone /\ Part' = Part /\ Pipe' = Pipe BY <1>1, Frame
<1>9. Places' BY <1>1, <1>2, <1>8 DEF Places
<1>10. PrintsSorted' BY <1>1, <1>2 DEF PrintsSorted
<1>11. SubSeq(data', Split[k - 1] + 1, Split[k]) = PartOf(data, k) BY <1>1 DEF PartOf
<1>12. CASE /\ w.numbers # <<>> /\ CanWrite(p)
            /\ pipe' = [pipe EXCEPT ![p] = Append(@, Head(w.numbers))]
            /\ worker' = [worker EXCEPT ![k].numbers = Tail(@)] /\ UNCHANGED ends
  <2>1. PICK num \in Seq(Value), from \in Seq(Value) :
          /\ num = Tail(w.numbers) /\ from = Append(pipe[p], Head(w.numbers))
          /\ Len(num) \in Nat /\ Len(num) <= Len(w.numbers)
          /\ Len(from) = Len(pipe[p]) + 1 /\ Len(pipe[p]) \in Nat
    <3>1. PICK a \in Seq(Value), b \in Seq(Value) : a = pipe[p] /\ b = w.numbers BY <1>6
    <3>2. b # <<>> BY <1>12, <3>1
    <3>3. /\ Append(a, Head(b)) \in Seq(Value) /\ Tail(b) \in Seq(Value)
          /\ Len(b) \in Nat /\ Len(Tail(b)) = Len(b) - 1 /\ Len(Tail(b)) <= Len(b)
      BY <3>2, MoveHead
    <3>4. Head(b) \in Value /\ Len(Tail(b)) \in Nat
      BY <3>2, <3>3, HeadTailProperties, LenProperties
    <3>5. Len(Append(a, Head(b))) = Len(a) + 1 /\ Len(a) \in Nat BY <3>4, AppendProperties
    <3> HIDE DEF w, p
    <3> QED BY <3>1, <3>3, <3>4, <3>5
  <2>2. /\ worker' \in [Part -> Worker] /\ x.numbers = num /\ x.st = w.st
        /\ x.sent = w.sent /\ x.got = w.got
        /\ \A j \in Part : j # k => worker'[j] = worker[j]
    <3>1. worker' = [worker EXCEPT ![k].numbers = num] BY <1>12, <2>1
    <3> QED BY <1>6, <3>1 DEF TypeOK, Worker
  <2>3. /\ pipe' \in [Pipe -> Seq(Value)] /\ pipe'[p] = from
        /\ \A q \in Pipe : q # p => pipe'[q] = pipe[q]
    <3>1. pipe' = [pipe EXCEPT ![p] = from] BY <1>12, <2>1
    <3> QED BY <1>6, <3>1 DEF TypeOK
  <2>4. PartInv(x, pipe[ToChild(k)], from, PartOf(data, k), PartOf(input, k), Size(k), th)
    <3>1. w.st = "write" /\ w.numbers # <<>> BY <1>1, <1>12
    <3>2. x.numbers = Tail(w.numbers) /\ from = Append(pipe[p], Head(w.numbers))
      BY <2>1, <2>2
    <3> HIDE DEF p, w, x
    <3>3. PartInv(x, pipe[ToChild(k)], Append(pipe[p], Head(w.numbers)),
                  PartOf(data, k), PartOf(input, k), Size(k), th)
      BY <1>6, <1>7, <2>2, <3>1, <3>2, Gives
    <3> QED BY <3>2, <3>3
  <2>5. TypeOK'
    <3>1. Len(from) <= Capacity
      <4>1. Len(pipe[p]) < Capacity /\ Capacity \in Nat BY <1>12, SortAssumption DEF CanWrite
      <4> QED BY <2>1, <4>1
    <3>2. \A q \in Pipe : Len(pipe'[q]) <= Capacity BY <2>3, <3>1 DEF TypeOK
    <3>3. Len(num) <= MaxSize
      <4>1. MaxSize \in Nat BY SortAssumption
      <4> QED BY <1>6, <2>1, <4>1
    <3>4. \A j \in Part : Len(worker'[j].numbers) <= MaxSize BY <2>2, <3>3 DEF TypeOK
    <3> QED BY <1>1, <1>2, <1>8, <1>12, <2>2, <2>3, <3>2, <3>4 DEF TypeOK
  <2>6. Parts'
    <3>1. \A j \in Part :
            /\ pipe'[ToChild(j)] = pipe[ToChild(j)]
            /\ j # k => pipe'[FromChild(j)] = pipe[FromChild(j)]
      BY <1>3, <2>3, PipeNames, PartsTyped
    <3>2. Holds(k)' BY <1>1, <1>5, <1>11, <2>3, <2>4, <3>1, HoldsNext
    <3> QED BY <1>1, <1>3, <1>7, <2>2, <3>1, <3>2, WorkerMoves
  <2>7. OneWriterPerPipe' /\ Descriptors' BY <1>1, <1>12, <2>2, DescriptorsOn
  <2> QED BY <1>9, <1>10, <2>5, <2>6, <2>7
<1>13. CASE /\ w.numbers = <<>> /\ ends' = {d \in ends : d[1] # k}
            /\ worker' = [worker EXCEPT ![k].st = "exited"] /\ UNCHANGED pipe
  <2>1. /\ worker' \in [Part -> Worker] /\ x.st = "exited" /\ x.numbers = w.numbers
        /\ x.sent = w.sent /\ x.got = w.got
        /\ \A j \in Part : j # k => worker'[j] = worker[j]
    BY <1>6, <1>13 DEF TypeOK, Worker
  <2>2. PartInv(x, pipe[ToChild(k)], pipe[p], PartOf(data, k), PartOf(input, k), Size(k), th)
    <3>1. w.st = "write" /\ w.numbers = <<>> BY <1>1, <1>13
    <3> HIDE DEF p, w, x
    <3> QED BY <1>7, <2>1, <3>1, Goes
  <2>3. TypeOK'
    <3>1. \A j \in Part : Len(worker'[j].numbers) <= MaxSize BY <2>1 DEF TypeOK
    <3> QED BY <1>1, <1>2, <1>8, <1>13, <2>1, <3>1 DEF TypeOK
  <2>4. Parts'
    <3>1. Holds(k)' BY <1>1, <1>5, <1>11, <1>13, <2>2, HoldsNext
    <3> QED BY <1>1, <1>3, <1>7, <1>13, <2>1, <3>1, WorkerMoves
  <2>5. OneWriterPerPipe' /\ Descriptors'
    <3>1. ends' \subseteq ends /\ \A d \in ends : d[1] # k => d \in ends' BY <1>13
    <3> QED BY <1>1, <2>1, <3>1, DescriptorsOn
  <2> QED BY <1>9, <1>10, <2>3, <2>4, <2>5
<1> QED BY <1>12, <1>13 DEF ChildWrites, Become

(***************************************************************************)
(* The steps of main about a child.                                        *)
(***************************************************************************)
LEMMA ForkStep ==
  ASSUME IInv, Fork PROVE IInv'
<1> USE DEF IInv
<1> DEFINE mine == {<<Main, q, e>> : q \in {ToChild(turn), FromChild(turn)}, e \in {"r", "w"}}
           held == mine \cup {d \in ends : d[1] = Main}
<1>1. /\ pc = "fork" /\ pc' = "close" /\ worker' = [worker EXCEPT ![turn].st = "forked"]
      /\ ends' = ends \cup mine \cup {<<turn, d[2], d[3]>> : d \in held}
      /\ UNCHANGED <<given, data, turn, pipe, out>>
  BY DEF Fork, Become
<1>2. input' = input /\ count' = count /\ threaded' = threaded BY <1>1 DEF given
<1>3. Alone' = Alone /\ Part' = Part /\ Pipe' = Pipe BY <1>1, Frame
<1>4. PICK k \in Part : k = turn /\ k \in Nat
  <2>1. turn \in Part BY DEF TypeOK
  <2> QED BY <2>1 DEF Part
<1>5. ~ Alone /\ ~ threaded BY <1>1 DEF Places
<1>6. Holds(k) /\ worker[k].st = "none"
  <2>1. Holds(k) /\ Reached(k) BY <1>5 DEF Parts
  <2>2. ~ Started(k) BY <1>1, <1>4 DEF Started
  <2> QED BY <2>1, <2>2 DEF Reached
<1>7. /\ worker' \in [Part -> Worker]
      /\ worker'[k] = [worker[k] EXCEPT !.st = "forked"] /\ worker'[k].st = "forked"
      /\ \A j \in Part : j # k => worker'[j] = worker[j]
      /\ \A j \in Part : worker'[j].numbers = worker[j].numbers
  BY <1>1, <1>4 DEF TypeOK, Worker
<1>8. \A d \in mine : d[1] = Main /\ d[2] \in {ToChild(k), FromChild(k)} /\ d[3] \in {"r", "w"}
  BY <1>4
<1>9. mine \subseteq ends' /\ \A d \in mine : <<k, d[2], d[3]>> \in ends' BY <1>1, <1>4
<1>10. ASSUME NEW d \in ends', d \notin ends, d \notin mine
       PROVE  \E c \in held : d = <<k, c[2], c[3]>>
  BY <1>1, <1>4, <1>10
<1>11. /\ <<Main, ToChild(k), "w">> \in mine
       /\ <<Main, FromChild(k), "w">> \in mine
  BY <1>4
<1>12. ends \subseteq ends' BY <1>1
<1> HIDE DEF mine
<1>13. \A c \in held : c[1] = Main /\ (c \in mine \/ c \in ends) BY <1>8
<1> HIDE DEF held
<1>14. TypeOK'
  <2>1. ToChild(k) \in Pipe /\ FromChild(k) \in Pipe BY <1>5, PartsTyped
  <2>2. mine \subseteq (Part \cup {Main}) \X Pipe \X {"r", "w"}
    <3>1. \A d \in mine : d = <<d[1], d[2], d[3]>> BY DEF mine
    <3> QED BY <1>8, <2>1, <3>1
  <2>3. ASSUME NEW d \in ends' PROVE d \in (Part \cup {Main}) \X Pipe \X {"r", "w"}
    <3>1. CASE d \in ends BY <3>1 DEF TypeOK
    <3>2. CASE d \in mine BY <2>2, <3>2
    <3>3. CASE d \notin ends /\ d \notin mine
      <4>1. PICK c \in held : d = <<k, c[2], c[3]>> BY <1>10, <3>3
      <4>2. c \in (Part \cup {Main}) \X Pipe \X {"r", "w"} BY <1>13, <2>2 DEF TypeOK
      <4> QED BY <4>1, <4>2
    <3> QED BY <3>1, <3>2, <3>3
  <2>4. \A j \in Part : Len(worker'[j].numbers) <= MaxSize BY <1>7 DEF TypeOK
  <2> QED BY <1>1, <1>2, <1>3, <1>7, <2>3, <2>4 DEF TypeOK
<1>15. Places' BY <1>1, <1>2, <1>3, <1>5 DEF Places
<1>16. Parts'
  <2>1. Holds(k)'
    <3>1. PICK th \in BOOLEAN : th = threaded BY DEF TypeOK
    <3>2. th = threaded /\ ~ th BY <1>5, <3>1
    <3>3. worker'[k] = [worker[k] EXCEPT !.st = IF th THEN "sort" ELSE "forked"]
      BY <1>7, <3>2
    <3>4. PartInv(worker'[k], pipe[ToChild(k)], pipe[FromChild(k)],
                  PartOf(data, k), PartOf(input, k), Size(k), th)
      BY <1>5, <1>6, <3>2, <3>3, PartsTyped, Starts DEF Holds
    <3> QED BY <1>1, <3>2, <3>4, HoldsNext DEF PartOf
  <2>2. ASSUME NEW j \in Part PROVE Reached(j)'
    <3>1. Reached(j) BY <1>5 DEF Parts
    <3>2. j \in Nat BY DEF Part
    <3>3. Started(j)' <=> Started(j) \/ j = k BY <1>1, <1>4, <3>2 DEF Started
    <3>4. Fed(j)' <=> Fed(j) BY <1>1 DEF Fed
    <3>5. ~ Over(j)' /\ ~ Back(j)' BY <1>1 DEF Over, Back
    <3>6. Size(j)' = Size(j) BY <1>1, Frame
    <3>7. worker'[j].sent = worker[j].sent BY <1>1, <1>4, <1>7 DEF TypeOK, Worker
    <3>8. worker'[j].st = "none" <=> worker[j].st = "none" /\ j # k BY <1>6, <1>7
    <3>9. worker'[j].st \in {"write", "exited"} => worker[j].st \in {"write", "exited"}
      BY <1>6, <1>7
    <3> QED BY <1>2, <1>5, <3>1, <3>3, <3>4, <3>5, <3>6, <3>7, <3>8, <3>9 DEF Reached
  <2> QED BY <1>1, <1>5, <1>7, <2>1, <2>2, OnePart
<1>17. OneWriterPerPipe'
  <2> SUFFICES ASSUME NEW d \in ends', d[3] = "w", d[1] # Main
               PROVE  \/ d[2] = FromChild(d[1])
                      \/ d[2] = ToChild(d[1]) /\ worker'[d[1]].st = "forked"
    BY DEF OneWriterPerPipe, ToChild, FromChild, Main
  <2>1. CASE d \in ends
    <3>1. d[1] \in Part BY <2>1 DEF TypeOK, Main
    <3>2. \/ d[2] = FromChild(d[1])
          \/ d[2] = ToChild(d[1]) /\ worker[d[1]].st = "forked"
      BY <2>1 DEF OneWriterPerPipe
    <3> QED BY <1>7, <3>1, <3>2
  <2>2. CASE d \notin ends
    <3>1. PICK c \in held : d = <<k, c[2], c[3]>> BY <1>8, <1>10, <2>2
    <3>2. c[1] = Main /\ c[3] = "w" BY <1>13, <3>1
    <3>3. c \notin ends BY <1>1, <3>2 DEF Descriptors
    <3>4. c[2] \in {ToChild(k), FromChild(k)} BY <1>8, <1>13, <3>3
    <3> QED BY <1>7, <3>1, <3>4
  <2> QED BY <2>1, <2>2
<1>18. Descriptors'
  <2>1. ASSUME NEW d \in ends', d[1] = Main, d[3] = "w"
        PROVE  d[2] = ToChild(k) \/ d[2] = FromChild(k)
    <3>1. k # Main BY DEF Part, Main
    <3>2. d \notin ends BY <1>1, <2>1 DEF Descriptors
    <3>3. d \in mine BY <1>10, <2>1, <3>1, <3>2
    <3> QED BY <1>8, <3>3
  <2>2. <<Main, ToChild(k), "w">> \in ends' BY <1>9, <1>11
  <2>3. <<k, FromChild(k), "w">> \in ends' BY <1>9, <1>11
  <2>4. ASSUME NEW j \in Part, worker'[j].st \in {"forked", "read", "write"}
        PROVE  <<j, FromChild(j), "w">> \in ends'
    <3>1. CASE j = k BY <2>3, <3>1
    <3>2. CASE j # k BY <1>7, <1>12, <2>4, <3>2 DEF Descriptors
    <3> QED BY <3>1, <3>2
  <2> QED BY <1>1, <1>3, <1>4, <2>1, <2>2, <2>4 DEF Descriptors, ToChild, FromChild, Main
<1>19. PrintsSorted' BY <1>1 DEF PrintsSorted
<1> QED BY <1>14, <1>15, <1>16, <1>17, <1>18, <1>19

LEMMA WritePartStep ==
  ASSUME IInv, WritePart PROVE IInv'
<1> USE DEF IInv
<1>1. pc = "write" /\ UNCHANGED <<given, data, out>> BY DEF WritePart
<1>2. input' = input /\ count' = count /\ threaded' = threaded BY <1>1 DEF given
<1>3. Alone' = Alone /\ Part' = Part /\ Pipe' = Pipe BY <1>1, Frame
<1>4. PICK k \in Part : k = turn /\ k \in Nat
  <2>1. turn \in Part BY DEF TypeOK
  <2> QED BY <2>1 DEF Part
<1> DEFINE p == ToChild(k)
           w == worker[k]
           x == worker'[k]
<1>5. ~ Alone /\ ~ threaded BY <1>1 DEF Places
<1>6. Holds(k) /\ Reached(k) BY <1>5 DEF Parts
<1>7. PICK th \in BOOLEAN : th = threaded BY DEF TypeOK
<1>8. /\ Typed(w, pipe[p], pipe[FromChild(k)], PartOf(data, k), PartOf(input, k), Size(k))
      /\ p \in Pipe /\ w \in Worker /\ pipe[p] \in Seq(Value)
      /\ w.sent \in Nat /\ w.sent <= Size(k) /\ Size(k) \in Nat /\ Size(k) <= MaxSize
      /\ MaxSize \in Nat
  BY <1>5, <1>6, PartsTyped, WorkerTyped, SplitFacts, SortAssumption
  DEF Typed, TypeOK, Holds, PartInv
<1>9. /\ PartInv(w, pipe[p], pipe[FromChild(k)], PartOf(data, k), PartOf(input, k), Size(k), th)
      /\ w.st \in {"forked", "read"} /\ ~ Fed(k)
  <2>1. Started(k) /\ ~ Fed(k) BY <1>1, <1>4 DEF Started, Fed
  <2> QED BY <1>5, <1>6, <1>7, <2>1 DEF Holds, PartInv, Reached
<1>10. CASE /\ w.sent + 1 <= Size(k) /\ CanWrite(p)
            /\ pipe' = [pipe EXCEPT ![p] = Append(@, PartOf(data, k)[w.sent + 1])]
            /\ worker' = [worker EXCEPT ![k].sent = w.sent + 1]
            /\ UNCHANGED <<ends, turn, pc>>
  <2>1. PICK e \in Value : e = PartOf(data, k)[w.sent + 1]
    <3>1. w.sent + 1 \in 1 .. Len(PartOf(data, k)) BY <1>8, <1>10 DEF Typed
    <3>2. PartOf(data, k) \in [1 .. Len(PartOf(data, k)) -> Value] BY <1>8 DEF Typed
    <3> QED BY <3>1, <3>2
  <2>2. PICK to \in Seq(Value) : to = Append(pipe[p], e) /\ Len(to) = Len(pipe[p]) + 1
                                 /\ Len(pipe[p]) \in Nat
    BY <1>8, AppendProperties, LenProperties
  <2>3. /\ worker' \in [Part -> Worker] /\ x.sent = w.sent + 1 /\ x.numbers = w.numbers
        /\ x.st = w.st /\ x.got = w.got
        /\ \A j \in Part : j # k => worker'[j] = worker[j]
    <3>1. PICK m \in 0 .. MaxSize : m = w.sent + 1 BY <1>8, <1>10
    <3>2. worker' = [worker EXCEPT ![k].sent = m] BY <1>10, <3>1
    <3> QED BY <1>8, <3>1, <3>2 DEF TypeOK, Worker
  <2>4. /\ pipe' \in [Pipe -> Seq(Value)] /\ pipe'[p] = to
        /\ \A q \in Pipe : q # p => pipe'[q] = pipe[q]
    <3>1. pipe' = [pipe EXCEPT ![p] = to] BY <1>10, <2>1, <2>2
    <3> QED BY <1>8, <3>1 DEF TypeOK
  <2>5. PartInv(x, to, pipe[FromChild(k)], PartOf(data, k), PartOf(input, k), Size(k), th)
    <3>1. w.sent + 1 <= Size(k) /\ to = Append(pipe[p], PartOf(data, k)[w.sent + 1])
      BY <1>10, <2>1, <2>2
    <3> HIDE DEF p, w, x
    <3>2. PartInv(x, Append(pipe[p], PartOf(data, k)[w.sent + 1]), pipe[FromChild(k)],
                  PartOf(data, k), PartOf(input, k), Size(k), th)
      BY <1>8, <1>9, <2>3, <3>1, Sends
    <3> QED BY <3>1, <3>2
  <2>6. TypeOK'
    <3>1. Len(to) <= Capacity
      <4>1. Len(pipe[p]) < Capacity /\ Capacity \in Nat BY <1>10, SortAssumption DEF CanWrite
      <4> QED BY <2>2, <4>1
    <3>2. \A q \in Pipe : Len(pipe'[q]) <= Capacity BY <2>4, <3>1 DEF TypeOK
    <3>3. \A j \in Part : Len(worker'[j].numbers) <= MaxSize BY <2>3 DEF TypeOK
    <3> QED BY <1>1, <1>2, <1>3, <1>10, <2>3, <2>4, <3>2, <3>3 DEF TypeOK
  <2>7. Parts'
    <3>1. \A j \in Part :
            /\ pipe'[FromChild(j)] = pipe[FromChild(j)]
            /\ j # k => pipe'[ToChild(j)] = pipe[ToChild(j)]
      BY <1>5, <2>4, PipeNames, PartsTyped
    <3>2. SubSeq(data', Split[k - 1] + 1, Split[k]) = PartOf(data, k) BY <1>1 DEF PartOf
    <3>3. Holds(k)' BY <1>1, <1>7, <2>4, <2>5, <3>1, <3>2, HoldsNext
    <3> QED BY <1>1, <1>5, <1>9, <1>10, <2>3, <3>1, <3>3, WorkerMoves
  <2>8. Places' BY <1>1, <1>2, <1>3, <1>10 DEF Places
  <2>9. OneWriterPerPipe' /\ Descriptors'
    <3>1. \A j \in Part : worker'[j].st = worker[j].st BY <2>3
    <3>2. OneWriterPerPipe'
      BY <1>10, <3>1 DEF OneWriterPerPipe, ToChild, FromChild, TypeOK, Main
    <3>3. Descriptors' BY <1>3, <1>10, <3>1 DEF Descriptors, ToChild, FromChild
    <3> QED BY <3>2, <3>3
  <2>10. PrintsSorted' BY <1>1, <1>10 DEF PrintsSorted
  <2> QED BY <2>6, <2>7, <2>8, <2>9, <2>10
<1>11. CASE /\ ~ (w.sent + 1 <= Size(k)) /\ ends' = ends \ {<<Main, p, "w">>}
            /\ NextTurn("fork", "read") /\ UNCHANGED <<worker, pipe>>
  <2>1. w.sent = Size(k) BY <1>8, <1>11
  <2>2. /\ turn' \in Part /\ count \in Nat
        /\ \/ k < count /\ turn' = k + 1 /\ pc' = "fork"
           \/ k = count /\ turn' = 1 /\ pc' = "read"
    BY <1>2, <1>4, <1>11, NextTurnFacts
  <2>3. TypeOK' BY <1>1, <1>2, <1>3, <1>11, <2>2 DEF TypeOK
  <2>4. Places' BY <1>1, <1>2, <1>3, <1>5, <2>2 DEF Places
  <2>5. ASSUME NEW j \in Part PROVE Reached(j)'
    <3>1. Reached(j) BY <1>5 DEF Parts
    <3>2. j \in Nat /\ 1 <= j /\ j <= count BY <2>2 DEF Part
    <3>3. Started(j)' <=> Started(j) BY <1>1, <1>4, <2>2, <3>2 DEF Started
    <3>4. Fed(j)' <=> Fed(j) \/ j = k BY <1>1, <1>4, <2>2, <3>2 DEF Fed
    <3>5. ~ Over(j)' /\ ~ Back(j)' BY <2>2, <3>2 DEF Over, Back
    <3>6. Size(j)' = Size(j) BY <1>1, Frame
    <3> QED BY <1>2, <1>11, <2>1, <3>1, <3>3, <3>4, <3>5, <3>6 DEF Reached
  <2>6. Parts' BY <1>1, <1>11, <2>5, MainMoves
  <2>7. OneWriterPerPipe' BY <1>11 DEF OneWriterPerPipe, ToChild, FromChild
  <2>8. Descriptors'
    <3>1. ASSUME NEW d \in ends', d[1] = Main, d[3] = "w" PROVE FALSE
      <4>1. d = <<d[1], d[2], d[3]>> BY <1>11 DEF TypeOK
      <4>2. d[2] = p BY <1>1, <1>4, <1>11, <3>1 DEF Descriptors
      <4> QED BY <1>11, <3>1, <4>1, <4>2
    <3>2. ASSUME NEW j \in Part, worker[j].st \in {"forked", "read", "write"}
          PROVE  <<j, FromChild(j), "w">> \in ends'
      <4>1. j # Main BY DEF Part, Main
      <4> QED BY <1>11, <3>2, <4>1 DEF Descriptors
    <3> QED BY <1>3, <1>11, <2>2, <3>1, <3>2 DEF Descriptors, ToChild, FromChild, Main
  <2>9. PrintsSorted' BY <2>2 DEF PrintsSorted
  <2> QED BY <2>3, <2>4, <2>6, <2>7, <2>8, <2>9
<1>12. \/ /\ w.sent + 1 <= Size(k) /\ CanWrite(p)
          /\ pipe' = [pipe EXCEPT ![p] = Append(@, PartOf(data, k)[w.sent + 1])]
          /\ worker' = [worker EXCEPT ![k].sent = w.sent + 1]
          /\ UNCHANGED <<ends, turn, pc>>
       \/ /\ ~ (w.sent + 1 <= Size(k)) /\ ends' = ends \ {<<Main, p, "w">>}
          /\ NextTurn("fork", "read") /\ UNCHANGED <<worker, pipe>>
  BY <1>4 DEF WritePart
<1> QED BY <1>10, <1>11, <1>12

LEMMA ReadBackStep ==
  ASSUME IInv, ReadBack PROVE IInv'
<1> USE DEF IInv
<1>1. pc = "read" /\ UNCHANGED <<given, turn, out>> BY DEF ReadBack
<1>2. input' = input /\ count' = count /\ threaded' = threaded BY <1>1 DEF given
<1>3. PICK k \in Part : k = turn /\ k \in Nat
  <2>1. turn \in Part BY DEF TypeOK
  <2> QED BY <2>1 DEF Part
<1> DEFINE p == FromChild(k)
           w == worker[k]
           x == worker'[k]
<1>4. ~ Alone /\ ~ threaded BY <1>1 DEF Places
<1>5. Holds(k) /\ Reached(k) BY <1>4 DEF Parts
<1>6. PICK th \in BOOLEAN : th = threaded BY DEF TypeOK
<1>7. /\ Typed(w, pipe[ToChild(k)], pipe[p], PartOf(data, k), PartOf(input, k), Size(k))
      /\ p \in Pipe /\ w \in Worker /\ pipe[p] \in Seq(Value)
      /\ w.got \in Nat /\ Size(k) \in Nat /\ Size(k) <= MaxSize /\ MaxSize \in Nat
  BY <1>4, PartsTyped, WorkerTyped, SplitFacts, SortAssumption DEF Typed, TypeOK
<1>8. /\ PartInv(w, pipe[ToChild(k)], pipe[p], PartOf(data, k), PartOf(input, k), Size(k), th)
      /\ ~ th
  BY <1>4, <1>5, <1>6 DEF Holds
<1>9. Started(k) /\ Fed(k) /\ ~ Back(k) /\ w.st # "none"
  <2>1. Started(k) /\ Fed(k) /\ ~ Back(k) BY <1>1, <1>3 DEF Started, Fed, Over, Back
  <2> QED BY <1>5, <2>1 DEF Reached
<1>10. CASE /\ pipe[p] # <<>>
            /\ data' = [data EXCEPT ![Split[k - 1] + w.got + 1] = Head(pipe[p])]
            /\ pipe' = [pipe EXCEPT ![p] = Tail(@)]
            /\ worker' = [worker EXCEPT ![k].got = w.got + 1]
            /\ UNCHANGED <<pc, ends>>
  <2>1. PICK e \in Value, from \in Seq(Value) :
          /\ e = Head(pipe[p]) /\ from = Tail(pipe[p])
          /\ Len(from) \in Nat /\ Len(from) <= Len(pipe[p]) /\ Len(pipe[p]) \in Nat
    <3>1. PICK b \in Seq(Value) : b = pipe[p] BY <1>7
    <3>2. b # <<>> BY <1>10, <3>1
    <3>3. /\ Tail(b) \in Seq(Value) /\ Len(b) \in Nat
          /\ Len(Tail(b)) = Len(b) - 1 /\ Len(Tail(b)) <= Len(b)
      BY <3>2, MoveHead
    <3>4. Head(b) \in Value /\ Len(Tail(b)) \in Nat
      BY <3>2, <3>3, HeadTailProperties, LenProperties
    <3> HIDE DEF w, p
    <3> QED BY <3>1, <3>3, <3>4
  <2>2. PICK m : Replaced(m, PartOf(data, k), 0, w.got + 1, e) BY DEF Replaced
  <2>3. w.got + 1 <= Size(k)
    <3> HIDE DEF p, w
    <3> QED BY <1>7, <1>8, <1>10, GotRoom
  <2>4. /\ worker' \in [Part -> Worker] /\ x.got = w.got + 1 /\ x.numbers = w.numbers
        /\ x.st = w.st /\ x.sent = w.sent
        /\ \A j \in Part : j # k => worker'[j] = worker[j]
    <3>1. PICK g \in 0 .. MaxSize : g = w.got + 1 BY <1>7, <2>3
    <3>2. worker' = [worker EXCEPT ![k].got = g] BY <1>10, <3>1
    <3> QED BY <1>7, <3>1, <3>2 DEF TypeOK, Worker
  <2>5. /\ pipe' \in [Pipe -> Seq(Value)] /\ pipe'[p] = from
        /\ \A q \in Pipe : q # p => pipe'[q] = pipe[q]
    <3>1. pipe' = [pipe EXCEPT ![p] = from] BY <1>10, <2>1
    <3> QED BY <1>7, <3>1 DEF TypeOK
  <2>6. PartInv(x, pipe[ToChild(k)], from, m, PartOf(input, k), Size(k), th)
    <3>1. pipe[p] # <<>> /\ from = Tail(pipe[p]) BY <1>10, <2>1
    <3>2. Replaced(m, PartOf(data, k), 0, x.got, Head(pipe[p])) BY <2>1, <2>2, <2>4
    <3> HIDE DEF p, w, x
    <3>3. PartInv(x, pipe[ToChild(k)], Tail(pipe[p]), m, PartOf(input, k), Size(k), th)
      BY <1>7, <1>8, <2>4, <3>1, <3>2, GotBack
    <3> QED BY <3>1, <3>3
  <2>7. /\ data' \in [DOMAIN input -> Value] /\ Len(data') = Len(data)
        /\ \A j \in Part : j # k =>
             SubSeq(data', Split[j - 1] + 1, Split[j]) = SubSeq(data, Split[j - 1] + 1, Split[j])
        /\ SubSeq(data', Split[k - 1] + 1, Split[k]) = m
    <3>1. PICK n \in Nat, c \in Nat \ {0} :
            /\ n = Len(data) /\ c = count /\ data \in [1 .. n -> Value] /\ data \in Seq(Value)
            /\ DOMAIN input = 1 .. n
      BY <1>4, SplitFacts
    <3>2. PICK s : s = Split OBVIOUS
    <3>3. Cut(s, c, n) /\ Part = 1 .. c BY <1>4, <3>1, <3>2, SplitFacts DEF Part
    <3>4. PICK a \in 0 .. n, b \in 0 .. n : a = s[k - 1] /\ b = s[k] /\ a <= b
      BY <1>4, <3>1, <3>2, SplitFacts
    <3>5. PICK i \in 1 .. b - a : i = w.got + 1 BY <1>7, <2>3, <3>2, <3>4 DEF Size
    <3>6. Replaced(data', data, a, i, e)
      <4>1. PICK g \in Nat : g = w.got BY <1>7
      <4>2. Split[k - 1] = a /\ i = g + 1 BY <3>2, <3>4, <3>5, <4>1
      <4>3. a + g + 1 = a + (g + 1) BY <4>1
      <4>4. Split[k - 1] + w.got + 1 = a + i BY <4>1, <4>2, <4>3
      <4> QED BY <1>10, <2>1, <4>4 DEF Replaced
    <3>7. /\ data' \in [1 .. n -> Value]
          /\ \A y \in 1 .. n : y <= a \/ b < y => data'[y] = data[y]
          /\ Replaced(SubSeq(data', a + 1, b), SubSeq(data, a + 1, b), 0, i, e)
      BY <3>1, <3>4, <3>6, PieceExcept, SMTT(30)
    <3>8. ASSUME NEW h \in Part, h # k
          PROVE  SubSeq(data', Split[h - 1] + 1, Split[h])
                   = SubSeq(data, Split[h - 1] + 1, Split[h])
      <4>1. PICK v \in [1 .. n -> Value], u \in [1 .. n -> Value] : v = data /\ u = data'
        BY <3>1, <3>7
      <4>2. Piece(u, s, h) = Piece(v, s, h)
        <5>1. Outside(u, v, s, k, n) BY <3>4, <3>7, <4>1 DEF Outside
        <5>2. k \in 1 .. c /\ h \in 1 .. c BY <3>3
        <5> QED BY <3>3, <3>8, <5>1, <5>2, OtherPiece
      <4> QED BY <3>2, <4>1, <4>2 DEF Piece
    <3>9. SubSeq(data', Split[k - 1] + 1, Split[k]) = m
      <4>1. PartOf(data, k) = SubSeq(data, a + 1, b) BY <3>2, <3>4 DEF PartOf
      <4>2. SubSeq(data', a + 1, b) = m BY <2>2, <3>5, <3>7, <4>1 DEF Replaced
      <4> QED BY <3>2, <3>4, <4>2
    <3>10. Len(data') = n BY <3>7
    <3> QED BY <3>1, <3>7, <3>8, <3>9, <3>10
  <2>8. Alone' = Alone /\ Part' = Part /\ Pipe' = Pipe BY <1>1, <2>7, Frame
  <2>9. TypeOK'
    <3>1. Len(from) <= Capacity
      <4>1. Len(pipe[p]) <= Capacity /\ Capacity \in Nat BY <1>7, SortAssumption DEF TypeOK
      <4> QED BY <2>1, <4>1
    <3>2. \A q \in Pipe : Len(pipe'[q]) <= Capacity BY <2>5, <3>1 DEF TypeOK
    <3>3. \A j \in Part : Len(worker'[j].numbers) <= MaxSize BY <2>4 DEF TypeOK
    <3> QED BY <1>1, <1>2, <1>10, <2>4, <2>5, <2>7, <2>8, <3>2, <3>3 DEF TypeOK
  <2>10. Parts'
    <3>1. \A j \in Part :
            /\ pipe'[ToChild(j)] = pipe[ToChild(j)]
            /\ j # k => pipe'[FromChild(j)] = pipe[FromChild(j)]
      BY <1>4, <2>5, PipeNames, PartsTyped
    <3>2. Holds(k)' BY <1>1, <1>6, <2>5, <2>6, <2>7, <3>1, HoldsNext
    <3> QED BY <1>1, <1>4, <1>9, <1>10, <2>4, <2>7, <3>1, <3>2, WorkerMoves
  <2>11. Places' BY <1>1, <1>2, <1>4, <1>10, <2>8 DEF Places
  <2>12. OneWriterPerPipe' /\ Descriptors'
    <3>1. \A j \in Part : worker'[j].st = worker[j].st BY <2>4
    <3>2. OneWriterPerPipe'
      BY <1>10, <3>1 DEF OneWriterPerPipe, ToChild, FromChild, TypeOK, Main
    <3>3. Descriptors' BY <1>1, <1>10, <2>8, <3>1 DEF Descriptors, ToChild, FromChild
    <3> QED BY <3>2, <3>3
  <2>13. PrintsSorted' BY <1>1, <1>10 DEF PrintsSorted
  <2> QED BY <2>9, <2>10, <2>11, <2>12, <2>13
<1>11. CASE /\ AtEnd(p) /\ pc' = (IF w.got = Size(k) THEN "wait" ELSE "aborted")
            /\ ends' = ends \ {<<Main, p, "r">>} /\ UNCHANGED <<data, pipe, worker>>
  <2>1. pipe[p] = <<>> /\ ~ \E d \in ends : d[2] = p /\ d[3] = "w" BY <1>11 DEF AtEnd
  <2>2. w.st = "exited"
    <3>1. w.st \notin {"forked", "read", "write"} BY <2>1 DEF Descriptors
    <3>2. w.st \in {"none", "forked", "read", "write", "exited"} BY <1>8 DEF PartInv
    <3> QED BY <1>9, <3>1, <3>2
  <2>3. w.got = Size(k)
    <3> HIDE DEF p, w
    <3> QED BY <1>7, <1>8, <2>1, <2>2, PartBack
  <2>4. pc' = "wait" BY <1>11, <2>3
  <2>5. Alone' = Alone /\ Part' = Part /\ Pipe' = Pipe BY <1>1, <1>11, Frame
  <2>6. TypeOK' BY <1>1, <1>2, <1>11, <2>4, <2>5 DEF TypeOK
  <2>7. Places' BY <1>1, <1>2, <1>4, <2>4, <2>5 DEF Places
  <2>8. ASSUME NEW j \in Part PROVE Reached(j)'
    <3>1. Reached(j) BY <1>4 DEF Parts
    <3>2. /\ Started(j)' <=> Started(j)
          /\ Fed(j)' <=> Fed(j)
          /\ Over(j)' <=> Over(j)
          /\ Back(j)' <=> Back(j) \/ j = k
      BY <1>1, <1>3, <2>4 DEF Started, Fed, Over, Back
    <3>3. Size(j)' = Size(j) BY <1>1, <1>11, Frame
    <3> QED BY <1>2, <1>11, <2>3, <3>1, <3>2, <3>3 DEF Reached
  <2>9. Parts' BY <1>1, <1>11, <2>8, MainMoves
  <2>10. OneWriterPerPipe' BY <1>11 DEF OneWriterPerPipe, ToChild, FromChild
  <2>11. Descriptors'
    <3>1. \A d \in ends' : ~ (d[1] = Main /\ d[3] = "w") BY <1>1, <1>11 DEF Descriptors
    <3>2. \A j : <<j, FromChild(j), "w">> \in ends => <<j, FromChild(j), "w">> \in ends'
      BY <1>11
    <3> QED BY <1>11, <2>4, <2>5, <3>1, <3>2 DEF Descriptors, ToChild, FromChild, Main
  <2>12. PrintsSorted' BY <2>4 DEF PrintsSorted
  <2> QED BY <2>6, <2>7, <2>9, <2>10, <2>11, <2>12
<1> QED BY <1>3, <1>10, <1>11 DEF ReadBack

-----------------------------------------------------------------------------
LEMMA StutterStep ==
  ASSUME IInv, UNCHANGED vars PROVE IInv'
<1> USE DEF IInv
<1>1. UNCHANGED <<given, data, pc, turn, worker, pipe, ends, out>> BY DEF vars, given
<1>2. input' = input /\ count' = count /\ threaded' = threaded BY <1>1 DEF given
<1>3. Alone' = Alone /\ Part' = Part /\ Pipe' = Pipe BY <1>1, Frame
<1>4. TypeOK' BY <1>1, <1>2, <1>3 DEF TypeOK
<1>5. Places' BY <1>1, <1>2, <1>3 DEF Places
<1>6. ASSUME NEW k \in Part, ~ Alone PROVE Reached(k)'
  <2>1. Reached(k) BY <1>6 DEF Parts
  <2>2. Size(k)' = Size(k) BY <1>1, Frame
  <2> QED BY <1>1, <1>2, <2>1, <2>2 DEF Reached, Started, Fed, Over, Back
<1>7. Parts' BY <1>1, <1>6, MainMoves
<1>8. OneWriterPerPipe' BY <1>1 DEF OneWriterPerPipe, ToChild, FromChild
<1>9. Descriptors' BY <1>1, <1>3 DEF Descriptors, ToChild, FromChild
<1>10. PrintsSorted' BY <1>1, <1>2 DEF PrintsSorted
<1> QED BY <1>4, <1>5, <1>7, <1>8, <1>9, <1>10

LEMMA InvInit == Init => IInv
<1> SUFFICES ASSUME Init PROVE IInv
  OBVIOUS
<1>1. /\ count \in Counts /\ threaded \in BOOLEAN /\ data = input /\ pc = "begin" /\ turn = 1
      /\ worker = [k \in Part |-> NewWorker] /\ pipe = [q \in Pipe |-> <<>>]
      /\ ends = {} /\ out = <<>>
  BY DEF Init
<1>2. PICK n \in 0 .. MaxSize : input \in [1 .. n -> Value] BY DEF Init
<1>3. MaxSize \in Nat /\ Capacity \in Nat \ {0} /\ count \in Nat \ {0}
  BY <1>1, SortAssumption
<1>4. /\ input \in Seq(Value) /\ Len(input) = n /\ n <= MaxSize /\ DOMAIN input = 1 .. n
      /\ n \in Nat
  BY <1>2, <1>3
<1>5. <<>> \in Seq(Value) /\ Len(<<>>) = 0 BY EmptySeq
<1>6. NewWorker \in Worker BY <1>3, <1>5 DEF NewWorker, Worker
<1>7. TypeOK
  <2>1. turn \in Part BY <1>1, <1>3 DEF Part
  <2>2. \A k \in Part : worker[k] = NewWorker /\ Len(worker[k].numbers) <= MaxSize
    BY <1>1, <1>3, <1>5 DEF NewWorker
  <2>3. worker \in [Part -> Worker] BY <1>1, <1>6
  <2>4. pipe \in [Pipe -> Seq(Value)] /\ \A q \in Pipe : Len(pipe[q]) <= Capacity
    BY <1>1, <1>3, <1>5
  <2> QED BY <1>1, <1>2, <1>3, <1>4, <1>5, <2>1, <2>2, <2>3, <2>4 DEF TypeOK
<1>8. Places BY <1>1 DEF Places
<1>9. ASSUME NEW k \in Part, ~ Alone PROVE Holds(k) /\ Reached(k)
  <2>1. k \in Nat /\ 1 <= k BY DEF Part
  <2>2. worker[k] = NewWorker BY <1>1
  <2>3. /\ worker[k].st = "none" /\ worker[k].numbers = <<>> /\ worker[k].sent = 0
        /\ worker[k].got = 0
    BY <2>2 DEF NewWorker
  <2>4. Reached(k) BY <1>1, <2>3 DEF Reached, Started, Fed, Over, Back
  <2>5. /\ Typed(worker[k], pipe[ToChild(k)], pipe[FromChild(k)],
                 PartOf(data, k), PartOf(input, k), Size(k))
        /\ ToChild(k) \in Pipe /\ FromChild(k) \in Pipe
    BY <1>7, <1>9, PartsTyped
  <2>6. pipe[ToChild(k)] = <<>> /\ pipe[FromChild(k)] = <<>> BY <1>1, <2>5
  <2>7. PICK mine \in Seq(Value) :
          mine = PartOf(data, k) /\ mine = PartOf(input, k) /\ Len(mine) = Size(k)
    BY <1>1, <2>5 DEF Typed
  <2>8. SubSeq(mine, 1, Len(mine)) = mine BY SubSeqFull
  <2>9. <<>> \o <<>> = <<>> /\ <<>> \o mine = mine BY ConcatEmptySeq, EmptySeq
  <2>10. worker[k].sent + 1 = 1 BY <2>3
  <2>11. worker[k].numbers \o pipe[ToChild(k)] \o SubSeq(mine, worker[k].sent + 1, Size(k)) = mine
    BY <2>3, <2>6, <2>7, <2>8, <2>9, <2>10
  <2>12. Size(k) \in Nat BY <2>5 DEF Typed
  <2>13. Holds(k) BY <2>2, <2>3, <2>6, <2>7, <2>11, <2>12 DEF Holds, PartInv, Content
  <2> QED BY <2>4, <2>13
<1>10. Parts
  <2>1. \A k \in Part : worker[k].st = "none" BY <1>1 DEF NewWorker
  <2> QED BY <1>9, <2>1 DEF Parts
<1>11. OneWriterPerPipe /\ Descriptors
  BY <1>1 DEF OneWriterPerPipe, Descriptors, NewWorker
<1>12. PrintsSorted BY <1>1 DEF PrintsSorted
<1> QED BY <1>7, <1>8, <1>10, <1>11, <1>12 DEF IInv

LEMMA InvStep == IInv /\ [Next]_vars => IInv'
<1> SUFFICES ASSUME IInv, [Next]_vars PROVE IInv'
  OBVIOUS
<1>1. CASE Begin BY <1>1, BeginStep
<1>2. CASE Merge BY <1>2, MergeStep
<1>3. CASE CreateThread BY <1>3, CreateStep
<1>4. CASE Join BY <1>4, JoinStep
<1>5. CASE Fork BY <1>5, ForkStep
<1>6. CASE CloseInMain BY <1>6, CloseStep
<1>7. CASE WritePart BY <1>7, WritePartStep
<1>8. CASE ReadBack BY <1>8, ReadBackStep
<1>9. CASE WaitChild BY <1>9, WaitStep
<1>10. ASSUME NEW k \in Part, SortStep(k) PROVE IInv' BY <1>10, SortingStep
<1>11. ASSUME NEW k \in Part, ChildCloses(k) PROVE IInv' BY <1>11, ChildClosesStep
<1>12. ASSUME NEW k \in Part, ChildReads(k) PROVE IInv' BY <1>12, ChildReadsStep
<1>13. ASSUME NEW k \in Part, ChildWrites(k) PROVE IInv' BY <1>13, ChildWritesStep
<1>14. CASE UNCHANGED vars BY <1>14, StutterStep
<1> QED
  BY <1>1, <1>2, <1>3, <1>4, <1>5, <1>6, <1>7, <1>8, <1>9, <1>10, <1>11, <1>12, <1>13, <1>14
  DEF Next, MainStep, WorkerStep

THEOREM InvCorrect == Spec => []IInv
BY InvInit, InvStep, PTL DEF Spec

(***************************************************************************)
(* The variables have their types; pipes stay within their capacity and    *)
(* main's indices within the vector.                                       *)
(***************************************************************************)
THEOREM TypeCorrect == Spec => []TypeOK
<1>1. IInv => TypeOK BY DEF IInv
<1> QED BY <1>1, InvCorrect, PTL

(***************************************************************************)
(* What the program prints is its input sorted, for any numbers, any       *)
(* number of processes, threads or not, and any order of the steps of main *)
(* and its workers.                                                        *)
(***************************************************************************)
THEOREM PrintsSortedCorrect == Spec => []PrintsSorted
<1>1. IInv => PrintsSorted BY DEF IInv
<1> QED BY <1>1, InvCorrect, PTL

(***************************************************************************)
(* No number of a part is lost, doubled or mixed with another part on its  *)
(* way through the pipes or in the vector.                                 *)
(***************************************************************************)
THEOREM EachPartKeptCorrect == Spec => []EachPartKept
<1>1. IInv => EachPartKept
  <2> SUFFICES ASSUME IInv, NEW k \in Part, ~ Alone
               PROVE  Content(worker[k], pipe[ToChild(k)], pipe[FromChild(k)],
                              PartOf(data, k), PartOf(input, k), Size(k), threaded)
    BY DEF EachPartKept, Content
  <2>1. Holds(k) BY DEF IInv, Parts
  <2> QED BY <2>1 DEF Holds, PartInv
<1> QED BY <1>1, InvCorrect, PTL

(***************************************************************************)
(* A child holds no write end but its own, and that of its input only      *)
(* until it closes the ends it does not use.                               *)
(***************************************************************************)
THEOREM OneWriterPerPipeCorrect == Spec => []OneWriterPerPipe
<1>1. IInv => OneWriterPerPipe BY DEF IInv
<1> QED BY <1>1, InvCorrect, PTL
=============================================================================
