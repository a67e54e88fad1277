------------------------------- MODULE Listing ------------------------------
(***************************************************************************)
(* The entries of a sequence at certain places, in their order: what is    *)
(* left of a queue after its erase calls, the mails of a maildrop that are *)
(* not deleted, the lines of a file that begin a mail.                     *)
(***************************************************************************)
EXTENDS Integers, FiniteSets, Sequences

\* How many numbers of K there are up to i, and the k-th of them.
Rank(K, i) == Cardinality({j \in K : j <= i})

Nth(K, k) == CHOOSE i \in K : Rank(K, i) = k

AtPlaces(s, K) == [k \in 1 .. Cardinality(K) |-> s[Nth(K, k)]]

(***************************************************************************)
(* A sequence cut before the entries at certain places; what is in front   *)
(* of the first of them goes.                                              *)
(***************************************************************************)
Pieces(s, K) ==
  LET last(k) == IF k = Cardinality(K) THEN Len(s) ELSE Nth(K, k + 1) - 1
  IN  [k \in 1 .. Cardinality(K) |-> SubSeq(s, Nth(K, k), last(k))]
=============================================================================
