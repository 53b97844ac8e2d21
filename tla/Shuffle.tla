------------------------------ MODULE Shuffle ------------------------------
(***************************************************************************)
(* The Fisher-Yates shuffle of the clustering, over a source of numbers.   *)
(***************************************************************************)
EXTENDS Integers, Sequences, SequencesExt

\* Draw(s, k, m): the remainders modulo m that the k-th number of the s-th
\* generator of a run may leave; one for a given seed, any for any seed.
CONSTANT Draw(_, _, _)

Swap(items, i, j) ==
  [k \in DOMAIN items |-> items[IF k = i THEN j ELSE IF k = j THEN i ELSE k]]

\* The orders a shuffle of items may give from generator s, of which `drawn'
\* numbers were used before.  The t-th exchange puts the item of place
\* n - t + 1, counted from 1, among the n - t + 1 first.
Shuffles(items, s, drawn) ==
  LET n == Len(items)
      orders[t \in 0..n] ==
        IF t = 0 THEN {items}
        ELSE {Swap(o, n - t + 1, j + 1) :
                o \in orders[t - 1], j \in (0..(n - t)) \cap Draw(s, drawn + t, n - t + 1)}
  IN  orders[IF n = 0 THEN 0 ELSE n - 1]

\* Several shuffles in a row, one list after the other; `drawn' as above.
ShufflesInTurn(lists, s, drawn) ==
  LET turn[i \in 0..Len(lists)] ==
        IF i = 0 THEN [orders |-> {<< >>}, drawn |-> drawn]
        ELSE LET acc == turn[i - 1]
             IN  [orders |-> {o \o p : o \in acc.orders, p \in Shuffles(lists[i], s, acc.drawn)},
                  drawn  |-> acc.drawn + Len(lists[i]) - 1]
  IN  turn[Len(lists)].orders
=============================================================================
