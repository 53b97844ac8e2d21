-------------------------------- MODULE Nmi --------------------------------
(***************************************************************************)
(* nmi: the normalised mutual information of two partitions of the same    *)
(* nodes.  A logarithm is kept exactly, as the whole multiples of ln 2,    *)
(* ln 3 and ln 5 it is made of: two sums of logarithms are equal just when *)
(* these are.  Entropies and information are times the number of nodes.    *)
(***************************************************************************)
EXTENDS Clusters

Primes == {2, 3, 5}  \* bound: partitions of at most 6 nodes, numbers to 36

Ln(m) == [p \in Primes |-> Cardinality({k \in 1..5 : m % (p ^ k) = 0})]
Zero  == [p \in Primes |-> 0]

\* k logarithms of the quotient x / y.
LnRatio(k, x, y) == [p \in Primes |-> k * (Ln(x)[p] - Ln(y)[p])]
SumOf(terms) == [p \in Primes |-> MapThenSumSet(LAMBDA e : terms[e][p], DOMAIN terms)]

Ids(part) == 0..(CommunityCount(part) - 1)

Contingency(a, b) ==
  [i \in Ids(a), j \in Ids(b) |-> Cardinality(BucketOf(a, i) \cap BucketOf(b, j))]

\* The sums of the rows and of the columns.
MarginA(c, a, b) == [i \in Ids(a) |-> MapThenSumSet(LAMBDA j : c[i, j], Ids(b))]
MarginB(c, a, b) == [j \in Ids(b) |-> MapThenSumSet(LAMBDA i : c[i, j], Ids(a))]

Entropy(margin, n) ==
  SumOf([i \in {j \in DOMAIN margin : margin[j] > 0} |-> LnRatio(margin[i], n, margin[i])])

Information(c, margA, margB, n) ==
  SumOf([e \in {d \in DOMAIN c : c[d] > 0} |->
           LnRatio(c[e], c[e] * n, margA[e[1]] * margB[e[2]])])

\* An answer is a quotient of two sums of logarithms.
One == [over |-> Zero, under |-> Zero]
IsOne(x)  == x.over = x.under
IsZero(x) == x.over = Zero /\ x.under # Zero

Ratio(information, hA, hB) ==
  [over |-> [p \in Primes |-> 2 * information[p]], under |-> [p \in Primes |-> hA[p] + hB[p]]]

\* Mutant: no entropy on both sides counts as no agreement.
OnlyZero(information, hA, hB) ==
  IF Zero \in {hA, hB} THEN [over |-> Zero, under |-> Ln(2)] ELSE Ratio(information, hA, hB)

\* A partition into one community has no entropy: two of them agree, and one
\* of them has nothing in common with any other partition.
Normalised(information, hA, hB) ==
  IF hA = Zero /\ hB = Zero THEN One
  ELSE IF Zero \in {hA, hB} THEN [over |-> Zero, under |-> Ln(2)]
  ELSE Ratio(information, hA, hB)

nmi(a, b) ==
  LET n     == Len(a)
      c     == Contingency(a, b)
      margA == MarginA(c, a, b)
      margB == MarginB(c, a, b)
  IN  IF n = 0 THEN One
      ELSE Normalised(Information(c, margA, margB, n), Entropy(margA, n), Entropy(margB, n))
=============================================================================
