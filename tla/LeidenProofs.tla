---------------------------- MODULE LeidenProofs ----------------------------
(***************************************************************************)
(* Proofs about the clustering, for all graphs, all orders of the shuffles *)
(* and either algorithm.                                                   *)
(***************************************************************************)
EXTENDS Leiden, ClustersProofs

-----------------------------------------------------------------------------
(* A shuffled list lists what the list does.                               *)

\* The orders after t exchanges, from those before, and the function of all t.
Exchanged(items, s, drawn, prev, t) ==
  IF t = 0 THEN {items}
  ELSE {Swap(o, Len(items) - t + 1, j + 1) :
          o \in prev,
          j \in (0..(Len(items) - t)) \cap Draw(s, drawn + t, Len(items) - t + 1)}

Exchanges(items, s, drawn, f) ==
  f = [t \in 0..Len(items) |-> Exchanged(items, s, drawn, f[t - 1], t)]

LEMMA ExchangesExist ==
  ASSUME NEW T, NEW items \in Seq(T), NEW s, NEW drawn
  PROVE  \E f : Exchanges(items, s, drawn, f)
<1> DEFINE E(f, t) == Exchanged(items, s, drawn, f[t - 1], t)
           F == {k \in Nat : \E f : f = [t \in 0..k |-> E(f, t)]}
<1>1. 0 \in F
  <2> DEFINE f == [t \in 0..0 |-> {items}]
  <2>1. f = [t \in 0..0 |-> E(f, t)]
    <3>1. \A t \in 0..0 : t = 0
      OBVIOUS
    <3>2. \A t \in 0..0 : E(f, t) = {items}
      BY <3>1 DEF Exchanged
    <3> HIDE DEF E
    <3> QED
      BY <3>2
  <2> HIDE DEF f, E
  <2> QED
    BY <2>1
<1>2. ASSUME NEW k \in Nat, k \in F
      PROVE  k + 1 \in F
  <2>1. PICK f : f = [t \in 0..k |-> E(f, t)]
    BY <1>2
  <2> DEFINE h == [t \in 0..(k + 1) |-> IF t = k + 1 THEN E(f, t) ELSE f[t]]
  <2>2. \A t \in 0..k : h[t] = f[t]
    BY <1>2
  <2>3. \A t \in 0..(k + 1) : E(h, t) = E(f, t)
    <3>1. \A t \in 0..(k + 1) : t # 0 => t - 1 \in 0..k
      BY <1>2
    <3>2. \A t \in 0..(k + 1) : t # 0 => h[t - 1] = f[t - 1]
      BY <2>2, <3>1
    <3> HIDE DEF h
    <3>3. \A t \in 0..(k + 1) : t # 0 => E(h, t) = E(f, t)
      BY <3>2
    <3>4. E(h, 0) = E(f, 0)
      BY DEF Exchanged
    <3> HIDE DEF E
    <3> QED
      BY <3>3, <3>4
  <2>4. \A t \in 0..(k + 1) : t # k + 1 => t \in 0..k
    BY <1>2
  <2>5. \A t \in 0..(k + 1) : h[t] = E(f, t)
    <3> HIDE DEF E
    <3>1. \A t \in 0..k : f[t] = E(f, t)
      BY <2>1
    <3> QED
      BY <2>4, <3>1
  <2>6. h = [t \in 0..(k + 1) |-> E(h, t)]
    <3>1. h = [t \in 0..(k + 1) |-> h[t]]
      OBVIOUS
    <3> HIDE DEF h, E
    <3> QED
      BY <2>3, <2>5, <3>1
  <2> HIDE DEF h, E
  <2> QED
    BY <1>2, <2>6
<1>3. \A k \in Nat : k \in F
  <2> HIDE DEF F
  <2> QED
    BY <1>1, <1>2, NumberInduction
<1>4. Len(items) \in F
  BY <1>3
<1> QED
  BY <1>4 DEF Exchanges

LEMMA ShuffleType ==
  ASSUME NEW T, NEW items \in Seq(T), NEW s, NEW drawn, NEW o \in Shuffles(items, s, drawn)
  PROVE  o \in Seq(T) /\ Len(o) = Len(items)
<1> DEFINE n == Len(items)
           f == CHOOSE f : Exchanges(items, s, drawn, f)
<1>1. n \in Nat /\ items \in [1..n -> T]
  OBVIOUS
<1>2. Shuffles(items, s, drawn) = f[IF n = 0 THEN 0 ELSE n - 1]
  BY DEF Shuffles, Exchanges, Exchanged
<1>3. Exchanges(items, s, drawn, f)
  BY ExchangesExist
<1> HIDE DEF f, n
<1>4. \A t \in 0..n : f[t] = Exchanged(items, s, drawn, f[t - 1], t)
  BY <1>3 DEF Exchanges, n
<1> DEFINE F == {t \in Nat : t <= n => \A p \in f[t] : p \in [1..n -> T]}
<1>5. 0 \in F
  <2>1. f[0] = Exchanged(items, s, drawn, f[0 - 1], 0)
    BY <1>1, <1>4
  <2>2. f[0] = {items}
    BY <2>1 DEF Exchanged
  <2> QED
    BY <1>1, <2>2
<1>6. ASSUME NEW t \in Nat, t \in F
      PROVE  t + 1 \in F
  <2> SUFFICES ASSUME t + 1 <= n, NEW p \in f[t + 1]
               PROVE  p \in [1..n -> T]
    BY <1>6
  <2>1. t + 1 \in 0..n /\ (t + 1) - 1 = t /\ t + 1 # 0 /\ t <= n
    BY <1>1
  <2>2. p \in Exchanged(items, s, drawn, f[t], t + 1)
    BY <1>4, <2>1
  <2>3. PICK q \in f[t], j \in 0..(n - (t + 1)) : p = Swap(q, n - (t + 1) + 1, j + 1)
    BY <2>1, <2>2 DEF Exchanged, n
  <2>4. q \in [1..n -> T] /\ n - (t + 1) + 1 \in 1..n /\ j + 1 \in 1..n
    BY <1>1, <1>6, <2>1
  <2> QED
    BY <2>3, <2>4 DEF Swap
<1>7. \A t \in Nat : t \in F
  <2> HIDE DEF F
  <2> QED
    BY <1>5, <1>6, NumberInduction
<1>8. o \in [1..n -> T]
  <2> DEFINE t == IF n = 0 THEN 0 ELSE n - 1
  <2>1. t \in Nat /\ t <= n /\ o \in f[t]
    BY <1>1, <1>2
  <2> HIDE DEF t
  <2> QED
    BY <1>7, <2>1
<1> QED
  BY <1>1, <1>8 DEF n

\* The same for several lists in a row.
Concatenations(A, B) == {o \o p : o \in A, p \in B}

InTurn(lists, s, drawn, acc, i) ==
  IF i = 0 THEN [orders |-> {<< >>}, drawn |-> drawn]
  ELSE [orders |-> Concatenations(acc.orders, Shuffles(lists[i], s, acc.drawn)),
        drawn  |-> acc.drawn + Len(lists[i]) - 1]

Turns(lists, s, drawn, f) ==
  f = [i \in 0..Len(lists) |-> InTurn(lists, s, drawn, f[i - 1], i)]

LEMMA TurnsExist ==
  ASSUME NEW T, NEW lists \in Seq(T), NEW s, NEW drawn
  PROVE  \E f : Turns(lists, s, drawn, f)
<1> DEFINE E(f, i) == InTurn(lists, s, drawn, f[i - 1], i)
           F == {k \in Nat : \E f : f = [i \in 0..k |-> E(f, i)]}
<1>1. 0 \in F
  <2> DEFINE f == [i \in 0..0 |-> [orders |-> {<< >>}, drawn |-> drawn]]
  <2>1. f = [i \in 0..0 |-> E(f, i)]
    <3>1. \A i \in 0..0 : i = 0
      OBVIOUS
    <3>2. \A i \in 0..0 : E(f, i) = [orders |-> {<< >>}, drawn |-> drawn]
      BY <3>1 DEF InTurn
    <3> HIDE DEF E
    <3> QED
      BY <3>2
  <2> HIDE DEF f, E
  <2> QED
    BY <2>1
<1>2. ASSUME NEW k \in Nat, k \in F
      PROVE  k + 1 \in F
  <2>1. PICK f : f = [i \in 0..k |-> E(f, i)]
    BY <1>2
  <2> DEFINE h == [i \in 0..(k + 1) |-> IF i = k + 1 THEN E(f, i) ELSE f[i]]
  <2>2. \A i \in 0..k : h[i] = f[i]
    BY <1>2
  <2>3. \A i \in 0..(k + 1) : E(h, i) = E(f, i)
    <3>1. \A i \in 0..(k + 1) : i # 0 => i - 1 \in 0..k
      BY <1>2
    <3>2. \A i \in 0..(k + 1) : i # 0 => h[i - 1] = f[i - 1]
      BY <2>2, <3>1
    <3> HIDE DEF h
    <3>3. \A i \in 0..(k + 1) : i # 0 => E(h, i) = E(f, i)
      BY <3>2
    <3>4. E(h, 0) = E(f, 0)
      BY DEF InTurn
    <3> HIDE DEF E
    <3> QED
      BY <3>3, <3>4
  <2>4. \A i \in 0..(k + 1) : i # k + 1 => i \in 0..k
    BY <1>2
  <2>5. \A i \in 0..(k + 1) : h[i] = E(f, i)
    <3> HIDE DEF E
    <3>1. \A i \in 0..k : f[i] = E(f, i)
      BY <2>1
    <3> QED
      BY <2>4, <3>1
  <2>6. h = [i \in 0..(k + 1) |-> E(h, i)]
    <3>1. h = [i \in 0..(k + 1) |-> h[i]]
      OBVIOUS
    <3> HIDE DEF h, E
    <3> QED
      BY <2>3, <2>5, <3>1
  <2> HIDE DEF h, E
  <2> QED
    BY <1>2, <2>6
<1>3. \A k \in Nat : k \in F
  <2> HIDE DEF F
  <2> QED
    BY <1>1, <1>2, NumberInduction
<1>4. Len(lists) \in F
  BY <1>3
<1> QED
  BY <1>4 DEF Turns

LEMMA ShufflesInTurnType ==
  ASSUME NEW T, NEW lists \in Seq(Seq(T)), NEW s, NEW drawn,
         NEW o \in ShufflesInTurn(lists, s, drawn)
  PROVE  o \in Seq(T)
<1> DEFINE n == Len(lists)
           f == CHOOSE f : Turns(lists, s, drawn, f)
<1>1. n \in Nat /\ \A i \in 1..n : lists[i] \in Seq(T)
  OBVIOUS
<1>2. ShufflesInTurn(lists, s, drawn) = f[n].orders
  BY DEF ShufflesInTurn, Turns, InTurn, Concatenations
<1>3. Turns(lists, s, drawn, f)
  BY TurnsExist
<1> HIDE DEF f, n
<1>4. \A i \in 0..n : f[i] = InTurn(lists, s, drawn, f[i - 1], i)
  BY <1>3 DEF Turns, n
<1> DEFINE F == {i \in Nat : i <= n => \A p \in f[i].orders : p \in Seq(T)}
<1>5. 0 \in F
  <2>1. f[0] = InTurn(lists, s, drawn, f[0 - 1], 0)
    BY <1>1, <1>4
  <2>2. f[0].orders = {<< >>}
    BY <2>1 DEF InTurn
  <2>3. << >> \in Seq(T)
    OBVIOUS
  <2>4. \A p \in f[0].orders : p \in Seq(T)
    BY <2>2, <2>3
  <2> QED
    BY <2>4
<1>6. ASSUME NEW i \in Nat, i \in F
      PROVE  i + 1 \in F
  <2> SUFFICES ASSUME i + 1 <= n, NEW p \in f[i + 1].orders
               PROVE  p \in Seq(T)
    BY <1>6
  <2>1. i + 1 \in 0..n /\ i + 1 \in 1..n /\ (i + 1) - 1 = i /\ i + 1 # 0 /\ i <= n
    BY <1>1
  <2>2. p \in InTurn(lists, s, drawn, f[i], i + 1).orders
    BY <1>4, <2>1
  <2>3. PICK q \in f[i].orders, r \in Shuffles(lists[i + 1], s, f[i].drawn) : p = q \o r
    <3>1. p \in Concatenations(f[i].orders, Shuffles(lists[i + 1], s, f[i].drawn))
      BY <2>1, <2>2 DEF InTurn
    <3>2. ASSUME NEW A, NEW B, p \in Concatenations(A, B)
          PROVE  \E q \in A, r \in B : p = q \o r
      BY <3>2 DEF Concatenations
    <3> QED
      BY <3>1, <3>2
  <2>4. q \in Seq(T)
    BY <1>6, <2>1
  <2>5. r \in Seq(T)
    BY <1>1, <2>1, ShuffleType
  <2> QED
    BY <2>3, <2>4, <2>5
<1>7. \A i \in Nat : i \in F
  <2> HIDE DEF F
  <2> QED
    BY <1>5, <1>6, NumberInduction
<1> QED
  BY <1>1, <1>2, <1>7

\* A pass visits nodes of the graph.
LEMMA OrdersType ==
  ASSUME NEW T, NEW lists \in Seq(Seq(T)), NEW st, NEW lev, NEW ps,
         NEW o \in Orders(lists, st, lev, ps)
  PROVE  o \in Seq(T)
BY ShufflesInTurnType DEF Orders

LEMMA MoveListsType ==
  ASSUME NEW g, IsWeighted(g)
  PROVE  MoveLists(g) \in Seq(Seq(NodesIn(g)))
<1> DEFINE n == Cardinality(NodesIn(g))
<1>1. NodesIn(g) = 1..n /\ n \in Nat
  BY WeightedHas
<1> HIDE DEF n
<1>2. [i \in 1..n |-> i] \in Seq(NodesIn(g))
  BY <1>1
<1> QED
  BY <1>2 DEF MoveLists, Size, n

LEMMA RefineListsType ==
  ASSUME NEW n \in Nat, NEW p, DOMAIN p = 1..n, CommunityCount(p) \in Nat
  PROVE  RefineLists(p) \in Seq(Seq(1..n))
<1> DEFINE k == CommunityCount(p)
           lists == [c \in 1..k |-> Ascending(BucketOf(p, c - 1))]
           long == {c \in DOMAIN lists : Len(lists[c]) >= 2}
<1>1. \A c \in 1..k : Ascending(BucketOf(p, c - 1)) \in Seq(1..n)
  <2>1. ASSUME NEW c \in 1..k
        PROVE  Ascending(BucketOf(p, c - 1)) \in Seq(1..n)
    <3> DEFINE B == BucketOf(p, c - 1)
    <3>1. IsFiniteSet(1..n) /\ B \in SUBSET (1..n) /\ B \subseteq Int
      BY FS_Interval DEF BucketOf
    <3>2. IsFiniteSet(B)
      BY <3>1, FS_Subset
    <3>3. Ascending(B) \in Seq(B)
      BY <3>1, <3>2, AscendingSorts
    <3> QED
      BY <3>1, <3>3
  <2> QED
    BY <2>1
<1>2. lists \in Seq(Seq(1..n))
  BY <1>1
<1>3. long \in SUBSET DOMAIN lists
  OBVIOUS
<1>4. Chosen(lists, long) \in Seq(Seq(1..n))
  <2> HIDE DEF lists, long
  <2> QED
    BY <1>2, <1>3, ChosenIs
<1> QED
  BY <1>4 DEF RefineLists

-----------------------------------------------------------------------------
(* One visit.                                                              *)

LEMMA SizeIs ==
  ASSUME NEW g, IsWeighted(g)
  PROVE  /\ Size(g) \in Nat /\ NodesIn(g) = 1..Size(g)
         /\ IsFiniteSet(0..(Size(g) - 1)) /\ 0..(Size(g) - 1) \subseteq Int
<1>1. Size(g) \in Nat /\ NodesIn(g) = 1..Size(g)
  BY WeightedHas DEF Size
<1>2. Size(g) - 1 \in Int
  BY <1>1
<1>3. IsFiniteSet(0..(Size(g) - 1))
  BY <1>2, FS_Interval
<1> QED
  BY <1>1, <1>3

\* What a visit relies on.
Visitable ==
  /\ IsWeighted(wg)
  /\ label \in [NodesIn(wg) -> 0..(Size(wg) - 1)]
  /\ TotalsExact
  /\ RefinementInside

\* A finite set of whole numbers has a greatest and a least member.
LEMMA MaxMin ==
  ASSUME NEW S, IsFiniteSet(S), S \subseteq Int, S # {}
  PROVE  /\ Max(S) \in S /\ \A x \in S : Max(S) >= x
         /\ Min(S) \in S
<1>1. \E m \in S : \A x \in S : m >= x
  <2>1. PICK m \in S : \A x \in S : x <= m
    BY GreatestExists
  <2>2. \A x \in S : m >= x
    BY <2>1
  <2> QED
    BY <2>2
<1>2. \E m \in S : \A x \in S : m <= x
  <2> DEFINE T == {-x : x \in S}
             f == [x \in S |-> -x]
  <2>1. f \in Surjection(S, T)
    BY DEF Surjection
  <2>2. IsFiniteSet(T) /\ T \subseteq Int /\ T # {}
    <3>1. IsFiniteSet(T)
      BY <2>1, FS_Surjection
    <3>2. \A x \in S : x \in Int /\ -x \in Int
      OBVIOUS
    <3>3. T \subseteq Int
      BY <3>2
    <3>4. PICK x \in S : TRUE
      OBVIOUS
    <3>5. -x \in T
      OBVIOUS
    <3> QED
      BY <3>1, <3>3, <3>5
  <2>3. PICK m \in T : \A x \in T : x <= m
    <3> HIDE DEF T
    <3> QED
      BY <2>2, GreatestExists
  <2>4. PICK y \in S : m = -y
    OBVIOUS
  <2>5. \A x \in S : -x <= -y
    BY <2>3, <2>4
  <2>6. \A x \in S : x \in Int /\ y \in Int
    OBVIOUS
  <2>7. \A x \in S : y <= x
    BY <2>5, <2>6
  <2> QED
    BY <2>7
<1>3. Max(S) \in S /\ \A x \in S : Max(S) >= x
  BY <1>1 DEF Max
<1>4. Min(S) \in S
  BY <1>2 DEF Min
<1> QED
  BY <1>3, <1>4

\* The weight a visit adds up is that to all other members of the community.
LEMMA TowardIs ==
  ASSUME Visitable, NEW u \in NodesIn(wg), NEW c \in Candidates(u)
  PROVE  Toward(u, c) = Weight(wg, {u}, BucketOf(label, c) \ {u})
<1> DEFINE N == NodesIn(wg)
           X == BucketOf(label, c) \ {u}
           Y == {v \in Near(u) : label[v] = c}
<1>1. /\ DOMAIN label = N /\ IsWeighted(wg)
      /\ wg.mult \in [N \X N -> Nat]
  BY WeightedHas DEF Visitable
<1>2. X \in SUBSET N /\ Y \in SUBSET X /\ {u} \in SUBSET N
  BY <1>1 DEF BucketOf, Near, Neighbours
<1>3. IsFiniteSet({u} \X X) /\ \A e \in {u} \X X : wg.mult[e] \in Int
  BY <1>1, <1>2, WeightType
<1>4. ASSUME NEW v \in X \ Y
      PROVE  wg.mult[<<u, v>>] = 0
  <2>1. v \in N /\ v # u /\ label[v] = c /\ v \notin Near(u)
    BY <1>1, <1>2 DEF BucketOf
  <2>2. stage = "refine" => part[v] = part[u]
    <3>1. CASE c = label[u]
      BY <1>1, <2>1, <3>1 DEF Visitable, RefinementInside
    <3>2. CASE \E w \in Near(u) : c = label[w]
      <4>1. PICK w \in Near(u) : c = label[w]
        BY <3>2
      <4>2. w \in N /\ (stage = "refine" => part[w] = part[u])
        BY DEF Near, Neighbours
      <4> QED
        BY <1>1, <2>1, <4>1, <4>2 DEF Visitable, RefinementInside
    <3> QED
      BY <3>1, <3>2 DEF Candidates
  <2>3. ~(wg.mult[<<u, v>>] > 0)
    BY <2>1, <2>2 DEF Near, Neighbours
  <2>4. wg.mult[<<u, v>>] \in Nat
    BY <1>1, <2>1
  <2> QED
    BY <2>3, <2>4
<1>5. \A e \in ({u} \X X) \ ({u} \X Y) : wg.mult[e] = 0
  <2>1. ASSUME NEW e \in ({u} \X X) \ ({u} \X Y)
        PROVE  wg.mult[e] = 0
    <3>1. e = <<u, e[2]>> /\ e[2] \in X \ Y
      OBVIOUS
    <3> HIDE DEF X, Y
    <3> QED
      BY <1>4, <3>1
  <2> QED
    BY <2>1
<1>6. {u} \X Y \in SUBSET ({u} \X X)
  BY <1>2
<1>7. SumFunctionOnSet(wg.mult, {u} \X X) = SumFunctionOnSet(wg.mult, {u} \X Y)
  <2> HIDE DEF X, Y
  <2> QED
    BY <1>3, <1>5, <1>6, SumOfSupport
<1> QED
  BY <1>7 DEF Toward, Weight

\* The totals with u taken out are those of the communities without it.
LEMMA RemovedIs ==
  ASSUME Visitable, NEW u \in NodesIn(wg)
  PROVE  /\ label[u] \in 0..(Size(wg) - 1)
         /\ Removed(u) = [c \in 0..(Size(wg) - 1) |->
                            SumFunctionOnSet(wg.degree, BucketOf(label, c) \ {u})]
         /\ \A c : SumFunctionOnSet(wg.degree, BucketOf(label, c) \ {u}) \in Nat
<1> DEFINE N == NodesIn(wg)
           C == 0..(Size(wg) - 1)
           D(c) == SumFunctionOnSet(wg.degree, BucketOf(label, c))
           R(c) == SumFunctionOnSet(wg.degree, BucketOf(label, c) \ {u})
<1>1. /\ label \in [N -> C] /\ DOMAIN label = N /\ wg.degree \in [N -> Nat] /\ IsFiniteSet(N)
      /\ tot = [c \in C |-> D(c)]
  BY DegreeType, WeightedHas DEF Visitable, TotalsExact, TotalsOf
<1>2. \A c : R(c) \in Nat
  <2>1. \A c : BucketOf(label, c) \ {u} \in SUBSET N
    BY <1>1 DEF BucketOf
  <2>2. IsWeighted(wg)
    BY DEF Visitable
  <2> QED
    BY <2>1, <2>2, DegreesAddUp
<1>3. D(label[u]) = wg.degree[u] + R(label[u])
  <2> DEFINE B == BucketOf(label, label[u])
  <2>1. u \in B /\ B \in SUBSET N /\ \A v \in B : wg.degree[v] \in Int
    BY <1>1 DEF BucketOf
  <2>2. IsFiniteSet(B)
    BY <1>1, <2>1, FS_Subset
  <2> HIDE DEF B
  <2>3. SumFunctionOnSet(wg.degree, B) = wg.degree[u] + SumFunctionOnSet(wg.degree, B \ {u})
    BY <2>1, <2>2, SumRemove
  <2> QED
    BY <2>3 DEF B
<1>4. \A c : c # label[u] => R(c) = D(c)
  <2>1. \A c : c # label[u] => BucketOf(label, c) \ {u} = BucketOf(label, c)
    BY DEF BucketOf
  <2> QED
    BY <2>1
<1>5. label[u] \in C /\ wg.degree[u] \in Nat
  BY <1>1
<1> HIDE DEF D, R, C
<1>6. D(label[u]) - wg.degree[u] = R(label[u])
  BY <1>2, <1>3, <1>5
<1>7. Removed(u) = [c \in C |-> R(c)]
  <2>1. Removed(u) = [c \in C |-> IF c = label[u] THEN D(c) - wg.degree[u] ELSE D(c)]
    BY <1>1, <1>5 DEF Removed
  <2> QED
    BY <1>4, <1>6, <2>1
<1> QED
  BY <1>2, <1>5, <1>7 DEF R, C

\* A gain is the pull of the community on u.
LEMMA GainIs ==
  ASSUME Visitable, NEW u \in NodesIn(wg), NEW c \in Candidates(u)
  PROVE  /\ c \in 0..(Size(wg) - 1)
         /\ Gain(u, c) = Pull(wg, u, BucketOf(label, c) \ {u})
         /\ Gain(u, c) \in Int
<1> DEFINE X == BucketOf(label, c) \ {u}
<1>1. c \in 0..(Size(wg) - 1)
  BY DEF Visitable, Candidates, Near, Neighbours
<1>2. Removed(u)[c] = SumFunctionOnSet(wg.degree, X)
  BY <1>1, RemovedIs
<1>3. Toward(u, c) = Weight(wg, {u}, X)
  BY TowardIs
<1>4. IsWeighted(wg) /\ X \in SUBSET NodesIn(wg) /\ u \notin X
  BY DEF Visitable, BucketOf
<1>5. Gain(u, c) = Pull(wg, u, X)
  BY <1>2, <1>3 DEF Gain, Pull
<1>6. Pull(wg, u, X) \in Int
  <2> HIDE DEF X
  <2> QED
    BY <1>4, WorthGrows
<1> QED
  BY <1>1, <1>5, <1>6

\* The community a node joins is one it looked at, and gains at least as much.
LEMMA BestIs ==
  ASSUME Visitable, NEW u \in NodesIn(wg)
  PROVE  /\ Best(u) \in Candidates(u)
         /\ Best(u) # label[u] => Gain(u, Best(u)) >= Gain(u, label[u])
<1> DEFINE gain == [c \in Candidates(u) |-> Gain(u, c)]
           top == Max(Range(gain))
           ties == {c \in DOMAIN gain : gain[c] = top}
<1>1. /\ Candidates(u) \subseteq 0..(Size(wg) - 1) /\ Candidates(u) \subseteq Int
      /\ \A c \in Candidates(u) : Gain(u, c) \in Int
      /\ label[u] \in Candidates(u)
  <2>1. \A c \in Candidates(u) : c \in 0..(Size(wg) - 1) /\ Gain(u, c) \in Int
    BY GainIs
  <2>2. 0..(Size(wg) - 1) \subseteq Int
    BY WeightedHas DEF Visitable, Size
  <2> QED
    BY <2>1, <2>2 DEF Candidates
<1>2. IsFiniteSet(Candidates(u))
  <2>1. IsFiniteSet(0..(Size(wg) - 1))
    BY SizeIs DEF Visitable
  <2> QED
    BY <1>1, <2>1, FS_Subset
<1>3. DOMAIN gain = Candidates(u) /\ \A c \in Candidates(u) : gain[c] = Gain(u, c)
  OBVIOUS
<1>4. Best(u) = IF top <= 0 THEN label[u] ELSE Min(ties)
  BY DEF Best
<1> HIDE DEF gain
<1>5. top \in Range(gain) /\ \A x \in Range(gain) : top >= x
  <2>1. IsFiniteSet(Range(gain))
    BY <1>2, <1>3, RangeFinite
  <2>2. Range(gain) \subseteq Int /\ Range(gain) # {}
    BY <1>1, <1>3 DEF Range
  <2> QED
    BY <2>1, <2>2, MaxMin
<1> HIDE DEF top
<1>6. ties # {}
  BY <1>5 DEF Range
<1>7. Min(ties) \in ties
  <2>1. ties \in SUBSET Candidates(u)
    BY <1>3
  <2>2. IsFiniteSet(ties) /\ ties \subseteq Int
    BY <1>1, <1>2, <2>1, FS_Subset
  <2> HIDE DEF ties
  <2> QED
    BY <1>6, <2>2, MaxMin
<1>8. Best(u) \in Candidates(u)
  BY <1>1, <1>3, <1>4, <1>7
<1>9. Best(u) # label[u] => Gain(u, Best(u)) >= Gain(u, label[u])
  <2>1. gain[label[u]] \in Range(gain)
    BY <1>1, <1>3 DEF Range
  <2>2. top >= gain[label[u]]
    BY <1>5, <2>1
  <2> QED
    BY <1>1, <1>3, <1>4, <1>7, <2>2
<1> QED
  BY <1>8, <1>9

\* What a visit of u leaves: exact totals, refined communities that stay inside
\* those of P, and a modularity no lower.
LEMMA VisitKeeps ==
  ASSUME Visitable, NEW u \in NodesIn(wg), NEW new, new = [label EXCEPT ![u] = Best(u)]
  PROVE  /\ new \in [NodesIn(wg) -> 0..(Size(wg) - 1)]
         /\ [Removed(u) EXCEPT ![Best(u)] = @ + wg.degree[u]] = TotalsOf(wg, new)
         /\ Quality(wg, new) >= Quality(wg, label)
         /\ stage = "refine" =>
              \A v, w \in DOMAIN new : new[v] = new[w] => part[v] = part[w]
<1> DEFINE N == NodesIn(wg)
           C == 0..(Size(wg) - 1)
           a == label[u]
           b == Best(u)
           R(c) == SumFunctionOnSet(wg.degree, BucketOf(label, c) \ {u})
<1>1. /\ IsWeighted(wg) /\ label \in [N -> C] /\ DOMAIN label = N
      /\ wg.degree \in [N -> Nat] /\ IsFiniteSet(N)
  BY DegreeType, WeightedHas DEF Visitable
<1>2. a \in Candidates(u) /\ b \in Candidates(u) /\ a \in C /\ b \in C
  <2>1. a \in Candidates(u) /\ b \in Candidates(u)
    BY BestIs DEF Candidates
  <2> QED
    BY <2>1, GainIs
<1>3. IsFiniteSet(C)
  BY SizeIs DEF Visitable
<1> HIDE DEF b, C
<1>4. new \in [N -> C] /\ DOMAIN new = N /\ \A v \in N : new[v] = IF v = u THEN b ELSE label[v]
  BY <1>1, <1>2 DEF b
<1>5. /\ Removed(u) = [c \in C |-> R(c)] /\ \A c : R(c) \in Nat
  BY RemovedIs DEF C
<1>6. [Removed(u) EXCEPT ![b] = @ + wg.degree[u]] = TotalsOf(wg, new)
  <2>1. \A c : /\ c # b => BucketOf(new, c) = BucketOf(label, c) \ {u}
               /\ BucketOf(new, b) = (BucketOf(label, b) \ {u}) \cup {u}
    BY <1>1, <1>4 DEF BucketOf
  <2>2. SumFunctionOnSet(wg.degree, BucketOf(new, b)) = wg.degree[u] + R(b)
    <3> DEFINE B == BucketOf(label, b) \ {u}
    <3>1. B \in SUBSET N /\ u \notin B /\ \A v \in B \cup {u} : wg.degree[v] \in Int
      BY <1>1 DEF BucketOf
    <3>2. IsFiniteSet(B)
      BY <1>1, <3>1, FS_Subset
    <3> HIDE DEF B
    <3>3. SumFunctionOnSet(wg.degree, B \cup {u}) = wg.degree[u] + SumFunctionOnSet(wg.degree, B)
      BY <3>1, <3>2, SumAdd
    <3> QED
      BY <2>1, <3>3 DEF B
  <2>3. \A c : c # b => SumFunctionOnSet(wg.degree, BucketOf(new, c)) = R(c)
    BY <2>1
  <2>4. wg.degree[u] + R(b) = R(b) + wg.degree[u]
    BY <1>1, <1>5
  <2> DEFINE D(c) == SumFunctionOnSet(wg.degree, BucketOf(new, c))
  <2>5. TotalsOf(wg, new) = [c \in C |-> D(c)]
    BY DEF TotalsOf, C
  <2>6. D(b) = R(b) + wg.degree[u] /\ \A c : c # b => D(c) = R(c)
    BY <2>2, <2>3, <2>4
  <2> HIDE DEF D, R
  <2> QED
    BY <1>2, <1>5, <2>5, <2>6
<1>7. Quality(wg, new) >= Quality(wg, label)
  <2>1. CASE b = a
    <3>1. new = label
      BY <1>1, <1>4, <2>1 DEF b
    <3>2. Quality(wg, label) \in Int
      <4>1. Range(label) \subseteq C
        BY <1>1 DEF Range
      <4> QED
        BY <1>1, <1>3, <4>1, QualityOver
    <3> QED
      BY <3>1, <3>2
  <2>2. CASE b # a
    <3> DEFINE pa == Pull(wg, u, BucketOf(label, a) \ {u})
               pb == Pull(wg, u, BucketOf(label, b))
    <3>1. Gain(u, a) = pa /\ Gain(u, b) = pb
      <4>1. BucketOf(label, b) \ {u} = BucketOf(label, b)
        BY <2>2 DEF BucketOf
      <4> QED
        BY <1>2, <4>1, GainIs
    <3>2. pb >= pa
      BY <2>2, <3>1, BestIs DEF b
    <3>3. pb >= pa => Quality(wg, new) >= Quality(wg, label)
      <4>1. /\ IsWeighted(wg) /\ IsFiniteSet(C) /\ label \in [NodesIn(wg) -> C]
            /\ new \in [NodesIn(wg) -> C] /\ new[u] # label[u]
            /\ \A v \in NodesIn(wg) : v # u => new[v] = label[v]
        BY <1>1, <1>3, <1>4, <2>2
      <4>2. /\ pa = Pull(wg, u, BucketOf(label, label[u]) \ {u})
            /\ pb = Pull(wg, u, BucketOf(label, new[u]))
        BY <1>4
      <4> HIDE DEF pa, pb, a, N
      <4> QED
        BY ZenonT(30), <4>1, <4>2, MoveChanges
    <3> QED
      BY <3>2, <3>3
  <2> QED
    BY <2>1, <2>2
<1>8. ASSUME stage = "refine", NEW v \in N, NEW w \in N, new[v] = new[w]
      PROVE  part[v] = part[w]
  <2>1. \A x, y \in N : label[x] = label[y] => part[x] = part[y]
    BY <1>1, <1>8 DEF Visitable, RefinementInside
  <2>2. \A x \in N : label[x] = b => part[x] = part[u]
    <3>1. CASE b = label[u]
      BY <2>1, <3>1
    <3>2. CASE \E y \in Near(u) : b = label[y]
      <4>1. PICK y \in Near(u) : b = label[y]
        BY <3>2
      <4>2. y \in N /\ part[y] = part[u]
        BY <1>8 DEF Near, Neighbours
      <4> QED
        BY <2>1, <4>1, <4>2
    <3> QED
      BY <1>2, <3>1, <3>2 DEF Candidates
  <2> QED
    BY <1>4, <1>8, <2>1, <2>2
<1> QED
  BY <1>4, <1>6, <1>7, <1>8 DEF b, C

-----------------------------------------------------------------------------
(* The invariant.                                                          *)

\* The graph of a call: the given one, or that of its clusters.
LayerInv ==
  /\ IsWeighted(given)
  /\ layer \in {"clusters", "regions"}
  /\ layer = "clusters" => origin = given
  /\ layer = "regions" =>
       IsPartition(clusters, NodesIn(given)) /\ origin = Aggregate(given, clusters)

\* The communities of the original nodes that the nodes of the level stand for.
Merged == [i \in DOMAIN nodeAt |-> nodeAt[i] - 1]

\* The graph of a level is the graph of the call aggregated once.
LevelInv ==
  /\ nodeAt \in [NodesIn(origin) -> Nat]
  /\ IsPartition(Merged, NodesIn(origin)) /\ wg = Aggregate(origin, Merged)
  /\ IsPartition(composed, NodesIn(origin))

\* In the local moving the labels are no worse than the answer so far; in the
\* refinement P is that answer, and every refined community lies inside it.
StageInv ==
  /\ stage \in {"move", "refine", "done"}
  /\ label \in [NodesIn(wg) -> 0..(Size(wg) - 1)]
  /\ TotalsExact
  /\ todo \in Seq(NodesIn(wg))
  /\ stage = "done" => todo = << >>
  /\ stage = "move" => Quality(wg, label) >= Quality(origin, composed)
  /\ stage = "refine" =>
       /\ IsPartition(part, NodesIn(wg))
       /\ composed = [i \in DOMAIN nodeAt |-> part[nodeAt[i]]]
  /\ RefinementInside

LeidenInv == LayerInv /\ LevelInv /\ StageInv

-----------------------------------------------------------------------------
(* From level to level.                                                    *)

\* A next level starts every node in the P-community of its members.
LEMMA InheritedIs ==
  ASSUME NEW n \in Nat, NEW r, IsPartition(r, 1..n), NEW p, IsPartition(p, 1..n),
         \A u, v \in 1..n : r[u] = r[v] => p[u] = p[v]
  PROVE  /\ Inherited(r, p) \in [1..CommunityCount(r) -> 0..(CommunityCount(r) - 1)]
         /\ Carried(r, Inherited(r, p)) = p
         /\ CommunityCount(p) <= CommunityCount(r)
<1> DEFINE N == 1..n
           K == 1..CommunityCount(r)
           h == Inherited(r, p)
<1>1. /\ IsFiniteSet(N) /\ DOMAIN r = N /\ DOMAIN p = N /\ p \in [N -> Nat]
      /\ CommunityCount(r) \in Nat /\ CommunityCount(p) \in Nat
      /\ \A i \in N : r[i] \in Nat /\ r[i] + 1 \in K
      /\ \A c \in 0..(CommunityCount(r) - 1) : \E i \in N : r[i] = c
      /\ p \in [N -> 0..(CommunityCount(p) - 1)]
      /\ Range(p) = 0..(CommunityCount(p) - 1)
  <2>1. IsFiniteSet(N)
    BY FS_Interval
  <2> HIDE DEF N
  <2>2. /\ DOMAIN r = N /\ DOMAIN p = N /\ p \in [N -> Nat]
        /\ Range(p) = 0..(CommunityCount(p) - 1)
    BY DEF IsPartition, N
  <2>3. /\ CommunityCount(r) \in Nat /\ CommunityCount(p) \in Nat
        /\ \A i \in N : r[i] \in Nat /\ r[i] + 1 \in K
    BY <2>1, PartitionHas DEF N
  <2>4. \A c \in 0..(CommunityCount(r) - 1) : \E i \in N : r[i] = c
    BY ZenonT(30), <2>1, PartitionHas DEF N
  <2>5. p \in [N -> 0..(CommunityCount(p) - 1)]
    BY <2>1, PartitionHas DEF N
  <2> QED
    BY <2>1, <2>2, <2>3, <2>4, <2>5
<1>2. DOMAIN h = K
  BY DEF Inherited
<1>3. ASSUME NEW c \in K
      PROVE  \E u \in N : r[u] + 1 = c /\ h[c] = p[u]
  <2> DEFINE B == {u \in N : r[u] = c - 1}
  <2>1. c - 1 \in 0..(CommunityCount(r) - 1) /\ c \in Int
    BY <1>1
  <2>2. B # {} /\ B \in SUBSET N /\ B \subseteq Int
    <3>1. \E i \in N : r[i] = c - 1
      BY <1>1, <2>1
    <3>2. B \in SUBSET N /\ N \subseteq Int
      OBVIOUS
    <3> HIDE DEF N
    <3> QED
      BY <3>1, <3>2
  <2>3. IsFiniteSet(B)
    BY <1>1, <2>2, FS_Subset
  <2>4. \E m \in B : \A x \in B : x <= m
    <3> HIDE DEF B
    <3> QED
      BY <2>2, <2>3, GreatestExists
  <2> DEFINE last == CHOOSE u \in DOMAIN r : r[u] = c - 1 /\ \A v \in DOMAIN r : r[v] = c - 1 => v <= u
  <2>5. last \in N /\ r[last] = c - 1
    <3>1. \E u \in DOMAIN r : r[u] = c - 1 /\ \A v \in DOMAIN r : r[v] = c - 1 => v <= u
      BY <1>1, <2>4
    <3> QED
      BY <1>1, <3>1
  <2>6. h[c] = p[last]
    BY DEF Inherited
  <2> HIDE DEF last, h
  <2> QED
    BY <1>1, <2>1, <2>5, <2>6
<1> HIDE DEF h, N, K
<1>4. \A i \in N : h[r[i] + 1] = p[i]
  <2>1. ASSUME NEW i \in N
        PROVE  h[r[i] + 1] = p[i]
    <3>1. PICK u \in N : r[u] + 1 = r[i] + 1 /\ h[r[i] + 1] = p[u]
      BY <1>1, <1>3
    <3>2. r[u] = r[i]
      BY <1>1, <3>1
    <3> QED
      BY <3>1, <3>2 DEF N
  <2> QED
    BY <2>1
<1>5. Carried(r, h) = p
  <2>1. p = [i \in N |-> p[i]]
    BY <1>1
  <2>2. Carried(r, h) = [i \in N |-> h[r[i] + 1]]
    BY <1>1 DEF Carried
  <2> QED
    BY <1>4, <2>1, <2>2
<1>6. CommunityCount(p) <= CommunityCount(r)
  <2>1. h \in Surjection(K, Range(p))
    <3>1. \A c \in K : h[c] \in Range(p)
      BY <1>1, <1>3 DEF Range
    <3>2. \A t \in Range(p) : \E c \in K : h[c] = t
      BY SMTT(30), <1>1, <1>4 DEF Range
    <3>3. h = [c \in K |-> h[c]]
      BY DEF h, Inherited, K
    <3>4. h \in [K -> Range(p)]
      BY <3>1, <3>3
    <3> QED
      BY <3>2, <3>4 DEF Surjection
  <2>2. IsFiniteSet(K) /\ Cardinality(K) = CommunityCount(r)
    BY <1>1, FS_Interval DEF K
  <2>3. Cardinality(Range(p)) <= Cardinality(K)
    BY <2>1, <2>2, FS_Surjection
  <2> QED
    BY <2>2, <2>3 DEF CommunityCount, Range
<1>7. h \in [K -> 0..(CommunityCount(r) - 1)]
  <2>1. \A c \in K : h[c] \in 0..(CommunityCount(p) - 1)
    BY <1>1, <1>3
  <2>2. 0..(CommunityCount(p) - 1) \subseteq 0..(CommunityCount(r) - 1)
    BY <1>1, <1>6
  <2>3. h = [c \in K |-> h[c]]
    BY DEF h, Inherited, K
  <2> QED
    BY <2>1, <2>2, <2>3
<1> QED
  BY <1>5, <1>6, <1>7 DEF h, K

\* What holds of the graphs in every state.
LEMMA LevelHas ==
  ASSUME LayerInv, LevelInv
  PROVE  /\ IsWeighted(origin) /\ IsWeighted(wg)
         /\ NodesIn(wg) = 1..Size(wg) /\ Size(wg) \in Nat
         /\ CommunityCount(Merged) = Size(wg) /\ DOMAIN nodeAt = NodesIn(origin)
         /\ \A i \in DOMAIN nodeAt : nodeAt[i] \in NodesIn(wg)
<1>1. IsWeighted(origin)
  BY AggregateIs DEF LayerInv
<1>2. /\ IsWeighted(wg) /\ NodesIn(wg) = 1..CommunityCount(Merged)
  BY <1>1, AggregateIs DEF LevelInv
<1>3. NodesIn(wg) = 1..Size(wg) /\ Size(wg) \in Nat
  BY <1>2, SizeIs
<1>4. IsFiniteSet(NodesIn(origin)) /\ IsPartition(Merged, NodesIn(origin))
  BY <1>1, WeightedHas DEF LevelInv
<1>5. CommunityCount(Merged) \in Nat
  BY <1>4, PartitionHas
<1>6. CommunityCount(Merged) = Size(wg)
  <2>1. Cardinality(1..CommunityCount(Merged)) = CommunityCount(Merged)
    BY <1>5, FS_Interval
  <2> QED
    BY <1>2, <2>1 DEF Size
<1>7. DOMAIN nodeAt = NodesIn(origin) /\ \A i \in DOMAIN nodeAt : nodeAt[i] \in Nat
  BY DEF LevelInv
<1>8. \A i \in DOMAIN nodeAt : nodeAt[i] \in NodesIn(wg)
  <2>1. \A i \in NodesIn(origin) : Merged[i] + 1 \in 1..CommunityCount(Merged)
    BY <1>4, PartitionHas
  <2>2. \A i \in NodesIn(origin) : Merged[i] + 1 = nodeAt[i]
    BY <1>7 DEF Merged
  <2> QED
    BY <1>2, <1>7, <2>1, <2>2
<1> QED
  BY <1>1, <1>2, <1>3, <1>6, <1>7, <1>8

\* Labels of the level, given to the original nodes.
LEMMA CarriedDown ==
  ASSUME LayerInv, LevelInv, NEW lab
  PROVE  Carried(Merged, lab) = [i \in DOMAIN nodeAt |-> lab[nodeAt[i]]]
<1>1. \A i \in DOMAIN nodeAt : nodeAt[i] \in Int
  BY DEF LevelInv
<1>2. \A i \in DOMAIN nodeAt : Merged[i] + 1 = nodeAt[i]
  BY <1>1 DEF Merged
<1> QED
  BY <1>2 DEF Carried, Merged

\* They mean the same there.
LEMMA SameQuality ==
  ASSUME LayerInv, LevelInv, NEW lab, DOMAIN lab = NodesIn(wg)
  PROVE  Quality(wg, lab) = Quality(origin, [i \in DOMAIN nodeAt |-> lab[nodeAt[i]]])
<1>1. /\ IsWeighted(origin) /\ IsPartition(Merged, NodesIn(origin)) /\ wg = Aggregate(origin, Merged)
      /\ DOMAIN lab = 1..CommunityCount(Merged)
  BY LevelHas DEF LevelInv
<1>2. Quality(wg, lab) = Quality(origin, Carried(Merged, lab))
  BY <1>1, QualityCarried
<1> QED
  BY <1>2, CarriedDown

\* A whole-number quality.
LEMMA QualityType ==
  ASSUME NEW g, IsWeighted(g), NEW lab, DOMAIN lab = NodesIn(g)
  PROVE  Quality(g, lab) \in Int
<1>1. IsFiniteSet(Range(lab))
  BY WeightedHas, RangeFinite
<1> QED
  BY <1>1, QualityOver

\* The totals of labels, and the single nodes.
LEMMA SinglesIs ==
  ASSUME NEW g, IsWeighted(g)
  PROVE  /\ Singles(g) \in [NodesIn(g) -> 0..(Size(g) - 1)]
         /\ IsPartition(Singles(g), NodesIn(g)) /\ CommunityCount(Singles(g)) = Size(g)
         /\ Aggregate(g, Singles(g)) = g
         /\ \A u, v \in NodesIn(g) : Singles(g)[u] = Singles(g)[v] => u = v
<1>1. /\ IsPartition(Singles(g), NodesIn(g)) /\ CommunityCount(Singles(g)) = Size(g)
      /\ Aggregate(g, Singles(g)) = g
  BY AggregateSingles DEF Singles, Size
<1>2. NodesIn(g) = 1..Size(g) /\ Size(g) \in Nat
  BY SizeIs
<1>3. Singles(g) \in [NodesIn(g) -> 0..(Size(g) - 1)]
  BY <1>2 DEF Singles
<1>4. \A u, v \in NodesIn(g) : Singles(g)[u] = Singles(g)[v] => u = v
  BY <1>2 DEF Singles
<1> QED
  BY <1>1, <1>3, <1>4

\* A pass of the local moving visits nodes of its graph.
LEMMA MoveOrders ==
  ASSUME NEW g, IsWeighted(g), NEW lev, NEW ps,
         NEW o \in Orders(MoveLists(g), "move", lev, ps)
  PROVE  o \in Seq(NodesIn(g))
BY MoveListsType, OrdersType

\* So does one of the refinement.
LEMMA RefineOrders ==
  ASSUME NEW g, IsWeighted(g), NEW p, IsPartition(p, NodesIn(g)), NEW lev, NEW ps,
         NEW o \in Orders(RefineLists(p), "refine", lev, ps)
  PROVE  o \in Seq(NodesIn(g))
<1>1. NodesIn(g) = 1..Size(g) /\ Size(g) \in Nat /\ IsFiniteSet(NodesIn(g))
  BY SizeIs, WeightedHas
<1>2. DOMAIN p = 1..Size(g) /\ CommunityCount(p) \in Nat
  BY <1>1, PartitionHas DEF IsPartition
<1>3. RefineLists(p) \in Seq(Seq(1..Size(g)))
  BY <1>1, <1>2, RefineListsType
<1>4. o \in Seq(1..Size(g))
  BY <1>3, OrdersType
<1> QED
  BY <1>1, <1>4

-----------------------------------------------------------------------------
(* The invariant holds at first, and every action keeps it.                *)

LEMMA InitInv == Init => LeidenInv
<1> SUFFICES ASSUME Init
             PROVE  LeidenInv
  OBVIOUS
<1>1. IsWeighted(given) /\ origin = given /\ wg = given /\ layer = "clusters"
  BY GraphsAssumption DEF Init
<1>2. LayerInv
  BY <1>1 DEF LayerInv
<1>3. nodeAt = [u \in NodesIn(given) |-> u] /\ NodesIn(given) = 1..Size(given)
  BY <1>1, SizeIs DEF Init
<1>4. Merged = Singles(given) /\ nodeAt \in [NodesIn(origin) -> Nat]
  BY <1>1, <1>3 DEF Merged, Singles
<1>5. label = Singles(given) /\ composed = Singles(given) /\ tot = TotalsOf(given, Singles(given))
  BY <1>1 DEF Init
<1>6. LevelInv
  BY <1>1, <1>4, <1>5, SinglesIs DEF LevelInv
<1>7. label \in [NodesIn(wg) -> 0..(Size(wg) - 1)] /\ TotalsExact
  BY <1>1, <1>5, SinglesIs DEF TotalsExact
<1>8. /\ stage \in {"move", "done"}
      /\ stage = "done" => todo = << >>
      /\ todo \in Seq(NodesIn(wg))
  <2>1. CASE origin.twiceM = 0
    <3>1. stage = "done" /\ todo = << >>
      BY <2>1 DEF Init
    <3> QED
      BY <3>1
  <2>2. CASE origin.twiceM # 0
    <3>1. stage = "move" /\ todo \in Orders(MoveLists(origin), "move", 1, 1)
      BY <2>2 DEF Init
    <3> QED
      BY <1>1, <3>1, MoveOrders
  <2> QED
    BY <2>1, <2>2
<1>9. Quality(wg, label) >= Quality(origin, composed)
  <2>1. Quality(given, Singles(given)) \in Int
    BY <1>1, SinglesIs, QualityType
  <2> QED
    BY <1>1, <1>5, <2>1
<1>10. RefinementInside
  BY <1>8 DEF RefinementInside
<1> QED
  BY <1>2, <1>6, <1>7, <1>8, <1>9, <1>10 DEF LeidenInv, StageInv

LEMMA VisitInv == LeidenInv /\ Visit => LeidenInv' /\ Quality(wg, label') >= Quality(wg, label)
<1> SUFFICES ASSUME LeidenInv, Visit
             PROVE  LeidenInv' /\ Quality(wg, label') >= Quality(wg, label)
  OBVIOUS
<1> DEFINE u == Head(todo)
<1>1. LayerInv /\ LevelInv /\ StageInv /\ IsWeighted(wg)
  BY LevelHas DEF LeidenInv
<1>2. /\ algorithm' = algorithm /\ given' = given /\ clusters' = clusters /\ layer' = layer
      /\ origin' = origin /\ wg' = wg /\ stage' = stage /\ part' = part
      /\ nodeAt' = nodeAt /\ composed' = composed
      /\ stage # "done" /\ todo # << >> /\ todo' = Tail(todo)
      /\ label' = [label EXCEPT ![u] = Best(u)]
      /\ tot' = [Removed(u) EXCEPT ![Best(u)] = @ + wg.degree[u]]
  BY DEF Visit, call
<1>3. u \in NodesIn(wg) /\ Tail(todo) \in Seq(NodesIn(wg))
  BY <1>1, <1>2 DEF StageInv
<1>4. Visitable
  BY <1>1 DEF Visitable, StageInv
<1> HIDE DEF u
<1>5. /\ label' \in [NodesIn(wg) -> 0..(Size(wg) - 1)]
      /\ tot' = TotalsOf(wg, label')
      /\ Quality(wg, label') >= Quality(wg, label)
      /\ stage = "refine" =>
           \A v, w \in DOMAIN label' : label'[v] = label'[w] => part[v] = part[w]
  <2>1. label' = [label EXCEPT ![u] = Best(u)]
    BY <1>2
  <2>2. label' \in [NodesIn(wg) -> 0..(Size(wg) - 1)]
    BY <1>3, <1>4, <2>1, VisitKeeps
  <2>3. tot' = TotalsOf(wg, label')
    BY <1>2, <1>3, <1>4, <2>1, VisitKeeps
  <2>4. Quality(wg, label') >= Quality(wg, label)
    BY <1>3, <1>4, <2>1, VisitKeeps
  <2>5. stage = "refine" =>
           \A v, w \in DOMAIN label' : label'[v] = label'[w] => part[v] = part[w]
    BY <1>3, <1>4, <2>1, VisitKeeps
  <2> QED
    BY <2>2, <2>3, <2>4, <2>5
<1>6. LayerInv' /\ LevelInv'
  BY <1>1, <1>2 DEF LayerInv, LevelInv, Merged
<1>7. TotalsExact' /\ RefinementInside'
  <2>1. TotalsExact'
    BY <1>2, <1>5 DEF TotalsExact
  <2>2. RefinementInside'
    BY <1>2, <1>5 DEF RefinementInside
  <2> QED
    BY <2>1, <2>2
<1>8. stage = "move" => Quality(wg, label') >= Quality(origin, composed)
  <2>1. Quality(wg, label) \in Int /\ Quality(wg, label') \in Int
    BY <1>1, <1>5, QualityType DEF StageInv
  <2>2. Quality(origin, composed) \in Int
    BY <1>1, LevelHas, QualityType DEF LevelInv, IsPartition
  <2>3. stage = "move" => Quality(wg, label) >= Quality(origin, composed)
    BY <1>1 DEF StageInv
  <2> QED
    BY <1>5, <2>1, <2>2, <2>3
<1>9. StageInv'
  BY <1>1, <1>2, <1>3, <1>5, <1>7, <1>8 DEF StageInv
<1> QED
  BY <1>5, <1>6, <1>9 DEF LeidenInv

LEMMA NextPassInv == LeidenInv /\ NextPass => LeidenInv'
<1> SUFFICES ASSUME LeidenInv, NextPass
             PROVE  LeidenInv'
  OBVIOUS
<1>1. LayerInv /\ LevelInv /\ StageInv /\ IsWeighted(wg)
  BY LevelHas DEF LeidenInv
<1>2. /\ algorithm' = algorithm /\ given' = given /\ clusters' = clusters /\ layer' = layer
      /\ origin' = origin /\ wg' = wg /\ stage' = stage /\ part' = part
      /\ nodeAt' = nodeAt /\ composed' = composed /\ label' = label /\ tot' = tot
      /\ stage # "done"
  BY DEF NextPass, call
<1>3. todo' \in Seq(NodesIn(wg))
  <2>1. CASE stage = "move"
    <3>1. todo' \in Orders(MoveLists(wg), "move", level, pass + 1)
      BY <2>1 DEF NextPass
    <3> QED
      BY <1>1, <3>1, MoveOrders
  <2>2. CASE stage = "refine"
    <3>1. todo' \in Orders(RefineLists(part), "refine", level, pass + 1)
      BY <2>2 DEF NextPass
    <3>2. IsPartition(part, NodesIn(wg))
      BY <1>1, <2>2 DEF StageInv
    <3> QED
      BY <1>1, <3>1, <3>2, RefineOrders
  <2> QED
    BY <1>1, <1>2, <2>1, <2>2 DEF StageInv
<1>4. LayerInv' /\ LevelInv'
  BY <1>1, <1>2 DEF LayerInv, LevelInv, Merged
<1>5. TotalsExact' /\ RefinementInside'
  <2>1. TotalsExact'
    BY <1>1, <1>2 DEF StageInv, TotalsExact
  <2>2. RefinementInside'
    BY <1>1, <1>2 DEF StageInv, RefinementInside
  <2> QED
    BY <2>1, <2>2
<1>6. StageInv'
  BY <1>1, <1>2, <1>3, <1>5 DEF StageInv
<1> QED
  BY <1>4, <1>6 DEF LeidenInv

\* An aggregation by r, with labels that follow p.
LEMMA CoarsenKeeps ==
  ASSUME LayerInv, LevelInv, todo = << >>, UNCHANGED call, NEW p, NEW r, Coarsen(p, r),
         IsPartition(p, NodesIn(wg)), IsPartition(r, NodesIn(wg)),
         \A u, v \in NodesIn(wg) : r[u] = r[v] => p[u] = p[v],
         composed' = [i \in DOMAIN nodeAt |-> p[nodeAt[i]]]
  PROVE  LeidenInv'
<1> DEFINE g == Aggregate(wg, r)
           k == CommunityCount(r)
<1>1. /\ IsWeighted(origin) /\ IsWeighted(wg) /\ NodesIn(wg) = 1..Size(wg) /\ Size(wg) \in Nat
      /\ CommunityCount(Merged) = Size(wg) /\ DOMAIN nodeAt = NodesIn(origin)
      /\ \A i \in DOMAIN nodeAt : nodeAt[i] \in NodesIn(wg)
  BY LevelHas
<1>2. IsWeighted(g) /\ NodesIn(g) = 1..k
  BY <1>1, AggregateIs
<1>3. Size(g) = k /\ k \in Nat
  <2>1. IsFiniteSet(NodesIn(wg))
    BY <1>1, WeightedHas
  <2>2. k \in Nat
    BY <2>1, PartitionHas
  <2>3. Cardinality(1..k) = k
    BY <2>2, FS_Interval
  <2> QED
    BY <1>2, <2>2, <2>3 DEF Size
<1>4. /\ nodeAt' = Follow(p, r) /\ wg' = g /\ label' = Inherited(r, p)
      /\ tot' = TotalsOf(g, Inherited(r, p))
  BY DEF Coarsen, StartMoving
<1>5. /\ algorithm' = algorithm /\ given' = given /\ clusters' = clusters /\ layer' = layer
      /\ origin' = origin
  BY DEF call
<1>6. /\ stage' \in {"move", "done"}
      /\ stage' = "done" => todo' = << >>
      /\ todo' \in Seq(NodesIn(wg'))
  <2>1. CASE k <= 1 \/ level = MaxLevels
    <3>1. stage' = "done" /\ todo' = << >>
      BY <2>1 DEF Coarsen
    <3> QED
      BY <3>1
  <2>2. CASE ~(k <= 1 \/ level = MaxLevels)
    <3>1. stage' = "move" /\ todo' \in Orders(MoveLists(g), "move", level + 1, 1)
      BY <2>2 DEF Coarsen, StartMoving
    <3> QED
      BY <1>2, <1>4, <3>1, MoveOrders
  <2> QED
    BY <2>1, <2>2
<1>7. /\ \A u \in NodesIn(wg) : r[u] \in Nat
      /\ r \in [NodesIn(wg) -> Nat] /\ p \in [NodesIn(wg) -> Nat]
  BY DEF IsPartition
<1>8. nodeAt' \in [NodesIn(origin) -> Nat] /\ Merged' = Carried(Merged, r)
  <2>1. nodeAt' = [i \in NodesIn(origin) |-> r[nodeAt[i]] + 1]
    BY <1>1, <1>4 DEF Follow
  <2>2. \A i \in NodesIn(origin) : r[nodeAt[i]] \in Nat
    BY <1>1, <1>7
  <2>3. Merged' = [i \in NodesIn(origin) |-> r[nodeAt[i]]]
    BY <2>1, <2>2 DEF Merged
  <2>4. Carried(Merged, r) = [i \in NodesIn(origin) |-> r[nodeAt[i]]]
    BY <1>1, CarriedDown
  <2>5. nodeAt' \in [NodesIn(origin) -> Nat]
    BY <2>1, <2>2
  <2> QED
    BY <2>3, <2>4, <2>5
<1>9. /\ IsPartition(Carried(Merged, r), NodesIn(origin))
      /\ g = Aggregate(origin, Carried(Merged, r))
  <2>1. /\ wg = Aggregate(origin, Merged) /\ IsPartition(Merged, NodesIn(origin))
        /\ IsPartition(r, 1..CommunityCount(Merged))
    BY <1>1 DEF LevelInv
  <2>2. IsPartition(Carried(Merged, r), NodesIn(origin))
    BY <1>1, <2>1, AggregateTwice
  <2>3. Aggregate(Aggregate(origin, Merged), r) = Aggregate(origin, Carried(Merged, r))
    BY <1>1, <2>1, AggregateTwice
  <2> QED
    BY <2>1, <2>2, <2>3
<1>10. composed' = Carried(Merged, p) /\ IsPartition(Carried(Merged, p), NodesIn(origin))
  <2>1. /\ IsPartition(Merged, NodesIn(origin)) /\ IsPartition(p, 1..CommunityCount(Merged))
    BY <1>1 DEF LevelInv
  <2>2. IsPartition(Carried(Merged, p), NodesIn(origin))
    BY <1>1, <2>1, AggregateTwice
  <2> QED
    BY <2>2, CarriedDown
<1>11. /\ Inherited(r, p) \in [1..k -> 0..(k - 1)]
       /\ Carried(r, Inherited(r, p)) = p
  BY <1>1, InheritedIs
<1>12. Quality(g, Inherited(r, p)) >= Quality(origin, composed')
  <2>1. Quality(g, Inherited(r, p)) = Quality(wg, p)
    <3>1. DOMAIN Inherited(r, p) = 1..k
      BY <1>11
    <3>2. Quality(g, Inherited(r, p)) = Quality(wg, Carried(r, Inherited(r, p)))
      BY <1>1, <3>1, QualityCarried
    <3> QED
      BY <1>11, <3>2
  <2>2. Quality(wg, p) = Quality(origin, composed')
    BY <1>7, SameQuality
  <2>3. Quality(wg, p) \in Int
    BY <1>1, <1>7, QualityType
  <2> QED
    BY <2>1, <2>2, <2>3
<1>13. LayerInv'
  BY <1>5 DEF LayerInv
<1> HIDE DEF g, k
<1>14. LevelInv'
  BY <1>4, <1>5, <1>8, <1>9, <1>10 DEF LevelInv
<1>15. TotalsExact' /\ RefinementInside'
  <2>1. TotalsExact'
    BY <1>4 DEF TotalsExact
  <2>2. RefinementInside'
    BY <1>6 DEF RefinementInside
  <2> QED
    BY <2>1, <2>2
<1>16. StageInv'
  <2>1. label' \in [NodesIn(wg') -> 0..(Size(wg') - 1)]
    BY <1>2, <1>3, <1>4, <1>11
  <2>2. stage' = "move" => Quality(wg', label') >= Quality(origin', composed')
    BY <1>4, <1>5, <1>12
  <2> QED
    BY <1>6, <1>15, <2>1, <2>2 DEF StageInv
<1> QED
  BY <1>13, <1>14, <1>16 DEF LeidenInv

\* The partition the local moving ends with, and what it is worth.
LEMMA MovedPartition ==
  ASSUME LayerInv, LevelInv, StageInv, NEW p, p = Renumbered(label)
  PROVE  /\ IsPartition(p, NodesIn(wg))
         /\ \A u, v \in NodesIn(wg) : label[u] = label[v] <=> p[u] = p[v]
         /\ Quality(wg, p) = Quality(wg, label)
<1>1. /\ NodesIn(wg) = 1..Size(wg) /\ Size(wg) \in Nat /\ IsWeighted(wg)
      /\ DOMAIN label = NodesIn(wg)
  BY LevelHas DEF StageInv
<1>2. IsPartition(p, NodesIn(wg))
  BY <1>1, RenumberedIs
<1>3. \A u, v \in NodesIn(wg) : label[u] = label[v] <=> p[u] = p[v]
  BY <1>1, RenumberedIs
<1>4. DOMAIN p = NodesIn(wg)
  BY <1>2 DEF IsPartition
<1>5. Quality(wg, p) = Quality(wg, label)
  BY <1>1, <1>3, <1>4, QualityOfClasses
<1> QED
  BY <1>2, <1>3, <1>5

LEMMA EndMovingInv == LeidenInv /\ EndMoving => LeidenInv'
<1> SUFFICES ASSUME LeidenInv, EndMoving
             PROVE  LeidenInv'
  OBVIOUS
<1> DEFINE p == Renumbered(label)
<1>1. LayerInv /\ LevelInv /\ StageInv
  BY DEF LeidenInv
<1>2. /\ IsWeighted(origin) /\ IsWeighted(wg) /\ DOMAIN nodeAt = NodesIn(origin)
      /\ CommunityCount(Merged) = Size(wg) /\ NodesIn(wg) = 1..Size(wg)
  BY <1>1, LevelHas
<1>3. /\ stage = "move" /\ todo = << >> /\ UNCHANGED call
      /\ composed' = [i \in DOMAIN nodeAt |-> p[nodeAt[i]]]
  BY DEF EndMoving, PassesOver
<1>4. IsPartition(p, NodesIn(wg))
  BY <1>1, MovedPartition
<1>5. /\ algorithm' = algorithm /\ given' = given /\ clusters' = clusters /\ layer' = layer
      /\ origin' = origin
  BY <1>3 DEF call
<1>6. LayerInv'
  BY <1>1, <1>5 DEF LayerInv
<1>7. IsPartition(composed', NodesIn(origin))
  <2>1. IsPartition(Merged, NodesIn(origin)) /\ IsPartition(p, 1..CommunityCount(Merged))
    BY <1>1, <1>2, <1>4 DEF LevelInv
  <2>2. IsPartition(Carried(Merged, p), NodesIn(origin))
    BY <1>2, <2>1, AggregateTwice
  <2> QED
    BY <1>1, <1>3, <2>2, CarriedDown
<1> HIDE DEF p
<1>8. CASE CommunityCount(p) = Size(wg)
  <2>1. /\ stage' = "done" /\ wg' = wg /\ todo' = todo /\ label' = label /\ tot' = tot
        /\ part' = part /\ nodeAt' = nodeAt
    BY <1>8 DEF EndMoving, p
  <2>2. LevelInv'
    BY <1>1, <1>5, <1>7, <2>1 DEF LevelInv, Merged
  <2>3. TotalsExact' /\ RefinementInside'
    <3>1. TotalsExact'
      BY <1>1, <2>1 DEF StageInv, TotalsExact
    <3>2. RefinementInside'
      BY <2>1 DEF RefinementInside
    <3> QED
      BY <3>1, <3>2
  <2>4. StageInv'
    BY <1>1, <1>3, <2>1, <2>3 DEF StageInv
  <2> QED
    BY <1>6, <2>2, <2>4 DEF LeidenInv
<1>9. CASE CommunityCount(p) # Size(wg) /\ algorithm = "leiden"
  <2>1. /\ stage' = "refine" /\ wg' = wg /\ label' = Singles(wg) /\ tot' = TotalsOf(wg, Singles(wg))
        /\ part' = p /\ nodeAt' = nodeAt
        /\ todo' \in Orders(RefineLists(p), "refine", level, 1)
    BY <1>9 DEF EndMoving, p
  <2>2. LevelInv'
    BY <1>1, <1>5, <1>7, <2>1 DEF LevelInv, Merged
  <2>3. /\ label' \in [NodesIn(wg) -> 0..(Size(wg) - 1)]
        /\ \A u, v \in NodesIn(wg) : label'[u] = label'[v] => u = v
    BY <1>2, <2>1, SinglesIs
  <2>4. TotalsExact' /\ RefinementInside'
    <3>1. TotalsExact'
      BY <2>1 DEF TotalsExact
    <3>2. RefinementInside'
      BY <2>3 DEF RefinementInside
    <3> QED
      BY <3>1, <3>2
  <2>5. todo' \in Seq(NodesIn(wg))
    BY <1>2, <1>4, <2>1, RefineOrders
  <2>6. IsPartition(part', NodesIn(wg')) /\ composed' = [i \in DOMAIN nodeAt' |-> part'[nodeAt'[i]]]
    BY <1>3, <1>4, <2>1
  <2>7. StageInv'
    BY <2>1, <2>3, <2>4, <2>5, <2>6 DEF StageInv
  <2> QED
    BY <1>6, <2>2, <2>7 DEF LeidenInv
<1>10. CASE CommunityCount(p) # Size(wg) /\ algorithm # "leiden"
  <2>1. Coarsen(p, p)
    BY <1>10 DEF EndMoving, p
  <2>2. \A u, v \in NodesIn(wg) : p[u] = p[v] => p[u] = p[v]
    OBVIOUS
  <2> QED
    BY <1>1, <1>3, <1>4, <2>1, <2>2, CoarsenKeeps
<1> QED
  BY <1>8, <1>9, <1>10

LEMMA EndRefiningInv == LeidenInv /\ EndRefining => LeidenInv'
<1> SUFFICES ASSUME LeidenInv, EndRefining
             PROVE  LeidenInv'
  OBVIOUS
<1> DEFINE r == Renumbered(label)
<1>1. LayerInv /\ LevelInv /\ StageInv
  BY DEF LeidenInv
<1>2. /\ stage = "refine" /\ todo = << >> /\ UNCHANGED call /\ composed' = composed
      /\ Coarsen(part, r)
  BY DEF EndRefining, PassesOver
<1>3. /\ IsPartition(part, NodesIn(wg)) /\ composed = [i \in DOMAIN nodeAt |-> part[nodeAt[i]]]
      /\ DOMAIN label = NodesIn(wg)
      /\ \A u, v \in NodesIn(wg) : label[u] = label[v] => part[u] = part[v]
  BY <1>1, <1>2 DEF StageInv, RefinementInside
<1>4. IsPartition(r, NodesIn(wg))
  BY <1>1, MovedPartition
<1>5. \A u, v \in NodesIn(wg) : r[u] = r[v] => part[u] = part[v]
  <2>1. \A u, v \in NodesIn(wg) : label[u] = label[v] <=> r[u] = r[v]
    BY <1>1, MovedPartition
  <2> QED
    BY <1>3, <2>1
<1>6. composed' = [i \in DOMAIN nodeAt |-> part[nodeAt[i]]]
  BY <1>2, <1>3
<1> HIDE DEF r
<1> QED
  BY <1>1, <1>2, <1>3, <1>4, <1>5, <1>6, CoarsenKeeps

LEMMA StartRegionsInv == LeidenInv /\ StartRegions => LeidenInv'
<1> SUFFICES ASSUME LeidenInv, StartRegions
             PROVE  LeidenInv'
  OBVIOUS
<1> DEFINE super == Aggregate(origin, composed)
<1>1. LayerInv /\ LevelInv /\ StageInv
  BY DEF LeidenInv
<1>2. /\ stage = "done" /\ layer = "clusters" /\ todo = << >> /\ origin = given
      /\ layer' = "regions" /\ clusters' = composed /\ origin' = super
      /\ given' = given /\ composed' = Singles(super)
      /\ nodeAt' = [c \in NodesIn(super) |-> c] /\ wg' = super
      /\ label' = Singles(super) /\ tot' = TotalsOf(super, Singles(super))
  BY <1>1 DEF StartRegions, SuperGraph, StartMoving, LayerInv, StageInv
<1>3. IsPartition(composed, NodesIn(given)) /\ IsWeighted(given)
  BY <1>1, <1>2 DEF LevelInv, LayerInv
<1>4. IsWeighted(super) /\ NodesIn(super) = 1..Size(super)
  BY <1>2, <1>3, AggregateIs, SizeIs
<1> HIDE DEF super
<1>5. /\ stage' \in {"move", "done"}
      /\ stage' = "done" => todo' = << >>
      /\ todo' \in Seq(NodesIn(super))
  <2>1. CASE Size(super) <= 1 \/ super.twiceM = 0
    <3>1. stage' = "done" /\ todo' = << >>
      BY <1>2, <2>1 DEF StartRegions, SuperGraph, super
    <3> QED
      BY <3>1
  <2>2. CASE ~(Size(super) <= 1 \/ super.twiceM = 0)
    <3>1. stage' = "move" /\ todo' \in Orders(MoveLists(super), "move", 1, 1)
      BY <2>2 DEF StartRegions, SuperGraph, StartMoving, super
    <3> QED
      BY <1>4, <3>1, MoveOrders
  <2> QED
    BY <2>1, <2>2
<1>6. LayerInv'
  BY <1>2, <1>3 DEF LayerInv, super
<1>7. Merged' = Singles(super) /\ nodeAt' \in [NodesIn(super) -> Nat]
  BY <1>2, <1>4 DEF Merged, Singles
<1>8. LevelInv'
  <2>1. IsPartition(Singles(super), NodesIn(super)) /\ Aggregate(super, Singles(super)) = super
    BY <1>4, SinglesIs
  <2> QED
    BY <1>2, <1>7, <2>1 DEF LevelInv
<1>9. label' \in [NodesIn(super) -> 0..(Size(super) - 1)]
  BY <1>2, <1>4, SinglesIs
<1>10. TotalsExact' /\ RefinementInside'
  <2>1. TotalsExact'
    BY <1>2 DEF TotalsExact
  <2>2. RefinementInside'
    BY <1>5 DEF RefinementInside
  <2> QED
    BY <2>1, <2>2
<1>11. Quality(wg', label') >= Quality(origin', composed')
  <2>1. Quality(super, Singles(super)) \in Int
    BY <1>4, SinglesIs, QualityType
  <2> QED
    BY <1>2, <2>1
<1>12. StageInv'
  BY <1>2, <1>5, <1>9, <1>10, <1>11 DEF StageInv
<1> QED
  BY <1>6, <1>8, <1>12 DEF LeidenInv

-----------------------------------------------------------------------------
(* A local moving that ended by itself looked at every node.               *)

\* A shuffle loses nothing.
LEMMA ShuffleCovers ==
  ASSUME NEW T, NEW items \in Seq(T), NEW s, NEW drawn, NEW o \in Shuffles(items, s, drawn),
         NEW m \in 1..Len(items)
  PROVE  \E k \in 1..Len(items) : o[k] = items[m]
<1> DEFINE n == Len(items)
           f == CHOOSE f : Exchanges(items, s, drawn, f)
           Has(p) == p \in [1..n -> T] /\ \E k \in 1..n : p[k] = items[m]
<1>1. n \in Nat /\ items \in [1..n -> T]
  OBVIOUS
<1>2. Shuffles(items, s, drawn) = f[IF n = 0 THEN 0 ELSE n - 1]
  BY DEF Shuffles, Exchanges, Exchanged
<1>3. Exchanges(items, s, drawn, f)
  BY ExchangesExist
<1> HIDE DEF f
<1>4. \A t \in 0..n : f[t] = Exchanged(items, s, drawn, f[t - 1], t)
  BY <1>3 DEF Exchanges
<1> DEFINE F == {t \in Nat : t <= n => \A p \in f[t] : Has(p)}
<1>5. 0 \in F
  <2>1. f[0] = Exchanged(items, s, drawn, f[0 - 1], 0)
    BY <1>1, <1>4
  <2>2. f[0] = {items}
    BY <2>1 DEF Exchanged
  <2> QED
    BY <1>1, <2>2
<1>6. ASSUME NEW t \in Nat, t \in F
      PROVE  t + 1 \in F
  <2> SUFFICES ASSUME t + 1 <= n, NEW p \in f[t + 1]
               PROVE  Has(p)
    BY <1>6
  <2>1. t + 1 \in 0..n /\ (t + 1) - 1 = t /\ t + 1 # 0 /\ t <= n
    BY <1>1
  <2>2. p \in Exchanged(items, s, drawn, f[t], t + 1)
    BY <1>4, <2>1
  <2>3. PICK q \in f[t], j \in 0..(n - (t + 1)) : p = Swap(q, n - (t + 1) + 1, j + 1)
    BY <2>1, <2>2 DEF Exchanged
  <2>4. Has(q)
    BY <1>6, <2>1
  <2>5. PICK a \in 1..n, b \in 1..n : p = Swap(q, a, b)
    <3>1. n - (t + 1) + 1 \in 1..n /\ j + 1 \in 1..n
      BY <1>1, <2>1
    <3> QED
      BY <2>3, <3>1
  <2>6. PICK k \in 1..n : q[k] = items[m]
    BY <2>4
  <2>7. p \in [1..n -> T] /\ \A l \in 1..n : p[l] = q[IF l = a THEN b ELSE IF l = b THEN a ELSE l]
    BY <2>4, <2>5 DEF Swap
  <2>8. \E l \in 1..n : p[l] = q[k]
    <3>1. CASE k = a
      <4>1. p[b] = q[a]
        BY <2>7
      <4> QED
        BY <3>1, <4>1
    <3>2. CASE k = b
      <4>1. p[a] = q[b]
        BY <2>7
      <4> QED
        BY <3>2, <4>1
    <3>3. CASE k # a /\ k # b
      BY <2>7, <3>3
    <3> QED
      BY <3>1, <3>2, <3>3
  <2> QED
    BY <2>6, <2>7, <2>8
<1>7. \A t \in Nat : t \in F
  <2> HIDE DEF F
  <2> QED
    BY <1>5, <1>6, NumberInduction
<1>8. Has(o)
  <2> DEFINE t == IF n = 0 THEN 0 ELSE n - 1
  <2>1. t \in Nat /\ t <= n /\ o \in f[t]
    BY <1>1, <1>2
  <2> HIDE DEF t, Has
  <2> QED
    BY <1>7, <2>1
<1> QED
  BY <1>8

\* One list is shuffled as if it were alone.
LEMMA OneInTurn ==
  ASSUME NEW T, NEW items \in Seq(T), NEW s, NEW drawn,
         NEW o \in ShufflesInTurn(<<items>>, s, drawn)
  PROVE  o \in Shuffles(items, s, drawn)
<1> DEFINE lists == <<items>>
           f == CHOOSE f : Turns(lists, s, drawn, f)
<1>1. lists \in Seq(Seq(T)) /\ Len(lists) = 1 /\ lists[1] = items
  OBVIOUS
<1> HIDE DEF lists
<1>2. ShufflesInTurn(lists, s, drawn) = f[1].orders
  BY <1>1 DEF ShufflesInTurn, Turns, InTurn, Concatenations
<1>3. Turns(lists, s, drawn, f)
  BY <1>1, TurnsExist
<1> HIDE DEF f
<1>4. \A i \in 0..1 : f[i] = InTurn(lists, s, drawn, f[i - 1], i)
  BY <1>1, <1>3 DEF Turns
<1>5. f[0] = [orders |-> {<< >>}, drawn |-> drawn]
  <2>1. f[0] = InTurn(lists, s, drawn, f[0 - 1], 0)
    BY <1>4
  <2> QED
    BY <2>1 DEF InTurn
<1>6. f[1].orders = Concatenations({<< >>}, Shuffles(items, s, drawn))
  <2>1. f[1] = InTurn(lists, s, drawn, f[0], 1)
    BY <1>4
  <2> QED
    BY <1>1, <1>5, <2>1 DEF InTurn
<1>7. PICK p \in Shuffles(items, s, drawn) : o = << >> \o p
  BY <1>2, <1>6 DEF Concatenations, lists
<1>8. p \in Seq(T)
  BY ShuffleType
<1> QED
  BY <1>7, <1>8

\* A pass of the local moving visits every node.
LEMMA MoveVisitsAll ==
  ASSUME NEW g, IsWeighted(g), NEW lev, NEW ps,
         NEW o \in Orders(MoveLists(g), "move", lev, ps), NEW u \in NodesIn(g)
  PROVE  u \in Range(o)
<1> DEFINE n == Size(g)
           items == [i \in 1..n |-> i]
<1>1. n \in Nat /\ NodesIn(g) = 1..n
  BY SizeIs
<1> HIDE DEF n
<1>2. items \in Seq(1..n) /\ Len(items) = n /\ items[u] = u
  BY <1>1
<1> HIDE DEF items
<1>3. MoveLists(g) = <<items>>
  BY DEF MoveLists, items, n
<1>4. PICK s, drawn : o \in ShufflesInTurn(<<items>>, s, drawn)
  BY <1>3 DEF Orders
<1>5. o \in Shuffles(items, s, drawn)
  BY <1>2, <1>4, OneInTurn
<1>6. PICK k \in 1..n : o[k] = u
  BY <1>1, <1>2, <1>5, ShuffleCovers
<1>7. DOMAIN o = 1..n
  <2>1. o \in Seq(1..n) /\ Len(o) = n
    BY <1>1, <1>2, <1>5, ShuffleType
  <2> QED
    BY <2>1
<1> QED
  BY <1>6, <1>7 DEF Range

-----------------------------------------------------------------------------
(* Where nothing is worth joining, nothing moves.                          *)

\* Labels that keep every two nodes apart are renumbered to the single nodes.
LEMMA SinglesOfApart ==
  ASSUME NEW g, IsWeighted(g), NEW lab, DOMAIN lab = NodesIn(g),
         \A u, v \in NodesIn(g) : lab[u] = lab[v] => u = v
  PROVE  Renumbered(lab) = Singles(g)
<1> DEFINE n == Size(g)
<1>1. n \in Nat /\ NodesIn(g) = 1..n
  BY SizeIs
<1> HIDE DEF n
<1> DEFINE First(i) == CHOOSE j \in DOMAIN lab : /\ lab[j] = lab[i]
                                                /\ \A k \in DOMAIN lab : lab[k] = lab[i] => j <= k
           Seen(i) == {lab[j] : j \in 1..(First(i) - 1)}
<1>2. ASSUME NEW i \in 1..n
      PROVE  Cardinality(Seen(i)) = i - 1
  <2>1. First(i) = i
    <3>1. \A j \in DOMAIN lab : (/\ lab[j] = lab[i]
                                 /\ \A k \in DOMAIN lab : lab[k] = lab[i] => j <= k) => j = i
      BY <1>1
    <3>2. i \in DOMAIN lab /\ \A k \in DOMAIN lab : lab[k] = lab[i] => i <= k
      BY <1>1
    <3> QED
      BY <3>1, <3>2
  <2>2. Seen(i) = {lab[j] : j \in 1..(i - 1)}
    BY <2>1
  <2> DEFINE B == 1..(i - 1)
             h == [j \in B |-> lab[j]]
  <2> HIDE DEF First
  <2>3. B \subseteq 1..n /\ IsFiniteSet(B) /\ Cardinality(B) = i - 1
    <3>1. B \subseteq 1..n /\ i - 1 \in Int
      BY <1>1
    <3>2. IsFiniteSet(B)
      BY <3>1, FS_Interval
    <3>3. Cardinality(1..(i - 1)) = IF 1 > i - 1 THEN 0 ELSE (i - 1) - 1 + 1
      BY <3>1, FS_Interval
    <3>4. i - 1 = IF 1 > i - 1 THEN 0 ELSE (i - 1) - 1 + 1
      BY <1>1
    <3> QED
      BY <3>1, <3>2, <3>3, <3>4
  <2>4. h \in Surjection(B, Seen(i)) /\ h \in Injection(B, Seen(i))
    <3>1. h \in [B -> Seen(i)]
      BY <2>2
    <3>2. \A t \in Seen(i) : \E j \in B : h[j] = t
      BY <2>2
    <3>3. \A a, b \in B : h[a] = h[b] => a = b
      BY <1>1, <2>3
    <3> QED
      BY <3>1, <3>2, <3>3 DEF Surjection, Injection, IsInjective
  <2> HIDE DEF B, h, Seen
  <2> QED
    BY <2>3, <2>4, FS_Surjection
<1>3. Renumbered(lab) = [i \in 1..n |-> Cardinality(Seen(i))]
  BY <1>1 DEF Renumbered
<1> HIDE DEF Seen
<1> QED
  BY <1>1, <1>2, <1>3 DEF Singles

\* As many communities as nodes: all nodes are apart.
LEMMA ApartWhenAsMany ==
  ASSUME NEW n \in Nat, NEW lab, DOMAIN lab = 1..n, NEW p, p = Renumbered(lab),
         CommunityCount(p) = n
  PROVE  \A u, v \in 1..n : lab[u] = lab[v] => u = v
<1>1. IsPartition(p, 1..n) /\ \A u, v \in 1..n : lab[u] = lab[v] => p[u] = p[v]
  BY RenumberedIs
<1>2. /\ p \in [1..n -> 0..(n - 1)] /\ \A c \in 0..(n - 1) : \E i \in 1..n : p[i] = c
      /\ IsFiniteSet(1..n) /\ Cardinality(1..n) = n
  <2>1. IsFiniteSet(1..n) /\ Cardinality(1..n) = n
    BY FS_Interval
  <2>2. p \in [1..n -> 0..(n - 1)]
    BY <1>1, <2>1, PartitionHas
  <2>3. \A c \in 0..(n - 1) : \E i \in 1..n : p[i] = c
    <3>1. DOMAIN p = 1..n /\ Range(p) = 0..(n - 1)
      BY <1>1 DEF IsPartition
    <3> QED
      BY <3>1 DEF Range
  <2> QED
    BY <2>1, <2>2, <2>3
<1>3. p \in Surjection(1..n, 0..(n - 1))
  BY <1>2 DEF Surjection
<1>4. Cardinality(0..(n - 1)) = n
  BY FS_Interval
<1>5. p \in Injection(1..n, 0..(n - 1))
  BY <1>2, <1>3, <1>4, FS_Surjection
<1>6. \A u, v \in 1..n : p[u] = p[v] => u = v
  BY <1>5 DEF Injection, IsInjective
<1> QED
  BY <1>1, <1>6

\* What a single node gains by staying and by joining another.
Apart == \A u, v \in NodesIn(wg) : label[u] = label[v] => u = v

LEMMA GainOfApart ==
  ASSUME Visitable, Apart, NEW u \in NodesIn(wg)
  PROVE  /\ Gain(u, label[u]) = 0
         /\ \A v \in NodesIn(wg) :
              u # v /\ label[v] \in Candidates(u) =>
                Gain(u, label[v]) = wg.mult[<<u, v>>] * wg.twiceM - wg.degree[v] * wg.degree[u]
<1> DEFINE N == NodesIn(wg)
<1>1. /\ IsWeighted(wg) /\ DOMAIN label = N /\ wg.mult \in [N \X N -> Nat]
      /\ wg.degree \in [N -> Nat] /\ wg.twiceM \in Nat
  BY WeightedHas, DegreeType DEF Visitable
<1>2. Gain(u, label[u]) = 0
  <2>1. BucketOf(label, label[u]) \ {u} = {}
    BY <1>1 DEF BucketOf, Apart
  <2>2. Gain(u, label[u]) = Pull(wg, u, {})
    BY <2>1, GainIs DEF Candidates
  <2>3. SumFunctionOnSet(wg.mult, {u} \X {}) = 0 /\ SumFunctionOnSet(wg.degree, {}) = 0
    <3>1. {u} \X {} = {}
      OBVIOUS
    <3> QED
      BY <3>1, SumEmpty
  <2>4. Pull(wg, u, {}) = 0 * wg.twiceM - 0 * wg.degree[u]
    BY <2>3 DEF Pull, Weight
  <2>5. wg.degree[u] \in Nat
    BY <1>1
  <2> QED
    BY <1>1, <2>2, <2>4, <2>5
<1>3. ASSUME NEW v \in N, u # v, label[v] \in Candidates(u)
      PROVE  Gain(u, label[v]) = wg.mult[<<u, v>>] * wg.twiceM - wg.degree[v] * wg.degree[u]
  <2>1. BucketOf(label, label[v]) \ {u} = {v}
    BY <1>1, <1>3 DEF BucketOf, Apart
  <2>2. Gain(u, label[v]) = Pull(wg, u, {v})
    BY <1>3, <2>1, GainIs
  <2>3. Weight(wg, {u}, {v}) = wg.mult[<<u, v>>]
    <3>1. {u} \X {v} = {<<u, v>>} /\ wg.mult[<<u, v>>] \in Int
      BY <1>1, <1>3
    <3> QED
      BY <3>1, SumOfOne DEF Weight
  <2>4. SumFunctionOnSet(wg.degree, {v}) = wg.degree[v]
    BY <1>1, <1>3, SumOfOne
  <2> QED
    BY <2>2, <2>3, <2>4 DEF Pull
<1> QED
  BY <1>2, <1>3

\* The best choice is to stay, exactly where no choice gains.
LEMMA BestStays ==
  ASSUME Visitable, NEW u \in NodesIn(wg), Gain(u, label[u]) = 0
  PROVE  Best(u) = label[u] <=> \A c \in Candidates(u) : Gain(u, c) <= 0
<1> DEFINE gain == [c \in Candidates(u) |-> Gain(u, c)]
           top == Max(Range(gain))
           ties == {c \in DOMAIN gain : gain[c] = top}
<1>1. /\ Candidates(u) \subseteq 0..(Size(wg) - 1) /\ Candidates(u) \subseteq Int
      /\ \A c \in Candidates(u) : Gain(u, c) \in Int
      /\ label[u] \in Candidates(u)
  <2>1. \A c \in Candidates(u) : c \in 0..(Size(wg) - 1) /\ Gain(u, c) \in Int
    BY GainIs
  <2>2. 0..(Size(wg) - 1) \subseteq Int
    BY WeightedHas DEF Visitable, Size
  <2> QED
    BY <2>1, <2>2 DEF Candidates
<1>2. IsFiniteSet(Candidates(u))
  <2>1. IsFiniteSet(0..(Size(wg) - 1))
    BY SizeIs DEF Visitable
  <2> QED
    BY <1>1, <2>1, FS_Subset
<1>3. DOMAIN gain = Candidates(u) /\ \A c \in Candidates(u) : gain[c] = Gain(u, c)
  OBVIOUS
<1>4. Best(u) = IF top <= 0 THEN label[u] ELSE Min(ties)
  BY DEF Best
<1> HIDE DEF gain
<1>5. top \in Range(gain) /\ \A x \in Range(gain) : top >= x
  <2>1. IsFiniteSet(Range(gain))
    BY <1>2, <1>3, RangeFinite
  <2>2. Range(gain) \subseteq Int /\ Range(gain) # {}
    BY <1>1, <1>3 DEF Range
  <2> QED
    BY <2>1, <2>2, MaxMin
<1>6. top \in Int /\ \A c \in Candidates(u) : Gain(u, c) <= top
  <2>1. top \in Int
    BY <1>1, <1>3, <1>5 DEF Range
  <2>2. \A c \in Candidates(u) : gain[c] \in Range(gain)
    BY <1>3 DEF Range
  <2> HIDE DEF top
  <2> QED
    BY <1>1, <1>3, <1>5, <2>1, <2>2
<1>7. \E c \in Candidates(u) : Gain(u, c) = top
  BY <1>3, <1>5 DEF Range
<1> HIDE DEF top
<1>8. ASSUME \A c \in Candidates(u) : Gain(u, c) <= 0
      PROVE  Best(u) = label[u]
  <2>1. top <= 0
    BY <1>7, <1>8
  <2> QED
    BY <1>4, <2>1
<1>9. ASSUME Best(u) = label[u]
      PROVE  top <= 0
  <2> SUFFICES ASSUME ~(top <= 0)
               PROVE  FALSE
    OBVIOUS
  <2>1. Min(ties) = label[u]
    BY <1>4, <1>9
  <2>2. Min(ties) \in ties
    <3>1. ties \in SUBSET Candidates(u) /\ ties # {}
      BY <1>3, <1>7
    <3>2. IsFiniteSet(ties) /\ ties \subseteq Int
      BY <1>1, <1>2, <3>1, FS_Subset
    <3> HIDE DEF ties
    <3> QED
      BY <3>1, <3>2, MaxMin
  <2>3. top = 0
    BY <1>1, <1>3, <2>1, <2>2
  <2> QED
    BY <2>3
<1> QED
  BY <1>1, <1>6, <1>8, <1>9

\* So single nodes that all stay are single nodes not worth joining.
LEMMA StayingMeansWorthless ==
  ASSUME Visitable, Apart, stage = "move"
  PROVE  (\A u \in NodesIn(wg) : Best(u) = label[u]) <=> NoneWorthJoining(wg)
<1> DEFINE N == NodesIn(wg)
           Change(u, v) == wg.mult[<<u, v>>] * wg.twiceM - wg.degree[v] * wg.degree[u]
<1>1. /\ IsWeighted(wg) /\ wg.mult \in [N \X N -> Nat]
      /\ wg.degree \in [N -> Nat] /\ wg.twiceM \in Nat
  BY WeightedHas, DegreeType DEF Visitable
<1>2. \A u, v \in N : /\ wg.mult[<<u, v>>] \in Nat /\ wg.degree[u] \in Nat
                      /\ wg.mult[<<u, v>>] * wg.twiceM \in Nat
                      /\ wg.degree[u] * wg.degree[v] \in Nat
                      /\ wg.degree[u] * wg.degree[v] = wg.degree[v] * wg.degree[u]
  BY <1>1
<1>3. \A u, v \in N : Change(u, v) <= 0 <=>
                        wg.mult[<<u, v>>] * wg.twiceM <= wg.degree[u] * wg.degree[v]
  <2>1. ASSUME NEW a \in Nat, NEW b \in Nat
        PROVE  a - b <= 0 <=> a <= b
    OBVIOUS
  <2> QED
    BY <1>2, <2>1
<1>4. \A u \in N : Best(u) = label[u] <=> \A c \in Candidates(u) : Gain(u, c) <= 0
  BY GainOfApart, BestStays
<1>5. \A u, v \in N : u # v /\ label[v] \in Candidates(u) => Gain(u, label[v]) = Change(u, v)
  BY GainOfApart
<1>6. \A u \in N : Gain(u, label[u]) = 0
  BY GainOfApart
<1>7. \A u \in N : Candidates(u) = {label[u]} \cup
                     {label[v] : v \in {w \in N : w # u /\ wg.mult[<<u, w>>] > 0}}
  BY DEF Candidates, Near, Neighbours
<1> HIDE DEF Change
<1>8. ASSUME NoneWorthJoining(wg), NEW u \in N, NEW c \in Candidates(u)
      PROVE  Gain(u, c) <= 0
  <2>1. CASE c = label[u]
    BY <1>6, <2>1
  <2>2. CASE c # label[u]
    <3>1. PICK v \in N : v # u /\ c = label[v]
      BY <1>7, <2>2
    <3>2. Gain(u, c) = Change(u, v)
      BY <1>5, <3>1
    <3> QED
      BY <1>3, <1>8, <3>1, <3>2 DEF NoneWorthJoining
  <2> QED
    BY <2>1, <2>2
<1>9. ASSUME \A u \in N : \A c \in Candidates(u) : Gain(u, c) <= 0,
             NEW u \in N, NEW v \in N, u # v
      PROVE  wg.mult[<<u, v>>] * wg.twiceM <= wg.degree[u] * wg.degree[v]
  <2>1. CASE wg.mult[<<u, v>>] > 0
    <3>1. label[v] \in Candidates(u)
      BY <1>7, <1>9, <2>1
    <3>2. Change(u, v) <= 0
      BY <1>5, <1>9, <3>1
    <3> QED
      BY <1>3, <3>2
  <2>2. CASE ~(wg.mult[<<u, v>>] > 0)
    <3>1. wg.mult[<<u, v>>] = 0
      BY <1>2, <2>2
    <3>2. wg.mult[<<u, v>>] * wg.twiceM = 0
      BY <1>1, <3>1
    <3> QED
      BY <1>2, <3>2
  <2> QED
    BY <2>1, <2>2
<1>10. NoneWorthJoining(wg) <=> \A u \in N : \A c \in Candidates(u) : Gain(u, c) <= 0
  <2>1. ASSUME \A u \in N : \A c \in Candidates(u) : Gain(u, c) <= 0
        PROVE  NoneWorthJoining(wg)
    BY <1>9, <2>1 DEF NoneWorthJoining
  <2> QED
    BY <1>8, <2>1
<1> QED
  BY <1>4, <1>10

\* While nothing has moved, a node the pass has passed would stay.
SettledInv ==
  stage = "move" /\ ~moved =>
    \A u \in NodesIn(wg) : u \in Range(todo) \/ Best(u) = label[u]

\* Clusters a call ended with by itself are not worth joining.
FinalInv ==
  stage = "done" /\ layer = "clusters" /\ level < MaxLevels /\ ~moved =>
    NoneWorthJoining(SuperGraph)

\* Leiden over such clusters never leaves its first pass, nor its single nodes.
RegionInv ==
  layer = "regions" /\ NoneWorthJoining(origin) =>
    /\ composed = Singles(origin)
    /\ \/ stage = "done"
       \/ /\ stage = "move" /\ wg = origin /\ label = Singles(origin) /\ ~moved
          /\ nodeAt = [c \in NodesIn(origin) |-> c]

JoinInv == SettledInv /\ FinalInv /\ RegionInv

LEMMA BestUnchanged ==
  UNCHANGED <<wg, label, tot, stage, part>> => \A u : Best(u)' = Best(u)
BY DEF Best, Candidates, Gain, Toward, Removed, Near

LEMMA VisitableHas == LeidenInv => Visitable /\ IsWeighted(wg)
BY LevelHas DEF LeidenInv, StageInv, Visitable

\* A pass that begins has every node before it.
LEMMA StartsSettled ==
  ASSUME NEW g, IsWeighted(g), NEW lev, NEW ps, todo \in Orders(MoveLists(g), "move", lev, ps),
         wg = g
  PROVE  SettledInv
BY MoveVisitsAll DEF SettledInv

LEMMA InitJoin == Init => JoinInv
<1> SUFFICES ASSUME Init
             PROVE  JoinInv
  OBVIOUS
<1>1. /\ IsWeighted(given) /\ origin = given /\ wg = given /\ layer = "clusters"
      /\ composed = Singles(given)
  BY GraphsAssumption DEF Init
<1>2. RegionInv
  BY <1>1 DEF RegionInv
<1>3. CASE given.twiceM = 0
  <2>1. stage = "done"
    BY <1>1, <1>3 DEF Init
  <2>2. SuperGraph = given
    BY <1>1, SinglesIs DEF SuperGraph
  <2>3. NoneWorthJoining(given)
    <3>1. /\ given.mult \in [NodesIn(given) \X NodesIn(given) -> Nat]
          /\ given.degree \in [NodesIn(given) -> Nat]
      BY <1>1, WeightedHas, DegreeType
    <3>2. ASSUME NEW u \in NodesIn(given), NEW v \in NodesIn(given)
          PROVE  given.mult[<<u, v>>] * given.twiceM <= given.degree[u] * given.degree[v]
      <4>1. /\ given.mult[<<u, v>>] \in Nat /\ given.degree[u] \in Nat /\ given.degree[v] \in Nat
        BY <3>1
      <4>2. given.degree[u] * given.degree[v] >= 0
        BY <4>1
      <4>3. given.mult[<<u, v>>] * given.twiceM = 0
        BY <1>3, <4>1
      <4>4. given.degree[u] * given.degree[v] \in Nat
        BY <4>1
      <4> QED
        BY <4>2, <4>3, <4>4
    <3> QED
      BY <3>2 DEF NoneWorthJoining
  <2> QED
    BY <1>2, <2>1, <2>2, <2>3 DEF JoinInv, SettledInv, FinalInv
<1>4. CASE given.twiceM # 0
  <2>1. stage = "move" /\ todo \in Orders(MoveLists(given), "move", 1, 1)
    BY <1>1, <1>4 DEF Init
  <2>2. SettledInv
    BY <1>1, <2>1, StartsSettled
  <2> QED
    BY <1>2, <2>1, <2>2 DEF JoinInv, FinalInv
<1> QED
  BY <1>3, <1>4

LEMMA VisitJoin == LeidenInv /\ JoinInv /\ Visit => JoinInv'
<1> SUFFICES ASSUME LeidenInv, JoinInv, Visit
             PROVE  JoinInv'
  OBVIOUS
<1> DEFINE u == Head(todo)
<1>1. /\ layer' = layer /\ origin' = origin /\ wg' = wg /\ stage' = stage /\ part' = part
      /\ nodeAt' = nodeAt /\ composed' = composed
      /\ stage # "done" /\ todo # << >> /\ todo' = Tail(todo)
      /\ label' = [label EXCEPT ![u] = Best(u)]
      /\ moved' = (moved \/ Best(u) # label[u])
  BY DEF Visit, call
<1>2. Visitable /\ todo \in Seq(NodesIn(wg)) /\ IsWeighted(wg)
  BY VisitableHas DEF LeidenInv, StageInv
<1>3. u \in NodesIn(wg) /\ \A v \in Range(todo) : v = u \/ v \in Range(todo')
  <2>1. u \in NodesIn(wg)
    BY <1>1, <1>2
  <2>2. ASSUME NEW i \in DOMAIN todo
        PROVE  todo[i] = u \/ todo[i] \in Range(todo')
    <3>1. CASE i = 1
      BY <1>1, <1>2, <3>1
    <3>2. CASE i # 1
      <4>1. i - 1 \in DOMAIN Tail(todo) /\ Tail(todo)[i - 1] = todo[i]
        BY <1>1, <1>2, <3>2
      <4> QED
        BY <1>1, <4>1 DEF Range
    <3> QED
      BY <3>1, <3>2
  <2> QED
    BY <2>1, <2>2 DEF Range
<1> HIDE DEF u
<1>4. ASSUME Best(u) = label[u]
      PROVE  /\ label' = label /\ tot' = tot /\ (moved' <=> moved)
             /\ \A v : Best(v)' = Best(v)
  <2>1. label' = label
    BY <1>1, <1>2, <1>3, <1>4 DEF Visitable
  <2>2. tot' = tot
    <3>1. TotalsExact /\ TotalsExact'
      BY <1>2, VisitInv DEF LeidenInv, StageInv, Visitable
    <3> QED
      BY <1>1, <2>1, <3>1 DEF TotalsExact
  <2>3. moved' <=> moved
    BY <1>1, <1>4
  <2> QED
    BY <1>1, <2>1, <2>2, <2>3, BestUnchanged
<1>5. SettledInv'
  <2> SUFFICES ASSUME stage' = "move", ~moved', NEW v \in NodesIn(wg)
               PROVE  v \in Range(todo') \/ Best(v)' = label'[v]
    BY <1>1 DEF SettledInv
  <2>1. Best(u) = label[u] /\ ~moved /\ stage = "move"
    BY <1>1
  <2>2. v \in Range(todo) \/ Best(v) = label[v]
    BY <2>1 DEF JoinInv, SettledInv
  <2> QED
    BY <1>3, <1>4, <2>1, <2>2
<1>6. FinalInv'
  BY <1>1 DEF FinalInv
<1>7. RegionInv'
  <2> SUFFICES ASSUME layer = "regions", NoneWorthJoining(origin)
               PROVE  /\ composed' = Singles(origin)
                      /\ stage' = "move" /\ wg' = origin /\ label' = Singles(origin) /\ ~moved'
                      /\ nodeAt' = [c \in NodesIn(origin) |-> c]
    BY <1>1 DEF RegionInv
  <2>1. /\ composed = Singles(origin)
        /\ stage = "move" /\ wg = origin /\ label = Singles(origin) /\ ~moved
        /\ nodeAt = [c \in NodesIn(origin) |-> c]
    BY <1>1 DEF JoinInv, RegionInv
  <2>2. Apart
    BY <1>2, <2>1, SinglesIs DEF Apart
  <2>3. Best(u) = label[u]
    BY <1>2, <1>3, <2>1, <2>2, StayingMeansWorthless
  <2> QED
    BY <1>1, <1>4, <2>1, <2>3
<1> QED
  BY <1>5, <1>6, <1>7 DEF JoinInv

LEMMA NextPassJoin == LeidenInv /\ JoinInv /\ NextPass => JoinInv'
<1> SUFFICES ASSUME LeidenInv, JoinInv, NextPass
             PROVE  JoinInv'
  OBVIOUS
<1>1. /\ layer' = layer /\ origin' = origin /\ wg' = wg /\ stage' = stage
      /\ stage # "done" /\ moved
  BY DEF NextPass, call
<1>2. SettledInv'
  <2>1. CASE stage = "move"
    <3>1. todo' \in Orders(MoveLists(wg), "move", level, pass + 1) /\ IsWeighted(wg)
      BY <2>1, VisitableHas DEF NextPass
    <3>2. \A u \in NodesIn(wg) : u \in Range(todo')
      BY <3>1, MoveVisitsAll
    <3> QED
      BY <1>1, <3>2 DEF SettledInv
  <2> QED
    BY <1>1, <2>1 DEF SettledInv
<1>3. FinalInv'
  BY <1>1 DEF FinalInv
<1>4. RegionInv'
  BY <1>1 DEF JoinInv, RegionInv
<1> QED
  BY <1>2, <1>3, <1>4 DEF JoinInv

\* After an aggregation a pass starts anew, or one cluster at most is left, or
\* the cap of levels is met.
LEMMA CoarsenJoin ==
  ASSUME LeidenInv, UNCHANGED call, NEW p, NEW r, Coarsen(p, r),
         ~(layer = "regions" /\ NoneWorthJoining(origin)),
         IsPartition(p, NodesIn(wg)), IsPartition(r, NodesIn(wg)),
         \A u, v \in NodesIn(wg) : r[u] = r[v] => p[u] = p[v],
         composed' = [i \in DOMAIN nodeAt |-> p[nodeAt[i]]]
  PROVE  JoinInv'
<1> DEFINE g == Aggregate(wg, r)
           k == CommunityCount(r)
<1>1. /\ LayerInv /\ LevelInv /\ IsWeighted(wg) /\ IsWeighted(origin)
      /\ NodesIn(wg) = 1..Size(wg) /\ Size(wg) \in Nat /\ CommunityCount(Merged) = Size(wg)
  BY LevelHas DEF LeidenInv
<1>2. layer' = layer /\ origin' = origin
  BY DEF call
<1>3. IsWeighted(g)
  BY <1>1, AggregateIs
<1>4. RegionInv'
  BY <1>2 DEF RegionInv
<1>5. CASE k <= 1 \/ level = MaxLevels
  <2>1. stage' = "done" /\ level' = level
    BY <1>5 DEF Coarsen
  <2>2. CASE level = MaxLevels
    <3>1. ~(level' < MaxLevels)
      BY <2>1, <2>2 DEF MaxLevels
    <3> QED
      BY <1>4, <2>1, <3>1 DEF JoinInv, SettledInv, FinalInv
  <2>3. CASE k <= 1
    <3>1. CommunityCount(p) <= 1 /\ CommunityCount(p) \in Nat
      <4>1. CommunityCount(p) <= CommunityCount(r)
        BY <1>1, InheritedIs
      <4>2. CommunityCount(p) \in Nat /\ CommunityCount(r) \in Nat
        BY <1>1, WeightedHas, PartitionHas
      <4> QED
        BY <2>3, <4>1, <4>2
    <3>2. IsPartition(Merged, NodesIn(origin)) /\ IsPartition(p, 1..CommunityCount(Merged))
      BY <1>1 DEF LevelInv
    <3>3. composed' = Carried(Merged, p) /\ IsPartition(Carried(Merged, p), NodesIn(origin))
      BY <1>1, <3>2, CarriedDown, AggregateTwice
    <3>4. CommunityCount(composed') = CommunityCount(p)
      <4>1. IsFiniteSet(NodesIn(origin)) /\ DOMAIN p = 1..CommunityCount(Merged)
        BY <1>1, <3>2, WeightedHas DEF IsPartition
      <4> QED
        BY <3>2, <3>3, <4>1, CarriedIs
    <3>5. NodesIn(SuperGraph') = 1..CommunityCount(p)
      BY <1>1, <1>2, <3>3, <3>4, AggregateIs DEF SuperGraph
    <3>6. \A u, v \in NodesIn(SuperGraph') : u = v
      BY <3>1, <3>5
    <3>7. NoneWorthJoining(SuperGraph')
      BY <3>6 DEF NoneWorthJoining
    <3> QED
      BY <1>4, <2>1, <3>7 DEF JoinInv, SettledInv, FinalInv
  <2> QED
    BY <1>5, <2>2, <2>3
<1>6. CASE ~(k <= 1 \/ level = MaxLevels)
  <2>1. stage' = "move" /\ wg' = g /\ todo' \in Orders(MoveLists(g), "move", level + 1, 1)
    BY <1>6 DEF Coarsen, StartMoving
  <2>2. \A u \in NodesIn(g) : u \in Range(todo')
    BY <1>3, <2>1, MoveVisitsAll
  <2> QED
    BY <1>4, <2>1, <2>2 DEF JoinInv, SettledInv, FinalInv
<1> QED
  BY <1>5, <1>6

LEMMA EndMovingJoin == LeidenInv /\ JoinInv /\ EndMoving => JoinInv'
<1> SUFFICES ASSUME LeidenInv, JoinInv, EndMoving
             PROVE  JoinInv'
  OBVIOUS
<1> DEFINE p == Renumbered(label)
<1>1. /\ LayerInv /\ LevelInv /\ StageInv /\ IsWeighted(wg) /\ IsWeighted(origin)
      /\ NodesIn(wg) = 1..Size(wg) /\ Size(wg) \in Nat /\ DOMAIN label = NodesIn(wg)
      /\ Visitable /\ CommunityCount(Merged) = Size(wg)
  BY LevelHas, VisitableHas DEF LeidenInv, StageInv
<1>2. /\ stage = "move" /\ todo = << >> /\ UNCHANGED call /\ layer' = layer /\ origin' = origin
      /\ composed' = [i \in DOMAIN nodeAt |-> p[nodeAt[i]]]
  BY DEF EndMoving, PassesOver, call
<1>3. IsPartition(p, NodesIn(wg))
  BY <1>1, MovedPartition
<1> HIDE DEF p
<1>4. ASSUME ~moved
      PROVE  \A u \in NodesIn(wg) : Best(u) = label[u]
  <2>1. \A u : u \notin Range(todo)
    BY <1>2 DEF Range
  <2> QED
    BY <1>2, <1>4, <2>1 DEF JoinInv, SettledInv
<1>5. CASE CommunityCount(p) = Size(wg)
  <2>1. /\ stage' = "done" /\ wg' = wg /\ moved' = moved /\ level' = level
    BY <1>5 DEF EndMoving, p
  <2>2. Apart /\ p = Singles(wg)
    <3>1. Apart
      BY <1>1, <1>5, ApartWhenAsMany DEF p, Apart
    <3> QED
      BY <1>1, <3>1, SinglesOfApart DEF p, Apart
  <2>3. RegionInv'
    <3> SUFFICES ASSUME layer = "regions", NoneWorthJoining(origin)
                 PROVE  composed' = Singles(origin)
      BY <1>2, <2>1 DEF RegionInv
    <3>1. wg = origin /\ nodeAt = [c \in NodesIn(origin) |-> c]
      BY <1>2 DEF JoinInv, RegionInv
    <3>2. composed' = [c \in NodesIn(origin) |-> Singles(origin)[c]]
      BY <1>2, <2>2, <3>1
    <3> QED
      BY <3>2 DEF Singles
  <2>4. FinalInv'
    <3> SUFFICES ASSUME ~moved
                 PROVE  NoneWorthJoining(SuperGraph')
      BY <2>1 DEF FinalInv
    <3>1. NoneWorthJoining(wg)
      BY <1>1, <1>2, <1>4, <2>2, StayingMeansWorthless
    <3>2. composed' = Merged
      <4>1. composed' = [i \in DOMAIN nodeAt |-> Singles(wg)[nodeAt[i]]]
        BY <1>2, <2>2
      <4>2. \A i \in DOMAIN nodeAt : nodeAt[i] \in NodesIn(wg)
        BY <1>1, LevelHas
      <4> QED
        BY <4>1, <4>2 DEF Singles, Merged
    <3>3. SuperGraph' = wg
      BY <1>1, <1>2, <3>2 DEF SuperGraph, LevelInv
    <3> QED
      BY <3>1, <3>3
  <2> QED
    BY <2>1, <2>3, <2>4 DEF JoinInv, SettledInv
<1>6. ASSUME CommunityCount(p) # Size(wg)
      PROVE  ~(layer = "regions" /\ NoneWorthJoining(origin))
  <2> SUFFICES ASSUME layer = "regions", NoneWorthJoining(origin)
               PROVE  CommunityCount(p) = Size(wg)
    BY <1>6
  <2>1. label = Singles(wg)
    BY <1>2 DEF JoinInv, RegionInv
  <2>2. p = Singles(wg)
    BY <1>1, <2>1, SinglesIs, SinglesOfApart DEF p
  <2> QED
    BY <1>1, <2>2, SinglesIs
<1>7. CASE CommunityCount(p) # Size(wg) /\ algorithm = "leiden"
  <2>1. stage' = "refine"
    BY <1>7 DEF EndMoving, p
  <2> QED
    BY <1>2, <1>6, <1>7, <2>1 DEF JoinInv, SettledInv, FinalInv, RegionInv
<1>8. CASE CommunityCount(p) # Size(wg) /\ algorithm # "leiden"
  <2>1. Coarsen(p, p)
    BY <1>8 DEF EndMoving, p
  <2>2. \A u, v \in NodesIn(wg) : p[u] = p[v] => p[u] = p[v]
    OBVIOUS
  <2> QED
    BY <1>2, <1>3, <1>6, <1>8, <2>1, <2>2, CoarsenJoin
<1> QED
  BY <1>5, <1>7, <1>8

LEMMA EndRefiningJoin == LeidenInv /\ JoinInv /\ EndRefining => JoinInv'
<1> SUFFICES ASSUME LeidenInv, JoinInv, EndRefining
             PROVE  JoinInv'
  OBVIOUS
<1> DEFINE r == Renumbered(label)
<1>1. LayerInv /\ LevelInv /\ StageInv
  BY DEF LeidenInv
<1>2. /\ stage = "refine" /\ UNCHANGED call /\ composed' = composed /\ Coarsen(part, r)
  BY DEF EndRefining
<1>3. /\ IsPartition(part, NodesIn(wg)) /\ composed = [i \in DOMAIN nodeAt |-> part[nodeAt[i]]]
      /\ DOMAIN label = NodesIn(wg)
      /\ \A u, v \in NodesIn(wg) : label[u] = label[v] => part[u] = part[v]
  BY <1>1, <1>2 DEF StageInv, RefinementInside
<1>4. IsPartition(r, NodesIn(wg))
  BY <1>1, MovedPartition
<1>5. \A u, v \in NodesIn(wg) : r[u] = r[v] => part[u] = part[v]
  <2>1. \A u, v \in NodesIn(wg) : label[u] = label[v] <=> r[u] = r[v]
    BY <1>1, MovedPartition
  <2> QED
    BY <1>3, <2>1
<1>6. composed' = [i \in DOMAIN nodeAt |-> part[nodeAt[i]]]
  BY <1>2, <1>3
<1>7. ~(layer = "regions" /\ NoneWorthJoining(origin))
  BY <1>2 DEF JoinInv, RegionInv
<1> HIDE DEF r
<1> QED
  BY <1>2, <1>3, <1>4, <1>5, <1>6, <1>7, CoarsenJoin

LEMMA StartRegionsJoin == LeidenInv /\ JoinInv /\ StartRegions => JoinInv'
<1> SUFFICES ASSUME LeidenInv, JoinInv, StartRegions
             PROVE  JoinInv'
  OBVIOUS
<1> DEFINE super == SuperGraph
<1>1. /\ layer = "clusters" /\ layer' = "regions" /\ origin' = super
      /\ composed' = Singles(super) /\ nodeAt' = [c \in NodesIn(super) |-> c]
  BY DEF StartRegions
<1>2. IsWeighted(super)
  BY AggregateIs, LevelHas DEF SuperGraph, LeidenInv, LevelInv
<1> HIDE DEF super
<1>3. FinalInv'
  BY <1>1 DEF FinalInv
<1>4. CASE Size(super) <= 1 \/ super.twiceM = 0
  <2>1. stage' = "done"
    BY <1>4 DEF StartRegions, super
  <2> QED
    BY <1>1, <1>3, <2>1 DEF JoinInv, SettledInv, RegionInv
<1>5. CASE ~(Size(super) <= 1 \/ super.twiceM = 0)
  <2>1. /\ stage' = "move" /\ wg' = super /\ label' = Singles(super) /\ ~moved'
        /\ todo' \in Orders(MoveLists(super), "move", 1, 1)
    BY <1>5 DEF StartRegions, StartMoving, super
  <2>2. \A u \in NodesIn(super) : u \in Range(todo')
    BY <1>2, <2>1, MoveVisitsAll
  <2> QED
    BY <1>1, <1>3, <2>1, <2>2 DEF JoinInv, SettledInv, RegionInv
<1> QED
  BY <1>4, <1>5

LEMMA StutterJoin == JoinInv /\ UNCHANGED vars => JoinInv'
<1> SUFFICES ASSUME JoinInv, UNCHANGED vars
             PROVE  JoinInv'
  OBVIOUS
<1>1. /\ layer' = layer /\ origin' = origin /\ wg' = wg /\ stage' = stage /\ part' = part
      /\ nodeAt' = nodeAt /\ composed' = composed /\ label' = label /\ tot' = tot
      /\ todo' = todo /\ moved' = moved /\ level' = level
  BY DEF vars, call
<1>2. \A u : Best(u)' = Best(u)
  BY <1>1, BestUnchanged
<1>3. SettledInv'
  BY <1>1, <1>2 DEF JoinInv, SettledInv
<1>4. FinalInv' /\ RegionInv'
  BY <1>1 DEF JoinInv, FinalInv, RegionInv, SuperGraph
<1> QED
  BY <1>3, <1>4 DEF JoinInv

-----------------------------------------------------------------------------
(* What follows of it.                                                     *)

LEMMA StutterInv == LeidenInv /\ UNCHANGED vars => LeidenInv'
<1> SUFFICES ASSUME LeidenInv, UNCHANGED vars
             PROVE  LeidenInv'
  OBVIOUS
<1>1. /\ given' = given /\ clusters' = clusters /\ layer' = layer
      /\ origin' = origin /\ wg' = wg /\ stage' = stage /\ part' = part
      /\ nodeAt' = nodeAt /\ composed' = composed /\ label' = label /\ tot' = tot
      /\ todo' = todo
  BY DEF vars, call
<1>2. LayerInv' /\ LevelInv'
  BY <1>1 DEF LeidenInv, LayerInv, LevelInv, Merged
<1>3. StageInv'
  BY <1>1 DEF LeidenInv, StageInv, TotalsExact, RefinementInside
<1> QED
  BY <1>2, <1>3 DEF LeidenInv

\* In every state the level's graph is the call's graph aggregated once, the
\* labels are in range, and the totals are those of the labels.
THEOREM ClusteringInvariant == Spec => []LeidenInv
<1>1. Init => LeidenInv
  BY InitInv
<1>2. LeidenInv /\ [Next]_vars => LeidenInv'
  BY VisitInv, NextPassInv, EndMovingInv, EndRefiningInv, StartRegionsInv, StutterInv DEF Next
<1> QED
  BY <1>1, <1>2, PTL DEF Spec

\* The totals a visit patches, in whatever order the shuffles give, stay the
\* sums of the degrees per community.
THEOREM TotalsStayExact == Spec => []TotalsExact
<1>1. LeidenInv => TotalsExact
  BY DEF LeidenInv, StageInv
<1> QED
  BY <1>1, ClusteringInvariant, PTL

\* The refinement never merges across the communities of the local moving.
THEOREM RefinementStaysInside == Spec => []RefinementInside
<1>1. LeidenInv => RefinementInside
  BY DEF LeidenInv, StageInv
<1> QED
  BY <1>1, ClusteringInvariant, PTL

\* However often a graph has been aggregated, labels of the last one have the
\* modularity there that they have on the first.
THEOREM AggregationStaysExact == Spec => []AggregationExact
<1>1. LeidenInv => AggregationExact
  <2> SUFFICES ASSUME LeidenInv
               PROVE  AggregationExact
    OBVIOUS
  <2>1. LayerInv /\ LevelInv /\ DOMAIN label = NodesIn(wg)
    BY DEF LeidenInv, StageInv
  <2>2. Quality(wg, label) = Quality(origin, [i \in DOMAIN nodeAt |-> label[nodeAt[i]]])
    BY <2>1, SameQuality
  <2> QED
    BY <2>2 DEF AggregationExact
<1> QED
  BY <1>1, ClusteringInvariant, PTL

\* No visit of either stage lowers the modularity of the labels it changes.
THEOREM EveryVisitImproves == Spec => VisitsImprove
<1>1. LeidenInv /\ [Next]_vars => [Visit => Quality(wg, label') >= Quality(wg, label)]_vars
  BY VisitInv
<1> QED
  BY <1>1, ClusteringInvariant, PTL DEF Spec, VisitsImprove

\* Labels of the call's graph, given to the nodes of the graph to index.
Grouped(x) == IF layer = "clusters" THEN x ELSE [u \in DOMAIN clusters |-> x[clusters[u] + 1]]

\* They mean the same there, be the call for clusters or for regions.
LEMMA GroupedQuality ==
  ASSUME LayerInv, LevelInv, NEW x, DOMAIN x = NodesIn(origin)
  PROVE  Quality(given, Grouped(x)) = Quality(origin, x) /\ Quality(origin, x) \in Int
<1>1. IsWeighted(origin)
  BY LevelHas
<1>2. Quality(origin, x) \in Int
  BY <1>1, QualityType
<1>3. CASE layer = "clusters"
  BY <1>2, <1>3 DEF Grouped, LayerInv
<1>4. CASE layer = "regions"
  <2>1. /\ IsWeighted(given) /\ IsPartition(clusters, NodesIn(given))
        /\ origin = Aggregate(given, clusters)
    BY <1>4 DEF LayerInv
  <2>2. NodesIn(origin) = 1..CommunityCount(clusters)
    BY <2>1, AggregateIs
  <2>3. Quality(origin, x) = Quality(given, Carried(clusters, x))
    BY <2>1, <2>2, QualityCarried
  <2>4. Grouped(x) = Carried(clusters, x)
    BY <1>4 DEF Grouped, Carried
  <2> QED
    BY <1>2, <2>3, <2>4
<1> QED
  BY <1>3, <1>4 DEF LayerInv

\* The answer so far is worth, on the graph to index, what it is on the call's.
LEMMA GroupingQuality ==
  ASSUME LayerInv, LevelInv
  PROVE  /\ Grouping = Grouped(composed)
         /\ Quality(given, Grouping) = Quality(origin, composed)
         /\ Quality(given, Grouping) \in Int
<1>1. DOMAIN composed = NodesIn(origin)
  BY DEF LevelInv, IsPartition
<1>2. Grouping = Grouped(composed)
  BY DEF Grouping, Grouped, RegionOfCluster
<1> QED
  BY <1>1, <1>2, GroupedQuality

\* The end of a local moving makes its partition the answer.
LEMMA EndMovingImproves ==
  LeidenInv /\ EndMoving => Quality(given, Grouping') >= Quality(given, Grouping)
<1> SUFFICES ASSUME LeidenInv, EndMoving
             PROVE  Quality(given, Grouping') >= Quality(given, Grouping)
  OBVIOUS
<1> DEFINE p == Renumbered(label)
           x == [i \in DOMAIN nodeAt |-> p[nodeAt[i]]]
<1>1. LayerInv /\ LevelInv /\ StageInv
  BY DEF LeidenInv
<1>2. stage = "move" /\ UNCHANGED call /\ composed' = x
  BY DEF EndMoving
<1>3. IsPartition(p, NodesIn(wg)) /\ Quality(wg, p) = Quality(wg, label)
  BY <1>1, MovedPartition
<1>4. DOMAIN p = NodesIn(wg)
  BY <1>3 DEF IsPartition
<1> HIDE DEF p
<1>5. Quality(wg, p) = Quality(origin, x)
  BY <1>1, <1>4, SameQuality
<1>6. DOMAIN x = NodesIn(origin)
  BY <1>1, LevelHas
<1> HIDE DEF x
<1>7. Quality(given, Grouped(x)) = Quality(origin, x)
  BY <1>1, <1>6, GroupedQuality
<1>8. Grouping' = Grouped(x)
  BY <1>2 DEF call, Grouping, Grouped, RegionOfCluster
<1>9. Quality(wg, label) >= Quality(origin, composed)
  BY <1>1, <1>2 DEF StageInv
<1>10. Quality(given, Grouping) = Quality(origin, composed)
  BY <1>1, GroupingQuality
<1> QED
  BY <1>3, <1>5, <1>7, <1>8, <1>9, <1>10

\* The regions start as the clusters.
LEMMA StartRegionsImproves ==
  LeidenInv /\ StartRegions => Grouping' = Grouping
<1> SUFFICES ASSUME LeidenInv, StartRegions
             PROVE  Grouping' = Grouping
  OBVIOUS
<1> DEFINE super == Aggregate(origin, composed)
<1>1. LayerInv /\ LevelInv
  BY DEF LeidenInv
<1>2. /\ layer = "clusters" /\ layer' = "regions" /\ clusters' = composed
      /\ composed' = Singles(super)
  BY DEF StartRegions, SuperGraph
<1>3. IsWeighted(origin) /\ IsPartition(composed, NodesIn(origin)) /\ IsFiniteSet(NodesIn(origin))
  BY <1>1, LevelHas, WeightedHas DEF LevelInv
<1>4. NodesIn(super) = 1..CommunityCount(composed)
  BY <1>3, AggregateIs
<1>5. /\ DOMAIN composed = NodesIn(origin)
      /\ \A i \in NodesIn(origin) : composed[i] \in Nat /\ composed[i] + 1 \in 1..CommunityCount(composed)
      /\ composed = [i \in NodesIn(origin) |-> composed[i]]
  BY <1>3, PartitionHas DEF IsPartition
<1> HIDE DEF super
<1>6. \A i \in NodesIn(origin) : Singles(super)[composed[i] + 1] = composed[i]
  BY <1>4, <1>5 DEF Singles
<1>7. Grouping' = [i \in DOMAIN composed |-> Singles(super)[composed[i] + 1]]
  BY <1>2 DEF Grouping, RegionOfCluster
<1>8. Grouping = composed
  BY <1>2 DEF Grouping
<1> QED
  BY <1>5, <1>6, <1>7, <1>8

\* No level, of the clusters or of the regions, returns a worse grouping of the
\* indexed graph than the one before it.
THEOREM EveryLevelImproves == Spec => LevelsImprove
<1>1. ASSUME LeidenInv, [Next]_vars
      PROVE  Quality(given, Grouping') >= Quality(given, Grouping)
  <2>1. LayerInv /\ LevelInv
    BY <1>1 DEF LeidenInv
  <2>2. Quality(given, Grouping) \in Int
    BY <2>1, GroupingQuality
  <2>3. CASE EndMoving
    BY <1>1, <2>3, EndMovingImproves
  <2>4. CASE StartRegions
    BY <1>1, <2>2, <2>4, StartRegionsImproves
  <2>5. CASE Visit \/ NextPass \/ EndRefining \/ UNCHANGED vars
    <3>1. layer' = layer /\ clusters' = clusters /\ composed' = composed
      BY <2>5 DEF Visit, NextPass, EndRefining, vars, call
    <3>2. Grouping' = Grouping
      BY <3>1 DEF Grouping, RegionOfCluster
    <3> QED
      BY <2>2, <3>2
  <2> QED
    BY <1>1, <2>3, <2>4, <2>5 DEF Next
<1>2. LeidenInv /\ [Next]_vars => [Quality(given, Grouping') >= Quality(given, Grouping)]_vars
  BY <1>1
<1> QED
  BY <1>2, ClusteringInvariant, PTL DEF Spec, LevelsImprove

\* For every graph, every order and either algorithm: clusters that the level
\* loop left by itself are pairwise not worth joining, and a second run, over
\* clusters of which no two are worth joining, leaves each its own region.
THEOREM RegionsStayClusters == Spec => []RegionsAreClusters
<1>1. Init => LeidenInv /\ JoinInv
  BY InitInv, InitJoin
<1>2. (LeidenInv /\ JoinInv) /\ [Next]_vars => (LeidenInv /\ JoinInv)'
  <2>1. LeidenInv /\ [Next]_vars => LeidenInv'
    BY VisitInv, NextPassInv, EndMovingInv, EndRefiningInv, StartRegionsInv, StutterInv DEF Next
  <2>2. LeidenInv /\ JoinInv /\ [Next]_vars => JoinInv'
    BY VisitJoin, NextPassJoin, EndMovingJoin, EndRefiningJoin, StartRegionsJoin, StutterJoin
       DEF Next
  <2> QED
    BY <2>1, <2>2
<1>3. LeidenInv /\ JoinInv => RegionsAreClusters
  <2> SUFFICES ASSUME LeidenInv, JoinInv
               PROVE  RegionsAreClusters
    OBVIOUS
  <2>1. CASE layer = "clusters"
    BY <2>1 DEF RegionsAreClusters, JoinInv, FinalInv
  <2>2. CASE layer # "clusters"
    <3> SUFFICES ASSUME NoneWorthJoining(origin)
                 PROVE  IsInjective(composed)
      BY <2>2 DEF RegionsAreClusters
    <3>1. layer = "regions" /\ IsWeighted(origin)
      BY <2>2, LevelHas DEF LeidenInv, LayerInv
    <3>2. composed = Singles(origin)
      BY <3>1 DEF JoinInv, RegionInv
    <3>3. DOMAIN composed = NodesIn(origin)
      BY <3>2 DEF Singles
    <3> QED
      BY <3>1, <3>2, <3>3, SinglesIs DEF IsInjective
  <2> QED
    BY <2>1, <2>2
<1> QED
  BY <1>1, <1>2, <1>3, PTL DEF Spec
=============================================================================
