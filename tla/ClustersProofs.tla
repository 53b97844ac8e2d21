--------------------------- MODULE ClustersProofs ---------------------------
(***************************************************************************)
(* What the partitions and aggregations of weighted graphs may be relied   *)
(* on for: that an aggregation weighs what the graph it merges does, so    *)
(* that modularity means the same on either, and what moving one node      *)
(* between communities changes.                                            *)
(***************************************************************************)
EXTENDS Clusters, DataProofs

-----------------------------------------------------------------------------
(* The weight between two sets of nodes.                                   *)

Weight(g, A, B) == SumFunctionOnSet(g.mult, A \X B)


Degrees(mult, N) == [i \in N |-> SumFunctionOnSet(mult, {i} \X N)]

\* The sums that Weighed keeps with a table on the pairs over N.
LEMMA WeighedIs ==
  ASSUME NEW N, NEW mult, DOMAIN mult = N \X N
  PROVE  /\ Weighed(mult).mult = mult
         /\ Weighed(mult).degree = Degrees(mult, N)
         /\ Weighed(mult).twiceM = SumFunctionOnSet(Degrees(mult, N), N)
         /\ NodesIn(Weighed(mult)) = N
<1>1. {e[1] : e \in DOMAIN mult} = N
  <2>1. \A i \in N : <<i, i>> \in DOMAIN mult /\ <<i, i>>[1] = i
    OBVIOUS
  <2>2. \A e \in DOMAIN mult : e[1] \in N
    OBVIOUS
  <2> QED
    BY <2>1, <2>2
<1>2. Weighed(mult) =
        [mult   |-> mult,
         degree |-> [i \in N |-> SumFunctionOnSet(mult, {i} \X N)],
         twiceM |-> SumFunctionOnSet([i \in N |-> SumFunctionOnSet(mult, {i} \X N)], N)]
  BY <1>1 DEF Weighed
<1> QED
  BY <1>2 DEF NodesIn, Degrees

\* The parts of a weighted graph have the types and values Weighed gives them.
LEMMA WeightedHas ==
  ASSUME NEW g, IsWeighted(g)
  PROVE  /\ Cardinality(NodesIn(g)) \in Nat /\ NodesIn(g) = 1..Cardinality(NodesIn(g))
         /\ IsFiniteSet(NodesIn(g))
         /\ g.mult \in [NodesIn(g) \X NodesIn(g) -> Nat]
         /\ \A u, v \in NodesIn(g) : g.mult[<<u, v>>] = g.mult[<<v, u>>]
         /\ g.degree = [i \in NodesIn(g) |-> Weight(g, {i}, NodesIn(g))]
         /\ g.twiceM = SumFunctionOnSet(g.degree, NodesIn(g))
         /\ g = Weighed(g.mult)
<1> DEFINE N == NodesIn(g)
<1>1. /\ IsFiniteSet(N) /\ N = 1..Cardinality(N) /\ g.mult \in [N \X N -> Nat]
      /\ g = Weighed(g.mult) /\ \A u, v \in N : g.mult[<<u, v>>] = g.mult[<<v, u>>]
  BY DEF IsWeighted
<1>2. DOMAIN g.mult = N \X N
  BY <1>1
<1>3. /\ g.degree = Degrees(g.mult, N)
      /\ g.twiceM = SumFunctionOnSet(g.degree, N)
  <2>1. /\ Weighed(g.mult).degree = Degrees(g.mult, N)
        /\ Weighed(g.mult).twiceM = SumFunctionOnSet(Degrees(g.mult, N), N)
    BY <1>2, WeighedIs
  <2> QED
    BY <1>1, <2>1
<1>4. Cardinality(N) \in Nat
  BY <1>1, FS_CardinalityType
<1> QED
  BY <1>1, <1>3, <1>4 DEF Weight, Degrees

\* A symmetric table on the pairs of 1..n makes a weighted graph of n nodes.
LEMMA WeighedWeighted ==
  ASSUME NEW n \in Nat, NEW mult \in [(1..n) \X (1..n) -> Nat],
         \A u, v \in 1..n : mult[<<u, v>>] = mult[<<v, u>>]
  PROVE  /\ IsWeighted(Weighed(mult)) /\ NodesIn(Weighed(mult)) = 1..n
         /\ Weighed(mult).mult = mult
<1> DEFINE N == 1..n
<1>1. IsFiniteSet(N) /\ Cardinality(N) = n
  BY FS_Interval
<1>2. NodesIn(Weighed(mult)) = N /\ Weighed(mult).mult = mult
  <2>1. DOMAIN mult = N \X N
    OBVIOUS
  <2> HIDE DEF N
  <2> QED
    BY <2>1, WeighedIs
<1> QED
  BY <1>1, <1>2 DEF IsWeighted

\* A weight is a whole number, and none within no nodes.
LEMMA WeightType ==
  ASSUME NEW g, IsWeighted(g), NEW A \in SUBSET NodesIn(g), NEW B \in SUBSET NodesIn(g)
  PROVE  /\ IsFiniteSet(A) /\ IsFiniteSet(B) /\ IsFiniteSet(A \X B)
         /\ \A e \in A \X B : g.mult[e] \in Nat /\ g.mult[e] \in Int
         /\ Weight(g, A, B) \in Nat
<1>1. IsFiniteSet(A) /\ IsFiniteSet(B)
  BY WeightedHas, FS_Subset
<1>2. IsFiniteSet(A \X B)
  BY <1>1, FS_Product
<1>3. \A e \in A \X B : g.mult[e] \in Nat /\ g.mult[e] \in Int
  <2>1. A \X B \subseteq NodesIn(g) \X NodesIn(g)
    OBVIOUS
  <2>2. g.mult \in [NodesIn(g) \X NodesIn(g) -> Nat]
    BY WeightedHas
  <2> QED
    BY <2>1, <2>2
<1>4. SumFunctionOnSet(g.mult, A \X B) \in Nat
  BY <1>2, <1>3, SumType
<1> QED
  BY <1>1, <1>2, <1>3, <1>4 DEF Weight

\* It is the same in either direction.
LEMMA WeightSymmetric ==
  ASSUME NEW g, IsWeighted(g), NEW A \in SUBSET NodesIn(g), NEW B \in SUBSET NodesIn(g)
  PROVE  Weight(g, A, B) = Weight(g, B, A)
<1> DEFINE turned == [e \in A \X B |-> <<e[2], e[1]>>]
<1>1. /\ IsFiniteSet(A \X B)
      /\ \A e \in B \X A : g.mult[e] \in Int
  BY WeightType
<1>2. /\ turned \in [A \X B -> B \X A]
      /\ \A x, y \in A \X B : turned[x] = turned[y] => x = y
      /\ \A t \in B \X A : \E x \in A \X B : turned[x] = t
  <2>1. turned \in [A \X B -> B \X A]
    OBVIOUS
  <2>2. \A x, y \in A \X B : turned[x] = turned[y] => x = y
    <3>1. \A x \in A \X B : turned[x] = <<x[2], x[1]>> /\ x = <<x[1], x[2]>>
      OBVIOUS
    <3> QED
      BY <3>1
  <2>3. ASSUME NEW t \in B \X A
        PROVE  \E x \in A \X B : turned[x] = t
    <3>1. <<t[2], t[1]>> \in A \X B /\ t = <<t[1], t[2]>>
      OBVIOUS
    <3>2. turned[<<t[2], t[1]>>] = t
      BY <3>1
    <3> QED
      BY <3>1, <3>2
  <2> QED
    BY <2>1, <2>2, <2>3
<1>3. \A e \in A \X B : g.mult[e] = g.mult[turned[e]]
  <2>1. \A e \in A \X B : e = <<e[1], e[2]>> /\ e[1] \in NodesIn(g) /\ e[2] \in NodesIn(g)
    OBVIOUS
  <2>2. \A u, v \in NodesIn(g) : g.mult[<<u, v>>] = g.mult[<<v, u>>]
    BY WeightedHas
  <2>3. \A e \in A \X B : turned[e] = <<e[2], e[1]>>
    OBVIOUS
  <2> HIDE DEF turned
  <2> QED
    BY <2>1, <2>2, <2>3
<1> HIDE DEF turned
<1>4. SumFunctionOnSet(g.mult, B \X A) = SumFunctionOnSet(g.mult, A \X B)
  BY <1>1, <1>2, <1>3, SumRenamed
<1> QED
  BY <1>4 DEF Weight

\* Disjoint sets add their weights.
LEMMA WeightSplits ==
  ASSUME NEW g, IsWeighted(g), NEW A \in SUBSET NodesIn(g), NEW B \in SUBSET NodesIn(g),
         NEW C \in SUBSET NodesIn(g), A \cap B = {}
  PROVE  Weight(g, A \cup B, C) = Weight(g, A, C) + Weight(g, B, C)
<1>1. /\ IsFiniteSet(A \X C) /\ IsFiniteSet(B \X C)
      /\ \A e \in (A \X C) \cup (B \X C) : g.mult[e] \in Int
  BY WeightType
<1>2. (A \X C) \cap (B \X C) = {} /\ (A \cup B) \X C = (A \X C) \cup (B \X C)
  OBVIOUS
<1>3. SumFunctionOnSet(g.mult, (A \X C) \cup (B \X C)) =
        SumFunctionOnSet(g.mult, A \X C) + SumFunctionOnSet(g.mult, B \X C)
  BY <1>1, <1>2, SumUnion
<1> QED
  BY <1>2, <1>3 DEF Weight

\* The degrees of some nodes add up to the weight between them and all nodes.
LEMMA DegreesAddUp ==
  ASSUME NEW g, IsWeighted(g), NEW A \in SUBSET NodesIn(g)
  PROVE  /\ SumFunctionOnSet(g.degree, A) = Weight(g, A, NodesIn(g))
         /\ SumFunctionOnSet(g.degree, A) \in Nat
<1> DEFINE N == NodesIn(g)
           first == [e \in A \X N |-> e[1]]
           From(i) == {e \in A \X N : first[e] = i}
<1>1. /\ IsFiniteSet(A) /\ IsFiniteSet(A \X N) /\ Weight(g, A, N) \in Nat
      /\ \A e \in A \X N : g.mult[e] \in Int
  <2>1. N \in SUBSET NodesIn(g)
    OBVIOUS
  <2> QED
    BY <2>1, WeightType
<1>2. \A e \in A \X N : first[e] \in A
  OBVIOUS
<1>3. SumFunctionOnSet(g.mult, A \X N) =
        SumFunctionOnSet([i \in A |-> SumFunctionOnSet(g.mult, From(i))], A)
  <2> DEFINE S == A \X N
  <2>1. IsFiniteSet(S) /\ (\A e \in S : g.mult[e] \in Int) /\ \A e \in S : first[e] \in A
    BY <1>1, <1>2
  <2> HIDE DEF first, S
  <2>2. SumFunctionOnSet(g.mult, S) =
          SumFunctionOnSet([i \in A |-> SumFunctionOnSet(g.mult, {e \in S : first[e] = i})], A)
    BY <1>1, <2>1, SumByGroups
  <2> QED
    BY <2>2 DEF S
<1>4. \A i \in A : From(i) = {i} \X N
  OBVIOUS
<1>5. \A i \in A : g.degree[i] = [j \in A |-> SumFunctionOnSet(g.mult, From(j))][i]
  <2>1. \A i \in A : g.degree[i] = SumFunctionOnSet(g.mult, {i} \X N)
    BY WeightedHas DEF Weight
  <2> QED
    BY <1>4, <2>1
<1>6. SumFunctionOnSet(g.degree, A) =
        SumFunctionOnSet([i \in A |-> SumFunctionOnSet(g.mult, From(i))], A)
  <2> HIDE DEF From
  <2> QED
    BY <1>1, <1>5, SumCongruence
<1> QED
  BY <1>1, <1>3, <1>6 DEF Weight

\* A degree, and twice the weight of the whole graph.
LEMMA DegreeType ==
  ASSUME NEW g, IsWeighted(g)
  PROVE  /\ g.degree \in [NodesIn(g) -> Nat] /\ g.twiceM \in Nat
         /\ g.twiceM = Weight(g, NodesIn(g), NodesIn(g))
<1> DEFINE N == NodesIn(g)
<1>1. N \in SUBSET N /\ \A i \in N : {i} \in SUBSET N
  OBVIOUS
<1>2. \A i \in N : Weight(g, {i}, N) \in Nat
  BY <1>1, WeightType
<1>3. g.degree = [i \in N |-> Weight(g, {i}, N)] /\ g.twiceM = SumFunctionOnSet(g.degree, N)
  BY WeightedHas
<1>4. g.degree \in [N -> Nat]
  BY <1>2, <1>3
<1>5. SumFunctionOnSet(g.degree, N) \in Nat /\ SumFunctionOnSet(g.degree, N) = Weight(g, N, N)
  BY <1>1, DegreesAddUp
<1> QED
  BY <1>3, <1>4, <1>5

-----------------------------------------------------------------------------
(* Aggregation.                                                            *)

\* A partition of the nodes N: communities 0, 1, ..., none of them empty.
IsPartition(part, N) ==
  part \in [N -> Nat] /\ Range(part) = 0..(CommunityCount(part) - 1)

\* The nodes whose communities become the nodes X.
Members(part, X) == {i \in DOMAIN part : part[i] + 1 \in X}

\* The weights between communities, as Aggregate tables them.
Merging(g, part) ==
  [e \in (1..CommunityCount(part)) \X (1..CommunityCount(part)) |->
     Weight(g, BucketOf(part, e[1] - 1), BucketOf(part, e[2] - 1))]

LEMMA PartitionHas ==
  ASSUME NEW N, IsFiniteSet(N), NEW part, IsPartition(part, N)
  PROVE  /\ CommunityCount(part) \in Nat
         /\ part \in [N -> 0..(CommunityCount(part) - 1)]
         /\ \A c \in 0..(CommunityCount(part) - 1) : \E i \in N : part[i] = c
         /\ \A i \in N : part[i] \in Nat /\ part[i] + 1 \in 1..CommunityCount(part)
<1>1. part \in [N -> Nat] /\ Range(part) = 0..(CommunityCount(part) - 1)
  BY DEF IsPartition
<1>2. CommunityCount(part) \in Nat
  <2>1. CommunityCount(part) = Cardinality(Range(part))
    BY DEF CommunityCount, Range
  <2>2. part \in Surjection(N, Range(part))
    BY <1>1 DEF Surjection, Range
  <2>3. IsFiniteSet(Range(part))
    BY <2>2, FS_Surjection
  <2> QED
    BY <2>1, <2>3, FS_CardinalityType
<1>3. \A c \in Range(part) : \E i \in N : part[i] = c
  BY <1>1 DEF Range
<1>4. \A i \in N : part[i] \in Range(part)
  BY <1>1 DEF Range
<1>5. \A c \in 0..(CommunityCount(part) - 1) : \E i \in N : part[i] = c
  BY <1>1, <1>3
<1>6. \A i \in N : part[i] \in 0..(CommunityCount(part) - 1)
  BY <1>1, <1>4
<1> HIDE DEF IsPartition
<1> QED
  BY <1>1, <1>2, <1>5, <1>6

\* The weight between two sets of merged nodes is that of all their members.
LEMMA MergedWeight ==
  ASSUME NEW g, IsWeighted(g), NEW part, IsPartition(part, NodesIn(g)),
         NEW X \in SUBSET (1..CommunityCount(part)),
         NEW Y \in SUBSET (1..CommunityCount(part))
  PROVE  SumFunctionOnSet(Merging(g, part), X \X Y) = Weight(g, Members(part, X), Members(part, Y))
<1> DEFINE N == NodesIn(g)
           C == 1..CommunityCount(part)
           mult == Merging(g, part)
           S == Members(part, X) \X Members(part, Y)
           D == X \X Y
           merged == [e \in S |-> <<part[e[1]] + 1, part[e[2]] + 1>>]
           Over(d) == {e \in S : merged[e] = d}
<1>1. DOMAIN part = N /\ IsFiniteSet(N) /\ \A i \in N : part[i] \in Nat
  <2>1. IsFiniteSet(N)
    BY WeightedHas
  <2> QED
    BY <2>1, PartitionHas DEF IsPartition
<1>2. Members(part, X) \in SUBSET N /\ Members(part, Y) \in SUBSET N
  BY <1>1 DEF Members
<1>3. IsFiniteSet(S) /\ \A e \in S : g.mult[e] \in Int
  BY <1>2, WeightType
<1>4. IsFiniteSet(D) /\ X \subseteq Int /\ Y \subseteq Int
  <2>1. CommunityCount(part) \in Nat
    BY <1>1, PartitionHas
  <2>2. IsFiniteSet(C)
    BY <2>1, FS_Interval
  <2>3. C \subseteq Int
    BY <2>1
  <2>4. IsFiniteSet(X) /\ IsFiniteSet(Y)
    BY <2>2, FS_Subset
  <2> HIDE DEF C
  <2> QED
    BY <2>3, <2>4, FS_Product
<1>5. \A e \in S : merged[e] \in D
  BY DEF Members
<1>6. ASSUME NEW d \in D
      PROVE  Over(d) = BucketOf(part, d[1] - 1) \X BucketOf(part, d[2] - 1)
  <2>0. d = <<d[1], d[2]>> /\ d[1] \in X /\ d[2] \in Y
    OBVIOUS
  <2>1. d = <<d[1], d[2]>> /\ d[1] \in X /\ d[2] \in Y /\ d[1] \in Int /\ d[2] \in Int
    BY <1>4, <2>0
  <2>2. \A i \in N : /\ i \in BucketOf(part, d[1] - 1) <=> part[i] + 1 = d[1]
                     /\ i \in BucketOf(part, d[2] - 1) <=> part[i] + 1 = d[2]
    BY <1>1, <2>1 DEF BucketOf
  <2>3. BucketOf(part, d[1] - 1) \subseteq N /\ BucketOf(part, d[2] - 1) \subseteq N
    BY <1>1 DEF BucketOf
  <2>4. \A e \in S : /\ merged[e] = <<part[e[1]] + 1, part[e[2]] + 1>>
                     /\ e = <<e[1], e[2]>> /\ e[1] \in N /\ e[2] \in N
    BY <1>1 DEF Members
  <2>5. ASSUME NEW e \in Over(d)
        PROVE  e \in BucketOf(part, d[1] - 1) \X BucketOf(part, d[2] - 1)
    <3> HIDE DEF merged
    <3> QED
      BY <2>1, <2>2, <2>4, <2>5
  <2>6. ASSUME NEW e \in BucketOf(part, d[1] - 1) \X BucketOf(part, d[2] - 1)
        PROVE  e \in Over(d)
    <3>1. e = <<e[1], e[2]>> /\ e[1] \in N /\ e[2] \in N
      BY <2>3
    <3>2. part[e[1]] + 1 = d[1] /\ part[e[2]] + 1 = d[2]
      BY <2>2, <3>1
    <3>3. e[1] \in Members(part, X) /\ e[2] \in Members(part, Y)
      BY <1>1, <2>1, <3>1, <3>2 DEF Members
    <3>4. e \in S
      BY <3>1, <3>3
    <3> QED
      BY <2>1, <2>4, <3>2, <3>4
  <2> HIDE DEF Over
  <2> QED
    BY <2>5, <2>6
<1>7. SumFunctionOnSet(g.mult, S) = SumFunctionOnSet([d \in D |-> SumFunctionOnSet(g.mult, Over(d))], D)
  <2> HIDE DEF merged, S, D
  <2> QED
    BY <1>3, <1>4, <1>5, SumByGroups
<1>8. \A d \in D : mult[d] = [c \in D |-> SumFunctionOnSet(g.mult, Over(c))][d]
  <2>1. \A d \in D : d \in C \X C
    OBVIOUS
  <2>2. \A d \in D : mult[d] = SumFunctionOnSet(g.mult, BucketOf(part, d[1] - 1) \X BucketOf(part, d[2] - 1))
    BY <2>1 DEF Weight, Merging
  <2> HIDE DEF Over
  <2> QED
    BY <1>6, <2>2
<1>9. SumFunctionOnSet(mult, D) = SumFunctionOnSet([d \in D |-> SumFunctionOnSet(g.mult, Over(d))], D)
  <2> HIDE DEF Over, D
  <2> QED
    BY <1>4, <1>8, SumCongruence
<1> QED
  BY <1>7, <1>9 DEF Weight

\* The aggregation of a weighted graph is one, with a node for each community.
LEMMA AggregateIs ==
  ASSUME NEW g, IsWeighted(g), NEW part, IsPartition(part, NodesIn(g))
  PROVE  /\ IsWeighted(Aggregate(g, part))
         /\ NodesIn(Aggregate(g, part)) = 1..CommunityCount(part)
         /\ Aggregate(g, part).mult = Merging(g, part)
         /\ Aggregate(g, part) = Weighed(Aggregate(g, part).mult)
<1> DEFINE n == CommunityCount(part)
           mult == Merging(g, part)
<1>1. DOMAIN part = NodesIn(g) /\ IsFiniteSet(NodesIn(g)) /\ n \in Nat
  <2>1. IsFiniteSet(NodesIn(g))
    BY WeightedHas
  <2> QED
    BY <2>1, PartitionHas DEF IsPartition
<1>2. \A c : BucketOf(part, c) \in SUBSET NodesIn(g)
  BY <1>1 DEF BucketOf
<1>3. Aggregate(g, part) = Weighed(mult)
  BY DEF Aggregate, Weight, Merging
<1>4. mult \in [(1..n) \X (1..n) -> Nat]
  BY <1>2, WeightType DEF Merging
<1>5. \A u, v \in 1..n : mult[<<u, v>>] = mult[<<v, u>>]
  BY <1>2, WeightSymmetric DEF Merging
<1>6. IsWeighted(Weighed(mult)) /\ NodesIn(Weighed(mult)) = 1..n /\ Weighed(mult).mult = mult
  <2> HIDE DEF mult, n
  <2> QED
    BY <1>1, <1>4, <1>5, WeighedWeighted
<1> QED
  BY <1>3, <1>6

\* Sets of merged nodes weigh what their members do.
LEMMA AggregateWeight ==
  ASSUME NEW g, IsWeighted(g), NEW part, IsPartition(part, NodesIn(g)),
         NEW X \in SUBSET (1..CommunityCount(part)),
         NEW Y \in SUBSET (1..CommunityCount(part))
  PROVE  Weight(Aggregate(g, part), X, Y) = Weight(g, Members(part, X), Members(part, Y))
<1>1. Aggregate(g, part).mult = Merging(g, part)
  BY AggregateIs
<1>2. SumFunctionOnSet(Merging(g, part), X \X Y) = Weight(g, Members(part, X), Members(part, Y))
  BY MergedWeight
<1> QED
  BY <1>1, <1>2 DEF Weight

\* So do their degrees, and the whole graph.
LEMMA AggregateDegrees ==
  ASSUME NEW g, IsWeighted(g), NEW part, IsPartition(part, NodesIn(g)),
         NEW X \in SUBSET (1..CommunityCount(part))
  PROVE  /\ SumFunctionOnSet(Aggregate(g, part).degree, X) =
              SumFunctionOnSet(g.degree, Members(part, X))
         /\ Aggregate(g, part).twiceM = g.twiceM
<1> DEFINE C == 1..CommunityCount(part)
           super == Aggregate(g, part)
<1>1. IsWeighted(super) /\ NodesIn(super) = C
  BY AggregateIs
<1>2. /\ Members(part, C) = NodesIn(g) /\ Members(part, X) \in SUBSET NodesIn(g)
      /\ C \in SUBSET C
  <2>1. IsFiniteSet(NodesIn(g))
    BY WeightedHas
  <2>2. DOMAIN part = NodesIn(g) /\ \A i \in NodesIn(g) : part[i] + 1 \in C
    BY <2>1, PartitionHas DEF IsPartition
  <2> QED
    BY <2>2 DEF Members
<1>3. SumFunctionOnSet(super.degree, X) = Weight(super, X, C)
  BY <1>1, DegreesAddUp
<1>4. SumFunctionOnSet(g.degree, Members(part, X)) = Weight(g, Members(part, X), NodesIn(g))
  BY <1>2, DegreesAddUp
<1>5. \A A, B \in SUBSET C : Weight(super, A, B) = Weight(g, Members(part, A), Members(part, B))
  BY AggregateWeight
<1>6. /\ Weight(super, X, C) = Weight(g, Members(part, X), NodesIn(g))
      /\ Weight(super, C, C) = Weight(g, NodesIn(g), NodesIn(g))
  <2>1. X \in SUBSET C
    OBVIOUS
  <2> HIDE DEF C
  <2> QED
    BY <1>2, <1>5, <2>1
<1>7. super.twiceM = Weight(super, C, C) /\ g.twiceM = Weight(g, NodesIn(g), NodesIn(g))
  BY <1>1, DegreeType
<1> QED
  BY <1>3, <1>4, <1>6, <1>7

-----------------------------------------------------------------------------
(* Modularity.                                                             *)

\* What a community adds to the modularity, times (2m)^2.
Standing(g, lab, c) ==
  Weight(g, BucketOf(lab, c), BucketOf(lab, c)) * g.twiceM
    - SumFunctionOnSet(g.degree, BucketOf(lab, c)) * SumFunctionOnSet(g.degree, BucketOf(lab, c))

Standings(g, lab, C) == [c \in C |-> Standing(g, lab, c)]

LEMMA QualityIs ==
  ASSUME NEW g, NEW lab
  PROVE  Quality(g, lab) = SumFunctionOnSet(Standings(g, lab, Range(lab)), Range(lab))
BY DEF Quality, Standings, Standing, Weight

\* A community adds a whole number, and an empty one nothing.
LEMMA StandingType ==
  ASSUME NEW g, IsWeighted(g), NEW lab, DOMAIN lab = NodesIn(g), NEW c
  PROVE  /\ Standing(g, lab, c) \in Int
         /\ c \notin Range(lab) => Standing(g, lab, c) = 0
<1> DEFINE B == BucketOf(lab, c)
<1>1. B \in SUBSET NodesIn(g)
  BY DEF BucketOf
<1>2. /\ Weight(g, B, B) \in Nat /\ SumFunctionOnSet(g.degree, B) \in Nat
      /\ g.twiceM \in Nat
  BY <1>1, WeightType, DegreesAddUp, DegreeType
<1>3. Standing(g, lab, c) \in Int
  <2> DEFINE w == Weight(g, B, B)
             d == SumFunctionOnSet(g.degree, B)
             m == g.twiceM
  <2>1. w \in Nat /\ d \in Nat /\ m \in Nat /\ Standing(g, lab, c) = w * m - d * d
    BY <1>2 DEF Standing
  <2> HIDE DEF w, d, m
  <2> QED
    BY <2>1
<1>4. ASSUME c \notin Range(lab)
      PROVE  Standing(g, lab, c) = 0
  <2>1. B = {}
    BY <1>4 DEF BucketOf, Range
  <2>2. {} \X {} = {}
    OBVIOUS
  <2>3. Weight(g, B, B) = 0 /\ SumFunctionOnSet(g.degree, B) = 0
    BY <2>1, <2>2, SumEmpty DEF Weight
  <2> HIDE DEF B
  <2> QED
    BY <1>2, <2>3 DEF Standing, B
<1> QED
  BY <1>3, <1>4

\* The range of labels on finitely many nodes is finite.
LEMMA RangeFinite ==
  ASSUME NEW lab, IsFiniteSet(DOMAIN lab)
  PROVE  IsFiniteSet(Range(lab))
<1> DEFINE f == [i \in DOMAIN lab |-> lab[i]]
<1>1. f \in Surjection(DOMAIN lab, Range(lab))
  BY DEF Surjection, Range
<1> QED
  BY <1>1, FS_Surjection

\* The sum may as well go over labels no node has.
LEMMA QualityOver ==
  ASSUME NEW g, IsWeighted(g), NEW lab, DOMAIN lab = NodesIn(g),
         NEW C, IsFiniteSet(C), Range(lab) \subseteq C
  PROVE  /\ Quality(g, lab) = SumFunctionOnSet(Standings(g, lab, C), C)
         /\ Quality(g, lab) \in Int
<1> DEFINE R == Range(lab)
<1>1. /\ \A c \in C : Standings(g, lab, C)[c] \in Int
      /\ \A c \in C \ R : Standings(g, lab, C)[c] = 0
  BY StandingType DEF Standings
<1>2. IsFiniteSet(R) /\ R \in SUBSET C
  BY FS_Subset
<1>3. SumFunctionOnSet(Standings(g, lab, C), C) = SumFunctionOnSet(Standings(g, lab, C), R)
  BY <1>1, <1>2, SumOfSupport
<1>4. \A c \in R : Standings(g, lab, C)[c] = Standings(g, lab, R)[c]
  BY <1>2 DEF Standings
<1>5. SumFunctionOnSet(Standings(g, lab, C), R) = SumFunctionOnSet(Standings(g, lab, R), R)
  BY <1>2, <1>4, SumCongruence
<1>6. SumFunctionOnSet(Standings(g, lab, C), C) \in Int
  BY <1>1, SumType
<1> QED
  BY <1>3, <1>5, <1>6, QualityIs

\* Only the classes count, not the names of the labels.
LEMMA QualityOfClasses ==
  ASSUME NEW g, IsWeighted(g), NEW lab, DOMAIN lab = NodesIn(g),
         NEW other, DOMAIN other = NodesIn(g),
         \A u, v \in NodesIn(g) : lab[u] = lab[v] <=> other[u] = other[v]
  PROVE  Quality(g, lab) = Quality(g, other)
<1> DEFINE R == Range(lab)
           T == Range(other)
           b == [c \in R |-> other[CHOOSE u \in NodesIn(g) : lab[u] = c]]
<1>1. \A c \in R : \E u \in NodesIn(g) : lab[u] = c /\ b[c] = other[u]
  <2>1. ASSUME NEW c \in R
        PROVE  \E u \in NodesIn(g) : lab[u] = c /\ b[c] = other[u]
    <3>1. \E u \in NodesIn(g) : lab[u] = c
      BY DEF Range
    <3> QED
      BY <3>1
  <2> QED
    BY <2>1
<1>2. b \in [R -> T]
  <2>1. \A c \in R : b[c] \in T
    <3> HIDE DEF b
    <3> QED
      BY <1>1 DEF Range
  <2> QED
    BY <2>1
<1> HIDE DEF b
<1>3. \A u \in NodesIn(g) : lab[u] \in R /\ b[lab[u]] = other[u]
  <2>1. \A u \in NodesIn(g) : lab[u] \in R
    BY DEF Range
  <2> HIDE DEF R
  <2> QED
    BY <1>1, <2>1
<1>4. \A c, d \in R : b[c] = b[d] => c = d
  <2> HIDE DEF R
  <2> QED
    BY <1>1
<1>5. \A t \in T : \E c \in R : b[c] = t
  <2>1. \A t \in T : \E u \in NodesIn(g) : other[u] = t
    BY DEF Range
  <2> HIDE DEF R, T
  <2> QED
    BY <1>3, <2>1
<1>6. \A c \in R : BucketOf(lab, c) = BucketOf(other, b[c])
  <2>1. ASSUME NEW c \in R, NEW u \in NodesIn(g)
        PROVE  lab[u] = c <=> other[u] = b[c]
    <3> HIDE DEF R
    <3> QED
      BY <1>1, <2>1
  <2> HIDE DEF R
  <2> QED
    BY <2>1 DEF BucketOf
<1>7. IsFiniteSet(R)
  BY WeightedHas, RangeFinite
<1>8. \A t \in T : Standings(g, other, T)[t] \in Int
  BY StandingType DEF Standings
<1>9. \A c \in R : Standings(g, lab, R)[c] = Standings(g, other, T)[b[c]]
  BY <1>2, <1>6 DEF Standings, Standing
<1>10. SumFunctionOnSet(Standings(g, other, T), T) = SumFunctionOnSet(Standings(g, lab, R), R)
  <2> HIDE DEF R, T
  <2> QED
    BY <1>2, <1>4, <1>5, <1>7, <1>8, <1>9, SumRenamed
<1> QED
  BY <1>10, QualityIs

\* Labels of merged nodes, given to all their members.
Carried(part, lab) == [i \in DOMAIN part |-> lab[part[i] + 1]]

\* They are the same labels, and those of a community its members'.
LEMMA CarriedIs ==
  ASSUME NEW N, IsFiniteSet(N), NEW part, IsPartition(part, N),
         NEW lab, DOMAIN lab = 1..CommunityCount(part)
  PROVE  /\ DOMAIN Carried(part, lab) = N
         /\ \A i \in N : Carried(part, lab)[i] = lab[part[i] + 1]
         /\ Range(Carried(part, lab)) = Range(lab)
         /\ CommunityCount(Carried(part, lab)) = CommunityCount(lab)
         /\ \A c : /\ BucketOf(lab, c) \in SUBSET (1..CommunityCount(part))
                   /\ Members(part, BucketOf(lab, c)) = BucketOf(Carried(part, lab), c)
<1> DEFINE C == 1..CommunityCount(part)
           all == Carried(part, lab)
           R == Range(lab)
<1>1. DOMAIN part = N /\ \A i \in N : part[i] \in Nat /\ part[i] + 1 \in C
  BY PartitionHas DEF IsPartition
<1>2. \A d \in C : \E i \in N : part[i] + 1 = d
  <2>1. CommunityCount(part) \in Nat
    BY PartitionHas
  <2>2. \A d \in C : d - 1 \in 0..(CommunityCount(part) - 1) /\ d \in Int
    BY <2>1
  <2>3. \A d \in C : \E i \in N : part[i] = d - 1
    BY <2>2, PartitionHas
  <2> QED
    BY <1>1, <2>2, <2>3
<1>3. DOMAIN all = N /\ \A i \in N : all[i] = lab[part[i] + 1]
  BY <1>1 DEF Carried
<1>4. DOMAIN lab = C
  OBVIOUS
<1> HIDE DEF C, all
<1>5. Range(all) = R
  <2>1. \A i \in N : all[i] \in R
    BY <1>1, <1>3, <1>4 DEF Range
  <2>2. \A c \in R : \E i \in N : all[i] = c
    <3>1. \A c \in R : \E d \in C : lab[d] = c
      BY <1>4 DEF Range
    <3> HIDE DEF R
    <3> QED
      BY <1>2, <1>3, <3>1
  <2> QED
    BY <1>3, <2>1, <2>2 DEF Range
<1>6. CommunityCount(all) = CommunityCount(lab)
  BY <1>5 DEF CommunityCount, Range
<1>7. \A c : BucketOf(lab, c) \in SUBSET C /\ Members(part, BucketOf(lab, c)) = BucketOf(all, c)
  BY <1>1, <1>3, <1>4 DEF Members, BucketOf
<1> QED
  BY <1>3, <1>5, <1>6, <1>7 DEF C, all

\* Labels mean on the aggregation what they mean on the graph it merges
\* ("modularity(aggregated, p_singleton) == modularity(original, partition)").
LEMMA QualityCarried ==
  ASSUME NEW g, IsWeighted(g), NEW part, IsPartition(part, NodesIn(g)),
         NEW lab, DOMAIN lab = 1..CommunityCount(part)
  PROVE  Quality(Aggregate(g, part), lab) = Quality(g, Carried(part, lab))
<1> DEFINE super == Aggregate(g, part)
           all == Carried(part, lab)
           R == Range(lab)
<1>1. /\ Range(all) = R
      /\ \A c : /\ BucketOf(lab, c) \in SUBSET (1..CommunityCount(part))
                /\ Members(part, BucketOf(lab, c)) = BucketOf(all, c)
  <2> DEFINE N == NodesIn(g)
  <2>1. IsFiniteSet(N) /\ IsPartition(part, N)
    BY WeightedHas
  <2> HIDE DEF N
  <2>2. Range(all) = R
    BY <2>1, CarriedIs
  <2>3. \A c : BucketOf(lab, c) \in SUBSET (1..CommunityCount(part))
    BY <2>1, CarriedIs
  <2>4. \A c : Members(part, BucketOf(lab, c)) = BucketOf(all, c)
    BY <2>1, CarriedIs
  <2> QED
    BY <2>2, <2>3, <2>4
<1>2. \A c : /\ Weight(super, BucketOf(lab, c), BucketOf(lab, c)) =
                  Weight(g, BucketOf(all, c), BucketOf(all, c))
             /\ SumFunctionOnSet(super.degree, BucketOf(lab, c)) =
                  SumFunctionOnSet(g.degree, BucketOf(all, c))
             /\ super.twiceM = g.twiceM
  BY <1>1, AggregateWeight, AggregateDegrees
<1>3. \A c : Standing(super, lab, c) = Standing(g, all, c)
  <2> HIDE DEF super, all
  <2> QED
    BY <1>2 DEF Standing
<1>4. Standings(super, lab, R) = Standings(g, all, R)
  BY <1>3 DEF Standings
<1> QED
  BY <1>1, <1>4, QualityIs

\* Aggregating an aggregation is aggregating at once.
LEMMA AggregateTwice ==
  ASSUME NEW g, IsWeighted(g), NEW part, IsPartition(part, NodesIn(g)),
         NEW q, IsPartition(q, 1..CommunityCount(part))
  PROVE  /\ IsPartition(Carried(part, q), NodesIn(g))
         /\ Aggregate(Aggregate(g, part), q) = Aggregate(g, Carried(part, q))
<1> DEFINE N == NodesIn(g)
           all == Carried(part, q)
           super == Aggregate(g, part)
           k == CommunityCount(q)
<1>1. IsWeighted(super) /\ NodesIn(super) = 1..CommunityCount(part) /\ IsFiniteSet(N)
  BY AggregateIs, WeightedHas
<1>2. q \in [1..CommunityCount(part) -> Nat] /\ Range(q) = 0..(k - 1)
  BY DEF IsPartition
<1>3. /\ DOMAIN all = N
      /\ \A i \in N : all[i] = q[part[i] + 1]
      /\ Range(all) = Range(q) /\ CommunityCount(all) = k
      /\ \A c : /\ BucketOf(q, c) \in SUBSET (1..CommunityCount(part))
                /\ Members(part, BucketOf(q, c)) = BucketOf(all, c)
  <2>1. IsPartition(part, N) /\ DOMAIN q = 1..CommunityCount(part)
    BY <1>2
  <2> HIDE DEF N
  <2>2. DOMAIN all = N /\ \A i \in N : all[i] = q[part[i] + 1]
    BY <2>1 DEF Carried, IsPartition
  <2>3. Range(all) = Range(q) /\ CommunityCount(all) = k
    BY <1>1, <2>1, CarriedIs
  <2>4. \A c : BucketOf(q, c) \in SUBSET (1..CommunityCount(part))
    BY <1>1, <2>1, CarriedIs
  <2>5. \A c : Members(part, BucketOf(q, c)) = BucketOf(all, c)
    BY <1>1, <2>1, CarriedIs
  <2> QED
    BY <2>2, <2>3, <2>4, <2>5
<1>4. IsPartition(all, N)
  <2>1. \A i \in N : all[i] \in Nat
    BY <1>1, <1>2, <1>3, PartitionHas
  <2>2. all = [i \in N |-> all[i]]
    BY <1>3 DEF Carried
  <2>3. all \in [N -> Nat]
    <3> HIDE DEF all
    <3> QED
      BY <2>1, <2>2
  <2> QED
    BY <1>2, <1>3, <2>3 DEF IsPartition
<1>5. \A c, d : Weight(super, BucketOf(q, c), BucketOf(q, d)) =
                  Weight(g, BucketOf(all, c), BucketOf(all, d))
  BY <1>3, AggregateWeight
<1>6. Merging(super, q) = Merging(g, all)
  <2> DEFINE C == 1..k
  <2>1. Merging(super, q) =
          [e \in C \X C |-> Weight(super, BucketOf(q, e[1] - 1), BucketOf(q, e[2] - 1))]
    BY DEF Merging
  <2>2. Merging(g, all) =
          [e \in C \X C |-> Weight(g, BucketOf(all, e[1] - 1), BucketOf(all, e[2] - 1))]
    BY <1>3 DEF Merging
  <2> HIDE DEF super, all, C
  <2> QED
    BY <1>5, <2>1, <2>2
<1>7. /\ Aggregate(super, q) = Weighed(Merging(super, q))
      /\ Aggregate(g, all) = Weighed(Merging(g, all))
  <2>1. IsPartition(q, NodesIn(super))
    BY <1>1
  <2>2. /\ Aggregate(super, q).mult = Merging(super, q)
        /\ Aggregate(super, q) = Weighed(Aggregate(super, q).mult)
    <3> HIDE DEF super
    <3> QED
      BY <1>1, <2>1, AggregateIs
  <2>3. /\ Aggregate(g, all).mult = Merging(g, all)
        /\ Aggregate(g, all) = Weighed(Aggregate(g, all).mult)
    <3> HIDE DEF all
    <3> QED
      BY <1>4, AggregateIs
  <2> QED
    BY <2>2, <2>3
<1> QED
  BY <1>4, <1>6, <1>7

\* The sum over one member.
LEMMA SumOfOne ==
  ASSUME NEW f, NEW x, f[x] \in Int
  PROVE  SumFunctionOnSet(f, {x}) = f[x]
<1>1. IsFiniteSet({x}) /\ {x} \ {x} = {}
  BY FS_Singleton
<1>2. SumFunctionOnSet(f, {x}) = f[x] + SumFunctionOnSet(f, {x} \ {x})
  BY <1>1, SumRemove
<1>3. SumFunctionOnSet(f, {x} \ {x}) = 0
  BY <1>1, SumEmpty
<1> QED
  BY <1>2, <1>3

\* Every node by itself: a partition, and aggregating by it changes nothing.
LEMMA AggregateSingles ==
  ASSUME NEW g, IsWeighted(g), NEW part, part = [u \in NodesIn(g) |-> u - 1]
  PROVE  /\ IsPartition(part, NodesIn(g)) /\ CommunityCount(part) = Cardinality(NodesIn(g))
         /\ Aggregate(g, part) = g
<1> DEFINE n == Cardinality(NodesIn(g))
<1>1. /\ n \in Nat /\ NodesIn(g) = 1..n /\ g = Weighed(g.mult)
      /\ g.mult \in [NodesIn(g) \X NodesIn(g) -> Nat]
  BY WeightedHas
<1> HIDE DEF n
<1>2. part \in [1..n -> Nat] /\ \A u \in 1..n : part[u] = u - 1
  BY <1>1
<1>3. Range(part) = 0..(n - 1)
  <2>1. \A c \in 0..(n - 1) : c + 1 \in 1..n /\ part[c + 1] = c
    BY <1>1, <1>2
  <2>2. \A u \in 1..n : part[u] \in 0..(n - 1)
    BY <1>1, <1>2
  <2> QED
    BY <1>2, <2>1, <2>2 DEF Range
<1>4. CommunityCount(part) = n
  <2>1. CommunityCount(part) = Cardinality(0..(n - 1))
    BY <1>3 DEF CommunityCount, Range
  <2> QED
    BY <1>1, <2>1, FS_Interval
<1>5. IsPartition(part, NodesIn(g))
  BY <1>1, <1>2, <1>3, <1>4 DEF IsPartition
<1>6. \A c \in 1..n : BucketOf(part, c - 1) = {c}
  BY <1>1, <1>2 DEF BucketOf
<1>7. \A e \in (1..n) \X (1..n) :
        Weight(g, BucketOf(part, e[1] - 1), BucketOf(part, e[2] - 1)) = g.mult[e]
  <2>1. ASSUME NEW e \in (1..n) \X (1..n)
        PROVE  Weight(g, BucketOf(part, e[1] - 1), BucketOf(part, e[2] - 1)) = g.mult[e]
    <3>1. BucketOf(part, e[1] - 1) = {e[1]} /\ BucketOf(part, e[2] - 1) = {e[2]}
      BY <1>6
    <3>2. {e[1]} \X {e[2]} = {e}
      OBVIOUS
    <3>3. g.mult[e] \in Int
      BY <1>1
    <3> QED
      BY <3>1, <3>2, <3>3, SumOfOne DEF Weight
  <2> QED
    BY <2>1
<1>8. Merging(g, part) = g.mult
  BY <1>1, <1>4, <1>7 DEF Merging
<1>9. /\ Aggregate(g, part).mult = Merging(g, part)
      /\ Aggregate(g, part) = Weighed(Aggregate(g, part).mult)
  BY <1>5, AggregateIs
<1> QED
  BY <1>1, <1>4, <1>5, <1>8, <1>9 DEF n

-----------------------------------------------------------------------------
(* Renumbering.                                                            *)

\* The places where a label is seen first.
Firsts(raw) == {j \in DOMAIN raw : \A k \in DOMAIN raw : raw[k] = raw[j] => j <= k}

\* The first place of the label at i, as Renumbered finds it.
FirstOf(raw, i) == CHOOSE j \in DOMAIN raw : /\ raw[j] = raw[i]
                                             /\ \A k \in DOMAIN raw : raw[k] = raw[i] => j <= k

LEMMA FirstOfIs ==
  ASSUME NEW n \in Nat, NEW raw, DOMAIN raw = 1..n
  PROVE  \A i \in 1..n : /\ FirstOf(raw, i) \in Firsts(raw) /\ FirstOf(raw, i) \in 1..n
                         /\ raw[FirstOf(raw, i)] = raw[i] /\ FirstOf(raw, i) <= i
                         /\ i \in Firsts(raw) => FirstOf(raw, i) = i
<1> SUFFICES ASSUME NEW i \in 1..n
             PROVE  /\ FirstOf(raw, i) \in Firsts(raw) /\ FirstOf(raw, i) \in 1..n
                    /\ raw[FirstOf(raw, i)] = raw[i] /\ FirstOf(raw, i) <= i
                    /\ i \in Firsts(raw) => FirstOf(raw, i) = i
  OBVIOUS
<1> DEFINE T == {j \in 1..n : raw[j] = raw[i]}
           first == FirstOf(raw, i)
<1>1. T \in SUBSET Nat /\ T # {}
  OBVIOUS
<1>2. \E j \in T : \A m \in T : j <= m
  <2> HIDE DEF T
  <2> QED
    BY <1>1, LeastNumber
<1>3. first \in DOMAIN raw /\ raw[first] = raw[i] /\ \A k \in DOMAIN raw : raw[k] = raw[i] => first <= k
  <2>1. \E j \in DOMAIN raw : raw[j] = raw[i] /\ \A k \in DOMAIN raw : raw[k] = raw[i] => j <= k
    BY <1>2
  <2> QED
    BY <2>1 DEF FirstOf
<1> HIDE DEF first
<1>4. first \in Firsts(raw)
  BY <1>3 DEF Firsts
<1>5. i \in Firsts(raw) => first = i
  BY <1>3 DEF Firsts
<1> QED
  BY <1>3, <1>4, <1>5 DEF first

\* A renumbered label is the number of first places before its own.
LEMMA RenumberedPlace ==
  ASSUME NEW n \in Nat, NEW raw, DOMAIN raw = 1..n, NEW i \in 1..n
  PROVE  Renumbered(raw)[i] = Place(Firsts(raw), FirstOf(raw, i)) - 1
<1> DEFINE F == Firsts(raw)
           first == FirstOf(raw, i)
           G == {l \in F : l < first}
           V == {raw[j] : j \in 1..(first - 1)}
           f == [l \in G |-> raw[l]]
<1>1. Renumbered(raw)[i] = Cardinality(V)
  BY DEF Renumbered, FirstOf
<1>2. /\ F \in SUBSET (1..n) /\ first \in F /\ first \in 1..n
      /\ \A j \in 1..n : /\ FirstOf(raw, j) \in F /\ FirstOf(raw, j) \in 1..n
                         /\ raw[FirstOf(raw, j)] = raw[j] /\ FirstOf(raw, j) <= j
  BY FirstOfIs DEF Firsts
<1>3. IsFiniteSet(F) /\ IsFiniteSet(G)
  <2>1. IsFiniteSet(1..n)
    BY FS_Interval
  <2>2. G \in SUBSET F
    OBVIOUS
  <2> QED
    BY <1>2, <2>1, <2>2, FS_Subset
<1>4. f \in Bijection(G, V)
  <2>1. \A l \in G : f[l] \in V
    <3>1. \A l \in G : l \in 1..(first - 1)
      BY <1>2
    <3> QED
      BY <3>1
  <2>2. \A l, m \in G : f[l] = f[m] => l = m
    <3>1. \A l, m \in F : raw[l] = raw[m] => l <= m /\ m <= l
      BY DEF Firsts
    <3> QED
      BY <1>2, <3>1
  <2>3. \A t \in V : \E l \in G : f[l] = t
    <3>1. ASSUME NEW j \in 1..(first - 1)
          PROVE  FirstOf(raw, j) \in G /\ f[FirstOf(raw, j)] = raw[j]
      <4>1. j \in 1..n /\ j < first
        BY <1>2
      <4>2. FirstOf(raw, j) < first
        BY <1>2, <4>1
      <4> QED
        BY <1>2, <4>1, <4>2
    <3> QED
      BY <3>1
  <2>4. f \in [G -> V]
    BY <2>1
  <2> HIDE DEF f, G, V
  <2> QED
    BY <2>2, <2>3, <2>4 DEF Bijection, Injection, Surjection, IsInjective
<1>5. Cardinality(V) = Cardinality(G)
  BY <1>3, <1>4, FS_Bijection DEF ExistsBijection
<1>6. {l \in F : l <= first} = G \cup {first} /\ first \notin G
  BY <1>2
<1>7. Place(F, first) = Cardinality(G) + 1
  BY <1>3, <1>6, FS_AddElement DEF Place
<1>8. Cardinality(G) \in Nat
  BY <1>3, FS_CardinalityType
<1> QED
  BY <1>1, <1>5, <1>7, <1>8

\* Partition::new returns a partition with the classes of the labels it is given.
LEMMA RenumberedIs ==
  ASSUME NEW n \in Nat, NEW raw, DOMAIN raw = 1..n
  PROVE  /\ IsPartition(Renumbered(raw), 1..n)
         /\ \A u, v \in 1..n : raw[u] = raw[v] <=> Renumbered(raw)[u] = Renumbered(raw)[v]
<1> DEFINE F == Firsts(raw)
           k == Cardinality(F)
           part == Renumbered(raw)
<1>1. F \in SUBSET (1..n) /\ F \subseteq Int
  BY DEF Firsts
<1>2. IsFiniteSet(F) /\ k \in Nat
  <2>1. IsFiniteSet(1..n)
    BY FS_Interval
  <2> QED
    BY <1>1, <2>1, FS_Subset, FS_CardinalityType
<1>3. \A i \in 1..n : /\ FirstOf(raw, i) \in F /\ raw[FirstOf(raw, i)] = raw[i]
                      /\ i \in F => FirstOf(raw, i) = i
  BY FirstOfIs
<1>4. DOMAIN part = 1..n /\ \A i \in 1..n : part[i] = Place(F, FirstOf(raw, i)) - 1
  BY RenumberedPlace DEF Renumbered
<1>5. \A x \in F : Place(F, x) \in 1..k
  BY <1>1, <1>2, PlaceType
<1>6. \A x, y \in F : Place(F, x) = Place(F, y) => x = y
  <2>1. \A x, y \in F : x < y => Place(F, x) < Place(F, y)
    BY <1>1, <1>2, PlaceMonotone
  <2>2. \A x, y \in F : x < y \/ y < x \/ x = y
    BY <1>1
  <2>3. \A x, y \in F : Place(F, x) < Place(F, y) => Place(F, x) # Place(F, y)
    BY <1>2, <1>5
  <2> QED
    BY <2>1, <2>2, <2>3
<1>7. \A c \in 0..(k - 1) : \E x \in F : Place(F, x) - 1 = c
  <2>1. \A i \in 1..k : \E x \in F : Place(F, x) = i
    BY <1>1, <1>2, PlaceOnto
  <2>2. \A c \in 0..(k - 1) : c + 1 \in 1..k /\ (c + 1) - 1 = c
    BY <1>2
  <2> HIDE DEF k, F
  <2> QED
    BY <2>1, <2>2
<1> HIDE DEF part, F, k
<1>8. Range(part) = 0..(k - 1)
  <2>1. \A i \in 1..n : part[i] \in 0..(k - 1)
    BY <1>2, <1>3, <1>4, <1>5
  <2>2. \A c \in 0..(k - 1) : \E i \in 1..n : part[i] = c
    BY <1>1, <1>3, <1>4, <1>7
  <2> QED
    BY <1>4, <2>1, <2>2 DEF Range
<1>9. CommunityCount(part) = k
  <2>1. CommunityCount(part) = Cardinality(0..(k - 1))
    BY <1>8 DEF CommunityCount, Range
  <2> QED
    BY <1>2, <2>1, FS_Interval
<1>10. part \in [1..n -> Nat]
  <2>1. \A i \in 1..n : part[i] \in Nat
    BY <1>2, <1>3, <1>4, <1>5
  <2>2. part = [i \in 1..n |-> part[i]]
    BY <1>4 DEF part, Renumbered
  <2> QED
    BY <2>1, <2>2
<1>11. ASSUME NEW u \in 1..n, NEW v \in 1..n
       PROVE  raw[u] = raw[v] <=> part[u] = part[v]
  <2>1. raw[u] = raw[v] => FirstOf(raw, u) = FirstOf(raw, v)
    BY DEF FirstOf
  <2>2. part[u] = part[v] => Place(F, FirstOf(raw, u)) = Place(F, FirstOf(raw, v))
    BY <1>3, <1>4, <1>5
  <2> QED
    BY <1>3, <1>4, <1>6, <2>1, <2>2
<1> QED
  BY <1>8, <1>9, <1>10, <1>11 DEF IsPartition, part

-----------------------------------------------------------------------------
(* One node changes its community.                                         *)

\* What a set of nodes adds to the modularity if it is a community.
Worth(g, X) ==
  Weight(g, X, X) * g.twiceM - SumFunctionOnSet(g.degree, X) * SumFunctionOnSet(g.degree, X)

\* How well u fits with the nodes X, u not being one of them.
Pull(g, u, X) ==
  Weight(g, {u}, X) * g.twiceM - SumFunctionOnSet(g.degree, X) * g.degree[u]

\* A node makes a community worth twice its pull more, and what it is itself.
LEMMA WorthGrows ==
  ASSUME NEW g, IsWeighted(g), NEW X \in SUBSET NodesIn(g), NEW u \in NodesIn(g), u \notin X
  PROVE  /\ Pull(g, u, X) \in Int /\ Worth(g, X) \in Int /\ Worth(g, {u}) \in Int
         /\ Worth(g, X \cup {u}) = Worth(g, X) + 2 * Pull(g, u, X) + Worth(g, {u})
<1> DEFINE U == {u}
           XU == X \cup {u}
           wXX == Weight(g, X, X)
           wUX == Weight(g, U, X)
           wUU == Weight(g, U, U)
           D(A) == SumFunctionOnSet(g.degree, A)
           k == g.degree[u]
           m == g.twiceM
<1>1. U \in SUBSET NodesIn(g) /\ XU \in SUBSET NodesIn(g) /\ X \cap U = {} /\ XU = X \cup U
  OBVIOUS
<1>2. /\ wXX \in Nat /\ wUX \in Nat /\ wUU \in Nat
      /\ D(X) \in Nat /\ k \in Nat /\ m \in Nat
  BY <1>1, WeightType, DegreesAddUp, DegreeType
<1>3. Weight(g, XU, XU) = wXX + 2 * wUX + wUU
  <2>1. Weight(g, XU, XU) = Weight(g, X, XU) + Weight(g, U, XU)
    BY <1>1, WeightSplits
  <2>2. Weight(g, X, XU) = Weight(g, XU, X) /\ Weight(g, U, XU) = Weight(g, XU, U)
    BY <1>1, WeightSymmetric
  <2>3. Weight(g, XU, X) = wXX + wUX
    BY <1>1, WeightSplits
  <2>4. Weight(g, XU, U) = Weight(g, X, U) + wUU
    BY <1>1, WeightSplits
  <2>5. Weight(g, X, U) = wUX
    BY <1>1, WeightSymmetric
  <2> HIDE DEF U, XU, wXX, wUX, wUU
  <2> QED
    BY <1>2, <2>1, <2>2, <2>3, <2>4, <2>5
<1>4. D(XU) = D(X) + k /\ D(U) = k
  <2>0. g.degree \in [NodesIn(g) -> Nat] /\ IsFiniteSet(NodesIn(g))
    BY DegreeType, WeightedHas
  <2>1. IsFiniteSet(X) /\ \A v \in X \cup {u} : g.degree[v] \in Int
    BY <2>0, FS_Subset
  <2>2. D(XU) = k + D(X)
    BY <2>1, SumAdd
  <2>3. D(U) = k
    BY <1>2, SumOfOne
  <2> HIDE DEF D, k
  <2> QED
    BY <1>2, <2>2, <2>3
<1>5. /\ Pull(g, u, X) = wUX * m - D(X) * k
      /\ Worth(g, X) = wXX * m - D(X) * D(X)
      /\ Worth(g, U) = wUU * m - k * k
      /\ Worth(g, XU) = (wXX + 2 * wUX + wUU) * m - (D(X) + k) * (D(X) + k)
  BY <1>3, <1>4 DEF Pull, Worth
<1> DEFINE d == D(X)
<1>6. d \in Nat /\ d = D(X)
  BY <1>2
<1> HIDE DEF U, XU, wXX, wUX, wUU, D, k, m, d
<1>7. (wXX + 2 * wUX + wUU) * m - (d + k) * (d + k) =
        (wXX * m - d * d) + 2 * (wUX * m - d * k) + (wUU * m - k * k)
  BY <1>2, <1>6
<1>8. /\ wUX * m - d * k \in Int /\ wXX * m - d * d \in Int /\ wUU * m - k * k \in Int
  BY <1>2, <1>6
<1> QED
  BY <1>5, <1>6, <1>7, <1>8 DEF U, XU

\* A move changes the modularity by twice the difference of the pulls.
LEMMA MoveChanges ==
  ASSUME NEW g, IsWeighted(g), NEW C, IsFiniteSet(C), NEW lab \in [NodesIn(g) -> C],
         NEW u \in NodesIn(g), NEW new \in [NodesIn(g) -> C], new[u] # lab[u],
         \A v \in NodesIn(g) : v # u => new[v] = lab[v],
         NEW pa, pa = Pull(g, u, BucketOf(lab, lab[u]) \ {u}),
         NEW pb, pb = Pull(g, u, BucketOf(lab, new[u]))
  PROVE  /\ Quality(g, new) \in Int /\ Quality(g, lab) \in Int /\ pa \in Int /\ pb \in Int
         /\ Quality(g, new) - Quality(g, lab) = 2 * (pb - pa)
         /\ pb >= pa => Quality(g, new) >= Quality(g, lab)
<1> DEFINE N == NodesIn(g)
           a == lab[u]
           b == new[u]
           A == BucketOf(lab, a) \ {u}
           B == BucketOf(lab, b)
<1>1. /\ new \in [N -> C] /\ DOMAIN new = N /\ DOMAIN lab = N /\ a \in C /\ b \in C /\ a # b
      /\ \A v \in N : new[v] = IF v = u THEN b ELSE lab[v]
  OBVIOUS
<1>2. /\ BucketOf(lab, a) = A \cup {u} /\ BucketOf(new, a) = A
      /\ BucketOf(new, b) = B \cup {u}
      /\ \A c \in C \ {a, b} : BucketOf(new, c) = BucketOf(lab, c)
  BY <1>1 DEF BucketOf
<1>3. /\ A \in SUBSET N /\ B \in SUBSET N /\ u \notin A /\ u \notin B
  BY <1>1 DEF BucketOf
<1>4. /\ pa \in Int /\ pb \in Int /\ Worth(g, A) \in Int /\ Worth(g, B) \in Int /\ Worth(g, {u}) \in Int
      /\ Worth(g, A \cup {u}) = Worth(g, A) + 2 * pa + Worth(g, {u})
      /\ Worth(g, B \cup {u}) = Worth(g, B) + 2 * pb + Worth(g, {u})
  BY <1>3, WorthGrows
<1> DEFINE f == Standings(g, lab, C)
           h == Standings(g, new, C)
<1>5. \A c \in C : /\ f[c] = Worth(g, BucketOf(lab, c)) /\ h[c] = Worth(g, BucketOf(new, c))
                   /\ f[c] \in Int /\ h[c] \in Int
  BY <1>1, StandingType DEF Standings, Standing, Worth
<1>6. /\ Quality(g, lab) = SumFunctionOnSet(f, C) /\ Quality(g, lab) \in Int
      /\ Quality(g, new) = SumFunctionOnSet(h, C) /\ Quality(g, new) \in Int
  <2>1. Range(lab) \subseteq C /\ Range(new) \subseteq C
    BY <1>1 DEF Range
  <2> QED
    BY <1>1, <2>1, QualityOver
<1>7. SumFunctionOnSet(h, C) - SumFunctionOnSet(f, C) = (h[a] - f[a]) + (h[b] - f[b])
  <2>1. \A c \in C \ {a, b} : f[c] = h[c]
    BY <1>2, <1>5
  <2> HIDE DEF f, h
  <2> QED
    BY <1>1, <1>5, <2>1, SumChange
<1>8. /\ f[a] = Worth(g, A) + 2 * pa + Worth(g, {u}) /\ h[a] = Worth(g, A)
      /\ h[b] = Worth(g, B) + 2 * pb + Worth(g, {u}) /\ f[b] = Worth(g, B)
  <2> HIDE DEF f, h, A, B
  <2> QED
    BY <1>1, <1>2, <1>4, <1>5 DEF B
<1>9. (h[a] - f[a]) + (h[b] - f[b]) = 2 * (pb - pa)
  <2> HIDE DEF f, h, A, B
  <2> QED
    BY <1>4, <1>8
<1> DEFINE before == Quality(g, lab)
           after == Quality(g, new)
<1>10. before \in Int /\ after \in Int /\ after - before = 2 * (pb - pa)
  BY <1>6, <1>7, <1>9
<1> HIDE DEF before, after
<1>11. pb >= pa => after >= before
  BY <1>4, <1>10
<1> QED
  BY <1>4, <1>10, <1>11 DEF before, after
=============================================================================
