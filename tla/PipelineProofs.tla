--------------------------- MODULE PipelineProofs ---------------------------
(***************************************************************************)
(* What the pipeline hands to the write, for every source: the obligation  *)
(* ValidBuild, which the module SwIndex assumes of the results it writes.  *)
(***************************************************************************)
EXTENDS Pipeline, ImageSafety, ClustersProofs

-----------------------------------------------------------------------------
(* Layer 0.                                                                *)

\* The interned ids are those listed, each once.
LEMMA InternedIs ==
  ASSUME NEW T, NEW nodes \in Seq(T)
  PROVE  /\ Interned(nodes) \in Seq(T)
         /\ Range(Interned(nodes)) = Range(nodes)
         /\ IsInjective(Interned(nodes))
<1> DEFINE P == {i \in DOMAIN nodes : \A j \in DOMAIN nodes : nodes[j] = nodes[i] => i <= j}
<1>1. DOMAIN nodes = 1..Len(nodes) /\ Len(nodes) \in Nat
  BY LenProperties
<1>2. P \in SUBSET DOMAIN nodes /\ Interned(nodes) = Chosen(nodes, P)
  BY DEF Interned
<1>3. ASSUME NEW i \in P, NEW j \in P, nodes[i] = nodes[j]
      PROVE  i = j
  <2>1. i <= j /\ j <= i /\ i \in Nat /\ j \in Nat
    BY <1>1, <1>3
  <2> QED
    BY <2>1
<1>4. ASSUME NEW i \in DOMAIN nodes
      PROVE  \E j \in P : nodes[j] = nodes[i]
  <2> DEFINE Same == {j \in DOMAIN nodes : nodes[j] = nodes[i]}
  <2>1. Same \in SUBSET Nat /\ Same # {}
    BY <1>1
  <2>2. PICK j \in Same : \A m \in Same : j <= m
    <3> HIDE DEF Same
    <3> QED
      BY <2>1, LeastNumber
  <2>3. j \in P
    BY <2>2
  <2> QED
    BY <2>2, <2>3
<1> HIDE DEF P
<1>5. Chosen(nodes, P) \in Seq(T) /\ Range(Chosen(nodes, P)) = {nodes[i] : i \in P}
  BY <1>2, ChosenIs
<1>6. IsInjective(Chosen(nodes, P))
  BY <1>2, <1>3, ChosenDistinct
<1>7. {nodes[i] : i \in P} = Range(nodes)
  BY <1>2, <1>4 DEF Range
<1> QED
  BY <1>2, <1>5, <1>6, <1>7

\* The edges of a source between the nodes numbered i and j.
Joins(src, i, j) ==
  {k \in DOMAIN src.edges :
     {src.edges[k][1], src.edges[k][2]} = {IdsOf(src)[i], IdsOf(src)[j]}}

\* The graph of a source is a symmetric table on the numbers of its ids.
LEMMA GraphIs ==
  ASSUME NEW T, NEW src, IdsOf(src) \in Seq(T), IsFiniteSet(DOMAIN src.edges)
  PROVE  IsWeighted(GraphOf(src)) /\ NodesIn(GraphOf(src)) = 1..Len(IdsOf(src))
<1> DEFINE n == Len(IdsOf(src))
           mult == [e \in (1..n) \X (1..n) |-> Cardinality(Joins(src, e[1], e[2]))]
<1>1. n \in Nat /\ DOMAIN IdsOf(src) = 1..n
  BY LenProperties
<1>2. GraphOf(src) = Weighed(mult)
  BY <1>1 DEF GraphOf, Joins
<1>3. \A i, j : Cardinality(Joins(src, i, j)) \in Nat
  <2>1. \A i, j : Joins(src, i, j) \in SUBSET DOMAIN src.edges
    BY DEF Joins
  <2> QED
    BY <2>1, FS_Subset, FS_CardinalityType
<1>4. \A i, j : Joins(src, i, j) = Joins(src, j, i)
  BY DEF Joins
<1>5. mult \in [(1..n) \X (1..n) -> Nat]
  BY <1>3
<1>6. \A u, v \in 1..n : mult[<<u, v>>] = mult[<<v, u>>]
  BY <1>4
<1> HIDE DEF n, mult
<1>7. IsWeighted(Weighed(mult)) /\ NodesIn(Weighed(mult)) = 1..n
  BY <1>1, <1>5, <1>6, WeighedWeighted
<1> QED
  BY <1>2, <1>7 DEF n

\* A node is among its neighbours' neighbours.
LEMMA NeighboursIs ==
  ASSUME NEW g, IsWeighted(g)
  PROVE  /\ \A u : Neighbours(g, u) \subseteq NodesIn(g)
         /\ \A u, v \in NodesIn(g) : v \in Neighbours(g, u) <=> u \in Neighbours(g, v)
<1>1. \A u, v \in NodesIn(g) : g.mult[<<u, v>>] = g.mult[<<v, u>>]
  BY WeightedHas
<1> QED
  BY <1>1 DEF Neighbours

-----------------------------------------------------------------------------
(* Layer 2: the search that joins the hubs.                                *)

\* What the search from h has reached at depth d, from what it had before.
Reached(g, h, prev, d) ==
  IF d = 0 THEN {h} ELSE prev \cup UNION {Neighbours(g, u) : u \in prev}

\* The function of all depths up to k.
Reaches(g, h, k, B) == B = [d \in 0..k |-> Reached(g, h, B[d - 1], d)]

LEMMA ReachesExist ==
  ASSUME NEW g, NEW h, NEW k \in Nat
  PROVE  \E B : Reaches(g, h, k, B)
<1> DEFINE E(f, d) == Reached(g, h, f[d - 1], d)
           F == {n \in Nat : \E f : f = [d \in 0..n |-> E(f, d)]}
<1>1. 0 \in F
  <2> DEFINE f == [d \in 0..0 |-> {h}]
  <2>1. f = [d \in 0..0 |-> E(f, d)]
    <3>1. \A d \in 0..0 : d = 0
      OBVIOUS
    <3>2. \A d \in 0..0 : E(f, d) = {h}
      BY <3>1 DEF Reached
    <3> HIDE DEF E
    <3> QED
      BY <3>2
  <2> HIDE DEF f, E
  <2> QED
    BY <2>1
<1>2. ASSUME NEW n \in Nat, n \in F
      PROVE  n + 1 \in F
  <2>1. PICK f : f = [d \in 0..n |-> E(f, d)]
    BY <1>2
  <2> DEFINE w == [d \in 0..(n + 1) |-> IF d = n + 1 THEN E(f, d) ELSE f[d]]
  <2>2. \A d \in 0..n : w[d] = f[d]
    BY <1>2
  <2>3. \A d \in 0..(n + 1) : E(w, d) = E(f, d)
    <3>1. \A d \in 0..(n + 1) : d # 0 => d - 1 \in 0..n
      BY <1>2
    <3>2. \A d \in 0..(n + 1) : d # 0 => w[d - 1] = f[d - 1]
      BY <2>2, <3>1
    <3> HIDE DEF w
    <3>3. \A d \in 0..(n + 1) : d # 0 => E(w, d) = E(f, d)
      BY <3>2
    <3>4. E(w, 0) = E(f, 0)
      BY DEF Reached
    <3> HIDE DEF E
    <3> QED
      BY <3>3, <3>4
  <2>4. \A d \in 0..(n + 1) : d # n + 1 => d \in 0..n
    BY <1>2
  <2>5. \A d \in 0..(n + 1) : w[d] = E(f, d)
    <3> HIDE DEF E
    <3>1. \A d \in 0..n : f[d] = E(f, d)
      BY <2>1
    <3> QED
      BY <2>4, <3>1
  <2>6. w = [d \in 0..(n + 1) |-> E(w, d)]
    <3>1. w = [d \in 0..(n + 1) |-> w[d]]
      OBVIOUS
    <3> HIDE DEF w, E
    <3> QED
      BY <2>3, <2>5, <3>1
  <2> HIDE DEF w, E
  <2> QED
    BY <1>2, <2>6
<1>3. \A n \in Nat : n \in F
  <2> HIDE DEF F
  <2> QED
    BY <1>1, <1>2, NumberInduction
<1> QED
  BY <1>3 DEF Reaches

\* The search starts with its hub and adds the neighbours at every depth.
LEMMA BallGrows ==
  ASSUME NEW g, NEW h, NEW k \in Nat
  PROVE  /\ Ball(g, h, k)[0] = {h}
         /\ \A d \in 0..k : d # 0 =>
              Ball(g, h, k)[d] = Ball(g, h, k)[d - 1]
                                   \cup UNION {Neighbours(g, u) : u \in Ball(g, h, k)[d - 1]}
<1>1. Ball(g, h, k) = CHOOSE B : Reaches(g, h, k, B)
  BY DEF Ball, Reaches, Reached
<1>2. Reaches(g, h, k, Ball(g, h, k))
  BY <1>1, ReachesExist
<1> DEFINE B == Ball(g, h, k)
<1>3. \A d \in 0..k : B[d] = Reached(g, h, B[d - 1], d)
  <2> HIDE DEF B
  <2>1. B = [d \in 0..k |-> Reached(g, h, B[d - 1], d)]
    BY <1>2 DEF Reaches, B
  <2> QED
    BY <2>1
<1>4. 0 \in 0..k
  OBVIOUS
<1> HIDE DEF B
<1>5. B[0] = {h}
  BY <1>3, <1>4 DEF Reached
<1>6. \A d \in 0..k : d # 0 => B[d] = B[d - 1] \cup UNION {Neighbours(g, u) : u \in B[d - 1]}
  BY <1>3 DEF Reached
<1> QED
  BY <1>5, <1>6 DEF B

\* The depths at which x is among what is reached from h, one step at a time.
LEMMA BallMember ==
  ASSUME NEW g, NEW h, NEW k \in Nat, NEW d \in 0..k, d # 0, NEW x
  PROVE  x \in Ball(g, h, k)[d]
           <=> \/ x \in Ball(g, h, k)[d - 1]
               \/ \E y \in Ball(g, h, k)[d - 1] : x \in Neighbours(g, y)
BY BallGrows

\* Only nodes are reached, and those of a depth at every further one.
LEMMA BallInside ==
  ASSUME NEW g, IsWeighted(g), NEW h \in NodesIn(g), NEW k \in Nat
  PROVE  \A d \in 0..k : /\ Ball(g, h, k)[d] \subseteq NodesIn(g)
                         /\ \A e \in 0..d : Ball(g, h, k)[e] \subseteq Ball(g, h, k)[d]
<1> DEFINE B == Ball(g, h, k)
           Holds(d) == B[d] \subseteq NodesIn(g) /\ \A e \in 0..d : B[e] \subseteq B[d]
           F == {d \in Nat : d <= k => Holds(d)}
<1>1. 0 \in F
  <2>1. B[0] = {h}
    BY BallGrows
  <2>2. \A e \in 0..0 : e = 0
    OBVIOUS
  <2> HIDE DEF B
  <2> QED
    BY <2>1, <2>2
<1>2. ASSUME NEW d \in Nat, d \in F
      PROVE  d + 1 \in F
  <2> SUFFICES ASSUME d + 1 <= k
               PROVE  Holds(d + 1)
    OBVIOUS
  <2>1. d + 1 \in 0..k /\ d + 1 # 0 /\ (d + 1) - 1 = d
    OBVIOUS
  <2>2. B[d + 1] = B[d] \cup UNION {Neighbours(g, u) : u \in B[d]}
    BY <2>1, BallGrows
  <2>3. Holds(d)
    BY <1>2
  <2>4. \A u : Neighbours(g, u) \subseteq NodesIn(g)
    BY NeighboursIs
  <2>5. \A e \in 0..(d + 1) : e = d + 1 \/ e \in 0..d
    OBVIOUS
  <2> HIDE DEF B
  <2>6. B[d + 1] \subseteq NodesIn(g)
    BY <2>2, <2>3, <2>4
  <2>7. B[d] \subseteq B[d + 1]
    BY <2>2
  <2>8. ASSUME NEW e \in 0..(d + 1)
        PROVE  B[e] \subseteq B[d + 1]
    BY <2>3, <2>5, <2>7
  <2> QED
    BY <2>6, <2>8
<1>3. \A d \in Nat : d \in F
  <2> HIDE DEF F
  <2> QED
    BY <1>1, <1>2, NumberInduction
<1> QED
  BY <1>3

\* What is reached from h a step later is what its neighbours reach.
LEMMA BallFront ==
  ASSUME NEW g, IsWeighted(g), NEW k \in Nat, NEW h \in NodesIn(g), NEW x
  PROVE  \A d \in 0..k : d # 0 =>
           (x \in Ball(g, h, k)[d]
              <=> \/ x \in Ball(g, h, k)[d - 1]
                  \/ \E u \in Neighbours(g, h) : x \in Ball(g, u, k)[d - 1])
<1> DEFINE StepAhead(z, d) ==
             z \in Ball(g, h, k)[d + 1]
               <=> \/ z \in Ball(g, h, k)[d]
                   \/ \E u \in Neighbours(g, h) : z \in Ball(g, u, k)[d]
           F == {d \in Nat : d + 1 <= k => \A z : StepAhead(z, d)}
<1>1. 0 \in F
  <2> SUFFICES ASSUME 1 <= k, NEW z
               PROVE  StepAhead(z, 0)
    OBVIOUS
  <2>1. \A u : Ball(g, u, k)[0] = {u}
    BY BallGrows
  <2>2. 1 \in 0..k /\ 1 # 0 /\ 1 - 1 = 0
    OBVIOUS
  <2>3. z \in Ball(g, h, k)[1]
          <=> \/ z \in Ball(g, h, k)[0] \/ \E y \in Ball(g, h, k)[0] : z \in Neighbours(g, y)
    BY <2>2, BallMember
  <2>4. z \in Ball(g, h, k)[1] <=> z = h \/ z \in Neighbours(g, h)
    BY <2>1, <2>3
  <2>5. (\E u \in Neighbours(g, h) : z \in Ball(g, u, k)[0]) <=> z \in Neighbours(g, h)
    BY <2>1
  <2>6. z \in Ball(g, h, k)[0] <=> z = h
    BY <2>1
  <2>7. 0 + 1 = 1
    OBVIOUS
  <2> QED
    BY <2>4, <2>5, <2>6, <2>7
<1>2. ASSUME NEW d \in Nat, d \in F
      PROVE  d + 1 \in F
  <2> SUFFICES ASSUME (d + 1) + 1 <= k, NEW z
               PROVE  StepAhead(z, d + 1)
    OBVIOUS
  <2> DEFINE e == d + 1
  <2>1. /\ e \in 0..k /\ e # 0 /\ e - 1 = d
        /\ e + 1 \in 0..k /\ e + 1 # 0 /\ (e + 1) - 1 = e
    OBVIOUS
  <2>2. \A y : StepAhead(y, d)
    BY <1>2, <2>1
  <2> HIDE DEF e, F
  <2>3. \A y : y \in Ball(g, h, k)[e]
                 <=> \/ y \in Ball(g, h, k)[d]
                     \/ \E u \in Neighbours(g, h) : y \in Ball(g, u, k)[d]
    BY <2>2 DEF e
  <2>4. z \in Ball(g, h, k)[e + 1]
          <=> \/ z \in Ball(g, h, k)[e] \/ \E y \in Ball(g, h, k)[e] : z \in Neighbours(g, y)
    BY <2>1, BallMember
  <2>5. \A v : z \in Ball(g, v, k)[e]
                 <=> \/ z \in Ball(g, v, k)[d] \/ \E y \in Ball(g, v, k)[d] : z \in Neighbours(g, y)
    BY <2>1, BallMember
  <2>6. z \in Ball(g, h, k)[e + 1]
          <=> \/ z \in Ball(g, h, k)[e]
              \/ \E u \in Neighbours(g, h) : z \in Ball(g, u, k)[e]
    BY <2>3, <2>4, <2>5
  <2> QED
    BY <2>6 DEF e
<1>3. \A d \in Nat : d \in F
  <2> HIDE DEF F
  <2> QED
    BY <1>1, <1>2, NumberInduction
<1>4. \A d \in 0..k : d # 0 => d - 1 \in Nat /\ (d - 1) + 1 = d /\ d <= k
  OBVIOUS
<1> QED
  BY <1>3, <1>4

\* Each of two nodes is reached from the other at the same depths.
LEMMA BallSymmetric ==
  ASSUME NEW g, IsWeighted(g), NEW k \in Nat
  PROVE  \A d \in 0..k : \A u, v \in NodesIn(g) : v \in Ball(g, u, k)[d] <=> u \in Ball(g, v, k)[d]
<1> DEFINE F == {d \in Nat : d <= k => \A u, v \in NodesIn(g) :
                   v \in Ball(g, u, k)[d] <=> u \in Ball(g, v, k)[d]}
<1>1. 0 \in F
  <2>1. \A u : Ball(g, u, k)[0] = {u}
    BY BallGrows
  <2> QED
    BY <2>1
<1>2. ASSUME NEW d \in Nat, d \in F
      PROVE  d + 1 \in F
  <2> SUFFICES ASSUME d + 1 <= k, NEW u \in NodesIn(g), NEW v \in NodesIn(g)
               PROVE  v \in Ball(g, u, k)[d + 1] <=> u \in Ball(g, v, k)[d + 1]
    OBVIOUS
  <2>1. d + 1 \in 0..k /\ d + 1 # 0 /\ (d + 1) - 1 = d /\ d \in 0..k
    OBVIOUS
  <2>2. \A a, b \in NodesIn(g) : b \in Ball(g, a, k)[d] <=> a \in Ball(g, b, k)[d]
    BY <1>2, <2>1
  <2> HIDE DEF F
  <2>3. v \in Ball(g, u, k)[d + 1]
          <=> \/ v \in Ball(g, u, k)[d] \/ \E y \in Ball(g, u, k)[d] : v \in Neighbours(g, y)
    BY <2>1, BallMember
  <2>4. u \in Ball(g, v, k)[d + 1]
          <=> \/ u \in Ball(g, v, k)[d] \/ \E y \in Neighbours(g, v) : u \in Ball(g, y, k)[d]
    BY <2>1, BallFront
  <2>5. Ball(g, u, k)[d] \subseteq NodesIn(g) /\ Neighbours(g, v) \subseteq NodesIn(g)
    BY <2>1, BallInside, NeighboursIs
  <2>6. \A y \in NodesIn(g) : v \in Neighbours(g, y) <=> y \in Neighbours(g, v)
    BY NeighboursIs
  <2>7. (\E y \in Ball(g, u, k)[d] : v \in Neighbours(g, y))
          <=> \E y \in Neighbours(g, v) : u \in Ball(g, y, k)[d]
    BY <2>2, <2>5, <2>6
  <2> QED
    BY <2>2, <2>3, <2>4, <2>7
<1>3. \A d \in Nat : d \in F
  <2> HIDE DEF F
  <2> QED
    BY <1>1, <1>2, NumberInduction
<1> QED
  BY <1>3

\* The distance between two nodes, at most k.
Distance(g, u, v, k) == CHOOSE d \in 1..k : v \in Ball(g, u, k)[d] \ Ball(g, u, k)[d - 1]

LEMMA DistanceIs ==
  ASSUME NEW g, IsWeighted(g), NEW k \in Nat, NEW u \in NodesIn(g), NEW v \in NodesIn(g),
         u # v, v \in Ball(g, u, k)[k]
  PROVE  /\ Distance(g, u, v, k) \in 1..k
         /\ u \in Ball(g, v, k)[k]
         /\ Distance(g, v, u, k) = Distance(g, u, v, k)
<1> DEFINE B == Ball(g, u, k)
           C == Ball(g, v, k)
<1>1. \A d \in 0..k : v \in B[d] <=> u \in C[d]
  BY BallSymmetric
<1>2. \A d \in 0..k : \A e \in 0..d : B[e] \subseteq B[d]
  BY BallInside
<1>3. v \notin B[0]
  BY BallGrows
<1> DEFINE T == {d \in 0..k : v \in B[d]}
<1>4. PICK d \in T : \A m \in T : d <= m
  <2>1. T \in SUBSET Nat /\ k \in T
    OBVIOUS
  <2> HIDE DEF T
  <2> QED
    BY <2>1, LeastNumber
<1> HIDE DEF B, C
<1>5. d \in 1..k /\ d - 1 \in 0..k /\ v \in B[d] /\ v \notin B[d - 1]
  <2>1. d # 0 /\ d \in 0..k
    BY <1>3, <1>4
  <2>2. d - 1 \in 0..k /\ ~(d <= d - 1)
    BY <2>1
  <2> QED
    BY <1>4, <2>1, <2>2
<1>6. \A e \in 1..k : v \in B[e] /\ v \notin B[e - 1] => e = d
  <2> SUFFICES ASSUME NEW e \in 1..k, v \in B[e], v \notin B[e - 1]
               PROVE  e = d
    OBVIOUS
  <2>1. d <= e
    BY <1>4
  <2>2. d < e => d \in 0..(e - 1) /\ e - 1 \in 0..k
    BY <1>5
  <2>3. ~(d < e)
    BY <1>2, <1>5, <2>2
  <2> QED
    BY <1>5, <2>1, <2>3
<1>7. \A e \in 1..k : e \in 0..k /\ e - 1 \in 0..k
  OBVIOUS
<1>8. Distance(g, u, v, k) = d
  <2>1. \E e \in 1..k : v \in B[e] \ B[e - 1]
    BY <1>5
  <2>2. Distance(g, u, v, k) \in 1..k /\ v \in B[Distance(g, u, v, k)] \ B[Distance(g, u, v, k) - 1]
    BY <2>1 DEF Distance, B
  <2> QED
    BY <1>6, <2>2
<1>9. Distance(g, v, u, k) = d
  <2>1. \E e \in 1..k : u \in C[e] \ C[e - 1]
    BY <1>1, <1>5, <1>7
  <2>2. Distance(g, v, u, k) \in 1..k /\ u \in C[Distance(g, v, u, k)] \ C[Distance(g, v, u, k) - 1]
    BY <2>1 DEF Distance, C
  <2> QED
    BY <1>1, <1>6, <1>7, <2>2
<1>10. u \in C[k]
  BY <1>1 DEF B
<1> QED
  BY <1>5, <1>8, <1>9, <1>10 DEF C

\* The list of a hub names the other hubs in its reach.
Near(g, hubs, h, k) == (hubs \ {h}) \cap Ball(g, h, k)[k]

HasEntry(list, v, d) == \E i \in DOMAIN list : list[i] = <<v, d>>

LinkList(g, hubs, h, k) ==
  [i \in DOMAIN Ascending(Near(g, hubs, h, k)) |->
     <<Ascending(Near(g, hubs, h, k))[i], Distance(g, h, Ascending(Near(g, hubs, h, k))[i], k)>>]

LEMMA LinksAre ==
  ASSUME NEW g, IsWeighted(g), NEW k \in Nat, NEW hubs \in SUBSET NodesIn(g)
  PROVE  HubLinks(g, hubs, k) = [h \in hubs |-> LinkList(g, hubs, h, k)]
BY DEF HubLinks, LinkList, Near, Distance

\* Every entry of a list is a hub other than its own, at their distance, and
\* every hub in reach has an entry.
LEMMA LinkListIs ==
  ASSUME NEW g, IsWeighted(g), NEW k \in Nat, NEW hubs \in SUBSET NodesIn(g), NEW h \in hubs
  PROVE  /\ LinkList(g, hubs, h, k) \in Seq(hubs \X Nat)
         /\ \A i \in DOMAIN LinkList(g, hubs, h, k) :
              /\ LinkList(g, hubs, h, k)[i][1] \in Near(g, hubs, h, k)
              /\ LinkList(g, hubs, h, k)[i][2] = Distance(g, h, LinkList(g, hubs, h, k)[i][1], k)
         /\ \A v \in Near(g, hubs, h, k) : \E i \in DOMAIN LinkList(g, hubs, h, k) :
              LinkList(g, hubs, h, k)[i] = <<v, Distance(g, h, v, k)>>
<1> DEFINE S == Near(g, hubs, h, k)
           order == Ascending(S)
           links == LinkList(g, hubs, h, k)
<1>1. S \in SUBSET hubs /\ S \in SUBSET NodesIn(g)
  BY DEF Near
<1>2. IsFiniteSet(S) /\ S \subseteq Int
  <2>1. IsFiniteSet(NodesIn(g)) /\ NodesIn(g) = 1..Cardinality(NodesIn(g))
    BY WeightedHas
  <2>2. IsFiniteSet(S)
    BY <1>1, <2>1, FS_Subset
  <2>3. \A x \in NodesIn(g) : x \in Int
    <3>1. \A x \in 1..Cardinality(NodesIn(g)) : x \in Int
      OBVIOUS
    <3> QED
      BY <2>1, <3>1
  <2> QED
    BY <1>1, <2>2, <2>3
<1>3. \A v \in S : Distance(g, h, v, k) \in Nat
  <2> SUFFICES ASSUME NEW v \in S
               PROVE  Distance(g, h, v, k) \in Nat
    OBVIOUS
  <2>1. h \in NodesIn(g) /\ v \in NodesIn(g) /\ h # v /\ v \in Ball(g, h, k)[k]
    BY DEF Near
  <2>2. Distance(g, h, v, k) \in 1..k
    BY <2>1, DistanceIs
  <2> QED
    BY <2>2
<1>4. links = [i \in DOMAIN order |-> <<order[i], Distance(g, h, order[i], k)>>]
  BY DEF LinkList
<1> HIDE DEF S, links
<1>5. order \in Seq(S) /\ Range(order) = S
  BY <1>2, AscendingSorts
<1> HIDE DEF order
<1>6. Len(order) \in Nat /\ DOMAIN order = 1..Len(order) /\ order \in [1..Len(order) -> S]
  BY <1>5, LenProperties
<1>7. \A i \in 1..Len(order) : order[i] \in S
  BY <1>6
<1>8. \A v \in S : \E i \in 1..Len(order) : order[i] = v
  BY <1>5, <1>6 DEF Range
<1>9. links \in [1..Len(order) -> hubs \X Nat] /\ DOMAIN links = 1..Len(order)
  BY <1>1, <1>3, <1>4, <1>6, <1>7
<1>10. links \in Seq(hubs \X Nat)
  BY <1>6, <1>9, SeqDef
<1>11. \A i \in DOMAIN links : /\ links[i] = <<order[i], Distance(g, h, order[i], k)>>
                               /\ links[i][1] \in S
                               /\ links[i][2] = Distance(g, h, links[i][1], k)
  BY <1>4, <1>6, <1>7, <1>9
<1>12. \A v \in S : \E i \in DOMAIN links : links[i] = <<v, Distance(g, h, v, k)>>
  BY <1>8, <1>9, <1>11
<1> QED
  BY <1>10, <1>11, <1>12 DEF links, S

\* Each of two hubs is in the list of the other, at the same distance.
LEMMA LinksMutual ==
  ASSUME NEW g, IsWeighted(g), NEW k \in Nat, NEW hubs \in SUBSET NodesIn(g), NEW h \in hubs,
         NEW i \in DOMAIN LinkList(g, hubs, h, k), NEW v, v = LinkList(g, hubs, h, k)[i][1]
  PROVE  /\ v \in hubs /\ v # h
         /\ HasEntry(LinkList(g, hubs, v, k), h, LinkList(g, hubs, h, k)[i][2])
<1>1. v \in Near(g, hubs, h, k) /\ LinkList(g, hubs, h, k)[i][2] = Distance(g, h, v, k)
  BY LinkListIs
<1>2. v \in hubs /\ v # h /\ v \in Ball(g, h, k)[k] /\ v \in NodesIn(g) /\ h \in NodesIn(g)
  BY <1>1 DEF Near
<1>3. h \in Ball(g, v, k)[k] /\ Distance(g, v, h, k) = Distance(g, h, v, k)
  BY <1>2, DistanceIs
<1>4. h \in Near(g, hubs, v, k)
  BY <1>2, <1>3 DEF Near
<1>5. \E j \in DOMAIN LinkList(g, hubs, v, k) :
        LinkList(g, hubs, v, k)[j] = <<h, Distance(g, v, h, k)>>
  BY <1>2, <1>4, LinkListIs
<1>6. HasEntry(LinkList(g, hubs, v, k), h, Distance(g, v, h, k))
  BY <1>5 DEF HasEntry
<1> QED
  BY <1>1, <1>2, <1>3, <1>6

\* The strategies choose their hubs among the nodes.
LEMMA HubsAreNodes ==
  ASSUME NEW g, NEW strategy \in {"degree", "betweenness", "union"}, NEW samples, NEW percent,
         NEW hubs \in HubSets(g, strategy, samples, percent)
  PROVE  hubs \in SUBSET NodesIn(g)
<1> DEFINE Drawn == PickSources(Cardinality(NodesIn(g)), samples)
           Pivotal(k) == {FromCentrality(g, k, sources) : sources \in Drawn}
<1>1. \A k, score : TopByScore(g, k, score) \in SUBSET NodesIn(g)
  BY DEF TopByScore
<1>2. \A k : FromTopDegree(g, k) \in SUBSET NodesIn(g)
  BY <1>1 DEF FromTopDegree
<1>3. \A k : \A S \in Pivotal(k) : S \in SUBSET NodesIn(g)
  BY <1>1 DEF FromCentrality
<1>4. PICK k \in HubQuotas(g, percent) :
        hubs \in CASE strategy = "degree"      -> {FromTopDegree(g, k)}
                   [] strategy = "betweenness" -> Pivotal(k)
                   [] strategy = "union"       -> {FromTopDegree(g, k) \cup S : S \in Pivotal(k)}
  BY DEF HubSets
<1> HIDE DEF Pivotal
<1>5. CASE strategy = "degree"
  <2>1. strategy # "betweenness" /\ strategy # "union"
    BY <1>5
  <2>2. hubs \in {FromTopDegree(g, k)}
    BY <1>4, <1>5, <2>1
  <2> QED
    BY <1>2, <2>2
<1>6. CASE strategy = "betweenness"
  <2>1. strategy # "degree" /\ strategy # "union"
    BY <1>6
  <2>2. hubs \in Pivotal(k)
    BY <1>4, <1>6, <2>1
  <2> QED
    BY <1>3, <2>2
<1>7. CASE strategy = "union"
  <2>1. strategy # "betweenness" /\ strategy # "degree"
    BY <1>7
  <2>2. hubs \in {FromTopDegree(g, k) \cup S : S \in Pivotal(k)}
    BY <1>4, <1>7, <2>1
  <2>3. PICK S \in Pivotal(k) : hubs = FromTopDegree(g, k) \cup S
    BY <2>2
  <2>4. FromTopDegree(g, k) \in SUBSET NodesIn(g) /\ S \in SUBSET NodesIn(g)
    BY <1>2, <1>3
  <2> QED
    BY <2>3, <2>4
<1> QED
  BY <1>5, <1>6, <1>7

-----------------------------------------------------------------------------
(* Layer 1.                                                                *)

\* The value of Partition::new for n nodes is a partition of 1..n.
LEMMA PartitionsAre ==
  ASSUME NEW n \in Nat, NEW part \in Partitions(n)
  PROVE  IsPartition(part, 1..n)
<1>1. PICK raw \in [1..n -> 1..n] : part = Renumbered(raw)
  BY DEF Partitions
<1>2. DOMAIN raw = 1..n
  BY <1>1
<1> QED
  BY <1>1, <1>2, RenumberedIs

\* The neighbours of a community are listed with whole weights.
LEMMA AdjacencyIs ==
  ASSUME NEW g, IsWeighted(g), NEW part, IsPartition(part, NodesIn(g))
  PROVE  ClusterAdjacency(g, part) \in [0..(CommunityCount(part) - 1) -> Seq(Nat \X Nat)]
<1> DEFINE super == Aggregate(g, part)
           n == CommunityCount(part)
           Beside(c) == {d - 1 : d \in Neighbours(super, c + 1) \ {c + 1}}
           List(c) == [i \in DOMAIN Ascending(Beside(c)) |->
                         <<Ascending(Beside(c))[i], super.mult[<<c + 1, Ascending(Beside(c))[i] + 1>>]>>]
<1>1. ClusterAdjacency(g, part) = [c \in 0..(n - 1) |-> List(c)]
  BY DEF ClusterAdjacency
<1>2. IsWeighted(super) /\ NodesIn(super) = 1..n
  BY AggregateIs
<1>3. n \in Nat
  <2>1. IsFiniteSet(NodesIn(g))
    BY WeightedHas
  <2> QED
    BY <2>1, PartitionHas
<1> HIDE DEF super, n
<1>4. super.mult \in [(1..n) \X (1..n) -> Nat]
  BY <1>2, WeightedHas
<1>5. \A c \in 0..(n - 1) : List(c) \in Seq(Nat \X Nat)
  <2> SUFFICES ASSUME NEW c \in 0..(n - 1)
               PROVE  List(c) \in Seq(Nat \X Nat)
    OBVIOUS
  <2> DEFINE S == Beside(c)
             order == Ascending(S)
  <2>1. Neighbours(super, c + 1) \subseteq 1..n
    BY <1>2, NeighboursIs
  <2>2. S \in SUBSET (0..(n - 1))
    BY <1>3, <2>1
  <2>3. IsFiniteSet(0..(n - 1))
    BY <1>3, FS_Interval
  <2> HIDE DEF S
  <2>4. IsFiniteSet(S) /\ S \subseteq Int
    <3>1. IsFiniteSet(S)
      BY <2>2, <2>3, FS_Subset
    <3>2. \A x \in 0..(n - 1) : x \in Int
      OBVIOUS
    <3> QED
      BY <2>2, <3>1, <3>2
  <2>5. order \in Seq(S)
    BY <2>4, AscendingSorts
  <2> DEFINE list == [i \in DOMAIN order |-> <<order[i], super.mult[<<c + 1, order[i] + 1>>]>>]
  <2>6. List(c) = list
    BY DEF S
  <2> HIDE DEF order, List
  <2>7. Len(order) \in Nat /\ DOMAIN order = 1..Len(order) /\ order \in [1..Len(order) -> S]
    BY <2>5, LenProperties
  <2>8. \A i \in 1..Len(order) : order[i] \in 0..(n - 1)
    BY <2>2, <2>7
  <2>9. \A i \in 1..Len(order) : order[i] \in Nat /\ <<c + 1, order[i] + 1>> \in (1..n) \X (1..n)
    BY <1>3, <2>8
  <2>10. \A i \in 1..Len(order) : super.mult[<<c + 1, order[i] + 1>>] \in Nat
    BY <1>4, <2>9
  <2>11. list \in [1..Len(order) -> Nat \X Nat]
    BY <2>7, <2>9, <2>10
  <2> HIDE DEF list
  <2>12. list \in Seq(Nat \X Nat)
    BY <2>7, <2>11, SeqDef
  <2> QED
    BY <2>6, <2>12
<1> HIDE DEF List
<1> QED
  BY <1>1, <1>5 DEF n

-----------------------------------------------------------------------------
(* The result.                                                             *)

\* What from_source is given: a list of ids, finitely many edges, and labels
\* for some of the ids.
IsSource(src) ==
  /\ src.nodes \in Seq(Uuid)
  /\ IsFiniteSet(DOMAIN src.edges)
  /\ IsMap(src.label, Uuid, Label)

\* The number of an id, and the hub lists under the ids of their nodes.
IndexOf(ids, g)        == [u \in Range(ids) |-> CHOOSE i \in NodesIn(g) : ids[i] = u]
NamedLinks(ids, links) == [i \in DOMAIN links |-> <<ids[links[i][1]], links[i][2]>>]

HubsById(ids, hubs)        == {ids[h] : h \in hubs}
LabelById(ids, label)      == [u \in Range(ids) \cap DOMAIN label |-> label[u]]
RegionByCluster(n, regions) == [c \in 0..(n - 1) |-> regions[c + 1]]
ClusterById(ids, g, part)  == [u \in Range(ids) |-> part[IndexOf(ids, g)[u]]]
LinksById(ids, g, hubs, k) ==
  [u \in {ids[h] : h \in hubs} |-> NamedLinks(ids, HubLinks(g, hubs, k)[IndexOf(ids, g)[u]])]

LEMMA ResultIs ==
  ASSUME NEW src, NEW g, NEW part, NEW regions, NEW hubs, NEW k, NEW p,
         p = ResultOf(src, g, part, regions, hubs, k), NEW ids, ids = IdsOf(src)
  PROVE  /\ p.nodes = ids
         /\ p.cluster = ClusterById(ids, g, part)
         /\ p.region = RegionByCluster(CommunityCount(part), regions)
         /\ p.hubs = HubsById(ids, hubs)
         /\ p.links = LinksById(ids, g, hubs, k)
         /\ p.adjacency = ClusterAdjacency(g, part)
         /\ p.label = LabelById(ids, src.label)
<1>1. ToSet(ids) = Range(ids)
  BY DEF ToSet, Range
<1> QED
  BY <1>1 DEF ResultOf, IndexOf, NamedLinks, ClusterById, LinksById, HubsById,
             LabelById, RegionByCluster

\* Numbers and ids correspond.
LEMMA IndexIs ==
  ASSUME NEW T, NEW ids \in Seq(T), IsInjective(ids), NEW g, NodesIn(g) = 1..Len(ids)
  PROVE  /\ \A u \in Range(ids) : IndexOf(ids, g)[u] \in NodesIn(g) /\ ids[IndexOf(ids, g)[u]] = u
         /\ \A i \in NodesIn(g) : ids[i] \in Range(ids) /\ IndexOf(ids, g)[ids[i]] = i
<1>1. DOMAIN ids = NodesIn(g)
  BY LenProperties
<1>2. \A i, j \in NodesIn(g) : ids[i] = ids[j] => i = j
  BY <1>1 DEF IsInjective
<1>3. \A u \in Range(ids) : \E i \in NodesIn(g) : ids[i] = u
  BY <1>1 DEF Range
<1>4. \A i \in NodesIn(g) : ids[i] \in Range(ids)
  BY <1>1 DEF Range
<1>5. \A u \in Range(ids) : IndexOf(ids, g)[u] \in NodesIn(g) /\ ids[IndexOf(ids, g)[u]] = u
  BY <1>3 DEF IndexOf
<1>6. \A i \in NodesIn(g) : IndexOf(ids, g)[ids[i]] = i
  BY <1>2, <1>4, <1>5
<1> QED
  BY <1>4, <1>5, <1>6

\* The clusters of a result are those of the partition, without gaps.
LEMMA ResultClusters ==
  ASSUME NEW p, NEW g, NEW T, NEW ids \in Seq(T), IsInjective(ids), NodesIn(g) = 1..Len(ids),
         NEW part, IsPartition(part, NodesIn(g)), p.nodes = ids,
         p.cluster = ClusterById(ids, g, part)
  PROVE  /\ p.cluster \in [NodesOf(p) -> Nat]
         /\ ClustersOf(p) = 0..(CommunityCount(part) - 1)
         /\ Cardinality(ClustersOf(p)) = CommunityCount(part)
<1> DEFINE n == CommunityCount(part)
           N == NodesIn(g)
<1>1. IsFiniteSet(N)
  BY LenProperties, FS_Interval
<1>2. n \in Nat /\ (\A c \in 0..(n - 1) : \E i \in N : part[i] = c)
  BY <1>1, PartitionHas
<1>3. part \in [N -> 0..(n - 1)]
  BY <1>1, PartitionHas
<1>4. /\ \A u \in Range(ids) : IndexOf(ids, g)[u] \in N
      /\ \A i \in N : ids[i] \in Range(ids) /\ IndexOf(ids, g)[ids[i]] = i
  BY IndexIs
<1>5. NodesOf(p) = Range(ids)
  BY DEF NodesOf
<1> HIDE DEF N, n
<1>6. /\ DOMAIN p.cluster = Range(ids)
      /\ \A u \in Range(ids) : p.cluster[u] = part[IndexOf(ids, g)[u]]
      /\ p.cluster = [u \in Range(ids) |-> p.cluster[u]]
  BY DEF ClusterById
<1>7. \A u \in Range(ids) : p.cluster[u] \in 0..(n - 1)
  BY <1>3, <1>4, <1>6
<1>8. \A c \in 0..(n - 1) : \E u \in Range(ids) : p.cluster[u] = c
  <2> SUFFICES ASSUME NEW c \in 0..(n - 1)
               PROVE  \E u \in Range(ids) : p.cluster[u] = c
    OBVIOUS
  <2>1. PICK i \in N : part[i] = c
    BY <1>2
  <2>2. ids[i] \in Range(ids) /\ p.cluster[ids[i]] = c
    BY <1>4, <1>6, <2>1
  <2> QED
    BY <2>2
<1>9. ClustersOf(p) = 0..(n - 1)
  BY <1>5, <1>7, <1>8 DEF ClustersOf
<1>10. Cardinality(0..(n - 1)) = n
  BY <1>2, NumbersBelow
<1>11. \A c \in 0..(n - 1) : c \in Nat
  OBVIOUS
<1>12. p.cluster \in [NodesOf(p) -> Nat]
  BY <1>5, <1>6, <1>7, <1>11
<1> QED
  BY <1>9, <1>10, <1>12 DEF n

\* The hub lists of a result name its hubs, in both directions.
LEMMA ResultLinks ==
  ASSUME NEW p, NEW g, IsWeighted(g), NEW ids \in Seq(Uuid), IsInjective(ids),
         NodesIn(g) = 1..Len(ids), NEW hubs \in SUBSET NodesIn(g), NEW k \in Nat,
         p.nodes = ids, p.hubs = HubsById(ids, hubs),
         p.links = LinksById(ids, g, hubs, k)
  PROVE  /\ p.hubs \subseteq NodesOf(p)
         /\ p.links \in [p.hubs -> Seq(Uuid \X Nat)]
         /\ LinksSymmetric(p.links)
<1> DEFINE N == NodesIn(g)
           L(h) == LinkList(g, hubs, h, k)
<1>1. /\ \A u \in Range(ids) : IndexOf(ids, g)[u] \in N /\ ids[IndexOf(ids, g)[u]] = u
      /\ \A i \in N : ids[i] \in Range(ids) /\ IndexOf(ids, g)[ids[i]] = i
  BY IndexIs
<1>2. \A i \in N : ids[i] \in Uuid
  <2>1. ids \in [1..Len(ids) -> Uuid]
    BY LenProperties
  <2> QED
    BY <2>1
<1>3. HubLinks(g, hubs, k) = [h \in hubs |-> L(h)]
  BY LinksAre
<1>4. \A h \in hubs : L(h) \in Seq(hubs \X Nat)
  BY LinkListIs
<1>5. \A h \in hubs : \A i \in DOMAIN L(h) :
        /\ L(h)[i][1] \in hubs /\ L(h)[i][1] # h
        /\ HasEntry(L(L(h)[i][1]), h, L(h)[i][2])
  <2> SUFFICES ASSUME NEW h \in hubs, NEW i \in DOMAIN L(h)
               PROVE  /\ L(h)[i][1] \in hubs /\ L(h)[i][1] # h
                      /\ HasEntry(L(L(h)[i][1]), h, L(h)[i][2])
    OBVIOUS
  <2> DEFINE v == L(h)[i][1]
  <2>1. v = LinkList(g, hubs, h, k)[i][1] /\ i \in DOMAIN LinkList(g, hubs, h, k)
    OBVIOUS
  <2> HIDE DEF v, L
  <2>2. /\ v \in hubs /\ v # h
        /\ HasEntry(LinkList(g, hubs, v, k), h, LinkList(g, hubs, h, k)[i][2])
    BY <2>1, LinksMutual
  <2> QED
    BY <2>2 DEF v, L
<1> HIDE DEF L
<1>6. \A h \in hubs : p.links[ids[h]] = NamedLinks(ids, L(h)) /\ ids[h] \in p.hubs
  <2> SUFFICES ASSUME NEW h \in hubs
               PROVE  p.links[ids[h]] = NamedLinks(ids, L(h)) /\ ids[h] \in p.hubs
    OBVIOUS
  <2>1. IndexOf(ids, g)[ids[h]] = h
    BY <1>1
  <2>2. HubLinks(g, hubs, k)[h] = L(h)
    BY <1>3
  <2>3. p.links[ids[h]] = NamedLinks(ids, HubLinks(g, hubs, k)[IndexOf(ids, g)[ids[h]]])
    BY DEF LinksById, HubsById
  <2> QED
    BY <2>1, <2>2, <2>3 DEF HubsById
<1>7. p.hubs \subseteq NodesOf(p)
  BY <1>1 DEF NodesOf, HubsById
<1>8. DOMAIN p.links = p.hubs /\ p.links = [u \in p.hubs |-> p.links[u]]
  BY DEF LinksById, HubsById
<1>9. \A h \in hubs : /\ DOMAIN NamedLinks(ids, L(h)) = DOMAIN L(h)
                      /\ NamedLinks(ids, L(h)) \in Seq(Uuid \X Nat)
                      /\ \A i \in DOMAIN L(h) :
                           NamedLinks(ids, L(h))[i] = <<ids[L(h)[i][1]], L(h)[i][2]>>
  <2> SUFFICES ASSUME NEW h \in hubs
               PROVE  /\ DOMAIN NamedLinks(ids, L(h)) = DOMAIN L(h)
                      /\ NamedLinks(ids, L(h)) \in Seq(Uuid \X Nat)
                      /\ \A i \in DOMAIN L(h) :
                           NamedLinks(ids, L(h))[i] = <<ids[L(h)[i][1]], L(h)[i][2]>>
    OBVIOUS
  <2> DEFINE list == L(h)
             named == NamedLinks(ids, list)
  <2>1. list \in Seq(hubs \X Nat)
    BY <1>4
  <2> HIDE DEF list
  <2>2. Len(list) \in Nat /\ DOMAIN list = 1..Len(list) /\ list \in [1..Len(list) -> hubs \X Nat]
    BY <2>1, LenProperties
  <2>3. named = [i \in 1..Len(list) |-> <<ids[list[i][1]], list[i][2]>>]
    BY <2>2 DEF NamedLinks
  <2> HIDE DEF named
  <2>4. \A i \in 1..Len(list) : list[i][1] \in hubs /\ list[i][2] \in Nat
    BY <2>2
  <2>5. \A i \in 1..Len(list) : ids[list[i][1]] \in Uuid
    BY <1>2, <2>4
  <2>6. named \in [1..Len(list) -> Uuid \X Nat]
    BY <2>3, <2>4, <2>5
  <2>7. named \in Seq(Uuid \X Nat)
    BY <2>2, <2>6, SeqDef
  <2> QED
    BY <2>2, <2>3, <2>7 DEF named, list
<1>10. \A u \in p.hubs : \E h \in hubs : u = ids[h]
  BY DEF HubsById
<1>11. \A u \in p.hubs : p.links[u] \in Seq(Uuid \X Nat)
  <2> SUFFICES ASSUME NEW u \in p.hubs
               PROVE  p.links[u] \in Seq(Uuid \X Nat)
    OBVIOUS
  <2>1. PICK h \in hubs : u = ids[h]
    BY <1>10
  <2>2. p.links[u] = NamedLinks(ids, L(h)) /\ NamedLinks(ids, L(h)) \in Seq(Uuid \X Nat)
    BY <1>6, <1>9, <2>1
  <2> QED
    BY <2>2
<1>12. p.links \in [p.hubs -> Seq(Uuid \X Nat)]
  BY <1>8, <1>11
<1>13. ASSUME NEW u \in p.hubs, NEW i \in DOMAIN p.links[u], NEW w, w = p.links[u][i][1]
       PROVE  /\ w \in p.hubs /\ w # u
              /\ HasEntry(p.links[w], u, p.links[u][i][2])
  <2>1. PICK h \in hubs : u = ids[h]
    BY <1>10
  <2>2. p.links[u] = NamedLinks(ids, L(h)) /\ DOMAIN p.links[u] = DOMAIN L(h)
    BY <1>6, <1>9, <2>1
  <2>3. i \in DOMAIN L(h) /\ p.links[u][i] = <<ids[L(h)[i][1]], L(h)[i][2]>>
    BY <1>9, <1>13, <2>2
  <2> DEFINE v == L(h)[i][1]
             d == L(h)[i][2]
  <2>4. /\ v \in hubs /\ v # h
        /\ HasEntry(L(v), h, d)
    BY <1>5, <2>3
  <2>5. p.links[u][i] = <<ids[v], d>>
    BY <2>3
  <2> HIDE DEF v, d
  <2>6. w = ids[v] /\ p.links[u][i][2] = d
    BY <1>13, <2>5
  <2>7. v \in N /\ h \in N
    BY <2>4
  <2>8. w # u
    BY <1>1, <2>1, <2>4, <2>6, <2>7
  <2>9. PICK j \in DOMAIN L(v) : L(v)[j] = <<h, d>>
    BY <2>4 DEF HasEntry
  <2>10. p.links[w] = NamedLinks(ids, L(v)) /\ w \in p.hubs
    BY <1>6, <2>4, <2>6
  <2>11. j \in DOMAIN p.links[w] /\ p.links[w][j] = <<ids[L(v)[j][1]], L(v)[j][2]>>
    BY <1>9, <2>4, <2>9, <2>10
  <2>12. p.links[w][j] = <<u, d>>
    <3>1. L(v)[j][1] = h /\ L(v)[j][2] = d
      BY <2>9
    <3> QED
      BY <2>1, <2>11, <3>1
  <2> QED
    BY <2>6, <2>8, <2>10, <2>11, <2>12 DEF HasEntry
<1>14. LinksSymmetric(p.links)
  <2> DEFINE links == p.links
  <2>1. DOMAIN links = p.hubs
    BY <1>8
  <2>2. \A u \in DOMAIN links : \A i \in DOMAIN links[u] :
          /\ links[u][i][1] \in DOMAIN links /\ links[u][i][1] # u
          /\ HasEntry(links[links[u][i][1]], u, links[u][i][2])
    BY <1>8, <1>13
  <2> HIDE DEF links
  <2>3. LinksSymmetric(links)
    BY <2>2 DEF LinksSymmetric, HasEntry
  <2> QED
    BY <2>3 DEF links
<1> QED
  BY <1>7, <1>12, <1>14

\* For every source, every strategy the configuration names, every partition
\* Leiden may come to on either layer and every seed of the centrality, what
\* build_from_source_with hands to its write is a valid build: cluster ids
\* without gaps, a region for each, hubs among the nodes whose lists name each
\* other at the same distance, and weights for the neighbours of each cluster.
\* It is what the proofs about the index assume of the results it writes.
THEOREM PipelineKeepsItsPromise ==
  ASSUME NEW src, IsSource(src), NEW strategies \in SUBSET {"degree", "betweenness", "union"},
         NEW samples, NEW percent, NEW kHop \in Nat,
         NEW p \in Results(src, strategies, samples, percent, kHop)
  PROVE  ValidBuild(p)
<1> DEFINE g == GraphOf(src)
           ids == IdsOf(src)
           hubSets == UNION {HubSets(g, s, samples, percent) : s \in strategies}
<1>1. ids \in Seq(Uuid) /\ IsInjective(ids) /\ Range(ids) = Range(src.nodes)
  <2>1. src.nodes \in Seq(Uuid)
    BY DEF IsSource
  <2> QED
    BY <2>1, InternedIs DEF IdsOf
<1>2. IsWeighted(g) /\ NodesIn(g) = 1..Len(ids)
  <2>1. IsFiniteSet(DOMAIN src.edges)
    BY DEF IsSource
  <2> QED
    BY <1>1, <2>1, GraphIs
<1>3. IsFiniteSet(NodesIn(g)) /\ NodesIn(g) = 1..Cardinality(NodesIn(g))
      /\ Cardinality(NodesIn(g)) \in Nat
  BY <1>2, WeightedHas
<1>4. PICK part \in Partitions(Cardinality(NodesIn(g))) :
        p \in {ResultOf(src, g, part, regions, hubs, kHop) :
                 regions \in Partitions(CommunityCount(part)), hubs \in hubSets}
  BY DEF Results
<1>5. IsPartition(part, NodesIn(g))
  BY <1>3, <1>4, PartitionsAre
<1> DEFINE n == CommunityCount(part)
<1>6. n \in Nat
  BY <1>3, <1>5, PartitionHas
<1> PICK regions \in Partitions(n), hubs \in hubSets :
       p = ResultOf(src, g, part, regions, hubs, kHop)
  BY <1>4
<1>7. IsPartition(regions, 1..n)
  BY <1>6, PartitionsAre
<1>8. hubs \in SUBSET NodesIn(g)
  <2>1. PICK s \in strategies : hubs \in HubSets(g, s, samples, percent)
    OBVIOUS
  <2>2. s \in {"degree", "betweenness", "union"}
    OBVIOUS
  <2> QED
    BY <2>1, <2>2, HubsAreNodes
<1>9. /\ p.nodes = ids
      /\ p.cluster = ClusterById(ids, g, part)
      /\ p.region = RegionByCluster(n, regions)
      /\ p.hubs = HubsById(ids, hubs)
      /\ p.links = LinksById(ids, g, hubs, kHop)
      /\ p.adjacency = ClusterAdjacency(g, part)
      /\ p.label = LabelById(ids, src.label)
  <2> HIDE DEF g, ids
  <2>1. ids = IdsOf(src)
    BY DEF ids
  <2> QED
    BY <2>1, ResultIs
<1> HIDE DEF g, ids, hubSets, n
<1>11. NodesOf(p) = Range(ids)
  BY <1>9 DEF NodesOf
<1>12. /\ p.cluster \in [NodesOf(p) -> Nat]
       /\ ClustersOf(p) = 0..(n - 1)
       /\ Cardinality(ClustersOf(p)) = n
  <2>1. p.nodes = ids /\ p.cluster = ClusterById(ids, g, part)
    BY <1>9
  <2> QED
    BY <1>1, <1>2, <1>5, <2>1, ResultClusters DEF n
<1>13. p.region \in [ClustersOf(p) -> Nat]
  <2>1. IsFiniteSet(1..n)
    BY <1>6, FS_Interval
  <2>2. \A i \in 1..n : regions[i] \in Nat
    BY <1>7, <2>1, PartitionHas
  <2>3. \A c \in 0..(n - 1) : c + 1 \in 1..n
    BY <1>6
  <2>4. \A c \in 0..(n - 1) : regions[c + 1] \in Nat
    BY <2>2, <2>3
  <2> QED
    BY <1>9, <1>12, <2>4 DEF RegionByCluster
<1>14. p.hubs \subseteq NodesOf(p) /\ p.links \in [p.hubs -> Seq(Uuid \X Nat)] /\ LinksSymmetric(p.links)
  <2>1. /\ p.nodes = ids /\ p.hubs = HubsById(ids, hubs)
        /\ p.links = LinksById(ids, g, hubs, kHop)
    BY <1>9
  <2> QED
    BY ZenonT(30), <1>1, <1>2, <1>8, <2>1, ResultLinks
<1>15. p.adjacency \in [ClustersOf(p) -> Seq(Nat \X Nat)]
  BY <1>2, <1>5, <1>9, <1>12, AdjacencyIs DEF n
<1>16. IsMap(p.label, NodesOf(p), Label)
  <2>1. \A u \in DOMAIN src.label : src.label[u] \in Label
    BY DEF IsSource, IsMap
  <2> QED
    BY <1>9, <1>11, <2>1 DEF IsMap, LabelById
<1> QED
  BY <1>1, <1>9, <1>12, <1>13, <1>14, <1>15, <1>16 DEF ValidBuild
=============================================================================
