-------------------------------- MODULE Hubs --------------------------------
(***************************************************************************)
(* Layer 2: which nodes are hubs, and the hub graph that joins hubs within *)
(* a number of hops.                                                       *)
(***************************************************************************)
EXTENDS Betweenness

\* ceil(n * fraction), the fraction in percent and clamped to 0..100.  In f64
\* the product of a whole result may come out just above it, and one hub more
\* is taken (100 nodes at 0.07 give 8).
HubQuotas(g, percent) ==
  LET n == Cardinality(NodesIn(g))
      p == IF percent > 100 THEN 100 ELSE percent
      q == (n * p + 99) \div 100
  IN  {q} \cup (IF q < n /\ (n * p) % 100 = 0 /\ q > 0 THEN {q + 1} ELSE {})

\* The k nodes with the highest score, the lower index first among equals.
TopByScore(g, k, score) ==
  {i \in NodesIn(g) :
     Cardinality({j \in NodesIn(g) : \/ score[j] > score[i]
                                     \/ score[j] = score[i] /\ j < i}) < k}

FromTopDegree(g, k) == TopByScore(g, k, g.degree)

\* The scores of small graphs are exact in f64 too, and so are their ties.
FromCentrality(g, k, sources) == TopByScore(g, k, Scores(g, sources))

\* The nodes the breadth-first search from h has reached at depth d, for the
\* depths up to kHop it expands.
Ball(g, h, kHop) ==
  LET B[d \in 0..kHop] ==
        IF d = 0 THEN {h}
        ELSE B[d - 1] \cup UNION {Neighbours(g, u) : u \in B[d - 1]}
  IN  B

\* HubGraph::build: for each hub the other hubs within kHop hops with their
\* distance d (the code keeps the weight 1/d), ascending by node index.
HubLinks(g, hubs, kHop) ==
  [h \in hubs |->
     LET B     == Ball(g, h, kHop)
         Near  == (hubs \ {h}) \cap B[kHop]
         Depth(v) == CHOOSE d \in 1..kHop : v \in B[d] \ B[d - 1]
         order == Ascending(Near)
     IN  [i \in DOMAIN order |-> <<order[i], Depth(order[i])>>]]
=============================================================================
