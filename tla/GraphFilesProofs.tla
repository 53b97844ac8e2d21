-------------------------- MODULE GraphFilesProofs --------------------------
(***************************************************************************)
(* What the loader of edge lists and the corridor experiment may be relied *)
(* on for, on every graph and every division of it.  A fold is turned into *)
(* the sequence of its intermediate values; the two searches are shown to  *)
(* keep one invariant, that of breadth-first search over walks.            *)
(***************************************************************************)
EXTENDS GraphFiles, ClustersProofs

-----------------------------------------------------------------------------
(* The graph that is meant.                                                *)

Ordered(n) == {p \in (1..n) \X (1..n) : p[1] <= p[2]}

JoiningOf(es, i, j) == {k \in DOMAIN es : {es[k][1], es[k][2]} = {i, j}}

MultOf(n, es) == [p \in (1..n) \X (1..n) |-> Cardinality(JoiningOf(es, p[1], p[2]))]

\* The graph that is meant is a graph with the nodes 1..n.
LEMMA MeantIs ==
  ASSUME NEW n \in Nat, NEW es \in Seq(Ordered(n))
  PROVE  /\ IsWeighted(Meant(n, es)) /\ NodesIn(Meant(n, es)) = 1..n
         /\ Meant(n, es) = Weighed(MultOf(n, es)) /\ Meant(n, es).mult = MultOf(n, es)
<1>1. Meant(n, es) = Weighed(MultOf(n, es))
  BY DEF Meant, MultOf, JoiningOf
<1>2. \A i, j : JoiningOf(es, i, j) \in SUBSET (1..Len(es))
  BY DEF JoiningOf
<1>3. \A i, j : Cardinality(JoiningOf(es, i, j)) \in Nat
  <2> SUFFICES ASSUME NEW i, NEW j PROVE Cardinality(JoiningOf(es, i, j)) \in Nat
    OBVIOUS
  <2>1. IsFiniteSet(1..Len(es))
    BY FS_Interval
  <2> QED BY <1>2, <2>1, FS_Subset, FS_CardinalityType
<1>4. MultOf(n, es) \in [(1..n) \X (1..n) -> Nat]
  BY <1>3 DEF MultOf
<1>5. \A u, v \in 1..n : MultOf(n, es)[<<u, v>>] = MultOf(n, es)[<<v, u>>]
  <2> SUFFICES ASSUME NEW u \in 1..n, NEW v \in 1..n
               PROVE  MultOf(n, es)[<<u, v>>] = MultOf(n, es)[<<v, u>>]
    OBVIOUS
  <2>1. {u, v} = {v, u}
    OBVIOUS
  <2>2. JoiningOf(es, u, v) = JoiningOf(es, v, u)
    BY <2>1 DEF JoiningOf
  <2> QED BY <2>2 DEF MultOf
<1> HIDE DEF MultOf
<1> QED BY <1>1, <1>4, <1>5, WeighedWeighted

-----------------------------------------------------------------------------

FilesInv ==
  /\ size \in Nat
  /\ edges \in Seq(Ordered(size))
  /\ graph = Meant(size, edges)
  /\ part # << >> => part \in Partitions(size)

\* Each file is that of a graph and each division is one that Partition::new
\* can return.
THEOREM FilesKeepShape == Spec => []FilesInv
<1>1. Init => FilesInv
  BY DEF Init, FilesInv
<1>2. FilesInv /\ [Next]_vars => FilesInv'
  <2> SUFFICES ASSUME FilesInv, [Next]_vars PROVE FilesInv'
    OBVIOUS
  <2>1. CASE WriteNode
    BY <2>1 DEF FilesInv, WriteNode
  <2>2. CASE WriteEdge
    <3>1. PICK s \in 1..size, t \in 1..size :
            /\ part = << >> /\ s <= t /\ edges' = Append(edges, <<s, t>>)
            /\ graph' = Meant(size, Append(edges, <<s, t>>))
            /\ size' = size /\ part' = part
      BY <2>2 DEF WriteEdge
    <3>2. <<s, t>> \in Ordered(size)
      BY <3>1 DEF Ordered
    <3>3. Append(edges, <<s, t>>) \in Seq(Ordered(size))
      BY <3>2 DEF FilesInv
    <3> QED BY <3>1, <3>3 DEF FilesInv
  <2>3. CASE Divide
    BY <2>3 DEF FilesInv, Divide
  <2>4. CASE UNCHANGED vars
    BY <2>4 DEF FilesInv, vars
  <2> QED BY <2>1, <2>2, <2>3, <2>4 DEF Next
<1> QED BY <1>1, <1>2, PTL DEF Spec

-----------------------------------------------------------------------------
(* The loader of edge lists.                                               *)

PairPlace(P, p) == Cardinality({q \in P : Earlier(q, p)})

LEMMA PairPlaceIs ==
  ASSUME NEW n \in Nat, NEW P \in SUBSET Ordered(n), IsFiniteSet(P), NEW p \in P
  PROVE  /\ PairPlace(P, p) \in 0..(Cardinality(P) - 1)
         /\ \A q \in P : Earlier(p, q) => PairPlace(P, p) < PairPlace(P, q)
<1> DEFINE B(z) == {w \in P : Earlier(w, z)}
<1>1. \A z : IsFiniteSet(B(z)) /\ Cardinality(B(z)) \in Nat /\ B(z) \in SUBSET P
  BY FS_Subset, FS_CardinalityType
<1>2. \A w \in P : w[1] \in Int /\ w[2] \in Int
  BY DEF Ordered
<1>3. \A w \in P : ~Earlier(w, w)
  BY <1>2 DEF Earlier
<1>4. Cardinality(P) \in Nat
  BY FS_CardinalityType
<1>5. PairPlace(P, p) \in 0..(Cardinality(P) - 1)
  <2>1. p \notin B(p)
    BY <1>3
  <2>2. Cardinality(B(p)) <= Cardinality(P) /\ Cardinality(P) # Cardinality(B(p))
    BY <1>1, <2>1, FS_Subset
  <2> QED BY <1>1, <1>4, <2>2 DEF PairPlace
<1>6. ASSUME NEW q \in P, Earlier(p, q)
      PROVE  PairPlace(P, p) < PairPlace(P, q)
  <2>1. \A w \in P : Earlier(w, p) => Earlier(w, q)
    BY <1>2, <1>6 DEF Earlier
  <2>2. B(p) \in SUBSET B(q) /\ p \in B(q) /\ p \notin B(p)
    BY <1>3, <1>6, <2>1
  <2>3. Cardinality(B(p)) <= Cardinality(B(q)) /\ Cardinality(B(q)) # Cardinality(B(p))
    BY <1>1, <2>2, FS_Subset
  <2> QED BY <1>1, <2>3 DEF PairPlace
<1> QED BY <1>5, <1>6

\* The pairs in their order are all the pairs, each once.
LEMMA PairOrderIs ==
  ASSUME NEW n \in Nat, NEW P \in SUBSET Ordered(n), IsFiniteSet(P)
  PROVE  /\ InPairOrder(P) \in [1..Cardinality(P) -> P] /\ Cardinality(P) \in Nat
         /\ \A p \in P : \E i \in 1..Cardinality(P) : InPairOrder(P)[i] = p
         /\ \A i, j \in 1..Cardinality(P) : InPairOrder(P)[i] = InPairOrder(P)[j] => i = j
<1> DEFINE m == Cardinality(P)
           f == [p \in P |-> PairPlace(P, p) + 1]
           o == InPairOrder(P)
<1>1. m \in Nat
  BY FS_CardinalityType
<1>2. \A p \in P : PairPlace(P, p) \in 0..(m - 1)
  BY PairPlaceIs
<1>3. f \in [P -> 1..m]
  BY <1>1, <1>2
<1>4. \A p, q \in P : f[p] = f[q] => p = q
  <2> SUFFICES ASSUME NEW p \in P, NEW q \in P, p # q
               PROVE  f[p] # f[q]
    OBVIOUS
  <2>1. PairPlace(P, p) \in Int /\ PairPlace(P, q) \in Int
    BY <1>2
  <2>2. Earlier(p, q) \/ Earlier(q, p)
    <3>1. p \in (1..n) \X (1..n) /\ q \in (1..n) \X (1..n)
      BY DEF Ordered
    <3>2. p[1] # q[1] \/ p[2] # q[2]
      BY <3>1
    <3> QED BY <3>1, <3>2 DEF Earlier
  <2>3. PairPlace(P, p) < PairPlace(P, q) \/ PairPlace(P, q) < PairPlace(P, p)
    BY <2>2, PairPlaceIs
  <2> QED BY <2>1, <2>3
<1>5. \A i \in 1..m : \E p \in P : f[p] = i
  <2>1. f \in Injection(P, 1..m)
    BY <1>3, <1>4 DEF Injection, IsInjective
  <2>2. IsFiniteSet(1..m) /\ Cardinality(1..m) = m
    BY <1>1, FS_Interval
  <2>3. f \in Surjection(P, 1..m)
    BY <2>1, <2>2, FS_Injection
  <2> QED BY <2>3 DEF Surjection
<1>6. \A i \in 1..m : \E p \in P : PairPlace(P, p) = i - 1
  BY <1>2, <1>5
<1>7. \A i \in 1..m : o[i] = CHOOSE p \in P : PairPlace(P, p) = i - 1
  BY DEF InPairOrder, PairPlace
<1>8. \A i \in 1..m : o[i] \in P /\ PairPlace(P, o[i]) = i - 1
  BY <1>6, <1>7
<1>9. o \in [1..m -> P]
  BY <1>8 DEF InPairOrder
<1>10. \A p \in P : \E i \in 1..m : o[i] = p
  <2> SUFFICES ASSUME NEW p \in P PROVE \E i \in 1..m : o[i] = p
    OBVIOUS
  <2>1. f[p] \in 1..m
    BY <1>3
  <2>2. o[f[p]] \in P /\ PairPlace(P, o[f[p]]) = f[p] - 1
    BY <1>8, <2>1
  <2>3. PairPlace(P, p) \in Int /\ f[p] = PairPlace(P, p) + 1
    BY <1>2
  <2>4. f[o[f[p]]] = f[p]
    BY <2>2, <2>3
  <2> HIDE DEF o, f
  <2>5. o[f[p]] = p
    BY <1>4, <2>2, <2>4
  <2> QED BY <2>1, <2>5
<1>11. \A i, j \in 1..m : o[i] = o[j] => i = j
  <2> HIDE DEF o
  <2> SUFFICES ASSUME NEW i \in 1..m, NEW j \in 1..m, o[i] = o[j] PROVE i = j
    OBVIOUS
  <2>1. i - 1 = j - 1
    BY <1>8
  <2> QED BY <2>1
<1> QED BY <1>1, <1>9, <1>10, <1>11

\* The ids 1..n in ascending order, and each where it is first listed.
LEMMA CountingUp ==
  ASSUME NEW n \in Nat
  PROVE  /\ Ascending(1..n) = [i \in 1..n |-> i]
         /\ Interned(Ascending(1..n)) = [i \in 1..n |-> i]
<1>1. IsFiniteSet(1..n) /\ Cardinality(1..n) = n
  BY FS_Interval
<1>2. \A x \in 1..n : Place(1..n, x) = x
  <2> SUFFICES ASSUME NEW x \in 1..n PROVE Place(1..n, x) = x
    OBVIOUS
  <2>1. {y \in 1..n : y <= x} = 1..x
    OBVIOUS
  <2>2. Cardinality(1..x) = x
    BY FS_Interval
  <2> QED BY <2>1, <2>2 DEF Place
<1>3. Ascending(1..n) = [i \in 1..n |-> i]
  <2>1. \A i \in 1..n : (CHOOSE x \in 1..n : Place(1..n, x) = i) = i
    BY <1>2
  <2> QED BY <1>1, <2>1 DEF Ascending
<1>4. Interned(Ascending(1..n)) = [i \in 1..n |-> i]
  <2> DEFINE ids == [i \in 1..n |-> i]
  <2>1. {i \in DOMAIN ids : \A j \in DOMAIN ids : ids[j] = ids[i] => i <= j} = 1..n
    OBVIOUS
  <2>2. Interned(ids) = Chosen(ids, 1..n)
    BY <2>1 DEF Interned
  <2>3. Chosen(ids, 1..n) = ids
    BY <1>1, <1>3 DEF Chosen
  <2> QED BY <1>3, <2>2, <2>3
<1> QED BY <1>3, <1>4

Skipped == [kind |-> "skip", a |-> 0, b |-> 0]

PairLine(es, i) == [kind |-> "pair", a |-> Written(es)[i][1], b |-> Written(es)[i][2]]

FileLines == [kind : {"skip", "pair", "bad"}, a : Nat, b : Nat]

LEMMA LinesAre ==
  ASSUME NEW n \in Nat, NEW es \in Seq(Ordered(n))
  PROVE  /\ Lines(es) \in Seq(FileLines) /\ Len(Lines(es)) = Len(es) + 1
         /\ Lines(es)[1] = Skipped
         /\ \A i \in 1..Len(es) : Lines(es)[i + 1] = PairLine(es, i)
<1> DEFINE f == [i \in 1..Len(es) |-> PairLine(es, i)]
<1>1. DOMAIN es = 1..Len(es) /\ Len(es) \in Nat /\ \A i \in 1..Len(es) : es[i] \in Ordered(n)
  OBVIOUS
<1>2. Lines(es) = <<Skipped>> \o f
  BY <1>1 DEF Lines, Skipped, PairLine
<1>3. \A i \in 1..Len(es) : PairLine(es, i) \in FileLines
  <2> SUFFICES ASSUME NEW i \in 1..Len(es) PROVE PairLine(es, i) \in FileLines
    OBVIOUS
  <2>1. es[i][1] \in Nat /\ es[i][2] \in Nat
    BY <1>1 DEF Ordered
  <2>2. Written(es)[i] \in {es[i], <<es[i][2], es[i][1]>>}
    BY <1>1 DEF Written
  <2>3. Written(es)[i][1] \in Nat /\ Written(es)[i][2] \in Nat
    BY <2>1, <2>2
  <2> HIDE DEF Written
  <2> QED BY <2>3 DEF PairLine, FileLines
<1>4. f \in Seq(FileLines) /\ Len(f) = Len(es) /\ \A i \in 1..Len(es) : f[i] = PairLine(es, i)
  <2> HIDE DEF PairLine, FileLines
  <2> QED BY <1>1, <1>3
<1>5. <<Skipped>> \in Seq(FileLines) /\ Len(<<Skipped>>) = 1 /\ <<Skipped>>[1] = Skipped
  BY DEF Skipped, FileLines
<1> HIDE DEF f, Skipped, FileLines, PairLine
<1> QED BY <1>1, <1>2, <1>4, <1>5

DataOf(text) == {l \in ToSet(text) : l.kind # "skip"}

\* What the lines of a file say.
LEMMA DataIs ==
  ASSUME NEW n \in Nat, NEW es \in Seq(Ordered(n))
  PROVE  /\ \A l \in DataOf(Lines(es)) : l.kind = "pair"
         /\ {PairOf(l) : l \in DataOf(Lines(es))} = Range(es)
         /\ UNION {{l.a, l.b} : l \in DataOf(Lines(es))} = UNION {{es[i][1], es[i][2]} : i \in DOMAIN es}
<1>1. DOMAIN es = 1..Len(es) /\ Len(es) \in Nat /\ \A i \in 1..Len(es) : es[i] \in Ordered(n)
  OBVIOUS
<1>2. \A i \in 1..Len(es) : PairLine(es, i).kind = "pair"
  BY DEF PairLine
<1>3. ToSet(Lines(es)) = {Skipped} \cup {PairLine(es, i) : i \in 1..Len(es)}
  <2> DEFINE text == Lines(es)
  <2>1. /\ DOMAIN text = 1..(Len(es) + 1) /\ text[1] = Skipped
        /\ \A i \in 1..Len(es) : text[i + 1] = PairLine(es, i)
    BY LinesAre
  <2>2. \A j \in 1..(Len(es) + 1) : j = 1 \/ (j - 1 \in 1..Len(es) /\ (j - 1) + 1 = j)
    BY <1>1
  <2>3. 1 \in 1..(Len(es) + 1) /\ \A i \in 1..Len(es) : i + 1 \in 1..(Len(es) + 1)
    BY <1>1
  <2>4. \A j \in DOMAIN text : text[j] \in {Skipped} \cup {PairLine(es, i) : i \in 1..Len(es)}
    <3> SUFFICES ASSUME NEW j \in 1..(Len(es) + 1), j # 1
                 PROVE  text[j] \in {PairLine(es, i) : i \in 1..Len(es)}
      BY <2>1
    <3>1. j - 1 \in 1..Len(es) /\ text[(j - 1) + 1] = PairLine(es, j - 1) /\ (j - 1) + 1 = j
      BY <2>1, <2>2
    <3> HIDE DEF text
    <3> QED BY <3>1
  <2>5. \A i \in 1..Len(es) : \E j \in DOMAIN text : PairLine(es, i) = text[j]
    BY <2>1, <2>3
  <2>6. \E j \in DOMAIN text : Skipped = text[j]
    BY <2>1, <2>3
  <2> HIDE DEF text
  <2>7. {text[j] : j \in DOMAIN text} = {Skipped} \cup {PairLine(es, i) : i \in 1..Len(es)}
    BY <2>4, <2>5, <2>6
  <2> QED BY <2>7 DEF ToSet, text
<1>4. DataOf(Lines(es)) = {PairLine(es, i) : i \in 1..Len(es)}
  <2>1. Skipped.kind = "skip"
    BY DEF Skipped
  <2> QED BY <1>2, <1>3, <2>1 DEF DataOf
<1>5. ASSUME NEW i \in 1..Len(es)
      PROVE  /\ PairOf(PairLine(es, i)) = es[i]
             /\ {PairLine(es, i).a, PairLine(es, i).b} = {es[i][1], es[i][2]}
  <2>1. es[i][1] \in Int /\ es[i][2] \in Int /\ es[i][1] <= es[i][2] /\ es[i] = <<es[i][1], es[i][2]>>
    BY <1>1 DEF Ordered
  <2>2. PairLine(es, i).a = Written(es)[i][1] /\ PairLine(es, i).b = Written(es)[i][2]
    BY DEF PairLine
  <2>3. Written(es)[i] = es[i] \/ Written(es)[i] = <<es[i][2], es[i][1]>>
    BY <1>1 DEF Written
  <2>4. CASE Written(es)[i] = es[i]
    <3>1. PairLine(es, i).a = es[i][1] /\ PairLine(es, i).b = es[i][2]
      BY <2>2, <2>4
    <3> HIDE DEF PairLine
    <3> QED BY <2>1, <3>1 DEF PairOf
  <2>5. CASE Written(es)[i] = <<es[i][2], es[i][1]>>
    <3>1. PairLine(es, i).a = es[i][2] /\ PairLine(es, i).b = es[i][1]
      BY <2>2, <2>5
    <3>2. es[i][2] <= es[i][1] => es[i][1] = es[i][2]
      BY <2>1
    <3> HIDE DEF PairLine
    <3> QED BY <2>1, <3>1, <3>2 DEF PairOf
  <2> QED BY <2>3, <2>4, <2>5
<1>6. {PairOf(l) : l \in DataOf(Lines(es))} = {es[i] : i \in 1..Len(es)}
  BY <1>4, <1>5
<1>7. {{l.a, l.b} : l \in DataOf(Lines(es))} = {{es[i][1], es[i][2]} : i \in 1..Len(es)}
  <2>1. {{l.a, l.b} : l \in DataOf(Lines(es))}
          = {{PairLine(es, i).a, PairLine(es, i).b} : i \in 1..Len(es)}
    BY <1>4
  <2>2. \A i \in 1..Len(es) : {PairLine(es, i).a, PairLine(es, i).b} = {es[i][1], es[i][2]}
    BY <1>5
  <2> QED BY <2>1, <2>2
<1> QED BY <1>1, <1>2, <1>4, <1>6, <1>7 DEF Range

\* A bad line, wherever it is.
LEMMA BadLineRefuses ==
  ASSUME NEW text \in Seq(FileLines), NEW k \in 0..Len(text),
         NEW bad \in FileLines, bad.kind = "bad"
  PROVE  EdgeListOf(InsertAt(text, k + 1, bad)) = {}
<1> DEFINE s == SubSeq(text, 1, k)
           t == SubSeq(text, k + 1, Len(text))
           all == InsertAt(text, k + 1, bad)
<1>1. Len(text) \in Nat /\ k \in Nat /\ (k + 1) - 1 = k
  OBVIOUS
<1>2. s \in Seq(FileLines) /\ t \in Seq(FileLines) /\ Len(s) = k
  BY <1>1
<1>3. all = (s \o <<bad>>) \o t
  BY <1>1 DEF InsertAt
<1>4. k + 1 \in DOMAIN all /\ all[k + 1] = bad
  <2> HIDE DEF s, t, all, FileLines
  <2> QED BY <1>1, <1>2, <1>3
<1>5. bad \in DataOf(all)
  <2> HIDE DEF all
  <2> QED BY <1>4 DEF DataOf, ToSet
<1> HIDE DEF all
<1>6. \E l \in {l \in ToSet(all) : l.kind # "skip"} : l.kind = "bad"
  BY <1>5 DEF DataOf
<1>7. EdgeListOf(all) = {}
  BY <1>6, Zenon DEF EdgeListOf
<1> QED BY <1>7 DEF all

OnceOf(n, es) == [p \in (1..n) \X (1..n) |-> IF MultOf(n, es)[p] > 0 THEN 1 ELSE 0]

Joined(es, i, j) == \E p \in Range(es) : {p[1], p[2]} = {i, j}

LEMMA MultPositive ==
  ASSUME NEW n \in Nat, NEW es \in Seq(Ordered(n)), NEW i \in 1..n, NEW j \in 1..n
  PROVE  /\ MultOf(n, es)[<<i, j>>] \in Nat
         /\ MultOf(n, es)[<<i, j>>] > 0 <=> Joined(es, i, j)
<1> DEFINE J == JoiningOf(es, i, j)
<1>1. MultOf(n, es)[<<i, j>>] = Cardinality(J)
  BY DEF MultOf
<1>2. IsFiniteSet(J) /\ Cardinality(J) \in Nat
  <2>1. J \in SUBSET (1..Len(es)) /\ IsFiniteSet(1..Len(es))
    BY FS_Interval DEF JoiningOf
  <2> HIDE DEF J
  <2> QED BY <2>1, FS_Subset, FS_CardinalityType
<1>3. J # {} <=> Joined(es, i, j)
  <2>1. J # {} <=> \E k \in DOMAIN es : {es[k][1], es[k][2]} = {i, j}
    BY DEF JoiningOf
  <2> QED BY <2>1 DEF Range, Joined
<1>4. Cardinality(J) > 0 <=> J # {}
  <2> HIDE DEF J
  <2>1. Cardinality(J) = 0 <=> J = {}
    BY <1>2, FS_EmptySet
  <2> QED BY <1>2, <2>1
<1> HIDE DEF J
<1> QED BY <1>1, <1>2, <1>3, <1>4

\* The graph of a list of distinct pairs joins two nodes once or not at all.
LEMMA ListedGraph ==
  ASSUME NEW n \in Nat, NEW es \in Seq(Ordered(n)), NEW src,
         src.nodes = Ascending(1..n), src.edges = InPairOrder(Range(es))
  PROVE  GraphOf(src) = Weighed(OnceOf(n, es))
<1> DEFINE P == Range(es)
           m == Cardinality(P)
           o == InPairOrder(P)
           J(i, j) == {k \in 1..m : {o[k][1], o[k][2]} = {i, j}}
<1>1. IsFiniteSet(P) /\ P \in SUBSET Ordered(n)
  <2>1. DOMAIN es = 1..Len(es) /\ Len(es) \in Nat /\ es \in [1..Len(es) -> Ordered(n)]
    OBVIOUS
  <2>2. es \in Surjection(1..Len(es), P)
    BY <2>1 DEF Surjection, Range
  <2>3. IsFiniteSet(P)
    BY <2>1, <2>2, FS_Interval, FS_Surjection
  <2> QED BY <2>1, <2>3 DEF Range
<1> HIDE DEF P
<1>2. /\ o \in [1..m -> P] /\ m \in Nat
      /\ \A p \in P : \E k \in 1..m : o[k] = p
      /\ \A k, l \in 1..m : o[k] = o[l] => k = l
  BY <1>1, PairOrderIs
<1> HIDE DEF m, o
<1>3. ASSUME NEW i \in 1..n, NEW j \in 1..n
      PROVE  Cardinality(J(i, j)) = OnceOf(n, es)[<<i, j>>]
  <2>1. OnceOf(n, es)[<<i, j>>] = IF MultOf(n, es)[<<i, j>>] > 0 THEN 1 ELSE 0
    BY DEF OnceOf
  <2>2. MultOf(n, es)[<<i, j>>] > 0 <=> \E p \in P : {p[1], p[2]} = {i, j}
    <3>1. MultOf(n, es)[<<i, j>>] > 0 <=> Joined(es, i, j)
      BY MultPositive
    <3> QED BY <3>1 DEF P, Joined
  <2>3. CASE \E p \in P : {p[1], p[2]} = {i, j}
    <3>1. PICK k \in 1..m : {o[k][1], o[k][2]} = {i, j}
      BY <1>2, <2>3
    <3>2. ASSUME NEW l \in J(i, j)
          PROVE  l = k
      <4>1. l \in 1..m /\ {o[l][1], o[l][2]} = {o[k][1], o[k][2]}
        BY <3>1
      <4>2. \A q \in {o[l], o[k]} : q[1] \in Int /\ q[2] \in Int /\ q[1] <= q[2] /\ q = <<q[1], q[2]>>
        BY <1>1, <1>2, <4>1 DEF Ordered
      <4>3. o[l][1] = o[k][1] /\ o[l][2] = o[k][2]
        <5> DEFINE a == o[l]
                   b == o[k]
        <5>1. /\ a[1] \in Int /\ a[2] \in Int /\ a[1] <= a[2]
              /\ b[1] \in Int /\ b[2] \in Int /\ b[1] <= b[2]
          BY <4>2
        <5>2. {a[1], a[2]} = {b[1], b[2]}
          BY <4>1
        <5> HIDE DEF a, b
        <5>3. (a[1] = b[1] \/ a[1] = b[2]) /\ (a[2] = b[1] \/ a[2] = b[2])
          BY <5>2
        <5>4. (b[1] = a[1] \/ b[1] = a[2]) /\ (b[2] = a[1] \/ b[2] = a[2])
          BY <5>2
        <5>5. a[1] = b[1] /\ a[2] = b[2]
          BY <5>1, <5>3, <5>4
        <5> QED BY <5>5 DEF a, b
      <4>4. o[l] = o[k]
        <5>1. o[l] = <<o[l][1], o[l][2]>> /\ o[k] = <<o[k][1], o[k][2]>>
          BY <4>2
        <5> QED BY <4>3, <5>1
      <4> QED BY <1>2, <4>1, <4>4
    <3>3. J(i, j) = {k}
      BY <3>1, <3>2
    <3>4. Cardinality(J(i, j)) = 1
      BY <3>3, FS_Singleton
    <3> QED BY <2>1, <2>2, <2>3, <3>4
  <2>4. CASE ~\E p \in P : {p[1], p[2]} = {i, j}
    <3>1. J(i, j) = {}
      BY <1>2, <2>4
    <3> QED BY <2>1, <2>2, <2>4, <3>1, FS_EmptySet
  <2> QED BY <2>3, <2>4
<1>4. IdsOf(src) = [i \in 1..n |-> i]
  BY CountingUp DEF IdsOf
<1>5. src.edges = o /\ DOMAIN src.edges = 1..m
  BY <1>2 DEF o, P
<1>6. GraphOf(src) = Weighed([e \in (1..n) \X (1..n) |-> Cardinality(J(e[1], e[2]))])
  <2> DEFINE ids == [i \in 1..n |-> i]
             Joining(i, j) ==
               {k \in DOMAIN src.edges : {src.edges[k][1], src.edges[k][2]} = {ids[i], ids[j]}}
  <2>1. GraphOf(src) = Weighed([e \in (1..n) \X (1..n) |-> Cardinality(Joining(e[1], e[2]))])
    BY <1>4 DEF GraphOf
  <2>2. \A i, j \in 1..n : Joining(i, j) = J(i, j)
    BY <1>5
  <2>3. \A e \in (1..n) \X (1..n) : Cardinality(Joining(e[1], e[2])) = Cardinality(J(e[1], e[2]))
    BY <2>2
  <2> HIDE DEF Joining, J
  <2>4. [e \in (1..n) \X (1..n) |-> Cardinality(Joining(e[1], e[2]))]
          = [e \in (1..n) \X (1..n) |-> Cardinality(J(e[1], e[2]))]
    BY <2>3
  <2> QED BY <2>1, <2>4
<1>7. [e \in (1..n) \X (1..n) |-> Cardinality(J(e[1], e[2]))] = OnceOf(n, es)
  <2>1. \A e \in (1..n) \X (1..n) : Cardinality(J(e[1], e[2])) = OnceOf(n, es)[e]
    <3> SUFFICES ASSUME NEW e \in (1..n) \X (1..n)
                 PROVE  Cardinality(J(e[1], e[2])) = OnceOf(n, es)[e]
      OBVIOUS
    <3>1. e[1] \in 1..n /\ e[2] \in 1..n /\ e = <<e[1], e[2]>>
      OBVIOUS
    <3> HIDE DEF J
    <3> QED BY <1>3, <3>1
  <2>2. OnceOf(n, es) = [e \in (1..n) \X (1..n) |-> OnceOf(n, es)[e]]
    BY DEF OnceOf
  <2> HIDE DEF J
  <2> QED BY <2>1, <2>2
<1> QED BY <1>6, <1>7

\* A node that has an edge is the end of one.
LEMMA EndsCover ==
  ASSUME NEW n \in Nat, NEW es \in Seq(Ordered(n)),
         \A v \in 1..n : Meant(n, es).degree[v] > 0
  PROVE  UNION {{es[i][1], es[i][2]} : i \in DOMAIN es} = 1..n
<1> DEFINE E == UNION {{es[i][1], es[i][2]} : i \in DOMAIN es}
<1>1. DOMAIN es = 1..Len(es) /\ \A i \in 1..Len(es) : es[i] \in Ordered(n)
  OBVIOUS
<1>2. E \subseteq 1..n
  BY <1>1 DEF Ordered
<1>3. ASSUME NEW v \in 1..n, v \notin E
      PROVE  FALSE
  <2>1. \A w \in 1..n : MultOf(n, es)[<<v, w>>] = 0
    <3> SUFFICES ASSUME NEW w \in 1..n PROVE MultOf(n, es)[<<v, w>>] = 0
      OBVIOUS
    <3>1. ~Joined(es, v, w)
      BY <1>3 DEF Range, Joined
    <3>2. /\ MultOf(n, es)[<<v, w>>] \in Nat
          /\ MultOf(n, es)[<<v, w>>] > 0 <=> Joined(es, v, w)
      BY MultPositive
    <3> QED BY <3>1, <3>2
  <2>2. DOMAIN MultOf(n, es) = (1..n) \X (1..n)
    BY DEF MultOf
  <2>3. Meant(n, es).degree = Degrees(MultOf(n, es), 1..n)
    BY <2>2, MeantIs, WeighedIs
  <2>4. Meant(n, es).degree[v] = SumFunctionOnSet(MultOf(n, es), {v} \X (1..n))
    BY <2>3 DEF Degrees
  <2>5. \A x \in {v} \X (1..n) : MultOf(n, es)[x] = 0
    <3> SUFFICES ASSUME NEW x \in {v} \X (1..n) PROVE MultOf(n, es)[x] = 0
      OBVIOUS
    <3>1. x = <<v, x[2]>> /\ x[2] \in 1..n
      OBVIOUS
    <3> QED BY <2>1, <3>1
  <2>6. IsFiniteSet({v} \X (1..n))
    <3>1. IsFiniteSet({v})
      BY FS_Singleton
    <3>2. IsFiniteSet(1..n)
      BY FS_Interval
    <3> QED BY <3>1, <3>2, FS_Product
  <2>7. SumFunctionOnSet(MultOf(n, es), {v} \X (1..n)) = 0
    BY <2>5, <2>6, SumZero
  <2> QED BY <2>4, <2>7
<1> QED BY <1>2, <1>3

LEMMA ShapeAgrees ==
  ASSUME FilesInv
  PROVE  FormatsAgree
<1> DEFINE text == Lines(edges)
           bad == [kind |-> "bad", a |-> 1, b |-> 1]
           once == Weighed([p \in DOMAIN graph.mult |-> IF graph.mult[p] > 0 THEN 1 ELSE 0])
<1>1. size \in Nat /\ edges \in Seq(Ordered(size)) /\ graph = Meant(size, edges)
  BY DEF FilesInv
<1>2. NodesIn(graph) = 1..size /\ graph.mult = MultOf(size, edges)
  BY <1>1, MeantIs
<1>3. once = Weighed(OnceOf(size, edges))
  BY <1>2 DEF OnceOf, MultOf
<1>4. text \in Seq(FileLines) /\ Len(text) \in Nat
  BY <1>1, LinesAre
<1>5. ASSUME NEW k \in 0..Len(text)
      PROVE  EdgeListOf(InsertAt(text, k + 1, bad)) = {}
  <2>1. bad \in FileLines /\ bad.kind = "bad"
    BY DEF FileLines
  <2> HIDE DEF text, bad
  <2> QED BY <1>4, <2>1, BadLineRefuses
<1>6. ASSUME \A v \in NodesIn(graph) : graph.degree[v] > 0
      PROVE  Loaded(EdgeListOf(text)) = {once}
  <2> DEFINE ends == UNION {{l.a, l.b} : l \in DataOf(text)}
             src == [nodes |-> Ascending(ends), edges |-> InPairOrder({PairOf(l) : l \in DataOf(text)}),
                     label |-> [u \in ToSet(Ascending(ends)) |-> u]]
  <2>1. EdgeListOf(text) = {src}
    <3>1. ~\E l \in DataOf(text) : l.kind = "bad"
      BY <1>1, DataIs
    <3> HIDE DEF text
    <3> QED BY <3>1 DEF EdgeListOf, DataOf
  <2>2. ends = 1..size
    <3>1. ends = UNION {{edges[i][1], edges[i][2]} : i \in DOMAIN edges}
      BY <1>1, DataIs
    <3>2. \A v \in 1..size : Meant(size, edges).degree[v] > 0
      BY <1>1, <1>2, <1>6
    <3>3. UNION {{edges[i][1], edges[i][2]} : i \in DOMAIN edges} = 1..size
      BY <1>1, <3>2, EndsCover
    <3> QED BY <3>1, <3>3
  <2>3. src.nodes = Ascending(1..size) /\ src.edges = InPairOrder(Range(edges))
    <3>1. {PairOf(l) : l \in DataOf(text)} = Range(edges)
      BY <1>1, DataIs
    <3> HIDE DEF ends
    <3> QED BY <2>2, <3>1
  <2> HIDE DEF src
  <2>4. GraphOf(src) = Weighed(OnceOf(size, edges))
    BY <1>1, <2>3, ListedGraph
  <2>5. Loaded({src}) = {GraphOf(src)}
    BY DEF Loaded
  <2> HIDE DEF once, text
  <2> QED BY <1>3, <2>1, <2>4, <2>5
<1> QED BY <1>5, <1>6 DEF FormatsAgree

\* FormatsAgree: an edge list in which every node has an edge gives the graph
\* that was meant with repeated edges counted once, and one bad line anywhere
\* refuses the list.
THEOREM ListsAgree == Spec => []FormatsAgree
BY FilesKeepShape, ShapeAgrees, PTL

-----------------------------------------------------------------------------
(* A fold of a list, as the states it goes through.                        *)

Tabled(it, base, step, n) ==
  \A s \in SUBSET (1..n) :
    it[s] = IF s = {} THEN base ELSE step[<<Max(s), it[s \ {Max(s)}]>>]

LEMMA MaxIs ==
  ASSUME NEW n \in Nat, NEW s \in SUBSET (1..n), s # {}
  PROVE  /\ Max(s) \in s /\ Max(s) \in 1..n /\ \A x \in s : x <= Max(s)
         /\ Max(s) \in Nat /\ s \ {Max(s)} \in SUBSET (1..n)
<1>1. IsFiniteSet(s) /\ s \subseteq Int
  <2>1. IsFiniteSet(1..n)
    BY FS_Interval
  <2>2. IsFiniteSet(s)
    BY <2>1, FS_Subset
  <2> QED BY <2>2
<1>2. \E m \in s : \A x \in s : x <= m
  BY <1>1, GreatestExists
<1>3. \E m \in s : \A x \in s : m >= x
  BY <1>1, <1>2
<1>4. Max(s) \in s /\ \A x \in s : Max(s) >= x
  BY <1>3 DEF Max
<1>5. \A m \in 1..n : m \in Nat
  OBVIOUS
<1> QED BY <1>1, <1>4, <1>5

LEMMA MaxTop ==
  ASSUME NEW n \in Nat, NEW s \in SUBSET (1..n), NEW m \in s, \A x \in s : x <= m
  PROVE  Max(s) = m
<1>1. Max(s) \in s /\ Max(s) \in 1..n /\ \A x \in s : x <= Max(s)
  BY MaxIs
<1>2. Max(s) <= m /\ m <= Max(s) /\ m \in Int /\ Max(s) \in Int
  BY <1>1
<1> QED BY <1>2

LEMMA TableExists ==
  ASSUME NEW S, NEW base \in S, NEW step \in [Nat \X S -> S], NEW k \in Nat
  PROVE  \E it \in [SUBSET (1..k) -> S] : Tabled(it, base, step, k)
<1> DEFINE F == {n \in Nat : \E it \in [SUBSET (1..n) -> S] : Tabled(it, base, step, n)}
<1>1. 0 \in F
  <2> DEFINE it == [s \in SUBSET (1..0) |-> base]
  <2>1. it \in [SUBSET (1..0) -> S]
    OBVIOUS
  <2>2. \A s \in SUBSET (1..0) : s = {}
    OBVIOUS
  <2>3. Tabled(it, base, step, 0)
    BY <2>2 DEF Tabled
  <2> QED BY <2>1, <2>3
<1>2. ASSUME NEW n \in Nat, n \in F
      PROVE  n + 1 \in F
  <2>1. PICK it \in [SUBSET (1..n) -> S] : Tabled(it, base, step, n)
    BY <1>2
  <2> DEFINE new == [s \in SUBSET (1..(n + 1)) |->
                       IF n + 1 \in s THEN step[<<n + 1, it[s \ {n + 1}]>>] ELSE it[s]]
  <2>2. \A s \in SUBSET (1..(n + 1)) : s \ {n + 1} \in SUBSET (1..n)
    BY <1>2
  <2>3. \A s \in SUBSET (1..(n + 1)) : n + 1 \notin s => s \in SUBSET (1..n)
    BY <1>2
  <2>4. new \in [SUBSET (1..(n + 1)) -> S]
    BY <2>2, <2>3
  <2>5. ASSUME NEW s \in SUBSET (1..(n + 1))
        PROVE  new[s] = IF s = {} THEN base ELSE step[<<Max(s), new[s \ {Max(s)}]>>]
    <3>1. CASE n + 1 \in s
      <4>1. Max(s) = n + 1
        <5>1. (\A x \in s : x <= n + 1) /\ n + 1 \in Nat
          OBVIOUS
        <5> HIDE DEF new
        <5> QED BY <3>1, <5>1, MaxTop
      <4>2. new[s \ {n + 1}] = it[s \ {n + 1}]
        OBVIOUS
      <4> HIDE DEF new
      <4>3. new[s] = step[<<n + 1, it[s \ {n + 1}]>>]
        BY <3>1 DEF new
      <4> QED BY <3>1, <4>1, <4>2, <4>3
    <3>2. CASE n + 1 \notin s
      <4>1. s \in SUBSET (1..n)
        BY <2>3, <3>2
      <4>2. it[s] = IF s = {} THEN base ELSE step[<<Max(s), it[s \ {Max(s)}]>>]
        BY <2>1, <4>1 DEF Tabled
      <4>3. new[s] = it[s] /\ new[s \ {Max(s)}] = it[s \ {Max(s)}]
        BY <3>2
      <4> HIDE DEF new
      <4> QED BY <4>2, <4>3
    <3> QED BY <3>1, <3>2
  <2>6. Tabled(new, base, step, n + 1)
    <3> HIDE DEF new
    <3> QED BY <2>5 DEF Tabled
  <2> HIDE DEF new
  <2> QED BY <1>2, <2>4, <2>6
<1>3. \A n \in Nat : n \in F
  <2> HIDE DEF F
  <2> QED BY <1>1, <1>2, NumberInduction
<1> QED BY <1>3

Follows(it, base, S, step, n) ==
  \A s \in SUBSET (1..n) :
    /\ s = {} => it[s] = base
    /\ s # {} /\ it[s \ {Max(s)}] \in S => it[s] = step[<<Max(s), it[s \ {Max(s)}]>>]

\* The state after the first k items.
States(it, n) == [k \in 0..n |-> it[1..k]]

LEMMA FoldStates ==
  ASSUME NEW S, NEW base \in S, NEW step \in [Nat \X S -> S], NEW n \in Nat,
         NEW it, Follows(it, base, S, step, n)
  PROVE  States(it, n) \in [0..n -> S] /\ Solves(States(it, n), base, step, n)
<1> DEFINE f == States(it, n)
           F == {k \in Nat : k <= n => f[k] \in S}
<1>1. f[0] = base
  <2>1. 1..0 = {} /\ {} \in SUBSET (1..n)
    OBVIOUS
  <2>2. it[{}] = base
    BY <2>1 DEF Follows
  <2>3. f[0] = it[1..0]
    BY DEF States
  <2> QED BY <2>1, <2>2, <2>3
<1>2. ASSUME NEW k \in 1..n, f[k - 1] \in S
      PROVE  f[k] = step[<<k, f[k - 1]>>] /\ f[k] \in S
  <2>1. /\ 1..k \in SUBSET (1..n) /\ k \in 1..k /\ 1..k # {} /\ k - 1 \in 0..n /\ k \in 0..n
        /\ \A x \in 1..k : x <= k
    <3>1. k \in Nat /\ k <= n /\ 1 <= k
      OBVIOUS
    <3>2. k \in 1..k
      BY <3>1
    <3>3. 1..k \in SUBSET (1..n) /\ \A x \in 1..k : x <= k
      BY <3>1
    <3> QED BY <3>1, <3>2, <3>3
  <2>2. Max(1..k) = k
    BY <2>1, MaxTop
  <2>3. (1..k) \ {k} = 1..(k - 1)
    OBVIOUS
  <2>4. f[k - 1] = it[1..(k - 1)] /\ f[k] = it[1..k]
    BY <2>1 DEF States
  <2>5. it[(1..k) \ {Max(1..k)}] \in S
    BY <1>2, <2>2, <2>3, <2>4
  <2>6. it[1..k] = step[<<Max(1..k), it[(1..k) \ {Max(1..k)}]>>]
    BY <2>1, <2>5 DEF Follows
  <2> HIDE DEF f
  <2>7. f[k] = step[<<k, f[k - 1]>>]
    BY <2>2, <2>3, <2>4, <2>6
  <2> QED BY <1>2, <2>7
<1> HIDE DEF f
<1>3. \A k \in Nat : k \in F
  <2>1. 0 \in F
    BY <1>1
  <2>2. ASSUME NEW k \in Nat, k \in F
        PROVE  k + 1 \in F
    <3>1. CASE k + 1 <= n
      <4>1. k + 1 \in 1..n /\ (k + 1) - 1 = k /\ k <= n
        BY <3>1
      <4>2. f[k] \in S
        BY <2>2, <4>1
      <4>3. f[k + 1] \in S
        BY <1>2, <4>1, <4>2
      <4> QED BY <4>3
    <3>2. CASE ~(k + 1 <= n)
      BY <3>2
    <3> QED BY <3>1, <3>2
  <2> HIDE DEF F
  <2> QED BY <2>1, <2>2, NumberInduction
<1>4. \A k \in 0..n : f[k] \in S
  BY <1>3
<1>5. f \in [0..n -> S]
  BY <1>4 DEF f, States
<1>6. \A k \in 1..n : f[k] = step[<<k, f[k - 1]>>]
  BY <1>2, <1>4
<1> QED BY <1>1, <1>5, <1>6 DEF Solves, f

-----------------------------------------------------------------------------
(* Walks in a directed graph R, which gives for every node of N those it   *)
(* leads to; and how many steps a node is away from u.                     *)

IsWalk(R, p) ==
  p # << >> /\ p \in Seq(DOMAIN R) /\ \A i \in 1..(Len(p) - 1) : p[i + 1] \in R[p[i]]

Links(R, p, u, v) == IsWalk(R, p) /\ p[1] = u /\ p[Len(p)] = v

\* The nodes at most k steps from u.
Near(R, u, k) ==
  {v \in DOMAIN R : \E p \in Seq(DOMAIN R) : Links(R, p, u, v) /\ Len(p) <= k + 1}

\* v is k steps from u and no fewer.
At(R, u, v, k) == v \in Near(R, u, k) /\ \A e \in 0..(k - 1) : v \notin Near(R, u, e)

LEMMA WalkOne ==
  ASSUME NEW N, NEW R \in [N -> SUBSET N], NEW u \in N
  PROVE  Links(R, <<u>>, u, u) /\ <<u>> \in Seq(N)
BY DEF Links, IsWalk

LEMMA WalkOn ==
  ASSUME NEW N, NEW R \in [N -> SUBSET N], NEW p \in Seq(N), NEW u, NEW x, Links(R, p, u, x),
         NEW v \in R[x]
  PROVE  /\ Links(R, Append(p, v), u, v) /\ Append(p, v) \in Seq(N)
         /\ Len(Append(p, v)) = Len(p) + 1 /\ x \in N /\ v \in N
<1>1. /\ p # << >> /\ Len(p) \in Nat /\ p[1] = u /\ p[Len(p)] = x
      /\ \A i \in 1..(Len(p) - 1) : p[i + 1] \in R[p[i]]
  BY DEF Links, IsWalk
<1>2. Len(p) >= 1
  BY <1>1
<1>3. x \in N
  BY <1>1, <1>2
<1>4. v \in N
  BY <1>3
<1> DEFINE q == Append(p, v)
<1>5. /\ q \in Seq(N) /\ Len(q) = Len(p) + 1 /\ q # << >> /\ q[Len(p) + 1] = v
      /\ \A i \in 1..Len(p) : q[i] = p[i]
  BY <1>4
<1> HIDE DEF q
<1>6. \A i \in 1..(Len(q) - 1) : q[i + 1] \in R[q[i]]
  <2> SUFFICES ASSUME NEW i \in 1..Len(p) PROVE q[i + 1] \in R[q[i]]
    BY <1>1, <1>5
  <2>1. CASE i = Len(p)
    BY <1>1, <1>5, <2>1
  <2>2. CASE i # Len(p)
    <3>1. i \in 1..(Len(p) - 1) /\ i + 1 \in 1..Len(p)
      BY <1>1, <2>2
    <3> QED BY <1>1, <1>5, <3>1
  <2> QED BY <2>1, <2>2
<1>7. Links(R, q, u, v)
  BY <1>1, <1>2, <1>5, <1>6 DEF Links, IsWalk
<1> QED BY <1>3, <1>4, <1>5, <1>7 DEF q

LEMMA WalkBack ==
  ASSUME NEW N, NEW R \in [N -> SUBSET N], NEW p \in Seq(N), NEW u, NEW v, Links(R, p, u, v),
         Len(p) # 1
  PROVE  \E q \in Seq(N), x \in N :
           /\ p = Append(q, v) /\ Len(p) = Len(q) + 1
           /\ Links(R, q, u, x) /\ v \in R[x]
<1>1. /\ p # << >> /\ Len(p) \in Nat /\ p[1] = u /\ p[Len(p)] = v
      /\ \A i \in 1..(Len(p) - 1) : p[i + 1] \in R[p[i]]
  BY DEF Links, IsWalk
<1>2. Len(p) >= 2
  <2>1. Len(p) \in Nat /\ Len(p) >= 1
    BY <1>1, EmptySeq, LenProperties
  <2>2. \A m \in Nat : m >= 1 /\ m # 1 => m >= 2
    OBVIOUS
  <2> QED BY <2>1, <2>2
<1> DEFINE q == SubSeq(p, 1, Len(p) - 1)
<1>3. q \in Seq(N) /\ Len(q) = Len(p) - 1 /\ \A i \in 1..(Len(p) - 1) : q[i] = p[i]
  BY <1>1, <1>2
<1>4. q[Len(q)] \in N /\ q # << >> /\ Len(p) - 1 \in 1..(Len(p) - 1)
  <2>1. Len(p) - 1 \in 1..(Len(p) - 1)
    BY <1>1, <1>2
  <2> HIDE DEF q
  <2>2. Len(q) \in 1..Len(q)
    BY <1>3, <2>1
  <2> QED BY <1>3, <2>1, <2>2
<1> HIDE DEF q
<1>5. p = Append(q, v)
  <2>1. Len(Append(q, v)) = Len(p) /\ Append(q, v)[Len(p)] = v
    BY <1>1, <1>2, <1>3
  <2>2. \A i \in 1..(Len(p) - 1) : Append(q, v)[i] = p[i]
    BY <1>1, <1>2, <1>3
  <2>3. v \in N
    BY <1>1, <1>2
  <2>4. Append(q, v) \in Seq(N)
    BY <1>3, <2>3
  <2>5. \A i \in 1..Len(p) : Append(q, v)[i] = p[i]
    BY <1>1, <2>1, <2>2
  <2> QED BY <2>1, <2>4, <2>5, SeqEqual
<1>6. IsWalk(R, q)
  <2>1. \A i \in 1..(Len(q) - 1) : i \in 1..(Len(p) - 1) /\ i + 1 \in 1..(Len(p) - 1)
    BY <1>1, <1>3
  <2>2. \A i \in 1..(Len(q) - 1) : q[i + 1] \in R[q[i]]
    BY <1>1, <1>3, <2>1
  <2> QED BY <1>3, <1>4, <2>2 DEF IsWalk
<1>7. Links(R, q, u, q[Len(q)])
  <2>1. 1 \in 1..(Len(p) - 1)
    BY <1>1, <1>2
  <2>2. q[1] = u
    BY <1>1, <1>3, <2>1
  <2> QED BY <1>6, <2>2 DEF Links
<1>8. v \in R[q[Len(q)]]
  <2>1. p[(Len(p) - 1) + 1] \in R[p[Len(p) - 1]]
    BY <1>1, <1>4
  <2> QED BY <1>1, <1>3, <1>4, <2>1
<1> QED BY <1>1, <1>3, <1>4, <1>5, <1>7, <1>8

\* What is near grows by what it leads to.
LEMMA NearGrows ==
  ASSUME NEW N, NEW R \in [N -> SUBSET N], NEW u \in N
  PROVE  /\ Near(R, u, 0) = {u}
         /\ \A k \in Nat : /\ Near(R, u, k) \in SUBSET N
                           /\ Near(R, u, k + 1) = Near(R, u, k) \cup UNION {R[x] : x \in Near(R, u, k)}
<1>1. Near(R, u, 0) = {u}
  <2>1. u \in Near(R, u, 0)
    <3>1. Links(R, <<u>>, u, u) /\ <<u>> \in Seq(N) /\ Len(<<u>>) <= 0 + 1
      BY WalkOne
    <3> QED BY <3>1 DEF Near
  <2>2. ASSUME NEW v \in Near(R, u, 0) PROVE v = u
    <3>1. PICK p \in Seq(N) : Links(R, p, u, v) /\ Len(p) <= 0 + 1
      BY DEF Near
    <3>2. Len(p) \in Nat /\ p # << >>
      BY <3>1 DEF Links, IsWalk
    <3>3. Len(p) = 1
      <4>1. Len(p) \in Nat /\ Len(p) # 0
        BY <3>2, EmptySeq, LenProperties
      <4>2. \A m \in Nat : m # 0 /\ m <= 0 + 1 => m = 1
        OBVIOUS
      <4> QED BY <3>1, <4>1, <4>2
    <3> QED BY <3>1, <3>3 DEF Links
  <2> QED BY <2>1, <2>2
<1>2. ASSUME NEW k \in Nat
      PROVE  Near(R, u, k + 1) = Near(R, u, k) \cup UNION {R[x] : x \in Near(R, u, k)}
  <2>1. ASSUME NEW v \in Near(R, u, k + 1), v \notin Near(R, u, k)
        PROVE  \E x \in Near(R, u, k) : v \in R[x]
    <3>1. PICK p \in Seq(N) : Links(R, p, u, v) /\ Len(p) <= (k + 1) + 1
      BY <2>1 DEF Near
    <3>2. Len(p) \in Nat /\ ~(Len(p) <= k + 1)
      BY <2>1, <3>1 DEF Near
    <3>3. Len(p) # 1
      <4>1. 1 <= k + 1
        OBVIOUS
      <4> QED BY <3>2, <4>1
    <3>4. PICK q \in Seq(N), x \in N :
            Len(p) = Len(q) + 1 /\ Links(R, q, u, x) /\ v \in R[x]
      BY <3>1, <3>3, WalkBack
    <3>5. Len(q) <= k + 1
      BY <3>1, <3>4
    <3> QED BY <3>4, <3>5 DEF Near
  <2>2. ASSUME NEW v \in Near(R, u, k) PROVE v \in Near(R, u, k + 1)
    <3>1. PICK p \in Seq(N) : Links(R, p, u, v) /\ Len(p) <= k + 1 /\ v \in N
      BY DEF Near
    <3>2. Len(p) <= (k + 1) + 1
      BY <3>1
    <3> QED BY <3>1, <3>2 DEF Near
  <2>3. ASSUME NEW x \in Near(R, u, k), NEW v \in R[x] PROVE v \in Near(R, u, k + 1)
    <3>1. PICK p \in Seq(N) : Links(R, p, u, x) /\ Len(p) <= k + 1
      BY DEF Near
    <3>2. /\ Links(R, Append(p, v), u, v) /\ Append(p, v) \in Seq(N)
          /\ Len(Append(p, v)) = Len(p) + 1 /\ v \in N
      BY <3>1, WalkOn
    <3>3. Len(Append(p, v)) <= (k + 1) + 1
      BY <3>1, <3>2
    <3> QED BY <3>2, <3>3 DEF Near
  <2> QED BY <2>1, <2>2, <2>3
<1>3. \A k \in Nat : Near(R, u, k) \in SUBSET N
  BY DEF Near
<1> QED BY <1>1, <1>2, <1>3

LEMMA NearMonotone ==
  ASSUME NEW N, NEW R \in [N -> SUBSET N], NEW u \in N, NEW k \in Nat, NEW j \in Nat, k <= j
  PROVE  Near(R, u, k) \subseteq Near(R, u, j)
<1> SUFFICES ASSUME NEW v \in Near(R, u, k) PROVE v \in Near(R, u, j)
  OBVIOUS
<1>1. PICK p \in Seq(N) : Links(R, p, u, v) /\ Len(p) <= k + 1 /\ v \in N
  BY DEF Near
<1>2. Len(p) <= j + 1
  BY <1>1
<1> QED BY <1>1, <1>2 DEF Near

\* Every node that is near is at one distance.
LEMMA AtExists ==
  ASSUME NEW N, NEW R \in [N -> SUBSET N], NEW u \in N, NEW k \in Nat, NEW v \in Near(R, u, k)
  PROVE  \E d \in 0..k : At(R, u, v, d)
<1> DEFINE T == {d \in Nat : v \in Near(R, u, d)}
<1>1. T \in SUBSET Nat /\ k \in T
  OBVIOUS
<1>2. PICK d \in T : \A m \in T : d <= m
  <2> HIDE DEF T
  <2> QED BY <1>1, LeastNumber
<1>3. d \in 0..k
  BY <1>1, <1>2
<1>4. \A e \in 0..(d - 1) : v \notin Near(R, u, e)
  <2> SUFFICES ASSUME NEW e \in 0..(d - 1), v \in Near(R, u, e) PROVE FALSE
    OBVIOUS
  <2>1. e \in T /\ e \in Nat /\ d \in Nat /\ e < d
    OBVIOUS
  <2>2. d <= e
    BY <1>2, <2>1
  <2> QED BY <2>1, <2>2
<1>5. At(R, u, v, d)
  BY <1>4 DEF At
<1> QED BY <1>3, <1>5

LEMMA AtUnique ==
  ASSUME NEW R, NEW u, NEW v, NEW d \in Nat, NEW e \in Nat, At(R, u, v, d), At(R, u, v, e)
  PROVE  d = e
<1>1. d \notin 0..(e - 1) /\ e \notin 0..(d - 1)
  BY DEF At
<1> QED BY <1>1

LEMMA AtNext ==
  ASSUME NEW N, NEW R \in [N -> SUBSET N], NEW u \in N, NEW d \in Nat,
         NEW v \in Near(R, u, d + 1), v \notin Near(R, u, d)
  PROVE  At(R, u, v, d + 1) /\ \E x \in N : At(R, u, x, d) /\ v \in R[x]
<1>1. At(R, u, v, d + 1)
  <2> SUFFICES ASSUME NEW e \in 0..((d + 1) - 1) PROVE v \notin Near(R, u, e)
    BY DEF At
  <2>1. e \in Nat /\ e <= d
    OBVIOUS
  <2> QED BY <2>1, NearMonotone
<1>2. PICK x \in Near(R, u, d) : v \in R[x]
  BY NearGrows
<1>3. At(R, u, x, d)
  <2> SUFFICES ASSUME NEW e \in 0..(d - 1), x \in Near(R, u, e) PROVE FALSE
    BY DEF At
  <2>1. e \in Nat /\ e + 1 <= d /\ e + 1 \in Nat
    OBVIOUS
  <2>2. v \in Near(R, u, e + 1)
    BY <1>2, <2>1, NearGrows
  <2> QED BY <2>1, <2>2, NearMonotone
<1>4. x \in N
  BY DEF Near
<1> QED BY <1>1, <1>2, <1>3, <1>4

\* No node is as far away as there are nodes.
LEMMA AtBound ==
  ASSUME NEW N, IsFiniteSet(N), NEW R \in [N -> SUBSET N], NEW u \in N, NEW v, NEW d \in Nat,
         At(R, u, v, d)
  PROVE  d < Cardinality(N) /\ Cardinality(N) \in Nat
<1> DEFINE F == {k \in Nat : k <= d => \E x \in N : At(R, u, x, d - k)}
<1>1. \A k \in Nat : k \in F
  <2>1. 0 \in F
    <3>1. v \in N /\ d - 0 = d
      BY DEF At, Near
    <3> QED BY <3>1
  <2>2. ASSUME NEW k \in Nat, k \in F, k + 1 <= d
        PROVE  \E x \in N : At(R, u, x, d - (k + 1))
    <3> DEFINE e == d - (k + 1)
    <3>1. e \in Nat /\ d - k = e + 1 /\ k <= d /\ e \in 0..((e + 1) - 1)
      BY <2>2
    <3>2. PICK x \in N : At(R, u, x, e + 1)
      BY <2>2, <3>1
    <3> HIDE DEF e
    <3>3. x \in Near(R, u, e + 1) /\ x \notin Near(R, u, e)
      BY <3>1, <3>2 DEF At
    <3>4. \E y \in N : At(R, u, y, e)
      BY <3>1, <3>3, AtNext
    <3> QED BY <3>4 DEF e
  <2>3. \A k \in Nat : k \in F => k + 1 \in F
    BY <2>2
  <2> HIDE DEF F
  <2> QED BY <2>1, <2>3, NumberInduction
<1>2. \A e \in 0..d : \E x \in N : At(R, u, x, e)
  <2> SUFFICES ASSUME NEW e \in 0..d PROVE \E x \in N : At(R, u, x, e)
    OBVIOUS
  <2>1. d - e \in Nat /\ d - e <= d /\ d - (d - e) = e
    OBVIOUS
  <2>2. d - e \in F
    BY <1>1, <2>1
  <2> QED BY <2>1, <2>2
<1> DEFINE f == [e \in 0..d |-> CHOOSE x \in N : At(R, u, x, e)]
<1>3. \A e \in 0..d : f[e] \in N /\ At(R, u, f[e], e)
  BY <1>2
<1>4. f \in [0..d -> N]
  BY <1>3
<1> HIDE DEF f
<1>5. ASSUME NEW a \in 0..d, NEW b \in 0..d, f[a] = f[b]
      PROVE  a = b
  <2>1. At(R, u, f[a], a) /\ At(R, u, f[a], b) /\ a \in Nat /\ b \in Nat
    BY <1>3, <1>5
  <2> QED BY <2>1, AtUnique
<1>6. f \in Injection(0..d, N)
  BY <1>4, <1>5 DEF Injection, IsInjective
<1>7. Cardinality(0..d) <= Cardinality(N)
  BY <1>6, FS_Injection
<1>8. Cardinality(0..d) = d + 1
  <2>1. Cardinality(0..d) = IF 0 > d THEN 0 ELSE d - 0 + 1
    BY FS_Interval
  <2> QED BY <2>1
<1>9. Cardinality(N) \in Nat
  BY FS_CardinalityType
<1> QED BY <1>7, <1>8, <1>9

-----------------------------------------------------------------------------
(* Shortest walks, and the operator that collects them.                    *)

\* A walk as short as its ends are apart.
Direct(R, p) == IsWalk(R, p) /\ At(R, p[1], p[Len(p)], Len(p) - 1)

DirectFrom(R, u, k) == {p \in Seq(DOMAIN R) : Direct(R, p) /\ p[1] = u /\ Len(p) <= k + 1}

Continued(g, found) ==
  found \cup UNION {{Append(p, v) : v \in Neighbours(g, Last(p)) \ {Last(q) : q \in found}} :
                      p \in found}

Edges(g) == [x \in NodesIn(g) |-> Neighbours(g, x)]

Rounds(f, g, n, u) ==
  /\ f[0] = {<<u>>} /\ f[n] = ShortestFrom(g, u)
  /\ \A k \in 1..n : f[k] = Continued(g, f[k - 1])

\* The rounds of ShortestFrom.
LEMMA ShortestFold ==
  ASSUME NEW g, NEW n \in Nat, NodesIn(g) = 1..n, NEW u \in 1..n
  PROVE  \E f : Rounds(f, g, n, u)
<1> DEFINE S == SUBSET Seq(1..n)
           base == {<<u>>}
           step == [z \in Nat \X S |-> IF z[1] \in 1..n THEN Continued(g, z[2]) ELSE z[2]]
           Table(it) == it = [s \in SUBSET (1..n) |->
                                IF s = {} THEN base ELSE Continued(g, it[s \ {Max(s)}])]
<1>1. base \in S
  OBVIOUS
<1>2. \A a \in S : Continued(g, a) \in S
  <2> SUFFICES ASSUME NEW a \in SUBSET Seq(1..n) PROVE Continued(g, a) \in SUBSET Seq(1..n)
    OBVIOUS
  <2>1. \A p \in a : \A v \in Neighbours(g, Last(p)) : Append(p, v) \in Seq(1..n)
    BY DEF Neighbours
  <2> QED BY <2>1 DEF Continued
<1>3. step \in [Nat \X S -> S]
  <2> HIDE DEF S
  <2> QED BY <1>2
<1>4. ShortestFrom(g, u) = (CHOOSE it : Table(it))[1..n]
  <2>1. DOMAIN Ascending(NodesIn(g)) = 1..n
    BY CountingUp
  <2> QED BY <2>1 DEF ShortestFrom, FoldLeft, MapThenFoldSet, Continued
<1> HIDE DEF S, step, base
<1>5. \E it : Table(it)
  <2>1. PICK it \in [SUBSET (1..n) -> S] : Tabled(it, base, step, n)
    BY <1>1, <1>3, TableExists
  <2>2. ASSUME NEW s \in SUBSET (1..n), s # {}
        PROVE  it[s] = Continued(g, it[s \ {Max(s)}])
    <3>1. Max(s) \in 1..n /\ Max(s) \in Nat /\ s \ {Max(s)} \in SUBSET (1..n)
      BY <2>2, MaxIs
    <3>2. it[s] = step[<<Max(s), it[s \ {Max(s)}]>>]
      BY <2>1, <2>2 DEF Tabled
    <3> QED BY <2>1, <3>1, <3>2 DEF step
  <2>3. \A s \in SUBSET (1..n) :
          it[s] = IF s = {} THEN base ELSE Continued(g, it[s \ {Max(s)}])
    BY <2>1, <2>2 DEF Tabled
  <2>4. Table(it)
    BY <2>3
  <2> HIDE DEF Table
  <2> QED BY <2>4
<1> DEFINE ch == CHOOSE it : Table(it)
<1>6. Table(ch)
  BY <1>5
<1>7. Follows(ch, base, S, step, n)
  <2> HIDE DEF ch
  <2> SUFFICES ASSUME NEW s \in SUBSET (1..n)
               PROVE  /\ s = {} => ch[s] = base
                      /\ s # {} /\ ch[s \ {Max(s)}] \in S => ch[s] = step[<<Max(s), ch[s \ {Max(s)}]>>]
    BY DEF Follows
  <2>1. CASE s = {}
    BY <1>6, <2>1
  <2>2. CASE s # {} /\ ch[s \ {Max(s)}] \in S
    <3>1. Max(s) \in 1..n /\ Max(s) \in Nat
      BY <2>2, MaxIs
    <3>2. ch[s] = Continued(g, ch[s \ {Max(s)}])
      BY <1>6, <2>2
    <3> HIDE DEF Table
    <3> QED BY <2>2, <3>1, <3>2 DEF step
  <2> QED BY <2>1, <2>2
<1> DEFINE f == States(ch, n)
<1>8. f \in [0..n -> S] /\ Solves(f, base, step, n)
  <2> HIDE DEF ch, Table
  <2> QED BY <1>1, <1>3, <1>7, FoldStates
<1>9. f[n] = ShortestFrom(g, u)
  BY <1>4 DEF States
<1> HIDE DEF f
<1>10. ASSUME NEW k \in 1..n
       PROVE  f[k] = Continued(g, f[k - 1])
  <2>1. f[k] = step[<<k, f[k - 1]>>] /\ k - 1 \in 0..n
    BY <1>8 DEF Solves
  <2> QED BY <1>8, <2>1 DEF step
<1> QED BY <1>8, <1>9, <1>10 DEF Solves, S, base, Rounds


LEMMA NearStep ==
  ASSUME NEW N, NEW R \in [N -> SUBSET N], NEW u \in N, NEW k \in Nat, NEW x \in Near(R, u, k), NEW v \in R[x]
  PROVE  v \in Near(R, u, k + 1)
BY NearGrows

LEMMA DirectReach ==
  ASSUME NEW N, NEW R \in [N -> SUBSET N], NEW u \in N, NEW k \in Nat
  PROVE  \A v : v \in Near(R, u, k) <=> \E p \in DirectFrom(R, u, k) : p[Len(p)] = v
<1>1. ASSUME NEW v, NEW p \in DirectFrom(R, u, k), p[Len(p)] = v
      PROVE  v \in Near(R, u, k)
  <2>1. /\ p \in Seq(N) /\ IsWalk(R, p) /\ p[1] = u /\ Len(p) <= k + 1
        /\ At(R, u, v, Len(p) - 1)
    BY <1>1 DEF DirectFrom, Direct
  <2>2. v \in N
    BY <2>1 DEF At, Near
  <2>3. Links(R, p, u, v)
    BY <1>1, <2>1 DEF Links
  <2> QED BY <2>1, <2>2, <2>3 DEF Near
<1>2. ASSUME NEW v \in Near(R, u, k)
      PROVE  \E p \in DirectFrom(R, u, k) : p[Len(p)] = v
  <2>1. PICK d \in 0..k : At(R, u, v, d)
    BY <1>2, AtExists
  <2>2. v \in Near(R, u, d) /\ d \in Nat /\ d <= k
    BY <2>1 DEF At
  <2>3. PICK p \in Seq(N) : Links(R, p, u, v) /\ Len(p) <= d + 1
    BY <2>2 DEF Near
  <2>4. Len(p) \in Nat /\ p # << >> /\ Len(p) # 0
    BY <2>3, EmptySeq, LenProperties DEF Links, IsWalk
  <2>5. Len(p) - 1 = d
    <3>1. v \in Near(R, u, Len(p) - 1)
      <4>1. Len(p) <= (Len(p) - 1) + 1 /\ v \in N
        BY <2>2, <2>4 DEF Near
      <4> QED BY <2>3, <4>1 DEF Near
    <3>2. Len(p) - 1 \notin 0..(d - 1)
      BY <2>1, <3>1 DEF At
    <3>3. \A m \in Nat : m # 0 /\ m <= d + 1 /\ m - 1 \notin 0..(d - 1) => m - 1 = d
      BY <2>2
    <3> QED BY <2>3, <2>4, <3>2, <3>3
  <2>6. \A m \in Nat : m <= d + 1 => m <= k + 1
    BY <2>2
  <2>7. p \in DirectFrom(R, u, k) /\ p[Len(p)] = v
    BY <2>1, <2>3, <2>4, <2>5, <2>6 DEF DirectFrom, Direct, Links
  <2> QED BY <2>7
<1> QED BY <1>1, <1>2

\* One round finds the walks that are longer by one step.
LEMMA DirectGrows ==
  ASSUME NEW g, NEW n \in Nat, NodesIn(g) = 1..n, NEW u \in 1..n, NEW k \in Nat
  PROVE  Continued(g, DirectFrom(Edges(g), u, k)) = DirectFrom(Edges(g), u, k + 1)
<1> DEFINE N == 1..n
           R == Edges(g)
           found == DirectFrom(R, u, k)
<1>1. R \in [N -> SUBSET N] /\ DOMAIN R = N /\ \A x \in N : R[x] = Neighbours(g, x)
  BY DEF Edges, Neighbours
<1> HIDE DEF N, R
<1>2. u \in N /\ \A p \in found : p \in Seq(N) /\ IsWalk(R, p) /\ Direct(R, p) /\ p[1] = u
  BY <1>1 DEF DirectFrom, N, Direct
<1>3. \A p \in found : Last(p) \in N /\ Links(R, p, u, Last(p)) /\ Len(p) \in Nat /\ Len(p) >= 1 /\ Len(p) <= k + 1
  <2> SUFFICES ASSUME NEW p \in found
               PROVE  Last(p) \in N /\ Links(R, p, u, Last(p)) /\ Len(p) \in Nat /\ Len(p) >= 1 /\ Len(p) <= k + 1
    OBVIOUS
  <2>1. p \in Seq(N) /\ p # << >> /\ Links(R, p, u, Last(p))
    BY <1>2 DEF Links, IsWalk, Last
  <2>2. Len(p) \in Nat /\ Len(p) >= 1
    BY <2>1, EmptySeq, LenProperties
  <2>3. Last(p) \in N
    BY <2>1, <2>2 DEF Last
  <2>4. Len(p) <= k + 1
    BY DEF DirectFrom
  <2> QED BY <2>1, <2>2, <2>3, <2>4
<1>4. {Last(q) : q \in found} = Near(R, u, k)
  <2>1. \A v : v \in Near(R, u, k) <=> \E p \in found : p[Len(p)] = v
    <3>1. R \in [N -> SUBSET N] /\ u \in N /\ found = DirectFrom(R, u, k)
      BY <1>1, <1>2
    <3> HIDE DEF R, N, found
    <3>2. \A v : v \in Near(R, u, k) <=> \E p \in DirectFrom(R, u, k) : p[Len(p)] = v
      BY <3>1, DirectReach
    <3> QED BY <3>1, <3>2
  <2> HIDE DEF found
  <2> QED BY <2>1 DEF Last
<1>5. ASSUME NEW p \in found, NEW v \in Neighbours(g, Last(p)), v \notin Near(R, u, k)
      PROVE  Append(p, v) \in DirectFrom(R, u, k + 1)
  <2>1. v \in R[Last(p)]
    BY <1>1, <1>3
  <2>2. /\ Links(R, Append(p, v), u, v) /\ Append(p, v) \in Seq(N)
        /\ Len(Append(p, v)) = Len(p) + 1
    <3>1. R \in [N -> SUBSET N] /\ p \in Seq(N) /\ Links(R, p, u, Last(p))
      BY <1>1, <1>2, <1>3
    <3> HIDE DEF found
    <3> QED BY <2>1, <3>1, WalkOn
  <2>3. Last(p) \in Near(R, u, k)
    BY <1>4
  <2>4. v \in Near(R, u, k + 1)
    BY <1>1, <1>2, <2>1, <2>3, NearGrows
  <2>5. At(R, u, v, k + 1)
    BY <1>1, <1>2, <1>5, <2>4, AtNext
  <2>6. Len(p) = k + 1
    <3>1. v \in Near(R, u, Len(p))
      <4>1. Len(Append(p, v)) <= Len(p) + 1 /\ v \in N
        BY <1>3, <2>2, <2>4 DEF Near
      <4> QED BY <1>1, <2>2, <4>1 DEF Near
    <3>2. Len(p) \notin 0..k
      <4>1. \A e \in 0..((k + 1) - 1) : v \notin Near(R, u, e)
        BY <2>5 DEF At
      <4>2. (k + 1) - 1 = k
        OBVIOUS
      <4> QED BY <3>1, <4>1, <4>2
    <3>3. \A m \in Nat : m <= k + 1 /\ m \notin 0..k => m = k + 1
      OBVIOUS
    <3> QED BY <1>3, <3>2, <3>3
  <2>7. Len(Append(p, v)) - 1 = k + 1 /\ Len(Append(p, v)) <= (k + 1) + 1
    BY <2>2, <2>6
  <2> QED BY <1>1, <2>2, <2>5, <2>7 DEF DirectFrom, Direct, Links
<1>6. found \subseteq DirectFrom(R, u, k + 1)
  <2> SUFFICES ASSUME NEW p \in found PROVE p \in DirectFrom(R, u, k + 1)
    OBVIOUS
  <2>1. Len(p) <= (k + 1) + 1
    BY <1>3
  <2> QED BY <1>1, <1>2, <2>1 DEF DirectFrom
<1>7. ASSUME NEW p \in DirectFrom(R, u, k + 1), p \notin found
      PROVE  \E q \in found : \E v \in Neighbours(g, Last(q)) : v \notin Near(R, u, k) /\ p = Append(q, v)
  <2> DEFINE v == p[Len(p)]
  <2>1. /\ p \in Seq(N) /\ IsWalk(R, p) /\ Direct(R, p) /\ p[1] = u /\ Len(p) <= (k + 1) + 1
        /\ Links(R, p, u, v)
    BY <1>1 DEF DirectFrom, Direct, Links
  <2>2. Len(p) = k + 2
    <3>1. ~(Len(p) <= k + 1)
      BY <1>1, <1>7, <2>1 DEF DirectFrom
    <3>2. Len(p) \in Nat
      BY <2>1
    <3>3. \A m \in Nat : m <= (k + 1) + 1 /\ ~(m <= k + 1) => m = k + 2
      OBVIOUS
    <3> QED BY <2>1, <3>1, <3>2, <3>3
  <2> HIDE DEF v
  <2>3. Len(p) # 1
    BY <2>2
  <2>4. PICK q \in Seq(N), x \in N : /\ p = Append(q, v) /\ Len(p) = Len(q) + 1
                                     /\ Links(R, q, u, x) /\ v \in R[x]
    BY <1>1, <2>1, <2>3, WalkBack
  <2>5. Len(q) = k + 1 /\ Len(q) \in Nat
    BY <2>2, <2>4
  <2>6. At(R, u, v, k + 1)
    <3>1. Len(p) - 1 = k + 1
      BY <2>2
    <3> QED BY <2>1, <3>1 DEF Direct, v
  <2>7. v \notin Near(R, u, k)
    <3>1. k \in 0..((k + 1) - 1)
      OBVIOUS
    <3> QED BY <2>6, <3>1 DEF At
  <2>8. x \in Near(R, u, k)
    BY <1>1, <2>4, <2>5 DEF Near
  <2>9. At(R, u, x, k)
    <3> SUFFICES ASSUME NEW e \in 0..(k - 1), x \in Near(R, u, e) PROVE FALSE
      BY <2>8 DEF At
    <3>1. e \in Nat /\ e + 1 <= k /\ e + 1 \in Nat
      OBVIOUS
    <3>2. R \in [N -> SUBSET N] /\ u \in N /\ v \in R[x]
      BY <1>1, <1>2, <2>4
    <3>3. v \in Near(R, u, e + 1)
      BY <3>1, <3>2, NearStep
    <3> QED BY <2>7, <3>1, <3>2, <3>3, NearMonotone
  <2>10. q \in found
    <3>1. Len(q) - 1 = k /\ Len(q) <= k + 1
      BY <2>5
    <3> QED BY <1>1, <2>4, <2>9, <3>1 DEF DirectFrom, Direct, Links
  <2>11. Last(q) = x /\ v \in Neighbours(g, Last(q))
    BY <1>1, <2>4 DEF Links, Last
  <2> QED BY <2>4, <2>7, <2>10, <2>11
<1> HIDE DEF found
<1>8. Continued(g, found) =
        found \cup UNION {{Append(p, v) : v \in Neighbours(g, Last(p)) \ Near(R, u, k)} : p \in found}
  BY <1>4 DEF Continued
<1>9. Continued(g, found) = DirectFrom(R, u, k + 1)
  <2>1. \A p \in Continued(g, found) : p \in DirectFrom(R, u, k + 1)
    <3> SUFFICES ASSUME NEW p \in Continued(g, found), p \notin found
                 PROVE  p \in DirectFrom(R, u, k + 1)
      BY <1>6
    <3>1. PICK q \in found : p \in {Append(q, v) : v \in Neighbours(g, Last(q)) \ Near(R, u, k)}
      BY <1>8
    <3> QED BY <1>5, <3>1
  <2>2. \A p \in DirectFrom(R, u, k + 1) : p \in Continued(g, found)
    <3> SUFFICES ASSUME NEW p \in DirectFrom(R, u, k + 1), p \notin found
                 PROVE  p \in Continued(g, found)
      BY <1>8
    <3>1. PICK q \in found : \E v \in Neighbours(g, Last(q)) : v \notin Near(R, u, k) /\ p = Append(q, v)
      BY <1>7
    <3>2. PICK v \in Neighbours(g, Last(q)) : v \notin Near(R, u, k) /\ p = Append(q, v)
      BY <3>1
    <3> QED BY <1>8, <3>2
  <2> QED BY <2>1, <2>2
<1> QED BY <1>9 DEF found, R

\* ShortestFrom collects the shortest walks.
THEOREM ShortestFromIs ==
  ASSUME NEW g, NEW n \in Nat, NodesIn(g) = 1..n, NEW u \in 1..n
  PROVE  ShortestFrom(g, u) = {p \in Seq(1..n) : Direct(Edges(g), p) /\ p[1] = u}
<1> DEFINE R == Edges(g)
<1>1. R \in [1..n -> SUBSET (1..n)] /\ DOMAIN R = 1..n
  BY DEF Edges, Neighbours
<1>2. PICK f : Rounds(f, g, n, u)
  BY ShortestFold
<1> HIDE DEF R
<1>3. f[0] = DirectFrom(R, u, 0)
  <2>1. <<u>> \in DirectFrom(R, u, 0)
    <3>1. Links(R, <<u>>, u, u) /\ <<u>> \in Seq(1..n)
      BY <1>1, WalkOne
    <3>2. Near(R, u, 0) = {u}
      BY <1>1, NearGrows
    <3>3. At(R, u, u, 0)
      BY <3>2 DEF At
    <3>4. Len(<<u>>) = 1 /\ <<u>>[1] = u /\ 1 - 1 = 0 /\ 1 <= 0 + 1
      OBVIOUS
    <3> QED BY <1>1, <3>1, <3>3, <3>4 DEF DirectFrom, Direct, Links
  <2>2. ASSUME NEW p \in DirectFrom(R, u, 0) PROVE p = <<u>>
    <3>1. p \in Seq(1..n) /\ p # << >> /\ p[1] = u /\ Len(p) <= 0 + 1
      BY <1>1 DEF DirectFrom, Direct, IsWalk
    <3>2. Len(p) \in Nat /\ Len(p) # 0
      BY <3>1, EmptySeq, LenProperties
    <3>3. \A m \in Nat : m # 0 /\ m <= 0 + 1 => m = 1
      OBVIOUS
    <3>4. Len(p) = 1
      BY <3>1, <3>2, <3>3
    <3>5. \A i \in 1..Len(p) : p[i] = <<u>>[i]
      BY <3>1, <3>4
    <3>6. <<u>> \in Seq(1..n) /\ Len(<<u>>) = 1
      OBVIOUS
    <3> QED BY <3>1, <3>4, <3>5, <3>6, SeqEqual
  <2> QED BY <1>2, <2>1, <2>2 DEF Rounds
<1> DEFINE F == {k \in Nat : k <= n => f[k] = DirectFrom(R, u, k)}
<1>4. \A k \in Nat : k \in F
  <2>1. 0 \in F
    BY <1>3
  <2>2. ASSUME NEW k \in Nat, k \in F, k + 1 <= n
        PROVE  f[k + 1] = DirectFrom(R, u, k + 1)
    <3>1. k + 1 \in 1..n /\ (k + 1) - 1 = k /\ k <= n
      BY <2>2
    <3>2. f[k + 1] = Continued(g, f[k])
      BY <1>2, <3>1 DEF Rounds
    <3>3. f[k] = DirectFrom(R, u, k)
      BY <2>2, <3>1
    <3> QED BY <3>2, <3>3, DirectGrows DEF R
  <2>3. \A k \in Nat : k \in F => k + 1 \in F
    BY <2>2
  <2> HIDE DEF F
  <2> QED BY <2>1, <2>3, NumberInduction
<1>5. ShortestFrom(g, u) = DirectFrom(R, u, n)
  BY <1>2, <1>4 DEF Rounds
<1>6. ASSUME NEW p \in Seq(1..n), Direct(R, p), p[1] = u
      PROVE  Len(p) <= n + 1
  <2>1. p # << >> /\ At(R, u, p[Len(p)], Len(p) - 1)
    BY <1>6 DEF Direct, IsWalk
  <2>2. Len(p) \in Nat /\ Len(p) # 0
    BY <2>1, EmptySeq, LenProperties
  <2>3. IsFiniteSet(1..n) /\ Cardinality(1..n) = n
    BY FS_Interval
  <2>4. \A m \in Nat : m # 0 => m - 1 \in Nat /\ (m - 1 < n => m <= n + 1)
    OBVIOUS
  <2>5. Len(p) - 1 \in Nat
    BY <2>2, <2>4
  <2>6. Len(p) - 1 < n
    BY <1>1, <2>1, <2>3, <2>5, AtBound
  <2> QED BY <2>2, <2>4, <2>6
<1> QED BY <1>1, <1>5, <1>6 DEF DirectFrom, R

-----------------------------------------------------------------------------
(* Breadth-first search: a queue of the nodes seen and not yet expanded.   *)

Reached(R, u, v) == \E k \in Nat : At(R, u, v, k)

Depth(R, u, v) == CHOOSE k \in Nat : At(R, u, v, k)

LEMMA DepthIs ==
  ASSUME NEW R, NEW u, NEW v, Reached(R, u, v)
  PROVE  Depth(R, u, v) \in Nat /\ At(R, u, v, Depth(R, u, v))
BY DEF Reached, Depth

LEMMA DepthOf ==
  ASSUME NEW R, NEW u, NEW v, NEW k \in Nat, At(R, u, v, k)
  PROVE  Reached(R, u, v) /\ Depth(R, u, v) = k
<1>1. Reached(R, u, v)
  BY DEF Reached
<1>2. Depth(R, u, v) \in Nat /\ At(R, u, v, Depth(R, u, v))
  BY <1>1, DepthIs
<1> QED BY <1>1, <1>2, AtUnique

\* The nodes in the queue are at most one step farther than low, the nearer
\* ones first.
Lined(R, u, seen, queue, low) ==
  /\ queue \in Seq(seen)
  /\ \A i, j \in 1..Len(queue) : queue[i] = queue[j] => i = j
  /\ \A i, j \in 1..Len(queue) : i <= j => Depth(R, u, queue[i]) <= Depth(R, u, queue[j])
  /\ \A i \in 1..Len(queue) : low <= Depth(R, u, queue[i]) /\ Depth(R, u, queue[i]) <= low + 1

Grown(R, u, seen) == seen \in SUBSET DOMAIN R /\ u \in seen /\ \A v \in seen : Reached(R, u, v)

\* Between two turns of the search: what left the queue is expanded.
Wave(R, u, seen, queue, done) ==
  /\ Grown(R, u, seen)
  /\ \E low \in Nat : Lined(R, u, seen, queue, low)
  /\ \A v \in seen \ Range(queue) : R[v] \subseteq seen
  /\ Cardinality(seen \ Range(queue)) = done

\* Within a turn: c has left the queue and is being expanded.
Crest(R, u, c, seen, queue, done) ==
  /\ Grown(R, u, seen)
  /\ c \in seen /\ c \notin Range(queue)
  /\ Lined(R, u, seen, queue, Depth(R, u, c))
  /\ \A v \in seen \ (Range(queue) \cup {c}) : R[v] \subseteq seen
  /\ Cardinality(seen \ Range(queue)) = done

LEMMA WaveStarts ==
  ASSUME NEW N, NEW R \in [N -> SUBSET N], NEW u \in N
  PROVE  Wave(R, u, {u}, <<u>>, 0) /\ Depth(R, u, u) = 0
<1>1. At(R, u, u, 0)
  <2>1. Near(R, u, 0) = {u}
    BY NearGrows
  <2> QED BY <2>1 DEF At
<1>2. Reached(R, u, u) /\ Depth(R, u, u) = 0
  BY <1>1, DepthOf
<1>3. Grown(R, u, {u})
  BY <1>2 DEF Grown
<1>4. <<u>> \in Seq({u}) /\ Len(<<u>>) = 1 /\ <<u>>[1] = u /\ 1..1 = {1}
  OBVIOUS
<1>5. Range(<<u>>) = {u}
  BY <1>4 DEF Range
<1>6. Lined(R, u, {u}, <<u>>, 0)
  <2> DEFINE q == <<u>>
  <2>1. q \in Seq({u}) /\ Len(q) = 1 /\ q[1] = u
    OBVIOUS
  <2> HIDE DEF q
  <2>2. \A i \in 1..Len(q) : i = 1
    BY <2>1
  <2>3. Lined(R, u, {u}, q, 0)
    BY <1>2, <2>1, <2>2 DEF Lined
  <2> QED BY <2>3 DEF q
<1>7. {u} \ Range(<<u>>) = {}
  BY <1>5
<1>8. Cardinality({}) = 0
  BY FS_EmptySet
<1> QED BY <1>2, <1>3, <1>6, <1>7, <1>8 DEF Wave

LEMMA WaveBreaks ==
  ASSUME NEW N, IsFiniteSet(N), NEW R \in [N -> SUBSET N], NEW u \in N, NEW seen, NEW queue,
         NEW done \in Nat, Wave(R, u, seen, queue, done), queue # << >>
  PROVE  Crest(R, u, Head(queue), seen, Tail(queue), done + 1) /\ Head(queue) \in N
<1> DEFINE c == Head(queue)
           t == Tail(queue)
<1>1. PICK low \in Nat : Lined(R, u, seen, queue, low)
  BY DEF Wave
<1>2. seen \in SUBSET N /\ \A v \in seen : Reached(R, u, v)
  BY DEF Wave, Grown
<1>3. /\ queue \in Seq(seen) /\ \A i, j \in 1..Len(queue) : queue[i] = queue[j] => i = j
      /\ Len(queue) \in Nat /\ Len(queue) >= 1
  <2>1. queue \in Seq(seen) /\ \A i, j \in 1..Len(queue) : queue[i] = queue[j] => i = j
    BY <1>1 DEF Lined
  <2> QED BY <2>1, EmptySeq, LenProperties
<1>4. /\ c = queue[1] /\ c \in seen /\ t \in Seq(seen) /\ Len(t) = Len(queue) - 1
      /\ \A i \in 1..(Len(queue) - 1) : t[i] = queue[i + 1]
  BY <1>3, HeadTailProperties
<1> HIDE DEF c, t
<1>5. Range(queue) = Range(t) \cup {c} /\ c \notin Range(t)
  <2>1. DOMAIN queue = 1..Len(queue) /\ DOMAIN t = 1..(Len(queue) - 1)
    BY <1>3, <1>4, LenProperties
  <2>2. \A i \in 1..Len(queue) : i = 1 \/ (i - 1 \in 1..(Len(queue) - 1) /\ (i - 1) + 1 = i)
    BY <1>3
  <2>3. \A i \in 1..(Len(queue) - 1) : i + 1 \in 1..Len(queue) /\ i + 1 # 1
    BY <1>3
  <2>4. 1 \in 1..Len(queue)
    BY <1>3
  <2>5. c \notin Range(t)
    BY <1>3, <1>4, <2>1, <2>3, <2>4 DEF Range
  <2>6. \A x \in Range(t) : x \in Range(queue)
    BY <1>4, <2>1, <2>3 DEF Range
  <2>7. c \in Range(queue)
    BY <1>4, <2>1, <2>4 DEF Range
  <2>8. \A x \in Range(queue) : x \in Range(t) \cup {c}
    <3> SUFFICES ASSUME NEW i \in 1..Len(queue) PROVE queue[i] \in Range(t) \cup {c}
      BY <2>1 DEF Range
    <3>1. CASE i = 1
      BY <1>4, <3>1
    <3>2. CASE i # 1
      <4>1. i - 1 \in 1..(Len(queue) - 1) /\ t[i - 1] = queue[(i - 1) + 1] /\ (i - 1) + 1 = i
        BY <1>4, <2>2, <3>2
      <4> QED BY <2>1, <4>1 DEF Range
    <3> QED BY <3>1, <3>2
  <2> QED BY <2>5, <2>6, <2>7, <2>8
<1>6. Lined(R, u, seen, t, Depth(R, u, c))
  <2>1. \A i \in 1..Len(t) : i + 1 \in 1..Len(queue) /\ 1 <= i + 1 /\ t[i] = queue[i + 1] /\ 1 \in 1..Len(queue)
    BY <1>3, <1>4
  <2>2. \A v \in seen : Depth(R, u, v) \in Nat
    BY <1>2, DepthIs
  <2>3. \A i, j \in 1..Len(t) : t[i] = t[j] => i = j
    <3> SUFFICES ASSUME NEW i \in 1..Len(t), NEW j \in 1..Len(t), t[i] = t[j] PROVE i = j
      OBVIOUS
    <3>1. i + 1 = j + 1
      BY <1>3, <2>1
    <3> QED BY <3>1
  <2>4. \A i, j \in 1..Len(t) : i <= j => Depth(R, u, t[i]) <= Depth(R, u, t[j])
    <3> SUFFICES ASSUME NEW i \in 1..Len(t), NEW j \in 1..Len(t), i <= j
                 PROVE  Depth(R, u, t[i]) <= Depth(R, u, t[j])
      OBVIOUS
    <3>1. i + 1 <= j + 1
      OBVIOUS
    <3> QED BY <1>1, <2>1, <3>1 DEF Lined
  <2>5. \A i \in 1..Len(t) : /\ Depth(R, u, c) <= Depth(R, u, t[i])
                             /\ Depth(R, u, t[i]) <= Depth(R, u, c) + 1
    <3> SUFFICES ASSUME NEW i \in 1..Len(t)
                 PROVE  /\ Depth(R, u, c) <= Depth(R, u, t[i])
                        /\ Depth(R, u, t[i]) <= Depth(R, u, c) + 1
      OBVIOUS
    <3>1. /\ Depth(R, u, queue[1]) <= Depth(R, u, queue[i + 1])
          /\ low <= Depth(R, u, queue[1]) /\ Depth(R, u, queue[i + 1]) <= low + 1
      BY <1>1, <2>1 DEF Lined
    <3>2. queue[1] \in seen /\ queue[i + 1] \in seen
      BY <1>3, <2>1
    <3>3. \A a, b, l \in Nat : a <= b /\ l <= a /\ b <= l + 1 => b <= a + 1
      OBVIOUS
    <3> QED BY <1>4, <2>1, <2>2, <3>1, <3>2, <3>3
  <2> QED BY <1>4, <2>3, <2>4, <2>5 DEF Lined
<1>7. Cardinality(seen \ Range(t)) = done + 1
  <2>1. seen \ Range(t) = (seen \ Range(queue)) \cup {c} /\ c \notin seen \ Range(queue)
    BY <1>4, <1>5
  <2>2. IsFiniteSet(seen \ Range(queue))
    BY <1>2, FS_Subset
  <2>3. Cardinality(seen \ Range(queue)) = done
    BY DEF Wave
  <2> QED BY <2>1, <2>2, <2>3, FS_AddElement
<1>8. \A v \in seen \ (Range(t) \cup {c}) : R[v] \subseteq seen
  BY <1>5 DEF Wave
<1> QED BY <1>2, <1>4, <1>5, <1>6, <1>7, <1>8 DEF Crest, Wave, c, t

\* Every node that is no farther than c is seen.
LEMMA NearerSeen ==
  ASSUME NEW N, NEW R \in [N -> SUBSET N], NEW u \in N, NEW c, NEW seen, NEW queue, NEW done,
         Crest(R, u, c, seen, queue, done)
  PROVE  Near(R, u, Depth(R, u, c)) \subseteq seen
<1> DEFINE d == Depth(R, u, c)
           F == {k \in Nat : k <= d => Near(R, u, k) \subseteq seen}
<1>1. u \in seen /\ \A v \in seen : Reached(R, u, v)
  BY DEF Crest, Grown
<1>2. d \in Nat
  BY <1>1, DepthIs DEF Crest
<1> HIDE DEF d
<1>3. 0 \in F
  <2>1. Near(R, u, 0) = {u}
    BY NearGrows
  <2> QED BY <1>1, <2>1
<1>4. ASSUME NEW k \in Nat, Near(R, u, k) \subseteq seen, k + 1 <= d
      PROVE  Near(R, u, k + 1) \subseteq seen
  <2>1. ASSUME NEW x \in Near(R, u, k)
        PROVE  R[x] \subseteq seen
    <3>1. x \in seen
      BY <1>4
    <3>2. PICK e \in 0..k : At(R, u, x, e)
      BY AtExists
    <3>3. Depth(R, u, x) = e /\ ~(d <= e) /\ e # d
      BY <1>2, <1>4, <3>2, DepthOf
    <3>4. x # c
      BY <3>3 DEF d
    <3>5. x \notin Range(queue)
      <4> SUFFICES ASSUME x \in Range(queue) PROVE FALSE
        OBVIOUS
      <4>1. queue \in Seq(seen)
        BY DEF Crest, Lined
      <4>2. PICK i \in 1..Len(queue) : queue[i] = x
        BY <4>1, LenProperties DEF Range
      <4>3. d <= Depth(R, u, x)
        BY <4>2 DEF Crest, Lined, d
      <4> QED BY <3>3, <4>3
    <3> QED BY <3>1, <3>4, <3>5 DEF Crest
  <2>2. Near(R, u, k + 1) = Near(R, u, k) \cup UNION {R[x] : x \in Near(R, u, k)}
    BY NearGrows
  <2> QED BY <1>4, <2>1, <2>2
<1>5. \A k \in Nat : k \in F => k + 1 \in F
  <2> SUFFICES ASSUME NEW k \in Nat, k \in F, k + 1 <= d PROVE Near(R, u, k + 1) \subseteq seen
    OBVIOUS
  <2>1. k <= d
    BY <1>2
  <2>2. Near(R, u, k) \subseteq seen
    BY <2>1
  <2> QED BY <1>4, <2>2
<1>6. \A k \in Nat : k \in F
  <2> HIDE DEF F
  <2> QED BY <1>3, <1>5, NumberInduction
<1>7. d \in F /\ d <= d
  BY <1>2, <1>6
<1> QED BY <1>7 DEF d

\* A node first seen from c is one step farther than c.
LEMMA CrestSees ==
  ASSUME NEW N, NEW R \in [N -> SUBSET N], NEW u \in N, NEW c, NEW seen, NEW queue, NEW done,
         Crest(R, u, c, seen, queue, done), NEW w \in R[c], w \notin seen
  PROVE  /\ Reached(R, u, w) /\ Depth(R, u, w) = Depth(R, u, c) + 1 /\ w \in N
         /\ Crest(R, u, c, seen \cup {w}, Append(queue, w), done)
<1> DEFINE d == Depth(R, u, c)
           q == Append(queue, w)
           s == seen \cup {w}
<1>1. /\ u \in seen /\ seen \in SUBSET N /\ c \in seen /\ c \notin Range(queue) /\ w # c
      /\ \A v \in seen : Reached(R, u, v)
  BY DEF Crest, Grown
<1>2. d \in Nat /\ At(R, u, c, d) /\ \A v \in seen : Depth(R, u, v) \in Nat
  BY <1>1, DepthIs
<1>3. w \in N
  BY <1>1
<1>4. /\ queue \in Seq(seen) /\ Len(queue) \in Nat /\ DOMAIN queue = 1..Len(queue)
      /\ \A i, j \in 1..Len(queue) : queue[i] = queue[j] => i = j
      /\ \A i, j \in 1..Len(queue) : i <= j => Depth(R, u, queue[i]) <= Depth(R, u, queue[j])
      /\ \A i \in 1..Len(queue) : d <= Depth(R, u, queue[i]) /\ Depth(R, u, queue[i]) <= d + 1
  <2>1. queue \in Seq(seen)
    BY DEF Crest, Lined
  <2>2. Len(queue) \in Nat /\ DOMAIN queue = 1..Len(queue)
    BY <2>1, LenProperties
  <2> QED BY <2>1, <2>2 DEF Crest, Lined
<1> HIDE DEF d, q, s
<1>5. w \notin Near(R, u, d)
  BY NearerSeen DEF d
<1>6. w \in Near(R, u, d + 1)
  <2>1. c \in Near(R, u, d)
    BY <1>2 DEF At
  <2> QED BY <1>2, <2>1, NearStep
<1>7. At(R, u, w, d + 1) /\ d + 1 \in Nat
  BY <1>2, <1>5, <1>6, AtNext
<1>8. Reached(R, u, w) /\ Depth(R, u, w) = d + 1
  BY <1>7, DepthOf
<1>9. /\ q \in Seq(s) /\ Len(q) = Len(queue) + 1 /\ q[Len(queue) + 1] = w
      /\ \A i \in 1..Len(queue) : q[i] = queue[i]
  <2>1. queue \in Seq(s) /\ w \in s
    BY <1>4, SeqMonotonic DEF s
  <2> QED BY <1>4, <2>1, AppendProperties DEF q
<1>10. Range(q) = Range(queue) \cup {w}
  <2>1. DOMAIN q = 1..(Len(queue) + 1)
    BY <1>9, LenProperties
  <2>2. \A i \in 1..(Len(queue) + 1) : i \in 1..Len(queue) \/ i = Len(queue) + 1
    BY <1>4
  <2>3. Len(queue) + 1 \in 1..(Len(queue) + 1) /\ \A i \in 1..Len(queue) : i \in 1..(Len(queue) + 1)
    BY <1>4
  <2>4. \A x \in Range(q) : x \in Range(queue) \cup {w}
    BY <1>4, <1>9, <2>1, <2>2 DEF Range
  <2>5. \A x \in Range(queue) : x \in Range(q)
    BY <1>4, <1>9, <2>1, <2>3 DEF Range
  <2>6. w \in Range(q)
    BY <1>9, <2>1, <2>3 DEF Range
  <2> QED BY <2>4, <2>5, <2>6
<1>11. Lined(R, u, s, q, d)
  <2>1. \A i \in 1..Len(q) : i \in 1..Len(queue) \/ (i = Len(queue) + 1 /\ q[i] = w)
    BY <1>4, <1>9
  <2>2. \A i \in 1..Len(queue) : queue[i] \in seen /\ queue[i] # w
    BY <1>4
  <2>3. \A i, j \in 1..Len(q) : q[i] = q[j] => i = j
    BY <1>4, <1>9, <2>1, <2>2
  <2>4. \A i \in 1..Len(q) : d <= Depth(R, u, q[i]) /\ Depth(R, u, q[i]) <= d + 1 /\ Depth(R, u, q[i]) \in Nat
    <3> SUFFICES ASSUME NEW i \in 1..Len(q)
                 PROVE  d <= Depth(R, u, q[i]) /\ Depth(R, u, q[i]) <= d + 1 /\ Depth(R, u, q[i]) \in Nat
      OBVIOUS
    <3>1. CASE i \in 1..Len(queue)
      BY <1>2, <1>4, <1>9, <2>2, <3>1
    <3>2. CASE i = Len(queue) + 1
      <4>1. Depth(R, u, q[i]) = d + 1
        BY <1>8, <1>9, <3>2
      <4> QED BY <1>2, <4>1
    <3> QED BY <2>1, <3>1, <3>2
  <2>5. \A i, j \in 1..Len(q) : i <= j => Depth(R, u, q[i]) <= Depth(R, u, q[j])
    <3> SUFFICES ASSUME NEW i \in 1..Len(q), NEW j \in 1..Len(q), i <= j
                 PROVE  Depth(R, u, q[i]) <= Depth(R, u, q[j])
      OBVIOUS
    <3>1. CASE j \in 1..Len(queue)
      <4>1. i \in 1..Len(queue)
        BY <1>4, <3>1
      <4> QED BY <1>4, <1>9, <3>1, <4>1
    <3>2. CASE j = Len(queue) + 1
      <4>1. Depth(R, u, q[j]) = d + 1
        BY <1>8, <1>9, <3>2
      <4> QED BY <2>4, <4>1
    <3> QED BY <2>1, <3>1, <3>2
  <2> QED BY <1>9, <2>3, <2>4, <2>5 DEF Lined
<1>12. Grown(R, u, s)
  BY <1>1, <1>3, <1>8 DEF Grown, s
<1>13. \A v \in s \ (Range(q) \cup {c}) : R[v] \subseteq s
  BY <1>10 DEF Crest, s
<1>14. Cardinality(s \ Range(q)) = done
  <2>1. s \ Range(q) = seen \ Range(queue)
    BY <1>10 DEF s
  <2> QED BY <2>1 DEF Crest
<1>15. Crest(R, u, c, s, q, done)
  BY <1>1, <1>10, <1>11, <1>12, <1>13, <1>14 DEF Crest, s, d
<1> QED BY <1>3, <1>8, <1>15 DEF s, q, d

LEMMA CrestFalls ==
  ASSUME NEW N, NEW R \in [N -> SUBSET N], NEW u \in N, NEW c, NEW seen, NEW queue, NEW done,
         Crest(R, u, c, seen, queue, done), R[c] \subseteq seen
  PROVE  Wave(R, u, seen, queue, done)
<1>1. Depth(R, u, c) \in Nat
  BY DepthIs DEF Crest, Grown
<1> QED BY <1>1 DEF Crest, Wave

\* When the queue is empty, everything that can be reached is seen.
LEMMA WaveDone ==
  ASSUME NEW N, NEW R \in [N -> SUBSET N], NEW u \in N, NEW seen, NEW done,
         Wave(R, u, seen, << >>, done), NEW v, Reached(R, u, v)
  PROVE  v \in seen
<1>1. u \in seen /\ \A x \in seen : R[x] \subseteq seen
  <2>1. Range(<< >>) = {}
    BY DEF Range
  <2> QED BY <2>1 DEF Wave, Grown
<1> DEFINE F == {k \in Nat : Near(R, u, k) \subseteq seen}
<1>2. 0 \in F
  <2>1. Near(R, u, 0) = {u}
    BY NearGrows
  <2> QED BY <1>1, <2>1
<1>3. \A k \in Nat : k \in F => k + 1 \in F
  <2> SUFFICES ASSUME NEW k \in Nat, k \in F PROVE Near(R, u, k + 1) \subseteq seen
    OBVIOUS
  <2>1. Near(R, u, k + 1) = Near(R, u, k) \cup UNION {R[x] : x \in Near(R, u, k)}
    BY NearGrows
  <2> QED BY <1>1, <2>1
<1>4. \A k \in Nat : k \in F
  <2> HIDE DEF F
  <2> QED BY <1>2, <1>3, NumberInduction
<1>5. PICK k \in Nat : At(R, u, v, k)
  BY DEF Reached
<1> QED BY <1>4, <1>5 DEF At

\* As many turns as there are nodes empty the queue.
LEMMA WaveFull ==
  ASSUME NEW N, IsFiniteSet(N), NEW R \in [N -> SUBSET N], NEW u \in N, NEW seen, NEW queue,
         Wave(R, u, seen, queue, Cardinality(N))
  PROVE  queue = << >>
<1>1. seen \ Range(queue) \in SUBSET N /\ Cardinality(seen \ Range(queue)) = Cardinality(N)
  BY DEF Wave, Grown
<1>2. seen \ Range(queue) = N
  BY <1>1, FS_Subset
<1>3. queue \in Seq(seen) /\ seen \in SUBSET N
  BY DEF Wave, Grown, Lined
<1> SUFFICES ASSUME queue # << >> PROVE FALSE
  OBVIOUS
<1>4. Len(queue) \in Nat /\ Len(queue) >= 1
  BY <1>3, EmptySeq, LenProperties
<1>5. 1 \in DOMAIN queue /\ queue[1] \in seen
  BY <1>3, <1>4, LenProperties, ElementOfSeq
<1>6. queue[1] \in Range(queue)
  BY <1>5 DEF Range
<1> QED BY <1>2, <1>3, <1>5, <1>6

-----------------------------------------------------------------------------
(* The folds of cluster_corridor.                                          *)

Spreads(K) == [pred : [K -> SUBSET K], seen : SUBSET K, queue : Seq(K)]

Discovered(c, to, a, e) ==
  IF e[1] \in a.seen \/ to \in a.seen THEN a
  ELSE [pred  |-> [a.pred EXCEPT ![e[1]] = {c}], seen |-> a.seen \cup {e[1]},
        queue |-> Append(a.queue, e[1])]

Popped(b) == [b EXCEPT !.queue = Tail(b.queue)]

Discoveries(f, n, K, adjacency, to, b, list) ==
  /\ f \in [0..n -> Spreads(K)] /\ f[0] = Popped(b) /\ f[n] = Spread(adjacency, to, b)
  /\ \A k \in 1..n : f[k] = Discovered(Head(b.queue), to, f[k - 1], list[k])

\* The neighbours of one cluster, one after the other.
LEMMA SpreadFold ==
  ASSUME NEW K, NEW adjacency, NEW to, NEW b \in Spreads(K), b.queue # << >>,
         NEW n \in Nat, NEW list \in [1..n -> K \X Int], adjacency[Head(b.queue)] = list
  PROVE  \E f : Discoveries(f, n, K, adjacency, to, b, list)
<1> DEFINE S == Spreads(K)
           base == Popped(b)
           step == [z \in Nat \X S |-> IF z[1] \in 1..n THEN Discovered(Head(b.queue), to, z[2], list[z[1]]) ELSE z[2]]
           Table(it) == it = [s \in SUBSET (1..n) |->
                                IF s = {} THEN base ELSE Discovered(Head(b.queue), to, it[s \ {Max(s)}], list[Max(s)])]
<1>1. Head(b.queue) \in K /\ base \in S
  <2>1. b.queue \in Seq(K) /\ b.queue # << >>
    BY DEF Spreads
  <2>2. Head(b.queue) \in K /\ Tail(b.queue) \in Seq(K)
    BY <2>1
  <2> QED BY <2>2 DEF Spreads, Popped
<1>2. \A a \in S, e \in K \X Int : Discovered(Head(b.queue), to, a, e) \in S
  <2> DEFINE c == Head(b.queue)
  <2> HIDE DEF c
  <2>1. c \in K
    BY <1>1 DEF c
  <2>2. \A a \in S, e \in K \X Int : Discovered(c, to, a, e) \in S
    BY <2>1 DEF Spreads, Discovered
  <2> QED BY <2>2 DEF c
<1>3. step \in [Nat \X S -> S]
  <2> HIDE DEF S
  <2> QED BY <1>2
<1>4. Spread(adjacency, to, b) = (CHOOSE it : Table(it))[1..n]
  <2>1. adjacency[Head(b.queue)] = list /\ DOMAIN list = 1..n
    OBVIOUS
  <2> QED BY <2>1 DEF Spread, FoldLeft, MapThenFoldSet, Discovered, Popped
<1> HIDE DEF S, step, base
<1>5. \E it : Table(it)
  <2>1. PICK it \in [SUBSET (1..n) -> S] : Tabled(it, base, step, n)
    BY <1>1, <1>3, TableExists
  <2>2. ASSUME NEW s \in SUBSET (1..n), s # {}
        PROVE  it[s] = Discovered(Head(b.queue), to, it[s \ {Max(s)}], list[Max(s)])
    <3>1. Max(s) \in 1..n /\ Max(s) \in Nat /\ s \ {Max(s)} \in SUBSET (1..n)
      BY <2>2, MaxIs
    <3>2. it[s] = step[<<Max(s), it[s \ {Max(s)}]>>]
      BY <2>1, <2>2 DEF Tabled
    <3> QED BY <2>1, <3>1, <3>2 DEF step
  <2>3. \A s \in SUBSET (1..n) :
          it[s] = IF s = {} THEN base ELSE Discovered(Head(b.queue), to, it[s \ {Max(s)}], list[Max(s)])
    BY <2>1, <2>2 DEF Tabled
  <2>4. Table(it)
    BY <2>3
  <2> HIDE DEF Table
  <2> QED BY <2>4
<1> DEFINE ch == CHOOSE it : Table(it)
<1>6. Table(ch)
  BY <1>5
<1>7. Follows(ch, base, S, step, n)
  <2> HIDE DEF ch
  <2> SUFFICES ASSUME NEW s \in SUBSET (1..n)
               PROVE  /\ s = {} => ch[s] = base
                      /\ s # {} /\ ch[s \ {Max(s)}] \in S => ch[s] = step[<<Max(s), ch[s \ {Max(s)}]>>]
    BY DEF Follows
  <2>1. CASE s = {}
    BY <1>6, <2>1
  <2>2. CASE s # {} /\ ch[s \ {Max(s)}] \in S
    <3>1. Max(s) \in 1..n /\ Max(s) \in Nat
      BY <2>2, MaxIs
    <3>2. ch[s] = Discovered(Head(b.queue), to, ch[s \ {Max(s)}], list[Max(s)])
      BY <1>6, <2>2
    <3> HIDE DEF Table
    <3> QED BY <2>2, <3>1, <3>2 DEF step
  <2> QED BY <2>1, <2>2
<1> DEFINE f == States(ch, n)
<1>8. f \in [0..n -> S] /\ Solves(f, base, step, n)
  <2> HIDE DEF ch, Table
  <2> QED BY <1>1, <1>3, <1>7, FoldStates
<1>9. f[n] = Spread(adjacency, to, b)
  BY <1>4 DEF States
<1> HIDE DEF f
<1>10. ASSUME NEW k \in 1..n
       PROVE  f[k] = Discovered(Head(b.queue), to, f[k - 1], list[k])
  <2>1. f[k] = step[<<k, f[k - 1]>>] /\ k - 1 \in 0..n
    BY <1>8 DEF Solves
  <2> QED BY <1>8, <2>1 DEF step
<1> QED BY <1>8, <1>9, <1>10 DEF Solves, S, base, Discoveries


LEMMA ListedSet ==
  ASSUME NEW S, IsFiniteSet(S)
  PROVE  /\ SetToSeq(S) \in [1..Cardinality(S) -> S] /\ Cardinality(S) \in Nat
         /\ DOMAIN SetToSeq(S) = 1..Cardinality(S) /\ SetToSeq(S) \in Seq(S)
         /\ Len(SetToSeq(S)) = Cardinality(S)
<1>1. Cardinality(S) \in Nat /\ ExistsBijection(1..Cardinality(S), S)
  BY FS_CardinalityType
<1>2. PICK f \in [1..Cardinality(S) -> S] : IsInjective(f)
  BY <1>1 DEF ExistsBijection, Bijection, Injection
<1>3. SetToSeq(S) \in [1..Cardinality(S) -> S]
  BY <1>2 DEF SetToSeq
<1> DEFINE q == SetToSeq(S)
<1> HIDE DEF q
<1>4. q \in [1..Cardinality(S) -> S]
  BY <1>3 DEF q
<1>5. q \in Seq(S) /\ DOMAIN q = 1..Cardinality(S)
  BY <1>1, <1>4, SeqDef
<1>6. Len(q) = Cardinality(S)
  BY <1>1, <1>5, LenProperties
<1> QED BY <1>1, <1>4, <1>5, <1>6 DEF q

Turned(adjacency, to, b) ==
  IF b.queue = << >> \/ to \in b.seen THEN b ELSE Spread(adjacency, to, b)

Unspread(K, from) == [pred |-> [c \in K |-> {}], seen |-> {from}, queue |-> <<from>>]

\* Every cluster lists those it leads to, without itself.
Lists(adjacency, R) ==
  /\ DOMAIN adjacency = DOMAIN R
  /\ \A c \in DOMAIN R : /\ adjacency[c] \in Seq((DOMAIN R) \X Int)
                         /\ {adjacency[c][i][1] : i \in 1..Len(adjacency[c])} = R[c] \ {c}

LEMMA SpreadType ==
  ASSUME NEW K, NEW R \in [K -> SUBSET K], NEW adjacency, Lists(adjacency, R), NEW to,
         NEW b \in Spreads(K), b.queue # << >>
  PROVE  \E f : /\ Discoveries(f, Len(adjacency[Head(b.queue)]), K, adjacency, to, b, adjacency[Head(b.queue)])
                /\ Spread(adjacency, to, b) \in Spreads(K)
<1> DEFINE list == adjacency[Head(b.queue)]
           n == Len(list)
<1>1. Head(b.queue) \in K
  BY DEF Spreads
<1>2. list \in Seq(K \X Int)
  BY <1>1 DEF Lists
<1>3. n \in Nat /\ list \in [1..n -> K \X Int] /\ adjacency[Head(b.queue)] = list
  BY <1>2, LenProperties
<1> HIDE DEF list, n
<1>4. PICK f : Discoveries(f, n, K, adjacency, to, b, list)
  BY <1>3, SpreadFold
<1>5. f \in [0..n -> Spreads(K)] /\ n \in 0..n /\ f[n] = Spread(adjacency, to, b)
  BY <1>3, <1>4 DEF Discoveries
<1>6. Spread(adjacency, to, b) \in Spreads(K)
  BY <1>5
<1> QED BY <1>4, <1>6 DEF list, n

Turns(f, n, K, adjacency, from, to) ==
  /\ f \in [0..n -> Spreads(K)] /\ f[0] = Unspread(K, from)
  /\ ClusterCorridor(adjacency, from, to) =
       IF to \notin f[n].seen THEN {} ELSE {PathBack(f[n].pred, to)}
  /\ \A k \in 1..n : f[k] = Turned(adjacency, to, f[k - 1])

\* The clusters taken from the queue, one after the other.
LEMMA TurnFold ==
  ASSUME NEW K, IsFiniteSet(K), NEW R \in [K -> SUBSET K], NEW adjacency, Lists(adjacency, R),
         NEW from \in K, NEW to \in K, NEW n \in Nat, n = Cardinality(K)
  PROVE  \E f : Turns(f, n, K, adjacency, from, to)
<1> DEFINE S == Spreads(K)
           base == Unspread(K, from)
           step == [z \in Nat \X S |-> IF z[1] \in 1..n THEN Turned(adjacency, to, z[2]) ELSE z[2]]
           Table(it) == it = [s \in SUBSET (1..n) |->
                                IF s = {} THEN base ELSE Turned(adjacency, to, it[s \ {Max(s)}])]
           Ending == FoldLeft(LAMBDA b, k : Turned(adjacency, to, b), Unspread(K, from), SetToSeq(K))
<1>1. base \in S /\ n \in Nat
  <2>1. base \in S
    BY DEF Spreads, Unspread
  <2> QED BY <2>1, ListedSet
<1>2. \A a \in S : Turned(adjacency, to, a) \in S
  BY SpreadType DEF Turned
<1>3. step \in [Nat \X S -> S]
  <2> HIDE DEF S
  <2> QED BY <1>2
<1>4. Ending = (CHOOSE it : Table(it))[1..n]
  <2>1. DOMAIN SetToSeq(K) = 1..n
    BY ListedSet
  <2> QED BY <2>1 DEF FoldLeft, MapThenFoldSet
<1>4a. ClusterCorridor(adjacency, from, to) =
         IF to \notin Ending.seen THEN {} ELSE {PathBack(Ending.pred, to)}
  <2>1. DOMAIN adjacency = K /\ {from, to} \subseteq K
    BY DEF Lists
  <2> QED BY <2>1 DEF ClusterCorridor, Turned, Unspread
<1> HIDE DEF S, step, base, Ending
<1>5. \E it : Table(it)
  <2>1. PICK it \in [SUBSET (1..n) -> S] : Tabled(it, base, step, n)
    BY <1>1, <1>3, TableExists
  <2>2. ASSUME NEW s \in SUBSET (1..n), s # {}
        PROVE  it[s] = Turned(adjacency, to, it[s \ {Max(s)}])
    <3>1. Max(s) \in 1..n /\ Max(s) \in Nat /\ s \ {Max(s)} \in SUBSET (1..n)
      BY <2>2, MaxIs
    <3>2. it[s] = step[<<Max(s), it[s \ {Max(s)}]>>]
      BY <2>1, <2>2 DEF Tabled
    <3> QED BY <2>1, <3>1, <3>2 DEF step
  <2>3. \A s \in SUBSET (1..n) :
          it[s] = IF s = {} THEN base ELSE Turned(adjacency, to, it[s \ {Max(s)}])
    BY <2>1, <2>2 DEF Tabled
  <2>4. Table(it)
    BY <2>3
  <2> HIDE DEF Table
  <2> QED BY <2>4
<1> DEFINE ch == CHOOSE it : Table(it)
<1>6. Table(ch)
  BY <1>5
<1>7. Follows(ch, base, S, step, n)
  <2> HIDE DEF ch
  <2> SUFFICES ASSUME NEW s \in SUBSET (1..n)
               PROVE  /\ s = {} => ch[s] = base
                      /\ s # {} /\ ch[s \ {Max(s)}] \in S => ch[s] = step[<<Max(s), ch[s \ {Max(s)}]>>]
    BY DEF Follows
  <2>1. CASE s = {}
    BY <1>6, <2>1
  <2>2. CASE s # {} /\ ch[s \ {Max(s)}] \in S
    <3>1. Max(s) \in 1..n /\ Max(s) \in Nat
      BY <2>2, MaxIs
    <3>2. ch[s] = Turned(adjacency, to, ch[s \ {Max(s)}])
      BY <1>6, <2>2
    <3> HIDE DEF Table
    <3> QED BY <2>2, <3>1, <3>2 DEF step
  <2> QED BY <2>1, <2>2
<1> DEFINE f == States(ch, n)
<1>8. f \in [0..n -> S] /\ Solves(f, base, step, n)
  <2> HIDE DEF ch, Table
  <2> QED BY <1>1, <1>3, <1>7, FoldStates
<1>9. f[n] = Ending
  BY <1>4 DEF States
<1> HIDE DEF f
<1>10. ASSUME NEW k \in 1..n
       PROVE  f[k] = Turned(adjacency, to, f[k - 1])
  <2>1. f[k] = step[<<k, f[k - 1]>>] /\ k - 1 \in 0..n
    BY <1>8 DEF Solves
  <2> QED BY <1>8, <2>1 DEF step
<1> QED BY <1>4a, <1>8, <1>9, <1>10 DEF Solves, S, base, Turns


Traced(pred, way) == SetToSeq(pred[Head(way)]) \o way

Tracing(f, n, pred, to) ==
  /\ f[0] = <<to>> /\ f[n] = PathBack(pred, to)
  /\ \A k \in 1..n : f[k] = Traced(pred, f[k - 1])

\* The predecessors, one after the other.
LEMMA TraceFold ==
  ASSUME NEW K, IsFiniteSet(K), NEW pred \in [K -> SUBSET K], NEW to \in K, NEW n \in Nat, n = Cardinality(K)
  PROVE  \E f : Tracing(f, n, pred, to)
<1> DEFINE S == Seq(K) \ {<< >>}
           base == <<to>>
           step == [z \in Nat \X S |-> IF z[1] \in 1..n THEN Traced(pred, z[2]) ELSE z[2]]
           Table(it) == it = [s \in SUBSET (1..n) |->
                                IF s = {} THEN base ELSE Traced(pred, it[s \ {Max(s)}])]
<1>1. base \in S /\ n \in Nat
  BY ListedSet
<1>2. \A a \in S : Traced(pred, a) \in S
  <2> SUFFICES ASSUME NEW a \in Seq(K), a # << >>
               PROVE  SetToSeq(pred[Head(a)]) \o a \in S
    BY DEF Traced
  <2>1. Head(a) \in K
    BY HeadTailProperties
  <2>2. IsFiniteSet(pred[Head(a)]) /\ pred[Head(a)] \in SUBSET K
    BY <2>1, FS_Subset
  <2>3. SetToSeq(pred[Head(a)]) \in Seq(K)
    <3>1. SetToSeq(pred[Head(a)]) \in Seq(pred[Head(a)])
      BY <2>2, ListedSet
    <3> QED BY <2>2, <3>1, SeqMonotonic
  <2> DEFINE s == SetToSeq(pred[Head(a)])
  <2> HIDE DEF s
  <2>4. s \o a \in Seq(K) /\ Len(s \o a) = Len(s) + Len(a) /\ Len(s) \in Nat
    BY <2>3, ConcatProperties DEF s
  <2>5. Len(a) \in Nat /\ Len(a) # 0
    BY EmptySeq, LenProperties
  <2>6. s \o a # << >>
    <3>1. Len(s \o a) # 0
      BY <2>4, <2>5
    <3> QED BY <3>1
  <2> QED BY <2>4, <2>6 DEF s
<1>3. step \in [Nat \X S -> S]
  <2> HIDE DEF S
  <2> QED BY <1>2
<1>4. PathBack(pred, to) = (CHOOSE it : Table(it))[1..n]
  <2>1. DOMAIN SetToSeq(DOMAIN pred) = 1..n
    BY ListedSet
  <2> QED BY <2>1 DEF PathBack, FoldLeft, MapThenFoldSet, Traced
<1> HIDE DEF S, step, base
<1>5. \E it : Table(it)
  <2>1. PICK it \in [SUBSET (1..n) -> S] : Tabled(it, base, step, n)
    BY <1>1, <1>3, TableExists
  <2>2. ASSUME NEW s \in SUBSET (1..n), s # {}
        PROVE  it[s] = Traced(pred, it[s \ {Max(s)}])
    <3>1. Max(s) \in 1..n /\ Max(s) \in Nat /\ s \ {Max(s)} \in SUBSET (1..n)
      BY <2>2, MaxIs
    <3>2. it[s] = step[<<Max(s), it[s \ {Max(s)}]>>]
      BY <2>1, <2>2 DEF Tabled
    <3> QED BY <2>1, <3>1, <3>2 DEF step
  <2>3. \A s \in SUBSET (1..n) :
          it[s] = IF s = {} THEN base ELSE Traced(pred, it[s \ {Max(s)}])
    BY <2>1, <2>2 DEF Tabled
  <2>4. Table(it)
    BY <2>3
  <2> HIDE DEF Table
  <2> QED BY <2>4
<1> DEFINE ch == CHOOSE it : Table(it)
<1>6. Table(ch)
  BY <1>5
<1>7. Follows(ch, base, S, step, n)
  <2> HIDE DEF ch
  <2> SUFFICES ASSUME NEW s \in SUBSET (1..n)
               PROVE  /\ s = {} => ch[s] = base
                      /\ s # {} /\ ch[s \ {Max(s)}] \in S => ch[s] = step[<<Max(s), ch[s \ {Max(s)}]>>]
    BY DEF Follows
  <2>1. CASE s = {}
    BY <1>6, <2>1
  <2>2. CASE s # {} /\ ch[s \ {Max(s)}] \in S
    <3>1. Max(s) \in 1..n /\ Max(s) \in Nat
      BY <2>2, MaxIs
    <3>2. ch[s] = Traced(pred, ch[s \ {Max(s)}])
      BY <1>6, <2>2
    <3> HIDE DEF Table
    <3> QED BY <2>2, <3>1, <3>2 DEF step
  <2> QED BY <2>1, <2>2
<1> DEFINE f == States(ch, n)
<1>8. f \in [0..n -> S] /\ Solves(f, base, step, n)
  <2> HIDE DEF ch, Table
  <2> QED BY <1>1, <1>3, <1>7, FoldStates
<1>9. f[n] = PathBack(pred, to)
  BY <1>4 DEF States
<1> HIDE DEF f
<1>10. ASSUME NEW k \in 1..n
       PROVE  f[k] = Traced(pred, f[k - 1])
  <2>1. f[k] = step[<<k, f[k - 1]>>] /\ k - 1 \in 0..n
    BY <1>8 DEF Solves
  <2> QED BY <1>8, <2>1 DEF step
<1> QED BY <1>8, <1>9, <1>10 DEF Solves, S, base, Tracing

-----------------------------------------------------------------------------
(* cluster_corridor is a breadth-first search.                             *)

\* The predecessor of a node is one step nearer to u.
Preceded(R, u, seen, pred) ==
  /\ Grown(R, u, seen) /\ pred[u] = {}
  /\ \A v \in seen \ {u} : \E x \in seen :
       pred[v] = {x} /\ v \in R[x] /\ Depth(R, u, v) = Depth(R, u, x) + 1

Finding(R, u, to, c, a, done) ==
  /\ Preceded(R, u, a.seen, a.pred)
  /\ to \notin a.seen => Crest(R, u, c, a.seen, a.queue, done)

LEMMA DiscoveredKeeps ==
  ASSUME NEW K, NEW R \in [K -> SUBSET K], NEW u \in K, NEW to \in K, NEW c, NEW done,
         NEW a \in Spreads(K), Finding(R, u, to, c, a, done),
         NEW e \in K \X Int, e[1] \in R[c], NEW new, new = Discovered(c, to, a, e)
  PROVE  /\ Finding(R, u, to, c, new, done)
         /\ a.seen \subseteq new.seen
         /\ e[1] \in new.seen \/ to \in new.seen
<1>0. /\ Preceded(R, u, a.seen, a.pred)
      /\ to \notin a.seen => Crest(R, u, c, a.seen, a.queue, done)
  BY DEF Finding
<1>1. CASE e[1] \in a.seen \/ to \in a.seen
  <2>1. new = a
    BY <1>1 DEF Discovered
  <2> QED BY <1>1, <2>1 DEF Finding
<1>2. CASE ~(e[1] \in a.seen \/ to \in a.seen)
  <2> DEFINE w == e[1]
  <2> HIDE DEF w
  <2>1. /\ new.pred = [a.pred EXCEPT ![w] = {c}] /\ new.seen = a.seen \cup {w}
        /\ new.queue = Append(a.queue, w)
    BY <1>2 DEF Discovered, w
  <2>2. w \in R[c] /\ w \notin a.seen /\ w \in K
    BY <1>2 DEF w
  <2>3. Crest(R, u, c, a.seen, a.queue, done)
    BY <1>0, <1>2
  <2>4. /\ Reached(R, u, w) /\ Depth(R, u, w) = Depth(R, u, c) + 1
        /\ Crest(R, u, c, new.seen, new.queue, done)
    <3>1. /\ Reached(R, u, w) /\ Depth(R, u, w) = Depth(R, u, c) + 1
          /\ Crest(R, u, c, a.seen \cup {w}, Append(a.queue, w), done)
      BY <2>2, <2>3, CrestSees
    <3> QED BY <2>1, <3>1
  <2>5. u \in a.seen /\ c \in a.seen /\ a.pred \in [K -> SUBSET K]
    BY <2>3 DEF Crest, Grown, Spreads
  <2>6. new.pred[w] = {c} /\ \A v \in a.seen : new.pred[v] = a.pred[v]
    <3>1. a.seen \in SUBSET K
      BY DEF Spreads
    <3> QED BY <2>1, <2>2, <2>5, <3>1
  <2>7. Preceded(R, u, new.seen, new.pred)
    <3>1. Grown(R, u, new.seen)
      BY <2>4 DEF Crest
    <3>2. new.pred[u] = {}
      BY <1>0, <2>5, <2>6 DEF Preceded
    <3>3. ASSUME NEW v \in new.seen \ {u}
          PROVE  \E x \in new.seen :
                   new.pred[v] = {x} /\ v \in R[x] /\ Depth(R, u, v) = Depth(R, u, x) + 1
      <4>1. CASE v = w
        BY <2>1, <2>2, <2>4, <2>5, <2>6, <4>1
      <4>2. CASE v # w
        <5>1. v \in a.seen \ {u}
          BY <2>1, <4>2
        <5>2. PICK x \in a.seen :
                a.pred[v] = {x} /\ v \in R[x] /\ Depth(R, u, v) = Depth(R, u, x) + 1
          BY <1>0, <5>1 DEF Preceded
        <5> QED BY <2>1, <2>6, <5>1, <5>2
      <4> QED BY <4>1, <4>2
    <3> QED BY <3>1, <3>2, <3>3 DEF Preceded
  <2> QED BY <2>1, <2>4, <2>7 DEF w, Finding
<1> QED BY <1>1, <1>2

LEMMA SpreadKeeps ==
  ASSUME NEW K, IsFiniteSet(K), NEW R \in [K -> SUBSET K], NEW u \in K, NEW to \in K,
         NEW adjacency, Lists(adjacency, R), NEW done \in Nat,
         NEW b \in Spreads(K), b.queue # << >>, to \notin b.seen,
         Preceded(R, u, b.seen, b.pred), Wave(R, u, b.seen, b.queue, done),
         NEW new, new = Spread(adjacency, to, b)
  PROVE  /\ Preceded(R, u, new.seen, new.pred)
         /\ to \notin new.seen => Wave(R, u, new.seen, new.queue, done + 1)
<1> DEFINE c == Head(b.queue)
           list == adjacency[c]
           n == Len(list)
<1>1. Crest(R, u, c, b.seen, Tail(b.queue), done + 1) /\ c \in K
  BY WaveBreaks
<1>2. /\ list \in Seq(K \X Int) /\ {list[i][1] : i \in 1..n} = R[c] \ {c}
  BY <1>1 DEF Lists
<1>3. PICK f : Discoveries(f, n, K, adjacency, to, b, list)
  BY SpreadType
<1> HIDE DEF c, list, n
<1>4. /\ f \in [0..n -> Spreads(K)] /\ f[0] = Popped(b) /\ f[n] = new
      /\ \A k \in 1..n : f[k] = Discovered(c, to, f[k - 1], list[k])
  BY <1>3 DEF Discoveries, c
<1>5. n \in Nat /\ \A k \in 1..n : list[k] \in K \X Int /\ list[k][1] \in R[c]
  <2>1. n \in Nat /\ DOMAIN list = 1..n
    BY <1>2, LenProperties DEF n
  <2>2. \A k \in 1..n : list[k] \in K \X Int
    BY <1>2, <2>1
  <2>3. \A k \in 1..n : list[k][1] \in R[c]
    BY <1>2
  <2> QED BY <2>1, <2>2, <2>3
<1> DEFINE P(k) == /\ Finding(R, u, to, c, f[k], done + 1)
                   /\ \A j \in 1..k : list[j][1] \in f[k].seen \/ to \in f[k].seen
           F == {k \in Nat : k <= n => P(k)}
<1>6. P(0)
  <2>1. f[0].seen = b.seen /\ f[0].pred = b.pred /\ f[0].queue = Tail(b.queue)
    <3>1. b \in [pred : [K -> SUBSET K], seen : SUBSET K, queue : Seq(K)]
      BY DEF Spreads
    <3> QED BY <1>4, <3>1 DEF Popped
  <2>2. \A j \in 1..0 : FALSE
    OBVIOUS
  <2>3. Finding(R, u, to, c, f[0], done + 1)
    BY <1>1, <2>1 DEF Finding
  <2> QED BY <2>2, <2>3
<1>7. ASSUME NEW k \in Nat, k + 1 <= n, P(k)
      PROVE  P(k + 1)
  <2>1. k + 1 \in 1..n /\ (k + 1) - 1 = k /\ k \in 0..n
    BY <1>5, <1>7
  <2>2. f[k + 1] = Discovered(c, to, f[k], list[k + 1]) /\ f[k] \in Spreads(K)
    BY <1>4, <2>1
  <2>3. list[k + 1] \in K \X Int /\ list[k + 1][1] \in R[c]
    BY <1>5, <2>1
  <2>4. Finding(R, u, to, c, f[k], done + 1)
    BY <1>7
  <2>5. /\ Finding(R, u, to, c, f[k + 1], done + 1)
        /\ f[k].seen \subseteq f[k + 1].seen
        /\ list[k + 1][1] \in f[k + 1].seen \/ to \in f[k + 1].seen
    <3> DEFINE a == f[k]
               new1 == f[k + 1]
               e == list[k + 1]
               dn == done + 1
    <3>1. /\ a \in Spreads(K) /\ Finding(R, u, to, c, a, dn) /\ new1 = Discovered(c, to, a, e)
          /\ e \in K \X Int /\ e[1] \in R[c]
      BY <2>2, <2>3, <2>4
    <3> HIDE DEF a, new1, e, dn
    <3>2. /\ Finding(R, u, to, c, new1, dn)
          /\ a.seen \subseteq new1.seen
          /\ e[1] \in new1.seen \/ to \in new1.seen
      BY <3>1, DiscoveredKeeps
    <3> QED BY <3>2 DEF a, new1, e, dn
  <2>6. ASSUME NEW j \in 1..(k + 1) PROVE list[j][1] \in f[k + 1].seen \/ to \in f[k + 1].seen
    <3>1. CASE j = k + 1
      BY <2>5, <3>1
    <3>2. CASE j # k + 1
      <4>1. j \in 1..k
        BY <3>2
      <4> QED BY <1>7, <2>5, <4>1
    <3> QED BY <3>1, <3>2
  <2> QED BY <2>5, <2>6
<1>8. P(n)
  <2>1. 0 \in F
    BY <1>6
  <2>2. \A k \in Nat : k \in F => k + 1 \in F
    <3> SUFFICES ASSUME NEW k \in Nat, k \in F, k + 1 <= n PROVE P(k + 1)
      OBVIOUS
    <3>1. k <= n
      BY <1>5
    <3>2. P(k)
      BY <3>1
    <3> HIDE DEF P
    <3> QED BY <1>7, <3>2
  <2>3. \A k \in Nat : k \in F
    <3> HIDE DEF F
    <3> QED BY <2>1, <2>2, NumberInduction
  <2>4. n \in F /\ n <= n
    BY <1>5, <2>3
  <2> HIDE DEF P
  <2> QED BY <2>4
<1>9. ASSUME to \notin new.seen
      PROVE  Wave(R, u, new.seen, new.queue, done + 1)
  <2>1. Crest(R, u, c, new.seen, new.queue, done + 1) /\ \A j \in 1..n : list[j][1] \in new.seen
    BY <1>4, <1>8, <1>9 DEF Finding
  <2>2. R[c] \subseteq new.seen
    <3>1. c \in new.seen
      BY <2>1 DEF Crest
    <3>2. \A x \in R[c] \ {c} : \E i \in 1..n : x = list[i][1]
      BY <1>2
    <3> QED BY <2>1, <3>1, <3>2
  <2> QED BY <2>1, <2>2, CrestFalls
<1>10. Preceded(R, u, new.seen, new.pred)
  BY <1>4, <1>8 DEF Finding
<1> QED BY <1>9, <1>10

\* The predecessors lead back from a node that is seen along a shortest walk.
LEMMA TraceIs ==
  ASSUME NEW K, IsFiniteSet(K), NEW R \in [K -> SUBSET K], NEW u \in K, NEW to,
         NEW seen, NEW pred \in [K -> SUBSET K], Preceded(R, u, seen, pred), to \in seen
  PROVE  /\ PathBack(pred, to) \in Seq(K) /\ Direct(R, PathBack(pred, to))
         /\ Links(R, PathBack(pred, to), u, to)
<1> DEFINE n == Cardinality(K)
           D(v) == Depth(R, u, v)
<1>1. /\ to \in K /\ u \in seen /\ seen \in SUBSET K /\ n \in Nat /\ \A v \in seen : Reached(R, u, v)
  BY FS_CardinalityType DEF Preceded, Grown
<1>2. \A v \in seen : D(v) \in Nat /\ At(R, u, v, D(v))
  BY <1>1, DepthIs
<1>3. D(u) = 0
  BY WaveStarts
<1>4. D(to) < n
  BY <1>1, <1>2, AtBound
<1> HIDE DEF n, D
<1>5. PICK f : Tracing(f, n, pred, to)
  BY <1>1, TraceFold DEF n
<1> DEFINE P(k) == /\ f[k] \in Seq(K) /\ IsWalk(R, f[k]) /\ f[k][Len(f[k])] = to
                   /\ f[k][1] \in seen /\ D(f[k][1]) + Len(f[k]) = D(to) + 1
                   /\ f[k][1] = u \/ Len(f[k]) = k + 1
           F == {k \in Nat : k <= n => P(k)}
<1>6. P(0)
  <2> DEFINE q == <<to>>
  <2>1. q \in Seq(K) /\ Len(q) = 1 /\ q[1] = to
    BY <1>1
  <2>2. Links(R, q, to, to)
    BY <1>1, WalkOne
  <2> HIDE DEF q
  <2>3. f[0] = q
    BY <1>5 DEF Tracing, q
  <2>4. IsWalk(R, q) /\ q[Len(q)] = to
    BY <2>2 DEF Links
  <2>5. D(to) \in Nat
    BY <1>2
  <2>6. D(q[1]) + Len(q) = D(to) + 1 /\ Len(q) = 0 + 1
    BY <2>1, <2>5
  <2> QED BY <2>1, <2>3, <2>4, <2>6
<1>7. ASSUME NEW k \in Nat, k + 1 <= n, P(k)
      PROVE  P(k + 1)
  <2> DEFINE way == f[k]
             new == f[k + 1]
             h == way[1]
             s == SetToSeq(pred[h])
  <2>1. k + 1 \in 1..n /\ (k + 1) - 1 = k
    BY <1>1, <1>7
  <2>2. way \in Seq(K) /\ way # << >> /\ Head(way) = h /\ Len(way) \in Nat /\ Len(way) >= 1
    <3>1. way \in Seq(K) /\ way # << >>
      BY <1>7 DEF IsWalk
    <3> QED BY <3>1, EmptySeq, LenProperties, HeadTailProperties
  <2>3. new = s \o way
    BY <1>5, <2>1, <2>2 DEF Tracing, Traced
  <2>4. IsWalk(R, way) /\ way[Len(way)] = to /\ h \in seen /\ D(h) + Len(way) = D(to) + 1
    BY <1>7
  <2>5. CASE h = u
    <3>1. s \in Seq({}) /\ Len(s) = 0
      <4>1. pred[h] = {} /\ IsFiniteSet({}) /\ Cardinality({}) = 0
        BY <2>5, FS_EmptySet DEF Preceded
      <4> QED BY <4>1, ListedSet
    <3>2. s = << >>
      BY <3>1, EmptySeq
    <3> HIDE DEF s, way, new, h
    <3>3. new = way
      BY <2>2, <2>3, <3>2, ConcatEmptySeq
    <3> QED BY <1>7, <2>5, <3>3 DEF new, way, h
  <2>6. CASE h # u
    <3>1. PICK x \in seen : pred[h] = {x} /\ h \in R[x] /\ D(h) = D(x) + 1
      BY <2>4, <2>6 DEF Preceded, D
    <3>2. Len(way) = k + 1
      BY <1>7, <2>6
    <3>3. s \in Seq({x}) /\ Len(s) = 1
      <4>1. IsFiniteSet({x}) /\ Cardinality({x}) = 1
        BY FS_Singleton
      <4> QED BY <3>1, <4>1, ListedSet
    <3> HIDE DEF s, way, new, h
    <3>4. x \in K /\ s \in Seq(K) /\ s[1] = x
      <4>1. x \in K
        BY <1>1
      <4>2. s[1] \in {x}
        BY <3>3
      <4> QED BY <3>3, <4>1, <4>2, SeqMonotonic
    <3>5. /\ new \in Seq(K) /\ Len(new) = k + 2 /\ new[1] = x
          /\ \A i \in 1..(k + 1) : new[i + 1] = way[i]
      <4>1. way \in Seq(K) /\ Len(way) = k + 1 /\ Len(s) = 1
        BY <2>2, <3>2, <3>3
      <4>2. /\ s \o way \in Seq(K) /\ Len(s \o way) = 1 + (k + 1)
            /\ \A i \in 1..(1 + (k + 1)) : (s \o way)[i] = IF i <= 1 THEN s[i] ELSE way[i - 1]
        <5>1. /\ s \o way \in Seq(K) /\ Len(s \o way) = Len(s) + Len(way)
              /\ \A i \in 1..(Len(s) + Len(way)) :
                   (s \o way)[i] = IF i <= Len(s) THEN s[i] ELSE way[i - Len(s)]
          BY <3>4, <4>1, ConcatProperties
        <5> QED BY <4>1, <5>1
      <4>3. 1 \in 1..(1 + (k + 1)) /\ \A i \in 1..(k + 1) : i + 1 \in 1..(1 + (k + 1)) /\ ~(i + 1 <= 1) /\ (i + 1) - 1 = i
        OBVIOUS
      <4> QED BY <2>3, <3>4, <4>2, <4>3
    <3>6. IsWalk(R, new)
      <4>1. \A i \in 1..(k + 1) : new[i + 1] \in R[new[i]]
        <5> SUFFICES ASSUME NEW i \in 1..(k + 1) PROVE new[i + 1] \in R[new[i]]
          OBVIOUS
        <5>1. CASE i = 1
          BY <3>1, <3>5, <5>1 DEF h
        <5>2. CASE i # 1
          <6>1. i - 1 \in 1..k /\ i - 1 \in 1..(k + 1) /\ (i - 1) + 1 = i
            BY <5>2
          <6>2. way[(i - 1) + 1] \in R[way[i - 1]]
            <7>1. Len(way) - 1 = k
              BY <3>2
            <7> QED BY <2>4, <6>1, <7>1 DEF IsWalk
          <6>3. new[i + 1] = way[i] /\ new[i] = way[i - 1]
            BY <3>5, <6>1
          <6> QED BY <6>1, <6>2, <6>3
        <5> QED BY <5>1, <5>2
      <4>2. Len(new) - 1 = k + 1 /\ new # << >>
        BY <3>5
      <4> QED BY <3>5, <4>1, <4>2 DEF IsWalk
    <3>7. new[Len(new)] = to
      <4>1. k + 1 \in 1..(k + 1) /\ Len(new) = (k + 1) + 1
        BY <3>5
      <4> QED BY <2>4, <3>2, <3>5, <4>1
    <3>8. D(x) + Len(new) = D(to) + 1
      <4>1. D(x) \in Nat /\ D(to) \in Nat
        BY <1>1, <1>2, <3>1
      <4>2. D(h) = D(x) + 1 /\ D(h) + (k + 1) = D(to) + 1
        BY <2>4, <3>1, <3>2
      <4> QED BY <3>5, <4>1, <4>2
    <3>9. Len(new) = (k + 1) + 1
      BY <3>5
    <3> QED BY <3>1, <3>5, <3>6, <3>7, <3>8, <3>9 DEF new
  <2> QED BY <2>5, <2>6
<1>8. P(n)
  <2>1. 0 \in F
    BY <1>6
  <2>2. \A k \in Nat : k \in F => k + 1 \in F
    <3> SUFFICES ASSUME NEW k \in Nat, k \in F, k + 1 <= n PROVE P(k + 1)
      OBVIOUS
    <3>1. k <= n
      BY <1>1
    <3>2. P(k)
      BY <3>1
    <3> HIDE DEF P
    <3> QED BY <1>7, <3>2
  <2>3. \A k \in Nat : k \in F
    <3> HIDE DEF F
    <3> QED BY <2>1, <2>2, NumberInduction
  <2>4. n \in F /\ n <= n
    BY <1>1, <2>3
  <2> HIDE DEF P
  <2> QED BY <2>4
<1> DEFINE way == PathBack(pred, to)
<1>9. f[n] = way
  BY <1>5 DEF Tracing
<1> HIDE DEF way
<1>10. /\ way \in Seq(K) /\ IsWalk(R, way) /\ way[Len(way)] = to /\ way[1] \in seen
       /\ D(way[1]) + Len(way) = D(to) + 1 /\ (way[1] = u \/ Len(way) = n + 1)
  BY <1>8, <1>9
<1>11. way[1] = u
  <2>1. D(way[1]) \in Nat /\ D(to) \in Nat
    BY <1>2, <1>10
  <2>2. \A a, d, l \in Nat : a + l = d + 1 /\ d < n => l # n + 1
    BY <1>1
  <2>3. Len(way) \in Nat
    BY <1>10, LenProperties
  <2> QED BY <1>4, <1>10, <2>1, <2>2, <2>3
<1>12. Len(way) - 1 = D(to)
  <2>1. Len(way) \in Nat /\ D(to) \in Nat
    BY <1>2, <1>10, LenProperties
  <2>2. 0 + Len(way) = D(to) + 1
    BY <1>3, <1>10, <1>11
  <2> QED BY <2>1, <2>2
<1>13. Direct(R, way)
  BY <1>2, <1>10, <1>11, <1>12 DEF Direct
<1> QED BY <1>10, <1>11, <1>13 DEF way, Links
-----------------------------------------------------------------------------
(* What cluster_corridor returns.                                          *)

\* After k turns: the search is over, or k nodes are expanded, or all are.
Turning(R, u, to, a, k) ==
  /\ Preceded(R, u, a.seen, a.pred)
  /\ to \notin a.seen => \E done \in Nat : /\ Wave(R, u, a.seen, a.queue, done)
                                           /\ done = k \/ a.queue = << >>

LEMMA TurnedKeeps ==
  ASSUME NEW K, IsFiniteSet(K), NEW R \in [K -> SUBSET K], NEW u \in K, NEW to \in K,
         NEW adjacency, Lists(adjacency, R), NEW k \in Nat,
         NEW a \in Spreads(K), Turning(R, u, to, a, k),
         NEW new, new = Turned(adjacency, to, a)
  PROVE  Turning(R, u, to, new, k + 1)
<1>1. CASE a.queue = << >> \/ to \in a.seen
  <2>1. new = a
    BY <1>1 DEF Turned
  <2> QED BY <1>1, <2>1 DEF Turning
<1>2. CASE a.queue # << >> /\ to \notin a.seen
  <2>1. new = Spread(adjacency, to, a)
    BY <1>2 DEF Turned
  <2>2. Preceded(R, u, a.seen, a.pred)
    BY DEF Turning
  <2>3. PICK done \in Nat : Wave(R, u, a.seen, a.queue, done) /\ (done = k \/ a.queue = << >>)
    BY <1>2 DEF Turning
  <2>4. done = k
    BY <1>2, <2>3
  <2>5. /\ Preceded(R, u, new.seen, new.pred)
        /\ to \notin new.seen => Wave(R, u, new.seen, new.queue, done + 1)
    BY <1>2, <2>1, <2>2, <2>3, SpreadKeeps
  <2> QED BY <2>4, <2>5 DEF Turning
<1> QED BY <1>1, <1>2

\* cluster_corridor finds a way exactly when there is one, and a shortest.
THEOREM CorridorIs ==
  ASSUME NEW K, IsFiniteSet(K), NEW R \in [K -> SUBSET K],
         NEW adjacency, Lists(adjacency, R), NEW from \in K, NEW to \in K
  PROVE  /\ ClusterCorridor(adjacency, from, to) # {} <=> Reached(R, from, to)
         /\ \A way \in ClusterCorridor(adjacency, from, to) :
              way \in Seq(K) /\ Direct(R, way) /\ Links(R, way, from, to)
         /\ \A p, q \in ClusterCorridor(adjacency, from, to) : p = q
<1> DEFINE n == Cardinality(K)
<1>1. n \in Nat
  BY FS_CardinalityType
<1> HIDE DEF n
<1>2. PICK f : Turns(f, n, K, adjacency, from, to)
  BY <1>1, TurnFold DEF n
<1>3. /\ f \in [0..n -> Spreads(K)] /\ f[0] = Unspread(K, from)
      /\ ClusterCorridor(adjacency, from, to) = IF to \notin f[n].seen THEN {} ELSE {PathBack(f[n].pred, to)}
      /\ \A k \in 1..n : f[k] = Turned(adjacency, to, f[k - 1])
  BY <1>2 DEF Turns
<1> DEFINE F == {k \in Nat : k <= n => Turning(R, from, to, f[k], k)}
<1>4. Turning(R, from, to, f[0], 0)
  <2>1. /\ f[0].pred = [c \in K |-> {}] /\ f[0].seen = {from} /\ f[0].queue = <<from>>
    BY <1>3 DEF Unspread
  <2>2. Wave(R, from, {from}, <<from>>, 0)
    BY WaveStarts
  <2>3. Preceded(R, from, f[0].seen, f[0].pred)
    BY <2>1, <2>2 DEF Preceded, Wave
  <2> QED BY <2>1, <2>2, <2>3 DEF Turning
<1>5. ASSUME NEW k \in Nat, k + 1 <= n, Turning(R, from, to, f[k], k)
      PROVE  Turning(R, from, to, f[k + 1], k + 1)
  <2> DEFINE a == f[k]
             new == f[k + 1]
  <2>1. k + 1 \in 1..n /\ (k + 1) - 1 = k /\ k \in 0..n
    BY <1>1, <1>5
  <2>2. a \in Spreads(K) /\ new = Turned(adjacency, to, a) /\ Turning(R, from, to, a, k)
    BY <1>3, <1>5, <2>1
  <2> HIDE DEF a, new
  <2>3. Turning(R, from, to, new, k + 1)
    BY <2>2, TurnedKeeps
  <2> QED BY <2>3 DEF new
<1>6. Turning(R, from, to, f[n], n) /\ f[n] \in Spreads(K)
  <2>1. 0 \in F
    BY <1>4
  <2>2. \A k \in Nat : k \in F => k + 1 \in F
    <3> SUFFICES ASSUME NEW k \in Nat, k \in F, k + 1 <= n
                 PROVE  Turning(R, from, to, f[k + 1], k + 1)
      OBVIOUS
    <3>1. k <= n
      BY <1>1
    <3>2. Turning(R, from, to, f[k], k)
      BY <3>1
    <3> QED BY <1>5, <3>2
  <2>3. \A k \in Nat : k \in F
    <3> HIDE DEF F
    <3> QED BY <2>1, <2>2, NumberInduction
  <2>4. n \in F /\ n <= n /\ n \in 0..n
    BY <1>1, <2>3
  <2> QED BY <1>3, <2>4
<1> DEFINE b == f[n]
<1> HIDE DEF b
<1>7. /\ b \in Spreads(K) /\ Turning(R, from, to, b, n)
      /\ ClusterCorridor(adjacency, from, to) = IF to \notin b.seen THEN {} ELSE {PathBack(b.pred, to)}
  BY <1>3, <1>6 DEF b
<1>8. CASE to \in b.seen
  <2>1. ClusterCorridor(adjacency, from, to) = {PathBack(b.pred, to)}
    BY <1>7, <1>8
  <2>2. Reached(R, from, to) /\ Preceded(R, from, b.seen, b.pred)
    BY <1>7, <1>8 DEF Turning, Preceded, Grown
  <2>3. b.pred \in [K -> SUBSET K]
    BY <1>7 DEF Spreads
  <2>4. /\ PathBack(b.pred, to) \in Seq(K) /\ Direct(R, PathBack(b.pred, to))
        /\ Links(R, PathBack(b.pred, to), from, to)
    BY <1>8, <2>2, <2>3, TraceIs
  <2> QED BY <2>1, <2>2, <2>4
<1>9. CASE to \notin b.seen
  <2>1. ClusterCorridor(adjacency, from, to) = {}
    BY <1>7, <1>9
  <2>2. PICK done \in Nat : Wave(R, from, b.seen, b.queue, done) /\ (done = n \/ b.queue = << >>)
    BY <1>7, <1>9 DEF Turning
  <2>3. b.queue = << >>
    BY <2>2, WaveFull DEF n
  <2>4. ~Reached(R, from, to)
    BY <1>9, <2>2, <2>3, WaveDone
  <2> QED BY <2>1, <2>4
<1> QED BY <1>8, <1>9
-----------------------------------------------------------------------------
(* Walks under other names.                                                *)

Mapped(f, p) == [i \in 1..Len(p) |-> f[p[i]]]

\* f takes what R leads to to what E leads to.
Carries(f, R, E) ==
  f \in [DOMAIN R -> DOMAIN E] /\ \A x \in DOMAIN R : \A y \in R[x] : f[y] \in E[f[x]]

LEMMA WalkMapped ==
  ASSUME NEW K, NEW N, NEW R \in [K -> SUBSET K], NEW E \in [N -> SUBSET N],
         NEW f, Carries(f, R, E), NEW p \in Seq(K), NEW u, NEW v, Links(R, p, u, v)
  PROVE  Links(E, Mapped(f, p), f[u], f[v]) /\ Mapped(f, p) \in Seq(N)
<1> DEFINE q == Mapped(f, p)
<1>1. /\ p # << >> /\ Len(p) \in Nat /\ p[1] = u /\ p[Len(p)] = v
      /\ \A i \in 1..(Len(p) - 1) : p[i + 1] \in R[p[i]]
  BY DEF Links, IsWalk
<1>2. Len(p) >= 1
  BY <1>1, EmptySeq, LenProperties
<1>3. f \in [K -> N] /\ \A x \in K : \A y \in R[x] : f[y] \in E[f[x]]
  BY DEF Carries
<1>4. \A i \in 1..Len(p) : p[i] \in K /\ f[p[i]] \in N
  BY <1>3, ElementOfSeq
<1>5. q \in [1..Len(p) -> N] /\ \A i \in 1..Len(p) : q[i] = f[p[i]]
  BY <1>4 DEF Mapped
<1>6. q \in Seq(N)
  BY <1>1, <1>5, SeqDef
<1> HIDE DEF q
<1>7. Len(q) = Len(p)
  BY <1>1, <1>5, <1>6, LenProperties
<1>8. q # << >>
  BY <1>2, <1>6, <1>7, EmptySeq
<1>9. ASSUME NEW i \in 1..(Len(q) - 1)
      PROVE  q[i + 1] \in E[q[i]]
  <2>1. i \in 1..(Len(p) - 1) /\ i \in 1..Len(p) /\ i + 1 \in 1..Len(p)
    BY <1>1, <1>7
  <2>2. p[i + 1] \in R[p[i]] /\ p[i] \in K
    BY <1>1, <1>4, <2>1
  <2> QED BY <1>3, <1>5, <2>1, <2>2
<1>10. q[1] = f[u] /\ q[Len(q)] = f[v]
  <2>1. 1 \in 1..Len(p) /\ Len(p) \in 1..Len(p)
    BY <1>1, <1>2
  <2> QED BY <1>1, <1>5, <1>7, <2>1
<1>11. Links(E, q, f[u], f[v])
  BY <1>6, <1>8, <1>9, <1>10 DEF Links, IsWalk
<1> QED BY <1>6, <1>7, <1>11 DEF q

LEMMA MappedLen ==
  ASSUME NEW K, NEW p \in Seq(K), NEW f
  PROVE  Len(Mapped(f, p)) = Len(p)
<1> DEFINE T == {f[x] : x \in K}
           q == Mapped(f, p)
<1>1. Len(p) \in Nat /\ \A i \in 1..Len(p) : p[i] \in K
  BY LenProperties, ElementOfSeq
<1>2. q \in [1..Len(p) -> T]
  BY <1>1 DEF Mapped
<1> HIDE DEF q, T
<1>3. q \in Seq(T) /\ DOMAIN q = 1..Len(p)
  BY <1>1, <1>2, SeqDef
<1>4. Len(q) = Len(p)
  BY <1>1, <1>3, LenProperties
<1> QED BY <1>4 DEF q

LEMMA NearMapped ==
  ASSUME NEW K, NEW N, NEW R \in [K -> SUBSET K], NEW E \in [N -> SUBSET N],
         NEW f, Carries(f, R, E), NEW u \in K, NEW k \in Nat, NEW v \in Near(R, u, k)
  PROVE  f[v] \in Near(E, f[u], k)
<1>1. PICK p \in Seq(K) : Links(R, p, u, v) /\ Len(p) <= k + 1 /\ v \in K
  BY DEF Near
<1>2. /\ Links(E, Mapped(f, p), f[u], f[v]) /\ Mapped(f, p) \in Seq(N)
      /\ Len(Mapped(f, p)) = Len(p)
  <2>1. Links(R, p, u, v)
    BY <1>1
  <2>2. Links(E, Mapped(f, p), f[u], f[v]) /\ Mapped(f, p) \in Seq(N)
    BY <2>1, WalkMapped
  <2> QED BY <2>2, MappedLen
<1>3. f[v] \in N
  BY <1>1 DEF Carries
<1> QED BY <1>1, <1>2, <1>3 DEF Near

\* f and h take one to the other and back.
Renames(f, h, R, E) ==
  Carries(f, R, E) /\ Carries(h, E, R) /\ \A x \in DOMAIN R : h[f[x]] = x

\* The same nodes under other names are as far apart.
LEMMA AtMapped ==
  ASSUME NEW K, NEW N, NEW R \in [K -> SUBSET K], NEW E \in [N -> SUBSET N],
         NEW f, NEW h, Renames(f, h, R, E), NEW u \in K, NEW v \in K, NEW k \in Nat
  PROVE  At(R, u, v, k) <=> At(E, f[u], f[v], k)
<1>0. Carries(f, R, E) /\ Carries(h, E, R) /\ \A x \in K : h[f[x]] = x
  BY DEF Renames
<1>1. f[u] \in N /\ f[v] \in N
  BY <1>0 DEF Carries
<1>2. \A e \in Nat : v \in Near(R, u, e) => f[v] \in Near(E, f[u], e)
  BY <1>0, NearMapped
<1>3. \A e \in Nat : f[v] \in Near(E, f[u], e) => v \in Near(R, u, e)
  <2> SUFFICES ASSUME NEW e \in Nat, f[v] \in Near(E, f[u], e) PROVE v \in Near(R, u, e)
    OBVIOUS
  <2>1. h[f[v]] \in Near(R, h[f[u]], e)
    BY <1>0, <1>1, NearMapped
  <2> QED BY <1>0, <2>1
<1>4. \A e \in 0..(k - 1) : e \in Nat
  OBVIOUS
<1> QED BY <1>2, <1>3, <1>4 DEF At

LEMMA DirectMapped ==
  ASSUME NEW K, NEW N, NEW R \in [K -> SUBSET K], NEW E \in [N -> SUBSET N],
         NEW f, NEW h, Renames(f, h, R, E),
         NEW p \in Seq(K), NEW u, NEW v, Direct(R, p), Links(R, p, u, v)
  PROVE  /\ Direct(E, Mapped(f, p)) /\ Links(E, Mapped(f, p), f[u], f[v])
         /\ Mapped(f, p) \in Seq(N)
<1>1. /\ Links(E, Mapped(f, p), f[u], f[v]) /\ Mapped(f, p) \in Seq(N)
      /\ Len(Mapped(f, p)) = Len(p)
  <2>1. Carries(f, R, E)
    BY DEF Renames
  <2>2. Links(E, Mapped(f, p), f[u], f[v]) /\ Mapped(f, p) \in Seq(N)
    BY <2>1, WalkMapped
  <2> QED BY <2>2, MappedLen
<1>2. Len(p) - 1 \in Nat /\ u \in K /\ v \in K
  <2>1. p # << >> /\ p[1] = u /\ p[Len(p)] = v
    BY DEF Links, IsWalk
  <2>2. Len(p) \in Nat /\ Len(p) # 0
    BY <2>1, EmptySeq, LenProperties
  <2>3. 1 \in 1..Len(p) /\ Len(p) \in 1..Len(p) /\ Len(p) - 1 \in Nat
    BY <2>2
  <2> QED BY <2>1, <2>3, ElementOfSeq
<1>3. At(R, u, v, Len(p) - 1)
  BY DEF Direct, Links
<1>4. At(E, f[u], f[v], Len(p) - 1)
  <2> DEFINE d == Len(p) - 1
  <2>1. d \in Nat /\ At(R, u, v, d)
    BY <1>2, <1>3
  <2> HIDE DEF d
  <2>2. At(R, u, v, d) <=> At(E, f[u], f[v], d)
    BY <1>2, <2>1, AtMapped
  <2> QED BY <2>1, <2>2 DEF d
<1> QED BY <1>1, <1>4 DEF Direct, Links

\* What can be reached is reached by a shortest walk.
LEMMA ReachedDirect ==
  ASSUME NEW N, NEW R \in [N -> SUBSET N], NEW u \in N, NEW v, Reached(R, u, v)
  PROVE  \E p \in Seq(N) : Direct(R, p) /\ Links(R, p, u, v)
<1>1. PICK k \in Nat : At(R, u, v, k)
  BY DEF Reached
<1>2. v \in Near(R, u, k)
  BY <1>1 DEF At
<1>3. \A x : x \in Near(R, u, k) <=> \E p \in DirectFrom(R, u, k) : p[Len(p)] = x
  BY DirectReach
<1>4. PICK p \in DirectFrom(R, u, k) : p[Len(p)] = v
  BY <1>2, <1>3
<1>5. p \in Seq(N) /\ Direct(R, p) /\ Links(R, p, u, v)
  BY <1>4 DEF DirectFrom, Direct, Links
<1> QED BY <1>5

\* The shortest paths between two nodes.
LEMMA BetweenIs ==
  ASSUME NEW g, NEW n \in Nat, NodesIn(g) = 1..n, NEW u \in 1..n, NEW v \in 1..n
  PROVE  /\ Between(ShortestPaths(g), u, v) =
              {p \in Seq(1..n) : Direct(Edges(g), p) /\ Links(Edges(g), p, u, v)}
         /\ Between(ShortestPaths(g), u, v) # {} <=> Reached(Edges(g), u, v)
<1> DEFINE R == Edges(g)
           N == 1..n
           ways == Between(ShortestPaths(g), u, v)
<1>1. R \in [N -> SUBSET N]
  BY DEF Edges, Neighbours
<1>2. ASSUME NEW p
      PROVE  p \in ways <=> p \in Seq(N) /\ Direct(R, p) /\ Links(R, p, u, v)
  <2>1. p \in ShortestPaths(g) <=> \E w \in N : p \in ShortestFrom(g, w)
    BY DEF ShortestPaths
  <2>2. \A w \in N : p \in ShortestFrom(g, w) <=> p \in Seq(N) /\ Direct(R, p) /\ p[1] = w
    BY ShortestFromIs
  <2> HIDE DEF R
  <2>3. p \in ways <=> p \in Seq(N) /\ Direct(R, p) /\ p[1] = u /\ Last(p) = v
    BY <2>1, <2>2 DEF Between
  <2> QED BY <2>3 DEF Direct, Links, Last
<1>3. ways # {} <=> Reached(R, u, v)
  <2> HIDE DEF R, ways
  <2>1. ASSUME NEW p \in ways
        PROVE  Reached(R, u, v)
    <3>1. p \in Seq(N) /\ Direct(R, p) /\ Links(R, p, u, v)
      BY <1>2
    <3>2. At(R, u, v, Len(p) - 1)
      BY <3>1 DEF Direct, Links
    <3>3. Len(p) - 1 \in Nat
      <4>1. Len(p) \in Nat /\ Len(p) # 0
        BY <3>1, EmptySeq, LenProperties DEF Links, IsWalk
      <4> QED BY <4>1
    <3> QED BY <3>2, <3>3 DEF Reached
  <2>2. ASSUME Reached(R, u, v)
        PROVE  ways # {}
    <3>1. R \in [N -> SUBSET N] /\ u \in N
      BY <1>1
    <3> HIDE DEF N
    <3>2. PICK p \in Seq(N) : Direct(R, p) /\ Links(R, p, u, v)
      BY <2>2, <3>1, ReachedDirect
    <3> QED BY <1>2, <3>2
  <2> QED BY <2>1, <2>2
<1>4. ways \subseteq Seq(N)
  BY <1>2
<1>5. ways = {p \in Seq(N) : Direct(R, p) /\ Links(R, p, u, v)}
  <2> HIDE DEF ways, R
  <2> QED BY <1>2
<1> QED BY <1>3, <1>5
-----------------------------------------------------------------------------
(* Corridors are shortest.                                                 *)

\* The clusters, numbered from 0, and those they share edges with.
Crossings(super, n) ==
  [c \in 0..(n - 1) |-> {d \in 0..(n - 1) : super.mult[<<c + 1, d + 1>>] > 0}]

\* What cluster_adjacency stores.
LEMMA AdjacencyLists ==
  ASSUME NEW g, NEW p, NEW super, super = Aggregate(g, p), IsWeighted(super),
         NEW n \in Nat, n = CommunityCount(p), NodesIn(super) = 1..n
  PROVE  Lists(ClusterAdjacency(g, p), Crossings(super, n))
<1> DEFINE K == 0..(n - 1)
           R == Crossings(super, n)
           adj == ClusterAdjacency(g, p)
           Order(c) == Ascending({d - 1 : d \in Neighbours(super, c + 1) \ {c + 1}})
<1>1. super.mult \in [(1..n) \X (1..n) -> Nat]
  BY WeightedHas
<1>2. adj = [c \in K |-> [i \in DOMAIN Order(c) |-> <<Order(c)[i], super.mult[<<c + 1, Order(c)[i] + 1>>]>>]]
  BY DEF ClusterAdjacency
<1>3. DOMAIN R = K /\ DOMAIN adj = K
  BY <1>2 DEF Crossings
<1>4. ASSUME NEW c \in K
      PROVE  adj[c] \in Seq(K \X Int) /\ {adj[c][i][1] : i \in 1..Len(adj[c])} = R[c] \ {c}
  <2> DEFINE S == {d - 1 : d \in Neighbours(super, c + 1) \ {c + 1}}
             s == Order(c)
             list == adj[c]
  <2>1. c \in Int /\ c + 1 \in 1..n /\ \A d \in 1..n : d \in Int /\ d - 1 \in K /\ (d - 1) + 1 = d
    OBVIOUS
  <2>2. Neighbours(super, c + 1) = {d \in 1..n : super.mult[<<c + 1, d>>] > 0}
    BY DEF Neighbours
  <2>3. S = R[c] \ {c}
    <3>1. R[c] = {d \in K : super.mult[<<c + 1, d + 1>>] > 0}
      BY DEF Crossings
    <3>2. \A x \in S : x \in R[c] \ {c}
      <4> SUFFICES ASSUME NEW d \in 1..n, super.mult[<<c + 1, d>>] > 0, d # c + 1
                   PROVE  d - 1 \in R[c] /\ d - 1 # c
        BY <2>2
      <4>1. d - 1 # c
        BY <2>1
      <4> HIDE DEF K
      <4> QED BY <2>1, <3>1, <4>1
    <3>3. \A x \in R[c] \ {c} : x \in S
      <4> SUFFICES ASSUME NEW x \in K, super.mult[<<c + 1, x + 1>>] > 0, x # c PROVE x \in S
        BY <3>1
      <4>1. x + 1 \in 1..n /\ (x + 1) - 1 = x /\ x + 1 # c + 1
        OBVIOUS
      <4>2. x + 1 \in Neighbours(super, c + 1) \ {c + 1}
        BY <2>2, <4>1
      <4> QED BY <4>1, <4>2
    <3> HIDE DEF S, R
    <3> QED BY <3>2, <3>3
  <2>4. S \in SUBSET K /\ IsFiniteSet(S) /\ S \subseteq Int
    <3>1. S \in SUBSET K
      <4>1. R[c] \in SUBSET K
        BY DEF Crossings
      <4> QED BY <2>3, <4>1
    <3>2. IsFiniteSet(K) /\ K \subseteq Int
      BY FS_Interval
    <3> HIDE DEF S, K
    <3>3. IsFiniteSet(S)
      BY <3>1, <3>2, FS_Subset
    <3> QED BY <3>1, <3>2, <3>3
  <2>5. s \in Seq(S) /\ Range(s) = S
    <3> HIDE DEF S
    <3>1. Ascending(S) \in Seq(S) /\ Range(Ascending(S)) = S
      BY <2>4, AscendingSorts
    <3> QED BY <3>1 DEF S
  <2>6. list = [i \in DOMAIN s |-> <<s[i], super.mult[<<c + 1, s[i] + 1>>]>>]
    BY <1>2
  <2> HIDE DEF s, list, S
  <2>7. DOMAIN s = 1..Len(s) /\ Len(s) \in Nat
    BY <2>5, LenProperties
  <2>8. \A i \in 1..Len(s) : s[i] \in K /\ super.mult[<<c + 1, s[i] + 1>>] \in Int
    <3> SUFFICES ASSUME NEW i \in 1..Len(s) PROVE s[i] \in K /\ super.mult[<<c + 1, s[i] + 1>>] \in Int
      OBVIOUS
    <3>1. s[i] \in K
      BY <2>4, <2>5, ElementOfSeq
    <3>2. s[i] + 1 \in 1..n
      BY <3>1
    <3>3. <<c + 1, s[i] + 1>> \in (1..n) \X (1..n)
      BY <2>1, <3>2
    <3> QED BY <1>1, <3>1, <3>3
  <2>9. list \in [1..Len(s) -> K \X Int] /\ \A i \in 1..Len(s) : list[i][1] = s[i]
    <3> HIDE DEF K
    <3> QED BY <2>6, <2>7, <2>8
  <2>10. list \in Seq(K \X Int) /\ DOMAIN list = 1..Len(s)
    BY <2>7, <2>9, SeqDef
  <2>11. Len(list) = Len(s)
    BY <2>7, <2>10, LenProperties
  <2>12. {list[i][1] : i \in 1..Len(list)} = Range(s)
    <3>1. Range(s) = {s[i] : i \in 1..Len(s)}
      BY <2>7 DEF Range
    <3> QED BY <2>9, <2>11, <3>1
  <2> QED BY <2>3, <2>5, <2>10, <2>12 DEF list
<1> HIDE DEF R, adj, K
<1>5. Lists(adj, R)
  BY <1>3, <1>4 DEF Lists
<1> QED BY <1>5 DEF R, adj

\* Clusters are as far apart as their nodes in the aggregated graph.
LEMMA CrossingsRenamed ==
  ASSUME NEW super, NEW n \in Nat, NodesIn(super) = 1..n,
         NEW f, f = [c \in 0..(n - 1) |-> c + 1], NEW h, h = [d \in 1..n |-> d - 1]
  PROVE  /\ Crossings(super, n) \in [0..(n - 1) -> SUBSET (0..(n - 1))]
         /\ Edges(super) \in [1..n -> SUBSET (1..n)]
         /\ Renames(f, h, Crossings(super, n), Edges(super))
<1> DEFINE K == 0..(n - 1)
           N == 1..n
           R == Crossings(super, n)
           E == Edges(super)
<1>1. \A c \in K : c + 1 \in N /\ (c + 1) - 1 = c
  OBVIOUS
<1>2. \A d \in N : d - 1 \in K /\ (d - 1) + 1 = d
  OBVIOUS
<1>3. R = [c \in K |-> {d \in K : super.mult[<<c + 1, d + 1>>] > 0}]
  BY DEF Crossings
<1>4. E = [x \in N |-> {j \in N : super.mult[<<x, j>>] > 0}]
  BY DEF Edges, Neighbours
<1>5. f = [c \in K |-> c + 1] /\ h = [d \in N |-> d - 1]
  OBVIOUS
<1> HIDE DEF K, N, R, E
<1>6. R \in [K -> SUBSET K] /\ E \in [N -> SUBSET N]
  BY <1>3, <1>4
<1>7. Carries(f, R, E)
  <2>1. f \in [K -> N]
    BY <1>1, <1>5
  <2>2. ASSUME NEW c \in K, NEW d \in R[c] PROVE f[d] \in E[f[c]]
    <3>1. d \in K /\ super.mult[<<c + 1, d + 1>>] > 0
      BY <1>3
    <3> QED BY <1>1, <1>4, <1>5, <3>1
  <2> QED BY <1>6, <2>1, <2>2 DEF Carries
<1>8. Carries(h, E, R)
  <2>1. h \in [N -> K]
    BY <1>2, <1>5
  <2>2. ASSUME NEW x \in N, NEW y \in E[x] PROVE h[y] \in R[h[x]]
    <3>1. y \in N /\ super.mult[<<x, y>>] > 0
      BY <1>4
    <3>2. h[x] = x - 1 /\ h[y] = y - 1 /\ x - 1 \in K /\ y - 1 \in K
      BY <1>2, <1>5, <3>1
    <3>3. super.mult[<<(x - 1) + 1, (y - 1) + 1>>] > 0
      BY <1>2, <3>1
    <3> QED BY <1>3, <3>2, <3>3
  <2> QED BY <1>6, <2>1, <2>2 DEF Carries
<1>9. \A c \in K : h[f[c]] = c
  BY <1>1, <1>5
<1>10. Renames(f, h, R, E)
  BY <1>6, <1>7, <1>8, <1>9 DEF Renames
<1> QED BY <1>6, <1>10 DEF K, N, R, E

LEMMA DividedIs ==
  ASSUME FilesInv, part # << >>
  PROVE  /\ IsWeighted(graph) /\ NodesIn(graph) = 1..size /\ size \in Nat
         /\ IsPartition(part, NodesIn(graph))
         /\ IsWeighted(Aggregate(graph, part))
         /\ NodesIn(Aggregate(graph, part)) = 1..CommunityCount(part)
         /\ Aggregate(graph, part).mult = Merging(graph, part)
         /\ CommunityCount(part) \in Nat
<1>1. IsWeighted(graph) /\ NodesIn(graph) = 1..size /\ size \in Nat
  BY MeantIs DEF FilesInv
<1>2. IsPartition(part, NodesIn(graph))
  <2>1. PICK raw \in [1..size -> 1..size] : part = Renumbered(raw)
    BY DEF FilesInv, Partitions
  <2>2. IsPartition(Renumbered(raw), 1..size)
    BY <1>1, RenumberedIs
  <2> QED BY <1>1, <2>1, <2>2
<1>3. CommunityCount(part) \in Nat
  BY <1>1, <1>2, PartitionHas, FS_Interval
<1> QED BY <1>1, <1>2, <1>3, AggregateIs

LEMMA CorridorsAreShortest ==
  ASSUME FilesInv, part # << >>
  PROVE  /\ DOMAIN ClusterAdjacency(graph, part) = 0..(CommunityCount(part) - 1)
         /\ \A from, to \in 0..(CommunityCount(part) - 1) :
              LET ways  == Between(ShortestPaths(Aggregate(graph, part)), from + 1, to + 1)
                  found == ClusterCorridor(ClusterAdjacency(graph, part), from, to)
              IN  /\ found = {} <=> ways = {}
                  /\ \A way \in found : [i \in DOMAIN way |-> way[i] + 1] \in ways
<1> DEFINE n == CommunityCount(part)
           super == Aggregate(graph, part)
           adj == ClusterAdjacency(graph, part)
<1>3. IsWeighted(super) /\ NodesIn(super) = 1..n
  BY DividedIs
<1>4. n \in Nat
  BY DividedIs
<1> HIDE DEF n, super, adj
<1> DEFINE K == 0..(n - 1)
           N == 1..n
           R == Crossings(super, n)
           E == Edges(super)
           f == [c \in 0..(n - 1) |-> c + 1]
           h == [d \in 1..n |-> d - 1]
<1>5. Lists(adj, R)
  BY <1>3, <1>4, AdjacencyLists DEF n, super, adj
<1>6. R \in [K -> SUBSET K] /\ E \in [N -> SUBSET N] /\ Renames(f, h, R, E)
  <2> HIDE DEF f, h
  <2>1. f = [c \in 0..(n - 1) |-> c + 1] /\ h = [d \in 1..n |-> d - 1]
    BY DEF f, h
  <2> QED BY <1>3, <1>4, <2>1, CrossingsRenamed
<1>7. DOMAIN adj = K /\ IsFiniteSet(K)
  <2>1. IsFiniteSet(K)
    BY <1>4, FS_Interval
  <2> QED BY <1>5, <1>6, <2>1 DEF Lists
<1>8. ASSUME NEW from \in K, NEW to \in K
      PROVE  LET ways  == Between(ShortestPaths(super), from + 1, to + 1)
                 found == ClusterCorridor(adj, from, to)
             IN  /\ found = {} <=> ways = {}
                 /\ \A way \in found : [i \in DOMAIN way |-> way[i] + 1] \in ways
  <2> DEFINE ways == Between(ShortestPaths(super), from + 1, to + 1)
             found == ClusterCorridor(adj, from, to)
  <2>1. f[from] = from + 1 /\ f[to] = to + 1 /\ from + 1 \in N /\ to + 1 \in N
    BY <1>4
  <2>2. /\ ways = {p \in Seq(1..n) : Direct(E, p) /\ Links(E, p, from + 1, to + 1)}
        /\ ways # {} <=> Reached(E, from + 1, to + 1)
    BY <1>3, <1>4, <2>1, BetweenIs
  <2> HIDE DEF K, R, E, f, h
  <2>3. /\ found # {} <=> Reached(R, from, to)
        /\ \A way \in found : way \in Seq(K) /\ Direct(R, way) /\ Links(R, way, from, to)
    BY <1>5, <1>6, <1>7, CorridorIs
  <2>4. Reached(R, from, to) <=> Reached(E, from + 1, to + 1)
    <3> HIDE DEF N
    <3>1. \A k \in Nat : At(R, from, to, k) <=> At(E, f[from], f[to], k)
      BY <1>6, AtMapped
    <3> QED BY <2>1, <3>1 DEF Reached
  <2>5. ASSUME NEW way \in found
        PROVE  [i \in DOMAIN way |-> way[i] + 1] \in ways
    <3>1. way \in Seq(K) /\ Direct(R, way) /\ Links(R, way, from, to)
      BY <2>3
    <3>2. /\ Direct(E, Mapped(f, way)) /\ Links(E, Mapped(f, way), f[from], f[to])
          /\ Mapped(f, way) \in Seq(N)
      <4> HIDE DEF N
      <4> QED BY <1>6, <3>1, DirectMapped
    <3>3. DOMAIN way = 1..Len(way) /\ \A i \in 1..Len(way) : way[i] \in K
      BY <3>1, LenProperties, ElementOfSeq
    <3>4. \A i \in 1..Len(way) : f[way[i]] = way[i] + 1
      BY <3>3 DEF f, K
    <3>5. [i \in DOMAIN way |-> way[i] + 1] = Mapped(f, way)
      BY <3>3, <3>4 DEF Mapped
    <3> QED BY <2>1, <2>2, <3>2, <3>5
  <2> HIDE DEF ways, found
  <2>6. /\ found = {} <=> ways = {}
        /\ \A way \in found : [i \in DOMAIN way |-> way[i] + 1] \in ways
    BY <2>2, <2>3, <2>4, <2>5
  <2> QED BY <2>6 DEF ways, found
<1> QED BY <1>7, <1>8 DEF n, super, adj

\* A corridor is a shortest way between its two clusters, and there is one
\* exactly when there is a way, however the graph is divided.
THEOREM CorridorsShortest == Spec => []CorridorShortest
<1>1. FilesInv => CorridorShortest
  BY CorridorsAreShortest DEF CorridorShortest
<1> QED BY <1>1, FilesKeepShape, PTL
-----------------------------------------------------------------------------
(* The folds of bfs_distance_filtered.                                     *)

Widths(N) == [dist : [N -> Int], queue : Seq(N), found : SUBSET Int]

Visited(v, to, allowed, a, w) ==
  IF a.found # {} \/ a.dist[w] >= 0 \/ w \notin allowed THEN a
  ELSE IF w = to THEN [a EXCEPT !.found = {a.dist[v] + 1}]
  ELSE [a EXCEPT !.dist[w] = a.dist[v] + 1, !.queue = Append(@, w)]

Visits(f, n, N, g, allowed, to, b, list) ==
  /\ f \in [0..n -> Widths(N)] /\ f[0] = Popped(b) /\ f[n] = Widen(g, allowed, to, b)
  /\ \A k \in 1..n : f[k] = Visited(Head(b.queue), to, allowed, f[k - 1], list[k])

\* What one visit does, field by field.
Steps(v, to, allowed, a, w, new) ==
  /\ a.found # {} \/ a.dist[w] >= 0 \/ w \notin allowed => new = a
  /\ a.found = {} /\ ~(a.dist[w] >= 0) /\ w \in allowed =>
       /\ w = to => new.dist = a.dist /\ new.queue = a.queue /\ new.found = {a.dist[v] + 1}
       /\ w # to => /\ new.dist = [a.dist EXCEPT ![w] = a.dist[v] + 1]
                    /\ new.queue = Append(a.queue, w) /\ new.found = {}

LEMMA VisitedIs ==
  ASSUME NEW N, NEW v \in N, NEW to, NEW allowed, NEW a \in Widths(N), NEW w \in N,
         NEW new, new = Visited(v, to, allowed, a, w)
  PROVE  Steps(v, to, allowed, a, w, new) /\ new \in Widths(N)
<1> DEFINE d == a.dist[v] + 1
<1>1. /\ a = [dist |-> a.dist, queue |-> a.queue, found |-> a.found]
      /\ a.dist \in [N -> Int] /\ a.queue \in Seq(N) /\ a.found \in SUBSET Int
  BY DEF Widths
<1>2. d \in Int
  BY <1>1
<1>3. CASE a.found # {} \/ a.dist[w] >= 0 \/ w \notin allowed
  BY <1>3 DEF Visited, Steps
<1>4. CASE a.found = {} /\ ~(a.dist[w] >= 0) /\ w \in allowed /\ w = to
  <2> HIDE DEF d
  <2>1. new = [a EXCEPT !.found = {d}]
    BY <1>4 DEF Visited, d
  <2>2. new.dist = a.dist /\ new.queue = a.queue /\ new.found = {d}
    BY <1>1, <2>1
  <2>3. new \in Widths(N)
    BY <1>1, <1>2, <2>1 DEF Widths
  <2> QED BY <1>4, <2>2, <2>3 DEF d, Steps
<1>5. CASE a.found = {} /\ ~(a.dist[w] >= 0) /\ w \in allowed /\ w # to
  <2> HIDE DEF d
  <2>1. new = [a EXCEPT !.dist = [a.dist EXCEPT ![w] = d], !.queue = Append(a.queue, w)]
    BY <1>1, <1>5 DEF Visited, d
  <2>2. new.dist = [a.dist EXCEPT ![w] = d] /\ new.queue = Append(a.queue, w) /\ new.found = {}
    BY <1>1, <1>5, <2>1
  <2>3. Append(a.queue, w) \in Seq(N) /\ [a.dist EXCEPT ![w] = d] \in [N -> Int]
    BY <1>1, <1>2
  <2>4. new \in Widths(N)
    BY <1>1, <1>5, <2>1, <2>3 DEF Widths
  <2> QED BY <1>5, <2>2, <2>4 DEF d, Steps
<1> QED BY <1>3, <1>4, <1>5

\* The neighbours of one node, one after the other.
LEMMA WidenFold ==
  ASSUME NEW N, NEW g, NEW allowed, NEW to, NEW b \in Widths(N), b.queue # << >>,
         NEW n \in Nat, NEW list \in [1..n -> N], Ascending(Neighbours(g, Head(b.queue))) = list
  PROVE  \E f : Visits(f, n, N, g, allowed, to, b, list)
<1> DEFINE S == Widths(N)
           base == Popped(b)
           step == [z \in Nat \X S |-> IF z[1] \in 1..n THEN Visited(Head(b.queue), to, allowed, z[2], list[z[1]]) ELSE z[2]]
           Table(it) == it = [s \in SUBSET (1..n) |->
                                IF s = {} THEN base ELSE Visited(Head(b.queue), to, allowed, it[s \ {Max(s)}], list[Max(s)])]
<1>1. Head(b.queue) \in N /\ base \in S
  <2>1. b.queue \in Seq(N) /\ b.queue # << >>
    BY DEF Widths
  <2>2. Head(b.queue) \in N /\ Tail(b.queue) \in Seq(N)
    BY <2>1
  <2> QED BY <2>2 DEF Widths, Popped
<1>2. \A a \in S, w \in N : Visited(Head(b.queue), to, allowed, a, w) \in S
  <2> DEFINE v == Head(b.queue)
  <2> HIDE DEF v
  <2>1. v \in N
    BY <1>1 DEF v
  <2>2. \A a \in S, w \in N : Visited(v, to, allowed, a, w) \in S
    BY <2>1, VisitedIs
  <2> QED BY <2>2 DEF v
<1>3. step \in [Nat \X S -> S]
  <2> HIDE DEF S
  <2> QED BY <1>2
<1>4. Widen(g, allowed, to, b) = (CHOOSE it : Table(it))[1..n]
  <2>1. Ascending(Neighbours(g, Head(b.queue))) = list /\ DOMAIN list = 1..n
    OBVIOUS
  <2>2. Widen(g, allowed, to, b) =
          FoldLeft(LAMBDA c, w : Visited(Head(b.queue), to, allowed, c, w), Popped(b),
                   Ascending(Neighbours(g, Head(b.queue))))
    BY DEF Widen, Visited, Popped
  <2>3. FoldLeft(LAMBDA c, w : Visited(Head(b.queue), to, allowed, c, w), Popped(b), list) =
          (CHOOSE it : Table(it))[1..n]
    BY <2>1 DEF FoldLeft, MapThenFoldSet
  <2> QED BY <2>1, <2>2, <2>3
<1> HIDE DEF S, step, base
<1>5. \E it : Table(it)
  <2>1. PICK it \in [SUBSET (1..n) -> S] : Tabled(it, base, step, n)
    BY <1>1, <1>3, TableExists
  <2>2. ASSUME NEW s \in SUBSET (1..n), s # {}
        PROVE  it[s] = Visited(Head(b.queue), to, allowed, it[s \ {Max(s)}], list[Max(s)])
    <3>1. Max(s) \in 1..n /\ Max(s) \in Nat /\ s \ {Max(s)} \in SUBSET (1..n)
      BY <2>2, MaxIs
    <3>2. it[s] = step[<<Max(s), it[s \ {Max(s)}]>>]
      BY <2>1, <2>2 DEF Tabled
    <3> QED BY <2>1, <3>1, <3>2 DEF step
  <2>3. \A s \in SUBSET (1..n) :
          it[s] = IF s = {} THEN base ELSE Visited(Head(b.queue), to, allowed, it[s \ {Max(s)}], list[Max(s)])
    BY <2>1, <2>2 DEF Tabled
  <2>4. Table(it)
    BY <2>3
  <2> HIDE DEF Table
  <2> QED BY <2>4
<1> DEFINE ch == CHOOSE it : Table(it)
<1>6. Table(ch)
  BY <1>5
<1>7. Follows(ch, base, S, step, n)
  <2> HIDE DEF ch
  <2> SUFFICES ASSUME NEW s \in SUBSET (1..n)
               PROVE  /\ s = {} => ch[s] = base
                      /\ s # {} /\ ch[s \ {Max(s)}] \in S => ch[s] = step[<<Max(s), ch[s \ {Max(s)}]>>]
    BY DEF Follows
  <2>1. CASE s = {}
    BY <1>6, <2>1
  <2>2. CASE s # {} /\ ch[s \ {Max(s)}] \in S
    <3>1. Max(s) \in 1..n /\ Max(s) \in Nat
      BY <2>2, MaxIs
    <3>2. ch[s] = Visited(Head(b.queue), to, allowed, ch[s \ {Max(s)}], list[Max(s)])
      BY <1>6, <2>2
    <3> HIDE DEF Table
    <3> QED BY <2>2, <3>1, <3>2 DEF step
  <2> QED BY <2>1, <2>2
<1> DEFINE f == States(ch, n)
<1>8. f \in [0..n -> S] /\ Solves(f, base, step, n)
  <2> HIDE DEF ch, Table
  <2> QED BY <1>1, <1>3, <1>7, FoldStates
<1>9. f[n] = Widen(g, allowed, to, b)
  BY <1>4 DEF States
<1> HIDE DEF f
<1>10. ASSUME NEW k \in 1..n
       PROVE  f[k] = Visited(Head(b.queue), to, allowed, f[k - 1], list[k])
  <2>1. f[k] = step[<<k, f[k - 1]>>] /\ k - 1 \in 0..n
    BY <1>8 DEF Solves
  <2> QED BY <1>8, <2>1 DEF step
<1> QED BY <1>8, <1>9, <1>10 DEF Solves, S, base, Visits


LEMMA WidenType ==
  ASSUME NEW g, NEW N, N = NodesIn(g), IsFiniteSet(N), N \subseteq Int, NEW allowed, NEW to,
         NEW b \in Widths(N), b.queue # << >>,
         NEW list, list = Ascending(Neighbours(g, Head(b.queue)))
  PROVE  /\ \E f : Visits(f, Len(list), N, g, allowed, to, b, list)
         /\ Widen(g, allowed, to, b) \in Widths(N)
         /\ Len(list) \in Nat /\ list \in [1..Len(list) -> N]
         /\ {list[i] : i \in 1..Len(list)} = Neighbours(g, Head(b.queue))
<1> DEFINE n == Len(list)
           S == Neighbours(g, Head(b.queue))
<1>1. S \in SUBSET N
  BY DEF Neighbours
<1> HIDE DEF S
<1>2. IsFiniteSet(S) /\ S \subseteq Int
  BY <1>1, FS_Subset
<1>3. list \in Seq(S) /\ Range(list) = S
  BY <1>2, AscendingSorts DEF S
<1>4. n \in Nat /\ DOMAIN list = 1..n /\ list \in [1..n -> S]
  BY <1>3, LenProperties
<1> HIDE DEF n
<1>5. list \in [1..n -> N]
  BY <1>1, <1>4
<1>6. PICK f : Visits(f, n, N, g, allowed, to, b, list)
  BY <1>4, <1>5, WidenFold
<1>7. f \in [0..n -> Widths(N)] /\ n \in 0..n /\ f[n] = Widen(g, allowed, to, b)
  BY <1>4, <1>6 DEF Visits
<1>8. Widen(g, allowed, to, b) \in Widths(N)
  BY <1>7
<1>9. {list[i] : i \in 1..n} = S
  BY <1>3, <1>4 DEF Range
<1> QED BY <1>4, <1>5, <1>6, <1>8, <1>9 DEF n, S

Widened(g, allowed, to, b) ==
  IF b.queue = << >> \/ b.found # {} THEN b ELSE Widen(g, allowed, to, b)

Starting(N, from) ==
  [dist |-> [v \in N |-> IF v = from THEN 0 ELSE -1], queue |-> <<from>>, found |-> {}]

Hops(f, n, g, allowed, from, to) ==
  /\ f \in [0..n -> Widths(1..n)] /\ f[0] = Starting(1..n, from)
  /\ {from, to} \subseteq allowed /\ from # to => BfsDistance(g, from, to, allowed) = f[n].found
  /\ \A k \in 1..n : f[k] = Widened(g, allowed, to, f[k - 1])

\* The nodes taken from the queue, one after the other.
LEMMA HopsFold ==
  ASSUME NEW g, NEW n \in Nat, NodesIn(g) = 1..n, NEW allowed, NEW from \in 1..n, NEW to \in 1..n
  PROVE  \E f : Hops(f, n, g, allowed, from, to)
<1> DEFINE S == Widths(1..n)
           base == Starting(1..n, from)
           step == [z \in Nat \X S |-> IF z[1] \in 1..n THEN Widened(g, allowed, to, z[2]) ELSE z[2]]
           Table(it) == it = [s \in SUBSET (1..n) |->
                                IF s = {} THEN base ELSE Widened(g, allowed, to, it[s \ {Max(s)}])]
           Ending == FoldLeft(LAMBDA b, k : Widened(g, allowed, to, b), Starting(1..n, from), Ascending(1..n))
<1>0. IsFiniteSet(1..n) /\ 1..n \subseteq Int
  BY FS_Interval
<1>1. base \in S /\ n \in Nat
  <2> DEFINE N == 1..n
  <2>1. from \in N
    OBVIOUS
  <2> HIDE DEF N
  <2>2. Starting(N, from) \in Widths(N)
    BY <2>1 DEF Widths, Starting
  <2> QED BY <2>2 DEF N
<1>2. \A a \in S : Widened(g, allowed, to, a) \in S
  <2> DEFINE N == 1..n
  <2>1. N = NodesIn(g) /\ IsFiniteSet(N) /\ N \subseteq Int
    BY <1>0
  <2> HIDE DEF N
  <2>2. \A a \in Widths(N) : Widened(g, allowed, to, a) \in Widths(N)
    <3> SUFFICES ASSUME NEW a \in Widths(N), a.queue # << >> PROVE Widen(g, allowed, to, a) \in Widths(N)
      BY DEF Widened
    <3> QED BY <2>1, WidenType
  <2> QED BY <2>2 DEF N
<1>3. step \in [Nat \X S -> S]
  <2> HIDE DEF S
  <2> QED BY <1>2
<1>4. Ending = (CHOOSE it : Table(it))[1..n]
  <2>1. DOMAIN Ascending(1..n) = 1..n
    BY CountingUp
  <2> QED BY <2>1 DEF FoldLeft, MapThenFoldSet
<1>4a. {from, to} \subseteq allowed /\ from # to => BfsDistance(g, from, to, allowed) = Ending.found
  BY DEF BfsDistance, Widened, Starting
<1> HIDE DEF S, step, base, Ending
<1>5. \E it : Table(it)
  <2>1. PICK it \in [SUBSET (1..n) -> S] : Tabled(it, base, step, n)
    BY <1>1, <1>3, TableExists
  <2>2. ASSUME NEW s \in SUBSET (1..n), s # {}
        PROVE  it[s] = Widened(g, allowed, to, it[s \ {Max(s)}])
    <3>1. Max(s) \in 1..n /\ Max(s) \in Nat /\ s \ {Max(s)} \in SUBSET (1..n)
      BY <2>2, MaxIs
    <3>2. it[s] = step[<<Max(s), it[s \ {Max(s)}]>>]
      BY <2>1, <2>2 DEF Tabled
    <3> QED BY <2>1, <3>1, <3>2 DEF step
  <2>3. \A s \in SUBSET (1..n) :
          it[s] = IF s = {} THEN base ELSE Widened(g, allowed, to, it[s \ {Max(s)}])
    BY <2>1, <2>2 DEF Tabled
  <2>4. Table(it)
    BY <2>3
  <2> HIDE DEF Table
  <2> QED BY <2>4
<1> DEFINE ch == CHOOSE it : Table(it)
<1>6. Table(ch)
  BY <1>5
<1>7. Follows(ch, base, S, step, n)
  <2> HIDE DEF ch
  <2> SUFFICES ASSUME NEW s \in SUBSET (1..n)
               PROVE  /\ s = {} => ch[s] = base
                      /\ s # {} /\ ch[s \ {Max(s)}] \in S => ch[s] = step[<<Max(s), ch[s \ {Max(s)}]>>]
    BY DEF Follows
  <2>1. CASE s = {}
    BY <1>6, <2>1
  <2>2. CASE s # {} /\ ch[s \ {Max(s)}] \in S
    <3>1. Max(s) \in 1..n /\ Max(s) \in Nat
      BY <2>2, MaxIs
    <3>2. ch[s] = Widened(g, allowed, to, ch[s \ {Max(s)}])
      BY <1>6, <2>2
    <3> HIDE DEF Table
    <3> QED BY <2>2, <3>1, <3>2 DEF step
  <2> QED BY <2>1, <2>2
<1> DEFINE f == States(ch, n)
<1>8. f \in [0..n -> S] /\ Solves(f, base, step, n)
  <2> HIDE DEF ch, Table
  <2> QED BY <1>1, <1>3, <1>7, FoldStates
<1>9. f[n] = Ending
  BY <1>4 DEF States
<1> HIDE DEF f
<1>10. ASSUME NEW k \in 1..n
       PROVE  f[k] = Widened(g, allowed, to, f[k - 1])
  <2>1. f[k] = step[<<k, f[k - 1]>>] /\ k - 1 \in 0..n
    BY <1>8 DEF Solves
  <2> QED BY <1>8, <2>1 DEF step
<1> QED BY <1>4a, <1>8, <1>9, <1>10 DEF Solves, S, base, Hops
-----------------------------------------------------------------------------
(* bfs_distance_filtered is a breadth-first search.                        *)

\* The edges to allowed nodes.
Within(g, allowed) == [x \in NodesIn(g) |-> Neighbours(g, x) \cap allowed]

Seen(a) == {w \in DOMAIN a.dist : a.dist[w] >= 0}

Measured(R, u, a) == \A w \in Seen(a) : a.dist[w] = Depth(R, u, w)

Answered(R, u, to, a) == Reached(R, u, to) /\ a.found = {Depth(R, u, to)}

Widening(R, u, to, v, a, done) ==
  /\ a.found # {} => Answered(R, u, to, a)
  /\ a.found = {} => /\ to \notin Seen(a) /\ Measured(R, u, a)
                     /\ Crest(R, u, v, Seen(a), a.queue, done)

Advances(R, u, to, v, allowed, a, w, new, done) ==
  /\ Widening(R, u, to, v, new, done)
  /\ Seen(a) \subseteq Seen(new)
  /\ a.found # {} => new.found # {}
  /\ new.found # {} \/ w \notin allowed \/ w \in Seen(new)

LEMMA VisitedKeeps ==
  ASSUME NEW N, NEW R \in [N -> SUBSET N], NEW u \in N, NEW to, NEW v \in N, NEW done,
         NEW a \in Widths(N), Widening(R, u, to, v, a, done), NEW allowed,
         NEW w \in N, w \in allowed => w \in R[v],
         NEW new, new = Visited(v, to, allowed, a, w)
  PROVE  Advances(R, u, to, v, allowed, a, w, new, done)
<1> DEFINE d == a.dist[v] + 1
<1>1. /\ a.found # {} \/ a.dist[w] >= 0 \/ w \notin allowed => new = a
      /\ a.found = {} /\ ~(a.dist[w] >= 0) /\ w \in allowed =>
           /\ w = to => new.dist = a.dist /\ new.queue = a.queue /\ new.found = {d}
           /\ w # to => /\ new.dist = [a.dist EXCEPT ![w] = d]
                        /\ new.queue = Append(a.queue, w) /\ new.found = {}
  <2>1. Steps(v, to, allowed, a, w, new)
    BY VisitedIs
  <2> QED BY <2>1 DEF Steps
<1>2. a.dist \in [N -> Int] /\ Seen(a) = {x \in N : a.dist[x] >= 0}
  BY DEF Widths, Seen
<1>3. CASE a.found # {} \/ a.dist[w] >= 0 \/ w \notin allowed
  BY <1>1, <1>2, <1>3 DEF Advances
<1>4. CASE a.found = {} /\ ~(a.dist[w] >= 0) /\ w \in allowed
  <2>1. to \notin Seen(a) /\ Measured(R, u, a) /\ Crest(R, u, v, Seen(a), a.queue, done)
    BY <1>4 DEF Widening
  <2>2. w \in R[v] /\ w \notin Seen(a)
    BY <1>2, <1>4
  <2>3. /\ Reached(R, u, w) /\ Depth(R, u, w) = Depth(R, u, v) + 1
        /\ Crest(R, u, v, Seen(a) \cup {w}, Append(a.queue, w), done)
    BY <2>1, <2>2, CrestSees
  <2>4. d = Depth(R, u, w) /\ Depth(R, u, w) \in Nat
    <3>1. v \in Seen(a)
      BY <2>1 DEF Crest
    <3>2. a.dist[v] = Depth(R, u, v)
      BY <2>1, <3>1 DEF Measured
    <3> QED BY <2>3, <3>2, DepthIs
  <2> HIDE DEF d
  <2>5. CASE w = to
    <3>1. new.dist = a.dist /\ new.found = {Depth(R, u, to)}
      BY <1>1, <1>4, <2>4, <2>5
    <3>2. Answered(R, u, to, new) /\ new.found # {}
      BY <2>3, <2>5, <3>1 DEF Answered
    <3>3. Seen(new) = Seen(a)
      BY <3>1 DEF Seen
    <3> QED BY <3>2, <3>3 DEF Widening, Advances
  <2>6. CASE w # to
    <3>1. new.dist = [a.dist EXCEPT ![w] = d] /\ new.queue = Append(a.queue, w) /\ new.found = {}
      BY <1>1, <1>4, <2>6
    <3>2. /\ DOMAIN new.dist = N /\ new.dist[w] = d /\ d >= 0
          /\ \A x \in N \ {w} : new.dist[x] = a.dist[x]
      BY <1>2, <2>4, <3>1
    <3>3. Seen(new) = Seen(a) \cup {w}
      <4>1. Seen(new) = {x \in N : new.dist[x] >= 0}
        BY <3>2 DEF Seen
      <4> QED BY <1>2, <3>2, <4>1
    <3>4. Measured(R, u, new)
      <4> SUFFICES ASSUME NEW x \in Seen(new) PROVE new.dist[x] = Depth(R, u, x)
        BY DEF Measured
      <4>1. CASE x = w
        BY <2>4, <3>2, <4>1
      <4>2. CASE x # w
        <5>1. x \in Seen(a) /\ x \in N \ {w}
          BY <1>2, <3>3, <4>2
        <5> QED BY <2>1, <3>2, <5>1 DEF Measured
      <4> QED BY <4>1, <4>2
    <3>5. to \notin Seen(new) /\ w \in Seen(new) /\ Seen(a) \subseteq Seen(new)
      BY <2>1, <2>6, <3>3
    <3>6. Widening(R, u, to, v, new, done)
      BY <2>3, <3>1, <3>3, <3>4, <3>5 DEF Widening
    <3> QED BY <1>4, <3>5, <3>6 DEF Advances
  <2> QED BY <2>5, <2>6
<1> QED BY <1>3, <1>4

LEMMA WidenKeeps ==
  ASSUME NEW g, NEW N, N = NodesIn(g), IsFiniteSet(N), N \subseteq Int, NEW allowed, NEW to,
         NEW R, R = Within(g, allowed), NEW u \in N, NEW done \in Nat,
         NEW b \in Widths(N), b.queue # << >>, b.found = {},
         to \notin Seen(b), Measured(R, u, b), Wave(R, u, Seen(b), b.queue, done),
         NEW new, new = Widen(g, allowed, to, b)
  PROVE  /\ new.found # {} => Answered(R, u, to, new)
         /\ new.found = {} => /\ to \notin Seen(new) /\ Measured(R, u, new)
                              /\ Wave(R, u, Seen(new), new.queue, done + 1)
<1>0. R = [x \in N |-> {y \in N : g.mult[<<x, y>>] > 0} \cap allowed] /\ R \in [N -> SUBSET N]
  BY DEF Within, Neighbours
<1> DEFINE v == Head(b.queue)
           list == Ascending(Neighbours(g, v))
           n == Len(list)
<1>1. Crest(R, u, v, Seen(b), Tail(b.queue), done + 1) /\ v \in N
  BY <1>0, WaveBreaks
<1>2. /\ \E f : Visits(f, n, N, g, allowed, to, b, list)
      /\ n \in Nat /\ list \in [1..n -> N]
      /\ {list[i] : i \in 1..n} = Neighbours(g, v)
  <2> HIDE DEF list
  <2>1. list = Ascending(Neighbours(g, Head(b.queue)))
    BY DEF list
  <2>2. \E f : Visits(f, Len(list), N, g, allowed, to, b, list)
    BY <2>1, WidenType
  <2>3. Len(list) \in Nat /\ list \in [1..Len(list) -> N]
    BY <2>1, WidenType
  <2>4. {list[i] : i \in 1..Len(list)} = Neighbours(g, Head(b.queue))
    BY <2>1, WidenType
  <2> QED BY <2>2, <2>3, <2>4
<1> HIDE DEF v, list, n
<1>3. PICK f : Visits(f, n, N, g, allowed, to, b, list)
  BY <1>2
<1>4. /\ f \in [0..n -> Widths(N)] /\ f[0] = Popped(b) /\ f[n] = new
      /\ \A k \in 1..n : f[k] = Visited(v, to, allowed, f[k - 1], list[k])
  BY <1>3 DEF Visits, v
<1>5. R[v] = Neighbours(g, v) \cap allowed
  BY <1>1 DEF Within
<1>6. \A k \in 1..n : list[k] \in N /\ (list[k] \in allowed => list[k] \in R[v])
  BY <1>2, <1>5
<1> DEFINE P(k) == /\ Widening(R, u, to, v, f[k], done + 1)
                   /\ \A j \in 1..k : f[k].found # {} \/ list[j] \notin allowed \/ list[j] \in Seen(f[k])
           F == {k \in Nat : k <= n => P(k)}
<1>7. P(0)
  <2>1. f[0].dist = b.dist /\ f[0].found = b.found /\ f[0].queue = Tail(b.queue)
    <3>1. b \in [dist : [N -> Int], queue : Seq(N), found : SUBSET Int]
      BY DEF Widths
    <3> QED BY <1>4, <3>1 DEF Popped
  <2>2. Seen(f[0]) = Seen(b) /\ Measured(R, u, f[0])
    <3>1. Seen(f[0]) = Seen(b)
      BY <2>1 DEF Seen
    <3> QED BY <2>1, <3>1 DEF Measured
  <2>3. \A j \in 1..0 : FALSE
    OBVIOUS
  <2>4. Widening(R, u, to, v, f[0], done + 1)
    BY <1>1, <2>1, <2>2 DEF Widening
  <2> QED BY <2>3, <2>4
<1>8. ASSUME NEW k \in Nat, k + 1 <= n, P(k)
      PROVE  P(k + 1)
  <2> DEFINE a == f[k]
             new1 == f[k + 1]
             w == list[k + 1]
             dn == done + 1
  <2>1. k + 1 \in 1..n /\ (k + 1) - 1 = k /\ k \in 0..n
    BY <1>2, <1>8
  <2>2. new1 = Visited(v, to, allowed, a, w) /\ a \in Widths(N)
    BY <1>4, <2>1
  <2>3. w \in N /\ (w \in allowed => w \in R[v])
    BY <1>6, <2>1
  <2>4. Widening(R, u, to, v, a, dn)
    BY <1>8
  <2> HIDE DEF a, new1, w, dn
  <2>5. /\ Widening(R, u, to, v, new1, dn)
        /\ Seen(a) \subseteq Seen(new1)
        /\ a.found # {} => new1.found # {}
        /\ new1.found # {} \/ w \notin allowed \/ w \in Seen(new1)
    <3>1. R \in [N -> SUBSET N] /\ v \in N
      BY <1>0, <1>1
    <3>2. Advances(R, u, to, v, allowed, a, w, new1, dn)
      BY <3>1, <2>2, <2>3, <2>4, VisitedKeeps
    <3> QED BY <3>2 DEF Advances
  <2>6. ASSUME NEW j \in 1..(k + 1)
        PROVE  new1.found # {} \/ list[j] \notin allowed \/ list[j] \in Seen(new1)
    <3>1. CASE j = k + 1
      BY <2>5, <3>1 DEF w
    <3>2. CASE j # k + 1
      <4>1. j \in 1..k
        BY <3>2
      <4>2. a.found # {} \/ list[j] \notin allowed \/ list[j] \in Seen(a)
        BY <1>8, <4>1 DEF a
      <4> QED BY <2>5, <4>2
    <3> QED BY <3>1, <3>2
  <2> QED BY <2>5, <2>6 DEF new1, dn
<1>9. P(n)
  <2>1. 0 \in F
    BY <1>7
  <2>2. \A k \in Nat : k \in F => k + 1 \in F
    <3> SUFFICES ASSUME NEW k \in Nat, k \in F, k + 1 <= n PROVE P(k + 1)
      OBVIOUS
    <3>1. k <= n
      BY <1>2
    <3>2. P(k)
      BY <3>1
    <3> HIDE DEF P
    <3> QED BY <1>8, <3>2
  <2>3. \A k \in Nat : k \in F
    <3> HIDE DEF F
    <3> QED BY <2>1, <2>2, NumberInduction
  <2>4. n \in F /\ n <= n
    BY <1>2, <2>3
  <2> HIDE DEF P
  <2> QED BY <2>4
<1>10. /\ Widening(R, u, to, v, new, done + 1)
       /\ \A j \in 1..n : new.found # {} \/ list[j] \notin allowed \/ list[j] \in Seen(new)
  BY <1>4, <1>9
<1>11. ASSUME new.found = {}
       PROVE  /\ to \notin Seen(new) /\ Measured(R, u, new)
              /\ Wave(R, u, Seen(new), new.queue, done + 1)
  <2>1. to \notin Seen(new) /\ Measured(R, u, new) /\ Crest(R, u, v, Seen(new), new.queue, done + 1)
    BY <1>10, <1>11 DEF Widening
  <2>2. R[v] \subseteq Seen(new)
    <3> SUFFICES ASSUME NEW x \in R[v] PROVE x \in Seen(new)
      OBVIOUS
    <3>1. x \in allowed /\ \E j \in 1..n : x = list[j]
      BY <1>2, <1>5
    <3> QED BY <1>10, <1>11, <3>1
  <2>3. Wave(R, u, Seen(new), new.queue, done + 1)
    BY <1>0, <2>1, <2>2, CrestFalls
  <2> QED BY <2>1, <2>3
<1> QED BY <1>10, <1>11 DEF Widening

\* After k turns: the target is found, or k nodes are expanded, or all are.
Hopping(R, u, to, a, k) ==
  /\ a.found # {} => Answered(R, u, to, a)
  /\ a.found = {} => /\ to \notin Seen(a) /\ Measured(R, u, a)
                     /\ \E done \in Nat : /\ Wave(R, u, Seen(a), a.queue, done)
                                          /\ done = k \/ a.queue = << >>

LEMMA WidenedKeeps ==
  ASSUME NEW g, NEW N, N = NodesIn(g), IsFiniteSet(N), N \subseteq Int, NEW allowed, NEW to,
         NEW R, R = Within(g, allowed), NEW u \in N, NEW k \in Nat,
         NEW a \in Widths(N), Hopping(R, u, to, a, k),
         NEW new, new = Widened(g, allowed, to, a)
  PROVE  Hopping(R, u, to, new, k + 1)
<1>1. CASE a.queue = << >> \/ a.found # {}
  <2>1. new = a
    BY <1>1 DEF Widened
  <2> QED BY <1>1, <2>1 DEF Hopping
<1>2. CASE a.queue # << >> /\ a.found = {}
  <2>1. new = Widen(g, allowed, to, a)
    BY <1>2 DEF Widened
  <2>2. to \notin Seen(a) /\ Measured(R, u, a)
    BY <1>2 DEF Hopping
  <2>3. PICK done \in Nat : Wave(R, u, Seen(a), a.queue, done) /\ (done = k \/ a.queue = << >>)
    BY <1>2 DEF Hopping
  <2>4. done = k
    BY <1>2, <2>3
  <2>5. /\ new.found # {} => Answered(R, u, to, new)
        /\ new.found = {} => /\ to \notin Seen(new) /\ Measured(R, u, new)
                             /\ Wave(R, u, Seen(new), new.queue, done + 1)
    BY <1>2, <2>1, <2>2, <2>3, WidenKeeps
  <2> QED BY <2>4, <2>5 DEF Hopping
<1> QED BY <1>1, <1>2

\* bfs_distance_filtered counts the steps of a shortest walk through allowed
\* nodes, and finds none exactly when there is none.
THEOREM DistanceIs ==
  ASSUME NEW g, NEW n \in Nat, NodesIn(g) = 1..n, NEW allowed,
         NEW from \in 1..n, NEW to \in 1..n, from \in allowed, to \in allowed,
         NEW R, R = Within(g, allowed)
  PROVE  /\ R \in [1..n -> SUBSET (1..n)]
         /\ BfsDistance(g, from, to, allowed) =
              IF Reached(R, from, to) THEN {Depth(R, from, to)} ELSE {}
<1> DEFINE N == 1..n
<1>1. /\ N = NodesIn(g) /\ IsFiniteSet(N) /\ N \subseteq Int /\ Cardinality(N) = n
      /\ from \in N /\ to \in N
  <2>1. IsFiniteSet(N) /\ Cardinality(N) = IF 1 > n THEN 0 ELSE n - 1 + 1
    BY FS_Interval
  <2> QED BY <2>1
<1>2. R \in [N -> SUBSET N]
  BY DEF Within, Neighbours
<1>3. CASE from = to
  <2>1. BfsDistance(g, from, to, allowed) = {0}
    BY <1>3 DEF BfsDistance
  <2> HIDE DEF N
  <2>2. Depth(R, from, from) = 0 /\ Wave(R, from, {from}, <<from>>, 0)
    BY <1>1, <1>2, WaveStarts
  <2>3. Reached(R, from, from)
    BY <2>2 DEF Wave, Grown
  <2> QED BY <1>2, <1>3, <2>1, <2>2, <2>3 DEF N
<1>4. CASE from # to
  <2>1. PICK f : Hops(f, n, g, allowed, from, to)
    BY HopsFold
  <2> HIDE DEF N
  <2>2. /\ f \in [0..n -> Widths(N)] /\ f[0] = Starting(N, from)
        /\ BfsDistance(g, from, to, allowed) = f[n].found
        /\ \A k \in 1..n : f[k] = Widened(g, allowed, to, f[k - 1])
    BY <1>4, <2>1 DEF Hops, N
  <2> DEFINE F == {k \in Nat : k <= n => Hopping(R, from, to, f[k], k)}
  <2>3. Hopping(R, from, to, f[0], 0)
    <3>1. /\ f[0].dist = [v \in N |-> IF v = from THEN 0 ELSE -1]
          /\ f[0].queue = <<from>> /\ f[0].found = {}
      BY <2>2 DEF Starting
    <3>2. Depth(R, from, from) = 0 /\ Wave(R, from, {from}, <<from>>, 0)
      BY <1>1, <1>2, WaveStarts
    <3>3. Seen(f[0]) = {from}
      <4>1. Seen(f[0]) = {w \in N : (IF w = from THEN 0 ELSE -1) >= 0}
        BY <3>1 DEF Seen
      <4> QED BY <1>1, <4>1
    <3>4. f[0].dist[from] = 0
      BY <1>1, <3>1
    <3> QED BY <1>4, <3>1, <3>2, <3>3, <3>4 DEF Hopping, Measured
  <2>4. ASSUME NEW k \in Nat, k + 1 <= n, Hopping(R, from, to, f[k], k)
        PROVE  Hopping(R, from, to, f[k + 1], k + 1)
    <3> DEFINE a == f[k]
               new == f[k + 1]
    <3>1. k + 1 \in 1..n /\ (k + 1) - 1 = k /\ k \in 0..n
      BY <2>4
    <3>2. a \in Widths(N) /\ new = Widened(g, allowed, to, a) /\ Hopping(R, from, to, a, k)
      BY <2>2, <2>4, <3>1
    <3> HIDE DEF a, new
    <3>3. Hopping(R, from, to, new, k + 1)
      BY <1>1, <3>2, WidenedKeeps
    <3> QED BY <3>3 DEF new
  <2>5. Hopping(R, from, to, f[n], n)
    <3>1. 0 \in F
      BY <2>3
    <3>2. \A k \in Nat : k \in F => k + 1 \in F
      <4> SUFFICES ASSUME NEW k \in Nat, k \in F, k + 1 <= n
                   PROVE  Hopping(R, from, to, f[k + 1], k + 1)
        OBVIOUS
      <4>1. k <= n
        OBVIOUS
      <4>2. Hopping(R, from, to, f[k], k)
        BY <4>1
      <4> QED BY <2>4, <4>2
    <3>3. \A k \in Nat : k \in F
      <4> HIDE DEF F
      <4> QED BY <3>1, <3>2, NumberInduction
    <3>4. n \in F /\ n <= n
      BY <3>3
    <3> QED BY <3>4
  <2> DEFINE b == f[n]
  <2>6. Hopping(R, from, to, b, n) /\ BfsDistance(g, from, to, allowed) = b.found
    BY <2>2, <2>5
  <2> HIDE DEF b, F
  <2>7. CASE b.found # {}
    BY <1>2, <2>6, <2>7 DEF Hopping, Answered, N
  <2>8. CASE b.found = {}
    <3>1. PICK done \in Nat : Wave(R, from, Seen(b), b.queue, done) /\ (done = n \/ b.queue = << >>)
      BY <2>6, <2>8 DEF Hopping
    <3>2. to \notin Seen(b)
      BY <2>6, <2>8 DEF Hopping
    <3>3. b.queue = << >>
      <4>1. Wave(R, from, Seen(b), b.queue, Cardinality(N)) \/ b.queue = << >>
        BY <1>1, <3>1
      <4> QED BY <1>1, <1>2, <4>1, WaveFull
    <3>4. ~Reached(R, from, to)
      BY <1>1, <1>2, <3>1, <3>2, <3>3, WaveDone
    <3> QED BY <1>2, <2>6, <2>8, <3>4 DEF N
  <2> QED BY <2>7, <2>8
<1> QED BY <1>3, <1>4
-----------------------------------------------------------------------------
(* Corridors connect.                                                      *)

\* T has no edge that R has not.
Inside(T, R) == DOMAIN T = DOMAIN R /\ \A x \in DOMAIN R : T[x] \subseteq R[x]

LEMMA LinksInside ==
  ASSUME NEW N, NEW R \in [N -> SUBSET N], NEW T \in [N -> SUBSET N], Inside(T, R),
         NEW p \in Seq(N), NEW u, NEW v, Links(T, p, u, v)
  PROVE  Links(R, p, u, v)
<1>1. p # << >> /\ p[1] = u /\ p[Len(p)] = v /\ \A i \in 1..(Len(p) - 1) : p[i + 1] \in T[p[i]]
  BY DEF Links, IsWalk
<1>2. \A i \in 1..(Len(p) - 1) : p[i + 1] \in R[p[i]]
  <2> SUFFICES ASSUME NEW i \in 1..(Len(p) - 1) PROVE p[i + 1] \in R[p[i]]
    OBVIOUS
  <2>1. i \in 1..Len(p)
    BY LenProperties
  <2>2. p[i] \in N
    BY <2>1, ElementOfSeq
  <2> QED BY <1>1, <2>2 DEF Inside
<1> QED BY <1>1, <1>2 DEF Links, IsWalk

LEMMA NearInside ==
  ASSUME NEW N, NEW R \in [N -> SUBSET N], NEW T \in [N -> SUBSET N], Inside(T, R),
         NEW u, NEW k
  PROVE  Near(T, u, k) \subseteq Near(R, u, k)
<1> SUFFICES ASSUME NEW v \in Near(T, u, k) PROVE v \in Near(R, u, k)
  OBVIOUS
<1>1. PICK p \in Seq(N) : Links(T, p, u, v) /\ Len(p) <= k + 1 /\ v \in N
  BY DEF Near
<1>2. Links(R, p, u, v)
  BY <1>1, LinksInside
<1> QED BY <1>1, <1>2 DEF Near

LEMMA ReachOn ==
  ASSUME NEW N, NEW R \in [N -> SUBSET N], NEW u \in N, NEW x, Reached(R, u, x), NEW y \in R[x]
  PROVE  Reached(R, u, y)
<1>1. PICK k \in Nat : x \in Near(R, u, k)
  BY DEF Reached, At
<1>2. y \in Near(R, u, k + 1)
  BY <1>1, NearStep
<1>3. PICK d \in 0..(k + 1) : At(R, u, y, d)
  BY <1>2, AtExists
<1> QED BY <1>3 DEF Reached

\* What is reached from there is reached from here.
LEMMA ReachThrough ==
  ASSUME NEW N, NEW R \in [N -> SUBSET N], NEW T \in [N -> SUBSET N], Inside(T, R),
         NEW u \in N, NEW x \in N, Reached(R, u, x), NEW y, Reached(T, x, y)
  PROVE  Reached(R, u, y)
<1> DEFINE F == {k \in Nat : \A z \in Near(T, x, k) : Reached(R, u, z)}
<1>1. 0 \in F
  <2>1. Near(T, x, 0) = {x}
    BY NearGrows
  <2> QED BY <2>1
<1>2. \A k \in Nat : k \in F => k + 1 \in F
  <2> SUFFICES ASSUME NEW k \in Nat, k \in F, NEW z \in Near(T, x, k + 1) PROVE Reached(R, u, z)
    OBVIOUS
  <2>1. Near(T, x, k + 1) = Near(T, x, k) \cup UNION {T[w] : w \in Near(T, x, k)} /\ Near(T, x, k) \in SUBSET N
    BY NearGrows
  <2>2. CASE z \in Near(T, x, k)
    BY <2>2
  <2>3. CASE \E w \in Near(T, x, k) : z \in T[w]
    <3>1. PICK w \in Near(T, x, k) : z \in T[w]
      BY <2>3
    <3>2. Reached(R, u, w) /\ z \in R[w]
      BY <2>1, <3>1 DEF Inside
    <3> QED BY <3>2, ReachOn
  <2> QED BY <2>1, <2>2, <2>3
<1>3. \A k \in Nat : k \in F
  <2> HIDE DEF F
  <2> QED BY <1>1, <1>2, NumberInduction
<1>4. PICK k \in Nat : y \in Near(T, x, k)
  BY DEF Reached, At
<1> QED BY <1>3, <1>4

\* A shortest walk stays inside M.
Stays(R, M, u, v) ==
  \E p \in Seq(DOMAIN R) : Direct(R, p) /\ Links(R, p, u, v) /\ Range(p) \subseteq M

\* To stay inside costs nothing exactly when a shortest walk does.
LEMMA InsideShortest ==
  ASSUME NEW N, NEW R \in [N -> SUBSET N], NEW M, NEW T, T = [x \in N |-> R[x] \cap M],
         NEW u \in N, u \in M, NEW v, Reached(T, u, v)
  PROVE  /\ Reached(R, u, v)
         /\ Depth(T, u, v) = Depth(R, u, v) <=> Stays(R, M, u, v)
<1>1. T \in [N -> SUBSET N] /\ Inside(T, R)
  BY DEF Inside
<1>2. Reached(R, u, v)
  <2>1. PICK k \in Nat : v \in Near(T, u, k)
    BY DEF Reached, At
  <2>2. v \in Near(R, u, k)
    BY <1>1, <2>1, NearInside
  <2>3. PICK d \in 0..k : At(R, u, v, d)
    BY <2>2, AtExists
  <2> QED BY <2>3 DEF Reached
<1>3. ASSUME Depth(T, u, v) = Depth(R, u, v)
      PROVE  Stays(R, M, u, v)
  <2>1. PICK p \in Seq(N) : Direct(T, p) /\ Links(T, p, u, v)
    BY <1>1, ReachedDirect
  <2>2. Links(R, p, u, v)
    BY <1>1, <2>1, LinksInside
  <2>3. p # << >> /\ p[1] = u /\ p[Len(p)] = v /\ \A i \in 1..(Len(p) - 1) : p[i + 1] \in T[p[i]]
    BY <2>1 DEF Links, IsWalk
  <2>4. Len(p) \in Nat /\ Len(p) >= 1 /\ DOMAIN p = 1..Len(p)
    BY <2>3, EmptySeq, LenProperties
  <2>5. Direct(R, p)
    <3>1. At(T, u, v, Len(p) - 1) /\ Len(p) - 1 \in Nat
      BY <2>1, <2>3, <2>4 DEF Direct
    <3>2. Depth(T, u, v) = Len(p) - 1
      BY <3>1, DepthOf
    <3>3. At(R, u, v, Depth(R, u, v))
      BY <1>2, DepthIs
    <3>4. At(R, u, v, Len(p) - 1)
      BY <1>3, <3>2, <3>3
    <3> QED BY <2>2, <3>4 DEF Direct, Links
  <2>6. Range(p) \subseteq M
    <3> SUFFICES ASSUME NEW i \in 1..Len(p) PROVE p[i] \in M
      BY <2>4 DEF Range
    <3>1. CASE i = 1
      BY <2>3, <3>1
    <3>2. CASE i # 1
      <4>1. i - 1 \in 1..(Len(p) - 1) /\ (i - 1) + 1 = i /\ i - 1 \in 1..Len(p)
        BY <2>4, <3>2
      <4>2. p[i] \in T[p[i - 1]]
        BY <2>3, <4>1
      <4>3. p[i - 1] \in N
        BY <4>1, ElementOfSeq
      <4> QED BY <4>2, <4>3
    <3> QED BY <3>1, <3>2
  <2> QED BY <2>2, <2>5, <2>6 DEF Stays
<1>4. ASSUME NEW p \in Seq(N), Direct(R, p), Links(R, p, u, v), Range(p) \subseteq M
      PROVE  Depth(T, u, v) = Depth(R, u, v)
  <2>1. p # << >> /\ p[1] = u /\ p[Len(p)] = v /\ \A i \in 1..(Len(p) - 1) : p[i + 1] \in R[p[i]]
    BY <1>4 DEF Links, IsWalk
  <2>2. Len(p) \in Nat /\ Len(p) >= 1 /\ DOMAIN p = 1..Len(p)
    BY <2>1, EmptySeq, LenProperties
  <2> DEFINE d == Len(p) - 1
  <2>3. d \in Nat /\ Len(p) <= d + 1 /\ At(R, u, v, d)
    BY <1>4, <2>1, <2>2 DEF Direct
  <2>4. Links(T, p, u, v)
    <3>1. \A i \in 1..(Len(p) - 1) : p[i + 1] \in T[p[i]]
      <4> SUFFICES ASSUME NEW i \in 1..(Len(p) - 1) PROVE p[i + 1] \in T[p[i]]
        OBVIOUS
      <4>1. i \in 1..Len(p) /\ i + 1 \in 1..Len(p)
        BY <2>2
      <4>2. p[i] \in N /\ p[i + 1] \in M
        BY <1>4, <2>2, <4>1, ElementOfSeq DEF Range
      <4> QED BY <2>1, <4>2
    <3> QED BY <1>1, <2>1, <3>1 DEF Links, IsWalk
  <2> HIDE DEF d
  <2>5. v \in Near(T, u, d)
    <3>1. v \in N
      BY <2>1, <2>2, ElementOfSeq
    <3> QED BY <1>1, <2>3, <2>4, <3>1 DEF Near
  <2>6. \A e \in 0..(d - 1) : v \notin Near(T, u, e)
    BY <1>1, <2>3, NearInside DEF At
  <2>7. At(T, u, v, d)
    BY <2>5, <2>6 DEF At
  <2> QED BY <2>3, <2>7, DepthOf
<1> QED BY <1>2, <1>3, <1>4 DEF Stays

\* Two clusters that share weight share an edge.
LEMMA CrossingEdge ==
  ASSUME NEW g, IsWeighted(g), NEW A \in SUBSET NodesIn(g), NEW B \in SUBSET NodesIn(g),
         Weight(g, A, B) > 0
  PROVE  \E x \in A, y \in B : g.mult[<<x, y>>] > 0
<1> SUFFICES ASSUME \A x \in A, y \in B : ~(g.mult[<<x, y>>] > 0) PROVE FALSE
  OBVIOUS
<1>1. g.mult \in [NodesIn(g) \X NodesIn(g) -> Nat] /\ IsFiniteSet(NodesIn(g))
  BY WeightedHas
<1>2. IsFiniteSet(A \X B)
  <2>1. IsFiniteSet(A) /\ IsFiniteSet(B)
    BY <1>1, FS_Subset
  <2> QED BY <2>1, FS_Product
<1>3. \A e \in A \X B : g.mult[e] = 0
  <2> SUFFICES ASSUME NEW x \in A, NEW y \in B PROVE g.mult[<<x, y>>] = 0
    OBVIOUS
  <2>1. g.mult[<<x, y>>] \in Nat /\ ~(g.mult[<<x, y>>] > 0)
    BY <1>1
  <2> QED BY <2>1
<1>4. Weight(g, A, B) = 0
  <2> DEFINE S == A \X B
  <2>1. IsFiniteSet(S) /\ \A e \in S : g.mult[e] = 0
    BY <1>2, <1>3
  <2> HIDE DEF S
  <2>2. SumFunctionOnSet(g.mult, S) = 0
    BY <2>1, SumZero
  <2> QED BY <2>2 DEF Weight, S
<1> QED BY <1>4
-----------------------------------------------------------------------------
(* The nodes of a corridor.                                                *)

\* Everything in the clusters of a corridor is reached without leaving them.
LEMMA CorridorReaches ==
  ASSUME FilesInv, part # << >>, Connected(graph, part), NEW from \in 1..size, NEW to \in 1..size,
         NEW way \in ClusterCorridor(ClusterAdjacency(graph, part), part[from], part[to]),
         NEW M, M = MembersIn(part, way)
  PROVE  /\ from \in M /\ to \in M /\ M \in SUBSET (1..size)
         /\ Reached(Within(graph, M), from, to)
<1> DEFINE n == CommunityCount(part)
           super == Aggregate(graph, part)
           adj == ClusterAdjacency(graph, part)
           K == 0..(n - 1)
           R == Crossings(super, n)
           N == 1..size
           T == Within(graph, M)
<1>1. /\ IsWeighted(graph) /\ NodesIn(graph) = N /\ size \in Nat
      /\ IsPartition(part, N) /\ IsFiniteSet(N)
      /\ IsWeighted(super) /\ NodesIn(super) = 1..n /\ super.mult = Merging(graph, part)
      /\ n \in Nat
  BY DividedIs, FS_Interval
<1>2. part \in [N -> K]
  <2> HIDE DEF N, n
  <2>1. part \in [N -> 0..(CommunityCount(part) - 1)]
    BY <1>1, PartitionHas
  <2> QED BY <2>1 DEF n
<1>3. R \in [K -> SUBSET K] /\ Lists(adj, R) /\ IsFiniteSet(K)
  <2>1. R \in [K -> SUBSET K]
    BY DEF Crossings
  <2>2. IsFiniteSet(K)
    BY <1>1, FS_Interval
  <2> HIDE DEF n, super, adj
  <2>3. Lists(adj, R)
    BY <1>1, AdjacencyLists DEF n, super, adj
  <2> QED BY <2>1, <2>2, <2>3
<1> HIDE DEF n, super, adj, K, R
<1>4. way \in Seq(K) /\ Links(R, way, part[from], part[to])
  <2>1. part[from] \in K /\ part[to] \in K /\ way \in ClusterCorridor(adj, part[from], part[to])
    BY <1>2 DEF adj
  <2> DEFINE a == part[from]
             b == part[to]
  <2>2. a \in K /\ b \in K /\ way \in ClusterCorridor(adj, a, b)
    BY <2>1
  <2> HIDE DEF a, b, N
  <2>3. \A x \in ClusterCorridor(adj, a, b) : x \in Seq(K) /\ Direct(R, x) /\ Links(R, x, a, b)
    BY <1>3, <2>2, CorridorIs
  <2> QED BY <2>2, <2>3 DEF a, b
<1>5. /\ way[1] = part[from] /\ way[Len(way)] = part[to] /\ Len(way) \in Nat /\ Len(way) >= 1
      /\ DOMAIN way = 1..Len(way) /\ \A i \in 1..Len(way) : way[i] \in K
      /\ \A i \in 1..(Len(way) - 1) : way[i + 1] \in R[way[i]]
  <2>1. /\ way # << >> /\ way[1] = part[from] /\ way[Len(way)] = part[to]
        /\ \A i \in 1..(Len(way) - 1) : way[i + 1] \in R[way[i]]
    BY <1>4 DEF Links, IsWalk
  <2>2. Len(way) \in Nat /\ Len(way) # 0 /\ DOMAIN way = 1..Len(way)
    BY <1>4, <2>1, EmptySeq, LenProperties
  <2>3. \A i \in 1..Len(way) : way[i] \in K
    BY <1>4, ElementOfSeq
  <2> QED BY <2>1, <2>2, <2>3
<1>6. M = {v \in N : \E i \in 1..Len(way) : part[v] = way[i]}
  <2>1. DOMAIN part = N
    BY <1>2
  <2> HIDE DEF N
  <2> QED BY <1>5, <2>1 DEF MembersIn, ToSet
<1>7. from \in M /\ to \in M /\ M \in SUBSET N
  <2>1. 1 \in 1..Len(way) /\ Len(way) \in 1..Len(way)
    BY <1>5
  <2> QED BY <1>5, <1>6, <2>1
<1>8. /\ T = [x \in N |-> {y \in N : graph.mult[<<x, y>>] > 0} \cap M] /\ T \in [N -> SUBSET N]
      /\ from \in N /\ to \in N
  BY <1>1 DEF Within, Neighbours
<1> HIDE DEF T
<1>9. ASSUME NEW x \in N, NEW v \in N, part[x] = part[v], NEW i \in 1..Len(way), part[x] = way[i],
             Reached(T, from, x)
      PROVE  Reached(T, from, v)
  <2> DEFINE B == BucketOf(part, part[x])
             U == Within(graph, B)
  <2>1. B = {y \in N : part[y] = part[x]}
    BY <1>2 DEF BucketOf
  <2>2. BfsDistance(graph, x, v, B) # {}
    BY <1>1, <1>9 DEF Connected
  <2>3. x \in B /\ v \in B /\ B \subseteq M
    BY <1>6, <1>9, <2>1
  <2> HIDE DEF B
  <2>4. U \in [N -> SUBSET N] /\ BfsDistance(graph, x, v, B) = IF Reached(U, x, v) THEN {Depth(U, x, v)} ELSE {}
    <3> HIDE DEF U
    <3>1. U = Within(graph, B)
      BY DEF U
    <3> QED BY <1>1, <2>3, <3>1, DistanceIs
  <2>5. Reached(U, x, v)
    BY <2>2, <2>4
  <2>6. Inside(U, T)
    <3>1. U = [z \in N |-> {y \in N : graph.mult[<<z, y>>] > 0} \cap B]
      BY <1>1 DEF Within, Neighbours
    <3> HIDE DEF N
    <3> QED BY <1>8, <2>3, <3>1 DEF Inside
  <2> HIDE DEF U, N
  <2> QED BY <1>8, <1>9, <2>4, <2>5, <2>6, ReachThrough
<1> DEFINE P(i) == \A v \in N : part[v] = way[i] => Reached(T, from, v)
           F == {k \in Nat : k + 1 <= Len(way) => P(k + 1)}
<1>10. P(1)
  <2>1. Reached(T, from, from)
    <3> HIDE DEF N
    <3>1. Wave(T, from, {from}, <<from>>, 0)
      BY <1>8, WaveStarts
    <3> QED BY <3>1 DEF Wave, Grown
  <2>2. 1 \in 1..Len(way)
    BY <1>5
  <2> QED BY <1>5, <1>9, <2>1, <2>2
<1>11. ASSUME NEW i \in 1..(Len(way) - 1), P(i)
       PROVE  P(i + 1)
  <2>1. i \in 1..Len(way) /\ i + 1 \in 1..Len(way)
    BY <1>5
  <2> DEFINE c == way[i]
             d == way[i + 1]
             A == BucketOf(part, c)
             B == BucketOf(part, d)
  <2>2. c \in K /\ d \in K /\ d \in R[c]
    BY <1>5, <2>1
  <2>3. A = {v \in N : part[v] = c} /\ B = {v \in N : part[v] = d}
    BY <1>2 DEF BucketOf
  <2>4. Weight(graph, A, B) > 0
    <3> HIDE DEF A, B, c, d
    <3>1. super.mult[<<c + 1, d + 1>>] > 0
      BY <2>2 DEF R, Crossings, K
    <3>2. c + 1 \in 1..n /\ d + 1 \in 1..n /\ (c + 1) - 1 = c /\ (d + 1) - 1 = d
      BY <1>1, <2>2 DEF K
    <3>3. Merging(graph, part)[<<c + 1, d + 1>>] =
            Weight(graph, BucketOf(part, (c + 1) - 1), BucketOf(part, (d + 1) - 1))
      BY <3>2 DEF Merging, n
    <3>4. Merging(graph, part)[<<c + 1, d + 1>>] = Weight(graph, BucketOf(part, c), BucketOf(part, d))
      BY <3>2, <3>3
    <3>5. Merging(graph, part)[<<c + 1, d + 1>>] > 0
      BY <1>1, <3>1
    <3> QED BY <3>4, <3>5 DEF A, B
  <2> HIDE DEF A, B
  <2>5. PICK x \in A : \E y \in B : graph.mult[<<x, y>>] > 0
    <3>1. A \in SUBSET NodesIn(graph) /\ B \in SUBSET NodesIn(graph)
      BY <1>1, <2>3
    <3> QED BY <1>1, <2>4, <3>1, CrossingEdge
  <2>6. PICK y \in B : graph.mult[<<x, y>>] > 0
    BY <2>5
  <2>7. x \in N /\ y \in N /\ part[x] = c /\ part[y] = d
    BY <2>3
  <2>8. y \in M
    BY <1>6, <2>1, <2>7
  <2>9. Reached(T, from, y)
    <3>1. Reached(T, from, x)
      BY <1>11, <2>7
    <3>2. y \in T[x]
      BY <1>8, <2>6, <2>7, <2>8
    <3> HIDE DEF N
    <3> QED BY <1>8, <3>1, <3>2, ReachOn
  <2> SUFFICES ASSUME NEW v \in N, part[v] = d PROVE Reached(T, from, v)
    OBVIOUS
  <2> QED BY <1>9, <2>1, <2>7, <2>9
<1>12. \A k \in Nat : k \in F
  <2>1. 0 \in F
    BY <1>10
  <2>2. \A k \in Nat : k \in F => k + 1 \in F
    <3> SUFFICES ASSUME NEW k \in Nat, k \in F, (k + 1) + 1 <= Len(way) PROVE P((k + 1) + 1)
      OBVIOUS
    <3>1. k + 1 <= Len(way) /\ k + 1 \in 1..(Len(way) - 1)
      BY <1>5
    <3>2. P(k + 1)
      BY <3>1
    <3> DEFINE i == k + 1
    <3>3. i \in 1..(Len(way) - 1) /\ P(i)
      BY <3>1, <3>2
    <3> HIDE DEF i, P
    <3>4. P(i + 1)
      BY <1>11, <3>3
    <3> QED BY <3>4 DEF i
  <2> HIDE DEF F
  <2> QED BY <2>1, <2>2, NumberInduction
<1>13. P(Len(way))
  <2> DEFINE k == Len(way) - 1
  <2>1. k \in Nat /\ k + 1 = Len(way) /\ k + 1 <= Len(way)
    BY <1>5
  <2> HIDE DEF k, P
  <2>2. P(k + 1)
    BY <1>12, <2>1
  <2> QED BY <2>1, <2>2
<1>14. Reached(T, from, to)
  BY <1>5, <1>8, <1>13
<1> QED BY <1>7, <1>14 DEF T

LEMMA CorridorsConnecting ==
  ASSUME FilesInv
  PROVE  CorridorConnects
<1> SUFFICES ASSUME part # << >>, Connected(graph, part), NEW from \in 1..size, NEW to \in 1..size,
                    NEW way \in ClusterCorridor(ClusterAdjacency(graph, part), part[from], part[to])
             PROVE  \E report \in Evaluate(graph, part, way, from, to) :
                      /\ report.corridor_dist # {}
                      /\ report.corridor_dist = {report.global_dist}
                           <=> \E p \in Between(ShortestPaths(graph), from, to) :
                                 Range(p) \subseteq MembersIn(part, way)
  BY DEF CorridorConnects
<1> DEFINE M == MembersIn(part, way)
           N == 1..size
           E == Edges(graph)
           T == Within(graph, M)
           W == Within(graph, NodesIn(graph))
<1>1. NodesIn(graph) = N /\ size \in Nat /\ from \in N /\ to \in N
  BY DividedIs
<1>2. from \in M /\ to \in M /\ M \in SUBSET N /\ Reached(T, from, to)
  <2> HIDE DEF M
  <2>1. M = MembersIn(part, way)
    BY DEF M
  <2> QED BY <2>1, CorridorReaches
<1>3. E \in [N -> SUBSET N] /\ T = [x \in N |-> E[x] \cap M] /\ W = E
  <2>1. E = [x \in N |-> {y \in N : graph.mult[<<x, y>>] > 0}]
    BY <1>1 DEF Edges, Neighbours
  <2>2. T = [x \in N |-> {y \in N : graph.mult[<<x, y>>] > 0} \cap M]
    BY <1>1 DEF Within, Neighbours
  <2>3. W = [x \in N |-> {y \in N : graph.mult[<<x, y>>] > 0} \cap N]
    BY <1>1 DEF Within, Neighbours
  <2> HIDE DEF E, T, W, N, M
  <2>4. E \in [N -> SUBSET N]
    BY <2>1
  <2>5. T = [x \in N |-> E[x] \cap M]
    BY <2>1, <2>2
  <2>6. W = E
    BY <2>1, <2>3
  <2> QED BY <2>4, <2>5, <2>6
<1>4. Between(ShortestPaths(graph), from, to) = {p \in Seq(N) : Direct(E, p) /\ Links(E, p, from, to)}
  BY <1>1, BetweenIs
<1>5. BfsDistance(graph, from, to, M) = {Depth(T, from, to)}
  <2> HIDE DEF M, T
  <2>1. T = Within(graph, M)
    BY DEF T
  <2> QED BY <1>1, <1>2, <2>1, DistanceIs
<1> DEFINE short == Stays(E, M, from, to)
<1>6. Reached(E, from, to) /\ (Depth(T, from, to) = Depth(E, from, to) <=> short)
  <2> HIDE DEF M, N, E, T, W
  <2>1. /\ E \in [N -> SUBSET N] /\ T = [x \in N |-> E[x] \cap M]
        /\ from \in N /\ from \in M /\ Reached(T, from, to)
    BY <1>1, <1>2, <1>3
  <2> QED BY <2>1, InsideShortest
<1>7. BfsDistance(graph, from, to, NodesIn(graph)) = {Depth(E, from, to)}
  <2> HIDE DEF E, W
  <2>1. W = Within(graph, NodesIn(graph))
    BY DEF W
  <2>2. BfsDistance(graph, from, to, NodesIn(graph)) = IF Reached(W, from, to) THEN {Depth(W, from, to)} ELSE {}
    BY <1>1, <2>1, DistanceIs
  <2> QED BY <1>3, <1>6, <2>2
<1> DEFINE report == [member_count |-> Cardinality(M), global_dist |-> Depth(E, from, to),
                      corridor_dist |-> BfsDistance(graph, from, to, M)]
<1>8. report \in Evaluate(graph, part, way, from, to)
  BY <1>7 DEF Evaluate
<1>9. report.corridor_dist = {Depth(T, from, to)} /\ report.global_dist = Depth(E, from, to)
  <2> HIDE DEF M, N, E, T, W
  <2> QED BY <1>5
<1>10. short <=> \E p \in Between(ShortestPaths(graph), from, to) : Range(p) \subseteq M
  <2> HIDE DEF M, N, E, T, W
  <2> QED BY <1>3, <1>4 DEF Stays
<1> HIDE DEF report, short, E, T, W, N
<1>11. /\ report.corridor_dist # {}
       /\ report.corridor_dist = {report.global_dist}
            <=> \E p \in Between(ShortestPaths(graph), from, to) : Range(p) \subseteq MembersIn(part, way)
  BY <1>6, <1>9, <1>10
<1> QED BY <1>8, <1>11

\* When every cluster is connected, a corridor connects any two nodes of its
\* first and its last cluster, and is optimal exactly when it holds a whole
\* shortest path of the graph.
THEOREM CorridorsConnect == Spec => []CorridorConnects
<1>1. FilesInv => CorridorConnects
  BY CorridorsConnecting
<1> QED BY <1>1, FilesKeepShape, PTL
-----------------------------------------------------------------------------
(* Shortest walks by their last step.                                      *)

\* A step from x to w that goes one away from u.
Onward(R, u, x, w) == w \in R[x] /\ Reached(R, u, x) /\ At(R, u, w, Depth(R, u, x) + 1)

\* The shortest walks from u to w that come to it from a node of E.
Ways(R, u, w, E) ==
  {p \in Seq(DOMAIN R) : /\ Direct(R, p) /\ p[1] = u /\ p[Len(p)] = w
                         /\ Len(p) # 1 => p[Len(p) - 1] \in E}

Befores(R, u, w, E) == {x \in E : Onward(R, u, x, w)}

LEMMA OnwardIs ==
  ASSUME NEW N, NEW R \in [N -> SUBSET N], NEW u \in N, NEW x \in N, NEW w
  PROVE  Onward(R, u, x, w) <=> /\ w \in R[x] /\ Reached(R, u, x) /\ Reached(R, u, w)
                                /\ Depth(R, u, w) = Depth(R, u, x) + 1
<1>1. ASSUME Onward(R, u, x, w)
      PROVE  /\ w \in R[x] /\ Reached(R, u, x) /\ Reached(R, u, w)
             /\ Depth(R, u, w) = Depth(R, u, x) + 1
  <2>1. w \in R[x] /\ Reached(R, u, x) /\ At(R, u, w, Depth(R, u, x) + 1)
    BY <1>1 DEF Onward
  <2>2. Depth(R, u, x) + 1 \in Nat
    BY <2>1, DepthIs
  <2> QED BY <2>1, <2>2, DepthOf
<1>2. ASSUME w \in R[x], Reached(R, u, x), Reached(R, u, w), Depth(R, u, w) = Depth(R, u, x) + 1
      PROVE  Onward(R, u, x, w)
  <2>1. At(R, u, w, Depth(R, u, w))
    BY <1>2, DepthIs
  <2> QED BY <1>2, <2>1 DEF Onward
<1> QED BY <1>1, <1>2

\* A shortest walk without its last step is a shortest walk.
LEMMA DirectSplits ==
  ASSUME NEW N, NEW R \in [N -> SUBSET N], NEW u \in N, NEW p \in Seq(N), Direct(R, p),
         p[1] = u, Len(p) # 1
  PROVE  \E q \in Seq(N), x \in N :
           /\ p = Append(q, p[Len(p)]) /\ Len(p) = Len(q) + 1 /\ x = p[Len(p) - 1]
           /\ Direct(R, q) /\ q[1] = u /\ q[Len(q)] = x /\ Onward(R, u, x, p[Len(p)])
<1> DEFINE v == p[Len(p)]
<1>1. Links(R, p, u, v) /\ At(R, u, v, Len(p) - 1)
  BY DEF Direct, Links
<1> HIDE DEF v
<1>2. PICK q \in Seq(N), x \in N : /\ p = Append(q, v) /\ Len(p) = Len(q) + 1
                                   /\ Links(R, q, u, x) /\ v \in R[x]
  BY <1>1, WalkBack
<1>3. Len(q) \in Nat /\ Len(q) >= 1
  <2>1. q # << >>
    BY <1>2 DEF Links, IsWalk
  <2> QED BY <2>1, EmptySeq, LenProperties
<1> DEFINE d == Len(q) - 1
<1>4. d \in Nat /\ Len(q) <= d + 1 /\ Len(p) - 1 = d + 1
  BY <1>2, <1>3
<1> HIDE DEF d
<1>5. x \in Near(R, u, d)
  BY <1>2, <1>4 DEF Near
<1>6. At(R, u, v, d + 1)
  BY <1>1, <1>4
<1>7. At(R, u, x, d)
  <2> SUFFICES ASSUME NEW e \in 0..(d - 1), x \in Near(R, u, e) PROVE FALSE
    BY <1>5 DEF At
  <2>1. e \in Nat /\ e + 1 \in 0..((d + 1) - 1)
    BY <1>4
  <2>2. v \in Near(R, u, e + 1)
    BY <1>2, <2>1, NearStep
  <2> QED BY <1>6, <2>1, <2>2 DEF At
<1>8. Reached(R, u, x) /\ Depth(R, u, x) = d
  BY <1>4, <1>7, DepthOf
<1>9. Onward(R, u, x, v)
  BY <1>2, <1>6, <1>8 DEF Onward
<1>10. Direct(R, q) /\ q[1] = u /\ q[Len(q)] = x
  BY <1>2, <1>7 DEF Direct, Links, d
<1>11. x = p[Len(p) - 1]
  <2>1. Len(p) - 1 = Len(q) /\ Len(q) \in 1..Len(q)
    BY <1>2, <1>3
  <2>2. v \in N
    BY <1>2
  <2>3. Append(q, v)[Len(q)] = q[Len(q)]
    BY <2>1, <2>2, AppendProperties
  <2> QED BY <1>2, <1>10, <2>1, <2>3
<1> QED BY <1>2, <1>9, <1>10, <1>11 DEF v

\* A step that goes one away continues every shortest walk to its beginning.
LEMMA DirectOn ==
  ASSUME NEW N, NEW R \in [N -> SUBSET N], NEW u \in N, NEW x \in N, NEW w, Onward(R, u, x, w),
         NEW p \in Seq(N), Direct(R, p), p[1] = u, p[Len(p)] = x
  PROVE  /\ Append(p, w) \in Seq(N) /\ Direct(R, Append(p, w)) /\ w \in N
         /\ Len(Append(p, w)) = Len(p) + 1 /\ Len(p) + 1 # 1
         /\ Append(p, w)[1] = u /\ Append(p, w)[Len(p) + 1] = w /\ Append(p, w)[Len(p)] = x
<1>1. Links(R, p, u, x) /\ At(R, u, x, Len(p) - 1) /\ p # << >>
  BY DEF Direct, Links, IsWalk
<1>2. w \in R[x] /\ Reached(R, u, x) /\ At(R, u, w, Depth(R, u, x) + 1)
  BY DEF Onward
<1>3. /\ Links(R, Append(p, w), u, w) /\ Append(p, w) \in Seq(N)
      /\ Len(Append(p, w)) = Len(p) + 1 /\ w \in N
  BY <1>1, <1>2, WalkOn
<1>4. Len(p) \in Nat /\ Len(p) >= 1
  BY <1>1, EmptySeq, LenProperties
<1>5. Depth(R, u, x) = Len(p) - 1
  BY <1>1, <1>4, DepthOf
<1>6. At(R, u, w, (Len(p) + 1) - 1)
  BY <1>2, <1>4, <1>5
<1>7. Append(p, w)[Len(p)] = p[Len(p)]
  <2>1. Len(p) \in 1..Len(p)
    BY <1>4
  <2> QED BY <1>3, <2>1, AppendProperties
<1> DEFINE q == Append(p, w)
<1>8. IsWalk(R, q) /\ q[1] = u /\ q[Len(q)] = w /\ Len(q) = Len(p) + 1
  BY <1>3 DEF Links
<1>9. Direct(R, q)
  <2> HIDE DEF q
  <2> QED BY <1>6, <1>8 DEF Direct
<1>10. Len(p) + 1 # 1
  BY <1>4
<1> HIDE DEF q
<1>11. q[Len(p) + 1] = w
  BY <1>8
<1> QED BY <1>3, <1>7, <1>8, <1>9, <1>10, <1>11 DEF q

\* As many shortest walks to w, from the same nodes.
Keeps(R, u, w, E, F) ==
  Ways(R, u, w, F) = Ways(R, u, w, E) /\ Befores(R, u, w, F) = Befores(R, u, w, E)

\* A node from which no shortest walk comes to w adds none.
LEMMA WaysKept ==
  ASSUME NEW N, NEW R \in [N -> SUBSET N], NEW u \in N, NEW v, NEW w, NEW E \in SUBSET N,
         ~Onward(R, u, v, w)
  PROVE  Keeps(R, u, w, E, E \cup {v})
<1>1. ASSUME NEW p \in Ways(R, u, w, E \cup {v})
      PROVE  p \in Ways(R, u, w, E)
  <2>1. /\ p \in Seq(N) /\ Direct(R, p) /\ p[1] = u /\ p[Len(p)] = w
        /\ Len(p) # 1 => p[Len(p) - 1] \in E \cup {v}
    BY DEF Ways
  <2>2. Len(p) # 1 => Onward(R, u, p[Len(p) - 1], w)
    BY <2>1, DirectSplits
  <2>3. Len(p) # 1 => p[Len(p) - 1] \in E
    BY <2>1, <2>2
  <2> QED BY <2>1, <2>3 DEF Ways
<1>2. \A p \in Ways(R, u, w, E) : p \in Ways(R, u, w, E \cup {v})
  BY DEF Ways
<1>3. Befores(R, u, w, E \cup {v}) = Befores(R, u, w, E)
  BY DEF Befores
<1> QED BY <1>1, <1>2, <1>3 DEF Keeps

\* The shortest walks to w with v among the nodes they may come from.
Joins(R, u, v, w, E) ==
  /\ IsFiniteSet(Ways(R, u, w, E \cup {v}))
  /\ Cardinality(Ways(R, u, w, E \cup {v})) =
       Cardinality(Ways(R, u, w, E)) + Cardinality(Ways(R, u, v, E))
  /\ Befores(R, u, w, E \cup {v}) = Befores(R, u, w, E) \cup {v}

\* A node from which shortest walks come to w adds as many as lead to it.
LEMMA WaysOn ==
  ASSUME NEW N, NEW R \in [N -> SUBSET N], NEW u \in N, NEW v \in N, NEW w, NEW E \in SUBSET N,
         v \notin E, Onward(R, u, v, w), Befores(R, u, v, N) \subseteq E,
         IsFiniteSet(Ways(R, u, v, E)), IsFiniteSet(Ways(R, u, w, E))
  PROVE  Joins(R, u, v, w, E)
<1> DEFINE S == Ways(R, u, v, E)
           old == Ways(R, u, w, E)
           all == Ways(R, u, w, E \cup {v})
           f == [p \in S |-> Append(p, w)]
           T == {Append(p, w) : p \in S}
<1>1. ASSUME NEW p \in S
      PROVE  /\ p \in Seq(N) /\ Append(p, w) \in all /\ w \in N
             /\ Append(p, w)[Len(Append(p, w)) - 1] = v /\ Len(Append(p, w)) # 1
  <2>1. p \in Seq(N) /\ Direct(R, p) /\ p[1] = u /\ p[Len(p)] = v
    BY DEF Ways
  <2>2. /\ Append(p, w) \in Seq(N) /\ Direct(R, Append(p, w)) /\ w \in N
        /\ Len(Append(p, w)) = Len(p) + 1 /\ Len(p) + 1 # 1
        /\ Append(p, w)[1] = u /\ Append(p, w)[Len(p) + 1] = w /\ Append(p, w)[Len(p)] = v
    BY <2>1, DirectOn
  <2>3. Len(p) \in Nat /\ (Len(p) + 1) - 1 = Len(p)
    BY <2>1, LenProperties
  <2> DEFINE q == Append(p, w)
  <2>4. q[Len(q)] = w /\ q[Len(q) - 1] = v /\ Len(q) # 1 /\ q \in Seq(N) /\ Direct(R, q) /\ q[1] = u
    BY <2>2, <2>3
  <2> HIDE DEF q
  <2>5. q \in all
    BY <2>4 DEF Ways
  <2> QED BY <2>1, <2>2, <2>4, <2>5 DEF q
<1>2. ASSUME NEW p \in all, p \notin old
      PROVE  p \in T
  <2>1. /\ p \in Seq(N) /\ Direct(R, p) /\ p[1] = u /\ p[Len(p)] = w
        /\ Len(p) # 1 /\ p[Len(p) - 1] = v
    BY <1>2 DEF Ways
  <2>2. PICK q \in Seq(N), x \in N :
          /\ p = Append(q, p[Len(p)]) /\ Len(p) = Len(q) + 1 /\ x = p[Len(p) - 1]
          /\ Direct(R, q) /\ q[1] = u /\ q[Len(q)] = x /\ Onward(R, u, x, p[Len(p)])
    <3> HIDE DEF all, S, old
    <3> QED BY <2>1, DirectSplits
  <2>3. Len(q) # 1 => q[Len(q) - 1] \in E
    <3> SUFFICES ASSUME Len(q) # 1 PROVE q[Len(q) - 1] \in E
      OBVIOUS
    <3>1. q[Len(q) - 1] \in N /\ Onward(R, u, q[Len(q) - 1], v)
      <4>1. PICK r \in Seq(N), y \in N :
              /\ q = Append(r, q[Len(q)]) /\ Len(q) = Len(r) + 1 /\ y = q[Len(q) - 1]
              /\ Direct(R, r) /\ r[1] = u /\ r[Len(r)] = y /\ Onward(R, u, y, q[Len(q)])
        <5> HIDE DEF all, S, old
        <5> QED BY <2>2, DirectSplits
      <4> QED BY <2>1, <2>2, <4>1
    <3> QED BY <3>1 DEF Befores
  <2>4. q \in S
    BY <2>1, <2>2, <2>3 DEF Ways
  <2> QED BY <2>1, <2>2, <2>4
<1>3. \A p \in old : p \in all /\ p \notin T
  <2> SUFFICES ASSUME NEW p \in old PROVE p \in all /\ p \notin T
    OBVIOUS
  <2>1. p \in all
    BY DEF Ways
  <2>2. Len(p) # 1 => p[Len(p) - 1] # v
    BY DEF Ways
  <2> QED BY <1>1, <2>1, <2>2
<1> HIDE DEF all, old, S
<1>4. all = old \cup T /\ old \cap T = {}
  BY <1>1, <1>2, <1>3
<1>5. f \in Bijection(S, T)
  <2>1. f \in [S -> T]
    OBVIOUS
  <2>2. \A p, q \in S : f[p] = f[q] => p = q
    <3> SUFFICES ASSUME NEW p \in S, NEW q \in S, Append(p, w) = Append(q, w) PROVE p = q
      OBVIOUS
    <3>1. p \in Seq(N) /\ q \in Seq(N) /\ w \in N
      BY <1>1
    <3> QED BY <3>1, AppendInjective
  <2>3. IsInjective(f)
    BY <2>2 DEF IsInjective
  <2>4. \A t \in T : \E p \in S : f[p] = t
    OBVIOUS
  <2> QED BY <2>1, <2>3, <2>4 DEF Bijection, Injection, Surjection
<1>6. IsFiniteSet(T) /\ Cardinality(T) = Cardinality(S)
  <2>1. ExistsBijection(S, T) /\ IsFiniteSet(S)
    BY <1>5 DEF ExistsBijection, S
  <2> HIDE DEF T, f
  <2> QED BY <2>1, FS_Bijection
<1> HIDE DEF T, f
<1>7. IsFiniteSet(old) /\ IsFiniteSet(S)
  BY DEF old, S
<1>8. IsFiniteSet(old \cup T) /\ Cardinality(old \cup T) =
        Cardinality(old) + Cardinality(T) - Cardinality(old \cap T)
  BY <1>6, <1>7, FS_Union
<1>9. Cardinality(old \cap T) = 0 /\ Cardinality(old) \in Nat /\ Cardinality(S) \in Nat
  BY <1>4, <1>7, FS_EmptySet, FS_CardinalityType
<1>10. IsFiniteSet(all) /\ Cardinality(all) = Cardinality(old) + Cardinality(S)
  BY <1>4, <1>6, <1>8, <1>9
<1>11. Befores(R, u, w, E \cup {v}) = Befores(R, u, w, E) \cup {v}
  BY DEF Befores
<1> QED BY <1>10, <1>11 DEF Joins, all, old, S
-----------------------------------------------------------------------------
(* The folds of the first phase of approximate_betweenness.                *)

Searches(N) ==
  [sigma : [N -> Int], dist : [N -> Int], preds : [N -> Seq(N)], delta : [N -> Int],
   order : Seq(N), queue : Seq(N)]

Reaching(v, a, w) ==
  IF a.dist[w] >= 0 THEN a
  ELSE [a EXCEPT !.dist[w] = a.dist[v] + 1, !.queue = Append(@, w)]

Counting(v, a, w) ==
  IF a.dist[w] # a.dist[v] + 1 THEN a
  ELSE [a EXCEPT !.sigma[w] = @ + a.sigma[v], !.preds[w] = Append(@, v)]

Tried(v, a, w) == Counting(v, Reaching(v, a, w), w)

Taken(b) == [b EXCEPT !.queue = Tail(@), !.order = Append(@, Head(b.queue))]

Tries(f, n, N, g, b, list) ==
  /\ f \in [0..n -> Searches(N)] /\ f[0] = Taken(b) /\ f[n] = Pop(g, b)
  /\ \A k \in 1..n : f[k] = Tried(Head(b.queue), f[k - 1], list[k])

\* What one neighbour does, field by field.
Tallies(v, a, w, new) ==
  /\ new.order = a.order
  /\ a.dist[w] >= 0 => new.dist = a.dist /\ new.queue = a.queue
  /\ ~(a.dist[w] >= 0) => /\ new.dist = [a.dist EXCEPT ![w] = a.dist[v] + 1]
                          /\ new.queue = Append(a.queue, w)
  /\ new.dist[w] = new.dist[v] + 1 => /\ new.sigma = [a.sigma EXCEPT ![w] = @ + a.sigma[v]]
                                      /\ new.preds = [a.preds EXCEPT ![w] = Append(@, v)]
  /\ new.dist[w] # new.dist[v] + 1 => new.sigma = a.sigma /\ new.preds = a.preds

LEMMA TriedIs ==
  ASSUME NEW N, NEW v \in N, NEW a \in Searches(N), NEW w \in N, NEW new, new = Tried(v, a, w)
  PROVE  Tallies(v, a, w, new) /\ new \in Searches(N)
<1> DEFINE c == Reaching(v, a, w)
<1>1. /\ a = [sigma |-> a.sigma, dist |-> a.dist, preds |-> a.preds, delta |-> a.delta,
              order |-> a.order, queue |-> a.queue]
      /\ a.sigma \in [N -> Int] /\ a.dist \in [N -> Int] /\ a.preds \in [N -> Seq(N)]
      /\ a.delta \in [N -> Int] /\ a.order \in Seq(N) /\ a.queue \in Seq(N)
  BY DEF Searches
<1>2. /\ c.sigma = a.sigma /\ c.preds = a.preds /\ c.order = a.order /\ c \in Searches(N)
      /\ a.dist[w] >= 0 => c.dist = a.dist /\ c.queue = a.queue
      /\ ~(a.dist[w] >= 0) => /\ c.dist = [a.dist EXCEPT ![w] = a.dist[v] + 1]
                              /\ c.queue = Append(a.queue, w)
  <2>1. CASE a.dist[w] >= 0
    <3>1. c = a
      BY <2>1 DEF Reaching
    <3> HIDE DEF c
    <3> QED BY <2>1, <3>1
  <2>2. CASE ~(a.dist[w] >= 0)
    <3> DEFINE d == [a.dist EXCEPT ![w] = a.dist[v] + 1]
               q == Append(a.queue, w)
    <3>1. c = [a EXCEPT !.dist = d, !.queue = q]
      BY <1>1, <2>2 DEF Reaching
    <3>2. d \in [N -> Int] /\ q \in Seq(N)
      BY <1>1
    <3> HIDE DEF d, q, c
    <3>3. c = [sigma |-> a.sigma, dist |-> d, preds |-> a.preds, delta |-> a.delta,
               order |-> a.order, queue |-> q]
      BY <1>1, <3>1
    <3>4. c.sigma = a.sigma /\ c.preds = a.preds /\ c.order = a.order /\ c.dist = d /\ c.queue = q
      BY <3>3
    <3>5. c \in Searches(N)
      BY <1>1, <3>2, <3>3 DEF Searches
    <3> QED BY <2>2, <3>4, <3>5 DEF d, q
  <2> QED BY <2>1, <2>2
<1>3. new = Counting(v, c, w)
  BY DEF Tried
<1> HIDE DEF c
<1>4. /\ c = [sigma |-> c.sigma, dist |-> c.dist, preds |-> c.preds, delta |-> c.delta,
              order |-> c.order, queue |-> c.queue]
      /\ c.sigma \in [N -> Int] /\ c.dist \in [N -> Int] /\ c.preds \in [N -> Seq(N)]
      /\ c.delta \in [N -> Int] /\ c.order \in Seq(N) /\ c.queue \in Seq(N)
  BY <1>2 DEF Searches
<1>5. CASE c.dist[w] # c.dist[v] + 1
  <2>1. new = c
    BY <1>3, <1>5 DEF Counting
  <2>2. new.dist[w] # new.dist[v] + 1
    BY <1>5, <2>1
  <2> QED BY <1>2, <2>1, <2>2 DEF Tallies
<1>6. CASE c.dist[w] = c.dist[v] + 1
  <2> DEFINE s == [a.sigma EXCEPT ![w] = @ + a.sigma[v]]
             p == [a.preds EXCEPT ![w] = Append(@, v)]
  <2>1. new = [c EXCEPT !.sigma = s, !.preds = p]
    BY <1>2, <1>3, <1>4, <1>6 DEF Counting
  <2>2. s \in [N -> Int] /\ p \in [N -> Seq(N)]
    <3>1. s \in [N -> Int]
      BY <1>1
    <3>2. Append(a.preds[w], v) \in Seq(N)
      BY <1>1, AppendProperties
    <3> QED BY <1>1, <3>1, <3>2
  <2> HIDE DEF s, p
  <2>3. new = [sigma |-> s, dist |-> c.dist, preds |-> p, delta |-> c.delta,
               order |-> c.order, queue |-> c.queue]
    BY <1>4, <2>1
  <2>4. new.sigma = s /\ new.preds = p /\ new.dist = c.dist /\ new.order = c.order /\ new.queue = c.queue
    BY <2>3
  <2>5. new \in Searches(N)
    <3>1. /\ c.dist \in [N -> Int] /\ c.delta \in [N -> Int] /\ c.order \in Seq(N)
          /\ c.queue \in Seq(N)
      BY <1>4
    <3> QED BY <2>2, <2>3, <3>1 DEF Searches
  <2>6. new.dist[w] = new.dist[v] + 1
    BY <1>6, <2>4
  <2>7. Tallies(v, a, w, new)
    BY <1>2, <2>4, <2>6 DEF Tallies, s, p
  <2> QED BY <2>5, <2>7
<1> QED BY <1>5, <1>6

\* The neighbours of one node, one after the other.
LEMMA PopFold ==
  ASSUME NEW N, NEW g, NEW b \in Searches(N), b.queue # << >>,
         NEW n \in Nat, NEW list \in [1..n -> N], Adjacent(g, Head(b.queue)) = list
  PROVE  \E f : Tries(f, n, N, g, b, list)
<1> DEFINE S == Searches(N)
           base == Taken(b)
           step == [z \in Nat \X S |-> IF z[1] \in 1..n THEN Tried(Head(b.queue), z[2], list[z[1]]) ELSE z[2]]
           Table(it) == it = [s \in SUBSET (1..n) |->
                                IF s = {} THEN base ELSE Tried(Head(b.queue), it[s \ {Max(s)}], list[Max(s)])]
<1>1. Head(b.queue) \in N /\ base \in S
  <2>1. b.queue \in Seq(N) /\ b.queue # << >> /\ b.order \in Seq(N)
    BY DEF Searches
  <2>2. Head(b.queue) \in N /\ Tail(b.queue) \in Seq(N)
    BY <2>1
  <2>3. Append(b.order, Head(b.queue)) \in Seq(N)
    BY <2>1, <2>2, AppendProperties
  <2> QED BY <2>2, <2>3 DEF Searches, Taken
<1>2. \A a \in S, w \in N : Tried(Head(b.queue), a, w) \in S
  <2> DEFINE v == Head(b.queue)
  <2> HIDE DEF v
  <2>1. v \in N
    BY <1>1 DEF v
  <2>2. \A a \in S, w \in N : Tried(v, a, w) \in S
    BY <2>1, TriedIs
  <2> QED BY <2>2 DEF v
<1>3. step \in [Nat \X S -> S]
  <2> HIDE DEF S
  <2> QED BY <1>2
<1>4. Pop(g, b) = (CHOOSE it : Table(it))[1..n]
  <2>1. Adjacent(g, Head(b.queue)) = list /\ DOMAIN list = 1..n
    OBVIOUS
  <2>2. Pop(g, b) =
          FoldLeft(LAMBDA c, w : Tried(Head(b.queue), c, w), Taken(b), Adjacent(g, Head(b.queue)))
    BY DEF Pop, Tried, Counting, Reaching, Taken
  <2>3. FoldLeft(LAMBDA c, w : Tried(Head(b.queue), c, w), Taken(b), list) =
          (CHOOSE it : Table(it))[1..n]
    BY <2>1 DEF FoldLeft, MapThenFoldSet
  <2> QED BY <2>1, <2>2, <2>3
<1> HIDE DEF S, step, base
<1>5. \E it : Table(it)
  <2>1. PICK it \in [SUBSET (1..n) -> S] : Tabled(it, base, step, n)
    BY <1>1, <1>3, TableExists
  <2>2. ASSUME NEW s \in SUBSET (1..n), s # {}
        PROVE  it[s] = Tried(Head(b.queue), it[s \ {Max(s)}], list[Max(s)])
    <3>1. Max(s) \in 1..n /\ Max(s) \in Nat /\ s \ {Max(s)} \in SUBSET (1..n)
      BY <2>2, MaxIs
    <3>2. it[s] = step[<<Max(s), it[s \ {Max(s)}]>>]
      BY <2>1, <2>2 DEF Tabled
    <3> QED BY <2>1, <3>1, <3>2 DEF step
  <2>3. \A s \in SUBSET (1..n) :
          it[s] = IF s = {} THEN base ELSE Tried(Head(b.queue), it[s \ {Max(s)}], list[Max(s)])
    BY <2>1, <2>2 DEF Tabled
  <2>4. Table(it)
    BY <2>3
  <2> HIDE DEF Table
  <2> QED BY <2>4
<1> DEFINE ch == CHOOSE it : Table(it)
<1>6. Table(ch)
  BY <1>5
<1>7. Follows(ch, base, S, step, n)
  <2> HIDE DEF ch
  <2> SUFFICES ASSUME NEW s \in SUBSET (1..n)
               PROVE  /\ s = {} => ch[s] = base
                      /\ s # {} /\ ch[s \ {Max(s)}] \in S => ch[s] = step[<<Max(s), ch[s \ {Max(s)}]>>]
    BY DEF Follows
  <2>1. CASE s = {}
    BY <1>6, <2>1
  <2>2. CASE s # {} /\ ch[s \ {Max(s)}] \in S
    <3>1. Max(s) \in 1..n /\ Max(s) \in Nat
      BY <2>2, MaxIs
    <3>2. ch[s] = Tried(Head(b.queue), ch[s \ {Max(s)}], list[Max(s)])
      BY <1>6, <2>2
    <3> HIDE DEF Table
    <3> QED BY <2>2, <3>1, <3>2 DEF step
  <2> QED BY <2>1, <2>2
<1> DEFINE f == States(ch, n)
<1>8. f \in [0..n -> S] /\ Solves(f, base, step, n)
  <2> HIDE DEF ch, Table
  <2> QED BY <1>1, <1>3, <1>7, FoldStates
<1>9. f[n] = Pop(g, b)
  BY <1>4 DEF States
<1> HIDE DEF f
<1>10. ASSUME NEW k \in 1..n
       PROVE  f[k] = Tried(Head(b.queue), f[k - 1], list[k])
  <2>1. f[k] = step[<<k, f[k - 1]>>] /\ k - 1 \in 0..n
    BY <1>8 DEF Solves
  <2> QED BY <1>8, <2>1 DEF step
<1> QED BY <1>8, <1>9, <1>10 DEF Solves, S, base, Tries


\* The neighbours in turn, and what trying them one by one makes of the state.
Tour(g, N, b, v, list) ==
  /\ \E f : Tries(f, Len(list), N, g, b, list)
  /\ Pop(g, b) \in Searches(N)
  /\ Len(list) \in Nat /\ list \in [1..Len(list) -> N]
  /\ \A i, j \in 1..Len(list) : list[i] = list[j] => i = j
  /\ {list[i] : i \in 1..Len(list)} = Neighbours(g, v) \ {v}

LEMMA PopType ==
  ASSUME NEW g, NEW N, N = NodesIn(g), IsFiniteSet(N), N \subseteq Int,
         NEW b \in Searches(N), b.queue # << >>
  PROVE  Tour(g, N, b, Head(b.queue), Adjacent(g, Head(b.queue)))
<1> DEFINE list == Adjacent(g, Head(b.queue))
           n == Len(list)
           S == Neighbours(g, Head(b.queue)) \ {Head(b.queue)}
<1>1. S \in SUBSET N
  BY DEF Neighbours
<1>2. list = Ascending(S)
  BY DEF Adjacent
<1> HIDE DEF S
<1>3. IsFiniteSet(S) /\ S \subseteq Int
  BY <1>1, FS_Subset
<1>4. list \in Seq(S) /\ Range(list) = S /\ IsAscending(list)
  BY <1>2, <1>3, AscendingSorts
<1>5. n \in Nat /\ DOMAIN list = 1..n /\ list \in [1..n -> S]
  BY <1>4, LenProperties
<1> HIDE DEF n, list
<1>6. list \in [1..n -> N]
  BY <1>1, <1>5
<1>7. PICK f : Tries(f, n, N, g, b, list)
  BY <1>5, <1>6, PopFold DEF list, Adjacent
<1>8. f \in [0..n -> Searches(N)] /\ n \in 0..n /\ f[n] = Pop(g, b)
  BY <1>5, <1>7 DEF Tries
<1>9. Pop(g, b) \in Searches(N)
  BY <1>8
<1>10. {list[i] : i \in 1..n} = S
  BY <1>4, <1>5 DEF Range
<1>11. \A i, j \in 1..n : list[i] = list[j] => i = j
  BY <1>3, <1>4, <1>5, <1>6 DEF IsAscending
<1>12. Tour(g, N, b, Head(b.queue), list)
  BY <1>5, <1>6, <1>7, <1>9, <1>10, <1>11 DEF n, S, Tour
<1> QED BY <1>12 DEF list

Popping(g, b) == IF b.queue = << >> THEN b ELSE Pop(g, b)

Searching(f, n, g, u) ==
  /\ f \in [0..n -> Searches(1..n)] /\ f[0] = Cleared(g, u, NoScratch(g))
  /\ f[n] = Searched(g, Cleared(g, u, NoScratch(g)))
  /\ \A k \in 1..n : f[k] = Popping(g, f[k - 1])

\* The nodes taken from the queue, one after the other.
LEMMA SearchFold ==
  ASSUME NEW g, NEW n \in Nat, NodesIn(g) = 1..n, NEW u \in 1..n
  PROVE  \E f : Searching(f, n, g, u)
<1> DEFINE S == Searches(1..n)
           base == Cleared(g, u, NoScratch(g))
           step == [z \in Nat \X S |-> IF z[1] \in 1..n THEN Popping(g, z[2]) ELSE z[2]]
           Table(it) == it = [s \in SUBSET (1..n) |->
                                IF s = {} THEN base ELSE Popping(g, it[s \ {Max(s)}])]
<1>0. IsFiniteSet(1..n) /\ 1..n \subseteq Int
  BY FS_Interval
<1>1. base \in S /\ n \in Nat
  <2> DEFINE N == 1..n
  <2>1. u \in N /\ NodesIn(g) = N
    OBVIOUS
  <2> HIDE DEF N
  <2>2. <<u>> \in Seq(N) /\ << >> \in Seq(N)
    BY <2>1
  <2>3. Cleared(g, u, NoScratch(g)) \in Searches(N)
    BY <2>1, <2>2 DEF Searches, Cleared, All
  <2> QED BY <2>3 DEF N
<1>2. \A a \in S : Popping(g, a) \in S
  <2> DEFINE N == 1..n
  <2>1. N = NodesIn(g) /\ IsFiniteSet(N) /\ N \subseteq Int
    BY <1>0
  <2> HIDE DEF N
  <2>2. \A a \in Searches(N) : Popping(g, a) \in Searches(N)
    <3> SUFFICES ASSUME NEW a \in Searches(N), a.queue # << >> PROVE Pop(g, a) \in Searches(N)
      BY DEF Popping
    <3> QED BY <2>1, PopType DEF Tour
  <2> QED BY <2>2 DEF N
<1>3. step \in [Nat \X S -> S]
  <2> HIDE DEF S
  <2> QED BY <1>2
<1>4. Searched(g, Cleared(g, u, NoScratch(g))) = (CHOOSE it : Table(it))[1..n]
  <2>1. DOMAIN Ascending(1..n) = 1..n
    BY CountingUp
  <2>2. Searched(g, base) = FoldLeft(LAMBDA c, k : Popping(g, c), base, Ascending(1..n))
    BY DEF Searched, Popping
  <2>3. FoldLeft(LAMBDA c, k : Popping(g, c), base, Ascending(1..n)) =
          (CHOOSE it : Table(it))[1..n]
    BY <2>1 DEF FoldLeft, MapThenFoldSet
  <2> QED BY <2>2, <2>3
<1> HIDE DEF S, step, base
<1>5. \E it : Table(it)
  <2>1. PICK it \in [SUBSET (1..n) -> S] : Tabled(it, base, step, n)
    BY <1>1, <1>3, TableExists
  <2>2. ASSUME NEW s \in SUBSET (1..n), s # {}
        PROVE  it[s] = Popping(g, it[s \ {Max(s)}])
    <3>1. Max(s) \in 1..n /\ Max(s) \in Nat /\ s \ {Max(s)} \in SUBSET (1..n)
      BY <2>2, MaxIs
    <3>2. it[s] = step[<<Max(s), it[s \ {Max(s)}]>>]
      BY <2>1, <2>2 DEF Tabled
    <3> QED BY <2>1, <3>1, <3>2 DEF step
  <2>3. \A s \in SUBSET (1..n) :
          it[s] = IF s = {} THEN base ELSE Popping(g, it[s \ {Max(s)}])
    BY <2>1, <2>2 DEF Tabled
  <2>4. Table(it)
    BY <2>3
  <2> HIDE DEF Table
  <2> QED BY <2>4
<1> DEFINE ch == CHOOSE it : Table(it)
<1>6. Table(ch)
  BY <1>5
<1>7. Follows(ch, base, S, step, n)
  <2> HIDE DEF ch
  <2> SUFFICES ASSUME NEW s \in SUBSET (1..n)
               PROVE  /\ s = {} => ch[s] = base
                      /\ s # {} /\ ch[s \ {Max(s)}] \in S => ch[s] = step[<<Max(s), ch[s \ {Max(s)}]>>]
    BY DEF Follows
  <2>1. CASE s = {}
    BY <1>6, <2>1
  <2>2. CASE s # {} /\ ch[s \ {Max(s)}] \in S
    <3>1. Max(s) \in 1..n /\ Max(s) \in Nat
      BY <2>2, MaxIs
    <3>2. ch[s] = Popping(g, ch[s \ {Max(s)}])
      BY <1>6, <2>2
    <3> HIDE DEF Table
    <3> QED BY <2>2, <3>1, <3>2 DEF step
  <2> QED BY <2>1, <2>2
<1> DEFINE f == States(ch, n)
<1>8. f \in [0..n -> S] /\ Solves(f, base, step, n)
  <2> HIDE DEF ch, Table
  <2> QED BY <1>1, <1>3, <1>7, FoldStates
<1>9. f[n] = Searched(g, Cleared(g, u, NoScratch(g)))
  BY <1>4 DEF States
<1> HIDE DEF f
<1>10. ASSUME NEW k \in 1..n
       PROVE  f[k] = Popping(g, f[k - 1])
  <2>1. f[k] = step[<<k, f[k - 1]>>] /\ k - 1 \in 0..n
    BY <1>8 DEF Solves
  <2> QED BY <1>8, <2>1 DEF step
<1> QED BY <1>8, <1>9, <1>10 DEF Solves, S, base, Searching
-----------------------------------------------------------------------------
(* The first phase of approximate_betweenness counts shortest walks.       *)

LEMMA AppendedIs ==
  ASSUME NEW N, NEW s \in Seq(N), NEW x \in N
  PROVE  /\ Range(Append(s, x)) = Range(s) \cup {x}
         /\ IsInjective(s) /\ x \notin Range(s) => IsInjective(Append(s, x))
<1> DEFINE q == Append(s, x)
           n == Len(s)
<1>1. /\ n \in Nat /\ DOMAIN s = 1..n /\ q \in Seq(N) /\ Len(q) = n + 1 /\ q[n + 1] = x
      /\ \A i \in 1..n : q[i] = s[i]
  BY AppendProperties, LenProperties
<1>2. DOMAIN q = 1..(n + 1)
  BY <1>1, LenProperties
<1> HIDE DEF q, n
<1>3. \A i \in 1..(n + 1) : i \in 1..n \/ i = n + 1
  BY <1>1
<1>4. n + 1 \in 1..(n + 1) /\ \A i \in 1..n : i \in 1..(n + 1)
  BY <1>1
<1>5. \A y \in Range(q) : y \in Range(s) \cup {x}
  BY <1>1, <1>2, <1>3 DEF Range
<1>6. \A y \in Range(s) : y \in Range(q)
  BY <1>1, <1>2, <1>4 DEF Range
<1>7. x \in Range(q)
  BY <1>1, <1>2, <1>4 DEF Range
<1>8. ASSUME IsInjective(s), x \notin Range(s), NEW i \in 1..(n + 1), NEW j \in 1..(n + 1), q[i] = q[j]
      PROVE  i = j
  <2>1. \A k \in 1..n : q[k] # x
    BY <1>1, <1>8 DEF Range
  <2>2. \A k, l \in 1..n : q[k] = q[l] => k = l
    BY <1>1, <1>8 DEF IsInjective
  <2> QED BY <1>1, <1>3, <1>8, <2>1, <2>2
<1>9. IsInjective(s) /\ x \notin Range(s) => IsInjective(q)
  BY <1>2, <1>8 DEF IsInjective
<1> QED BY <1>5, <1>6, <1>7, <1>9 DEF q

\* What the search knows of w when the nodes of E have been expanded.
Tally(R, u, a, w, E) ==
  /\ IsFiniteSet(Ways(R, u, w, E)) /\ a.sigma[w] = Cardinality(Ways(R, u, w, E))
  /\ IsInjective(a.preds[w]) /\ Range(a.preds[w]) = Befores(R, u, w, E)

\* While v is expanded: it has been tried with the nodes of D.
Expanding(R, u, v, a, E, D, done) ==
  /\ Measured(R, u, a) /\ Crest(R, u, v, Seen(a), a.queue, done)
  /\ \A x \in DOMAIN R : Tally(R, u, a, x, IF x \in D THEN E \cup {v} ELSE E)

LEMMA TallyCounts ==
  ASSUME NEW N, NEW R \in [N -> SUBSET N], NEW u \in N, NEW v \in N, NEW w \in N,
         NEW E \in SUBSET N, v \notin E, NEW a \in Searches(N),
         Tally(R, u, a, v, E), Tally(R, u, a, w, E),
         Onward(R, u, v, w), Befores(R, u, v, N) \subseteq E,
         NEW new, new.sigma = [a.sigma EXCEPT ![w] = @ + a.sigma[v]],
         new.preds = [a.preds EXCEPT ![w] = Append(@, v)]
  PROVE  Tally(R, u, new, w, E \cup {v})
<1>1. /\ IsFiniteSet(Ways(R, u, v, E)) /\ a.sigma[v] = Cardinality(Ways(R, u, v, E))
      /\ IsFiniteSet(Ways(R, u, w, E)) /\ a.sigma[w] = Cardinality(Ways(R, u, w, E))
      /\ IsInjective(a.preds[w]) /\ Range(a.preds[w]) = Befores(R, u, w, E)
  BY DEF Tally
<1>2. /\ IsFiniteSet(Ways(R, u, w, E \cup {v}))
      /\ Cardinality(Ways(R, u, w, E \cup {v})) =
           Cardinality(Ways(R, u, w, E)) + Cardinality(Ways(R, u, v, E))
      /\ Befores(R, u, w, E \cup {v}) = Befores(R, u, w, E) \cup {v}
  <2>1. IsFiniteSet(Ways(R, u, v, E)) /\ IsFiniteSet(Ways(R, u, w, E))
    BY <1>1
  <2>2. Joins(R, u, v, w, E)
    BY <2>1, WaysOn
  <2> QED BY <2>2 DEF Joins
<1>3. new.sigma[w] = a.sigma[w] + a.sigma[v] /\ new.preds[w] = Append(a.preds[w], v) /\ a.preds[w] \in Seq(N)
  BY DEF Searches
<1>4. v \notin Range(a.preds[w])
  BY <1>1 DEF Befores
<1>5. Range(new.preds[w]) = Range(a.preds[w]) \cup {v} /\ IsInjective(new.preds[w])
  BY <1>1, <1>3, <1>4, AppendedIs
<1> QED BY <1>1, <1>2, <1>3, <1>5 DEF Tally

\* The state has been grown from a by trying w.
Trying(R, u, v, a, new, E, D, w, done) ==
  /\ Expanding(R, u, v, new, E, D \cup {w}, done)
  /\ w \in Seen(new) /\ Seen(a) \subseteq Seen(new) /\ new.order = a.order
  /\ Seen(new) \ Range(new.queue) = Seen(a) \ Range(a.queue)

LEMMA TriedKeeps ==
  ASSUME NEW N, NEW R \in [N -> SUBSET N], NEW u \in N, NEW v \in N, NEW done,
         NEW E \in SUBSET N, v \notin E, Befores(R, u, v, N) \subseteq E,
         NEW a \in Searches(N), NEW D, v \notin D, Expanding(R, u, v, a, E, D, done),
         NEW w \in R[v], w \notin D, w # v,
         NEW new, new = Tried(v, a, w)
  PROVE  Trying(R, u, v, a, new, E, D, w, done)
<1>1. w \in N /\ Tallies(v, a, w, new)
  BY TriedIs
<1>2. /\ a.dist \in [N -> Int] /\ Seen(a) = {x \in N : a.dist[x] >= 0}
      /\ a.sigma \in [N -> Int] /\ a.preds \in [N -> Seq(N)]
  BY DEF Searches, Seen
<1>3. Measured(R, u, a) /\ Crest(R, u, v, Seen(a), a.queue, done)
  BY DEF Expanding
<1>4. v \in Seen(a) /\ Reached(R, u, v) /\ a.dist[v] = Depth(R, u, v) /\ Depth(R, u, v) \in Nat
  <2>1. v \in Seen(a) /\ Reached(R, u, v)
    BY <1>3 DEF Crest, Grown
  <2> QED BY <1>3, <2>1, DepthIs DEF Measured
<1>5. /\ Measured(R, u, new) /\ Crest(R, u, v, Seen(new), new.queue, done)
      /\ w \in Seen(new) /\ Seen(a) \subseteq Seen(new)
      /\ Seen(new) \ Range(new.queue) = Seen(a) \ Range(a.queue)
  <2>1. CASE a.dist[w] >= 0
    <3>1. new.dist = a.dist /\ new.queue = a.queue
      BY <1>1, <2>1 DEF Tallies
    <3>2. Seen(new) = Seen(a)
      BY <3>1 DEF Seen
    <3>3. Measured(R, u, new)
      BY <1>3, <3>1, <3>2 DEF Measured
    <3>4. w \in Seen(a)
      BY <1>1, <1>2, <2>1
    <3> QED BY <1>3, <3>1, <3>2, <3>3, <3>4
  <2>2. CASE ~(a.dist[w] >= 0)
    <3> DEFINE d == a.dist[v] + 1
    <3>1. new.dist = [a.dist EXCEPT ![w] = d] /\ new.queue = Append(a.queue, w)
      BY <1>1, <2>2 DEF Tallies
    <3>2. w \notin Seen(a)
      BY <1>2, <2>2
    <3>3. /\ Reached(R, u, w) /\ Depth(R, u, w) = Depth(R, u, v) + 1
          /\ Crest(R, u, v, Seen(a) \cup {w}, Append(a.queue, w), done)
      BY <1>3, <3>2, CrestSees
    <3>4. d = Depth(R, u, w) /\ d >= 0
      BY <1>4, <3>3
    <3> HIDE DEF d
    <3>5. DOMAIN new.dist = N /\ new.dist[w] = d /\ \A x \in N \ {w} : new.dist[x] = a.dist[x]
      BY <1>1, <1>2, <3>1
    <3>6. Seen(new) = Seen(a) \cup {w}
      <4>1. Seen(new) = {x \in N : new.dist[x] >= 0}
        BY <3>5 DEF Seen
      <4> QED BY <1>1, <1>2, <3>4, <3>5, <4>1
    <3>7. Measured(R, u, new)
      <4> SUFFICES ASSUME NEW x \in Seen(new) PROVE new.dist[x] = Depth(R, u, x)
        BY DEF Measured
      <4>1. CASE x = w
        BY <3>4, <3>5, <4>1
      <4>2. CASE x # w
        <5>1. x \in Seen(a) /\ x \in N \ {w}
          BY <1>2, <3>6, <4>2
        <5> QED BY <1>3, <3>5, <5>1 DEF Measured
      <4> QED BY <4>1, <4>2
    <3>8. Range(new.queue) = Range(a.queue) \cup {w}
      <4>1. a.queue \in Seq(N)
        BY DEF Searches
      <4> QED BY <1>1, <3>1, <4>1, AppendedIs
    <3>9. Seen(new) \ Range(new.queue) = Seen(a) \ Range(a.queue)
      BY <3>2, <3>6, <3>8
    <3> QED BY <3>1, <3>3, <3>6, <3>7, <3>9
  <2> QED BY <2>1, <2>2
<1>6. new.dist[w] = new.dist[v] + 1 <=> Onward(R, u, v, w)
  <2>1. new.dist[w] = Depth(R, u, w) /\ new.dist[v] = Depth(R, u, v) /\ Reached(R, u, w)
    BY <1>4, <1>5 DEF Measured, Crest, Grown
  <2>2. Onward(R, u, v, w) <=> Depth(R, u, w) = Depth(R, u, v) + 1
    BY <1>4, <2>1, OnwardIs
  <2> QED BY <2>1, <2>2
<1>7. \A x \in N : Tally(R, u, a, x, IF x \in D THEN E \cup {v} ELSE E)
  BY DEF Expanding
<1>8. ASSUME NEW x \in N, x # w
      PROVE  Tally(R, u, new, x, IF x \in D \cup {w} THEN E \cup {v} ELSE E)
  <2>1. new.sigma[x] = a.sigma[x] /\ new.preds[x] = a.preds[x]
    <3>1. CASE new.dist[w] = new.dist[v] + 1
      <4>1. new.sigma = [a.sigma EXCEPT ![w] = @ + a.sigma[v]] /\ new.preds = [a.preds EXCEPT ![w] = Append(@, v)]
        BY <1>1, <3>1 DEF Tallies
      <4> QED BY <1>2, <1>8, <4>1
    <3>2. CASE new.dist[w] # new.dist[v] + 1
      BY <1>1, <3>2 DEF Tallies
    <3> QED BY <3>1, <3>2
  <2>2. Tally(R, u, a, x, IF x \in D \cup {w} THEN E \cup {v} ELSE E)
    BY <1>7, <1>8
  <2> QED BY <2>1, <2>2 DEF Tally
<1>9. Tally(R, u, new, w, E \cup {v})
  <2>1. Tally(R, u, a, v, E) /\ Tally(R, u, a, w, E)
    BY <1>1, <1>7
  <2>2. CASE new.dist[w] = new.dist[v] + 1
    <3>1. new.sigma = [a.sigma EXCEPT ![w] = @ + a.sigma[v]] /\ new.preds = [a.preds EXCEPT ![w] = Append(@, v)]
      BY <1>1, <2>2 DEF Tallies
    <3>2. Onward(R, u, v, w)
      BY <1>6, <2>2
    <3> QED BY <1>1, <2>1, <3>1, <3>2, TallyCounts
  <2>3. CASE new.dist[w] # new.dist[v] + 1
    <3>1. new.sigma = a.sigma /\ new.preds = a.preds
      BY <1>1, <2>3 DEF Tallies
    <3>2. ~Onward(R, u, v, w)
      BY <1>6, <2>3
    <3>3. /\ Ways(R, u, w, E \cup {v}) = Ways(R, u, w, E)
          /\ Befores(R, u, w, E \cup {v}) = Befores(R, u, w, E)
      BY <3>2, WaysKept DEF Keeps
    <3> QED BY <2>1, <3>1, <3>3 DEF Tally
  <2> QED BY <2>2, <2>3
<1>10. \A x \in DOMAIN R : Tally(R, u, new, x, IF x \in D \cup {w} THEN E \cup {v} ELSE E)
  <2> SUFFICES ASSUME NEW x \in N PROVE Tally(R, u, new, x, IF x \in D \cup {w} THEN E \cup {v} ELSE E)
    OBVIOUS
  <2>1. CASE x = w
    BY <1>9, <2>1
  <2>2. CASE x # w
    BY <1>8, <2>2
  <2> QED BY <2>1, <2>2
<1>11. new.order = a.order
  BY <1>1 DEF Tallies
<1> QED BY <1>5, <1>10, <1>11 DEF Expanding, Trying

LEMMA TailRange ==
  ASSUME NEW N, NEW s \in Seq(N), s # << >>
  PROVE  Range(s) = Range(Tail(s)) \cup {Head(s)}
<1> DEFINE t == Tail(s)
           n == Len(s) - 1
<1>1. Len(s) \in Nat /\ Len(s) >= 1
  BY EmptySeq, LenProperties
<1>2. /\ t \in Seq(N) /\ Len(t) = n /\ n \in Nat /\ Len(s) = n + 1 /\ Head(s) = s[1]
      /\ \A i \in 1..n : t[i] = s[i + 1]
  BY <1>1, HeadTailProperties
<1>3. DOMAIN s = 1..(n + 1) /\ DOMAIN t = 1..n
  BY <1>2, LenProperties
<1> HIDE DEF t, n
<1>4. \A i \in 1..(n + 1) : i = 1 \/ (i - 1 \in 1..n /\ (i - 1) + 1 = i)
  BY <1>2
<1>5. 1 \in 1..(n + 1) /\ \A i \in 1..n : i + 1 \in 1..(n + 1)
  BY <1>2
<1>6. \A x \in Range(t) : x \in Range(s)
  BY <1>2, <1>3, <1>5 DEF Range
<1>7. Head(s) \in Range(s)
  BY <1>2, <1>3, <1>5 DEF Range
<1>8. ASSUME NEW i \in 1..(n + 1)
      PROVE  s[i] \in Range(t) \cup {Head(s)}
  <2>1. CASE i = 1
    BY <1>2, <2>1
  <2>2. CASE i # 1
    <3>1. i - 1 \in 1..n /\ t[i - 1] = s[i]
      BY <1>2, <1>4, <2>2
    <3> QED BY <1>3, <3>1 DEF Range
  <2> QED BY <2>1, <2>2
<1>9. \A x \in Range(s) : x \in Range(t) \cup {Head(s)}
  BY <1>3, <1>8 DEF Range
<1> QED BY <1>6, <1>7, <1>9 DEF t

\* A node is taken from the queue after all that shortest walks to it come from.
Heralded(R, u, order) ==
  \A j \in 1..Len(order) : \A x \in DOMAIN R :
    Onward(R, u, x, order[j]) => \E i \in 1..(j - 1) : order[i] = x

\* Between two turns.
Counted(R, u, a) ==
  /\ Measured(R, u, a) /\ IsInjective(a.order) /\ Heralded(R, u, a.order)
  /\ Range(a.order) = Seen(a) \ Range(a.queue)
  /\ \A x \in DOMAIN R : Tally(R, u, a, x, Range(a.order))

\* What leads to the node in turn has been expanded.
LEMMA BeforesExpanded ==
  ASSUME NEW N, NEW R \in [N -> SUBSET N], NEW u \in N, NEW v \in N, NEW seen, NEW queue,
         NEW done, Crest(R, u, v, seen, queue, done)
  PROVE  Befores(R, u, v, N) \subseteq seen \ (Range(queue) \cup {v})
<1> SUFFICES ASSUME NEW x \in N, Onward(R, u, x, v)
             PROVE  x \in seen /\ x # v /\ x \notin Range(queue)
  BY DEF Befores
<1>1. Reached(R, u, x) /\ Depth(R, u, v) = Depth(R, u, x) + 1
  BY OnwardIs
<1>2. Depth(R, u, x) \in Nat /\ At(R, u, x, Depth(R, u, x)) /\ Depth(R, u, v) \in Nat
  BY <1>1, DepthIs
<1>3. x \in seen
  <2>1. x \in Near(R, u, Depth(R, u, x))
    BY <1>2 DEF At
  <2>2. Depth(R, u, x) <= Depth(R, u, v)
    BY <1>1, <1>2
  <2>3. x \in Near(R, u, Depth(R, u, v))
    BY <1>2, <2>1, <2>2, NearMonotone
  <2> QED BY <2>3, NearerSeen
<1>4. x # v
  BY <1>1, <1>2
<1>5. x \notin Range(queue)
  <2> SUFFICES ASSUME x \in Range(queue) PROVE FALSE
    OBVIOUS
  <2>1. queue \in Seq(seen)
    BY DEF Crest, Lined
  <2>2. PICK i \in 1..Len(queue) : queue[i] = x
    BY <2>1, LenProperties DEF Range
  <2>3. Depth(R, u, v) <= Depth(R, u, x)
    BY <2>2 DEF Crest, Lined
  <2> QED BY <1>1, <1>2, <2>3
<1> QED BY <1>3, <1>4, <1>5

Ordering(R, u, order, S) ==
  IsInjective(order) /\ Heralded(R, u, order) /\ Range(order) = S

LEMMA OrderExtended ==
  ASSUME NEW N, NEW R \in [N -> SUBSET N], NEW u, NEW v \in N, NEW order \in Seq(N),
         IsInjective(order), Heralded(R, u, order), v \notin Range(order),
         Befores(R, u, v, N) \subseteq Range(order)
  PROVE  Ordering(R, u, Append(order, v), Range(order) \cup {v})
<1> DEFINE q == Append(order, v)
           n == Len(order)
<1>1. /\ n \in Nat /\ DOMAIN order = 1..n /\ Len(q) = n + 1 /\ q[n + 1] = v
      /\ \A i \in 1..n : q[i] = order[i]
  BY AppendProperties, LenProperties
<1>2. Range(q) = Range(order) \cup {v} /\ IsInjective(q)
  BY AppendedIs
<1> HIDE DEF q, n
<1>3. ASSUME NEW j \in 1..(n + 1), NEW x \in N, Onward(R, u, x, q[j])
      PROVE  \E i \in 1..(j - 1) : q[i] = x
  <2>1. CASE j = n + 1
    <3>1. x \in Range(order)
      BY <1>1, <1>3, <2>1 DEF Befores
    <3>2. PICK i \in 1..n : order[i] = x
      BY <1>1, <3>1 DEF Range
    <3>3. i \in 1..(j - 1) /\ q[i] = x
      BY <1>1, <2>1, <3>2
    <3> QED BY <3>3
  <2>2. CASE j # n + 1
    <3>1. j \in 1..n
      BY <1>1, <2>2
    <3>2. Onward(R, u, x, order[j])
      BY <1>1, <1>3, <3>1
    <3>3. PICK i \in 1..(j - 1) : order[i] = x
      BY <3>1, <3>2 DEF Heralded, n
    <3>4. i \in 1..n
      BY <1>1, <3>1
    <3> QED BY <1>1, <3>3, <3>4
  <2> QED BY <2>1, <2>2
<1>4. Heralded(R, u, q)
  BY <1>1, <1>3 DEF Heralded
<1> QED BY <1>2, <1>4 DEF q, Ordering

Turn(R, u, v, a, E, list, k, order, done) ==
  /\ Expanding(R, u, v, a, E, {list[j] : j \in 1..k}, done)
  /\ \A j \in 1..k : list[j] \in Seen(a)
  /\ a.order = order /\ Seen(a) \ Range(a.queue) = E \cup {v}

LEMMA TurnGoesOn ==
  ASSUME NEW N, NEW R \in [N -> SUBSET N], NEW u \in N, NEW v \in N, NEW done,
         NEW E \in SUBSET N, v \notin E, Befores(R, u, v, N) \subseteq E,
         NEW n \in Nat, NEW list \in [1..n -> N],
         \A i, j \in 1..n : list[i] = list[j] => i = j,
         {list[i] : i \in 1..n} = R[v] \ {v},
         NEW k \in Nat, k + 1 <= n, NEW order,
         NEW a \in Searches(N), Turn(R, u, v, a, E, list, k, order, done),
         NEW new, new = Tried(v, a, list[k + 1])
  PROVE  Turn(R, u, v, new, E, list, k + 1, order, done)
<1> DEFINE w == list[k + 1]
           D == {list[j] : j \in 1..k}
<1>1. k + 1 \in 1..n /\ \A j \in 1..k : j \in 1..n /\ j # k + 1
  OBVIOUS
<1>2. w \in R[v] /\ w # v /\ w \notin D /\ v \notin D
  <2>1. w \in {list[i] : i \in 1..n} /\ \A x \in D : x \in {list[i] : i \in 1..n}
    BY <1>1
  <2>2. w \notin D
    BY <1>1
  <2> QED BY <2>1, <2>2
<1>3. /\ Expanding(R, u, v, a, E, D, done) /\ \A x \in D : x \in Seen(a)
      /\ a.order = order /\ Seen(a) \ Range(a.queue) = E \cup {v}
  BY DEF Turn
<1>4. {list[j] : j \in 1..(k + 1)} = D \cup {w}
  <2>1. \A j \in 1..(k + 1) : j \in 1..k \/ j = k + 1
    OBVIOUS
  <2>2. k + 1 \in 1..(k + 1) /\ \A j \in 1..k : j \in 1..(k + 1)
    OBVIOUS
  <2> QED BY <2>1, <2>2
<1>5. new = Tried(v, a, w)
  OBVIOUS
<1> HIDE DEF w, D
<1>6. /\ Expanding(R, u, v, new, E, D \cup {w}, done)
      /\ w \in Seen(new) /\ Seen(a) \subseteq Seen(new) /\ new.order = a.order
      /\ Seen(new) \ Range(new.queue) = Seen(a) \ Range(a.queue)
  <2>1. Trying(R, u, v, a, new, E, D, w, done)
    BY <1>2, <1>3, <1>5, TriedKeeps
  <2> QED BY <2>1 DEF Trying
<1>7. \A x \in {list[j] : j \in 1..(k + 1)} : x \in Seen(new)
  BY <1>3, <1>4, <1>6
<1>8. \A j \in 1..(k + 1) : list[j] \in Seen(new)
  BY <1>7
<1> QED BY <1>3, <1>4, <1>6, <1>8 DEF Turn

LEMMA PopKeeps ==
  ASSUME NEW g, NEW N, N = NodesIn(g), IsFiniteSet(N), N \subseteq Int,
         NEW R, R = Edges(g), NEW u \in N, NEW done \in Nat,
         NEW b \in Searches(N), b.queue # << >>,
         Counted(R, u, b), Wave(R, u, Seen(b), b.queue, done),
         NEW new, new = Pop(g, b)
  PROVE  Counted(R, u, new) /\ Wave(R, u, Seen(new), new.queue, done + 1)
<1>0. R = [x \in N |-> {y \in N : g.mult[<<x, y>>] > 0}] /\ R \in [N -> SUBSET N]
  BY DEF Edges, Neighbours
<1> DEFINE v == Head(b.queue)
           list == Adjacent(g, v)
           n == Len(list)
           E == Range(b.order)
           order == Append(b.order, v)
<1>1. Crest(R, u, v, Seen(b), Tail(b.queue), done + 1) /\ v \in N
  BY <1>0, WaveBreaks
<1>2. /\ \E f : Tries(f, n, N, g, b, list)
      /\ n \in Nat /\ list \in [1..n -> N]
      /\ \A i, j \in 1..n : list[i] = list[j] => i = j
      /\ {list[i] : i \in 1..n} = Neighbours(g, v) \ {v}
  <2> HIDE DEF n
  <2>1. Tour(g, N, b, v, list)
    BY PopType
  <2> HIDE DEF list, v
  <2> QED BY <2>1 DEF Tour, n
<1>3. /\ b.queue \in Seq(N) /\ b.order \in Seq(N) /\ b.dist \in [N -> Int]
      /\ Range(b.queue) = Range(Tail(b.queue)) \cup {v}
  <2>1. b.queue \in Seq(N) /\ b.order \in Seq(N) /\ b.dist \in [N -> Int]
    BY DEF Searches
  <2> QED BY <2>1, TailRange
<1> HIDE DEF v, list, n
<1>4. E = Seen(b) \ (Range(Tail(b.queue)) \cup {v}) /\ v \notin E /\ E \in SUBSET N
  <2>1. E = Seen(b) \ Range(b.queue)
    BY DEF Counted
  <2>2. Seen(b) \subseteq N
    BY <1>3 DEF Seen
  <2> QED BY <1>3, <2>1, <2>2
<1>5. Befores(R, u, v, N) \subseteq E
  <2> DEFINE rest == Tail(b.queue)
             seen == Seen(b)
             dn == done + 1
  <2>1. /\ Crest(R, u, v, seen, rest, dn) /\ E = seen \ (Range(rest) \cup {v})
        /\ R \in [N -> SUBSET N] /\ v \in N
    BY <1>0, <1>1, <1>4
  <2> HIDE DEF E, rest, seen, dn
  <2>2. Befores(R, u, v, N) \subseteq seen \ (Range(rest) \cup {v})
    BY <2>1, BeforesExpanded
  <2> QED BY <2>1, <2>2
<1>6. PICK f : Tries(f, n, N, g, b, list)
  BY <1>2
<1>7. /\ f \in [0..n -> Searches(N)] /\ f[0] = Taken(b) /\ f[n] = new
      /\ \A k \in 1..n : f[k] = Tried(v, f[k - 1], list[k])
  BY <1>6 DEF Tries, v
<1>8. R[v] = Neighbours(g, v)
  BY <1>0, <1>1 DEF Neighbours
<1> DEFINE P(k) == Turn(R, u, v, f[k], E, list, k, order, done + 1)
           F == {k \in Nat : k <= n => P(k)}
<1>9. P(0)
  <2>1. /\ f[0].dist = b.dist /\ f[0].sigma = b.sigma /\ f[0].preds = b.preds
        /\ f[0].order = order /\ f[0].queue = Tail(b.queue)
    <3>1. b \in [sigma : [N -> Int], dist : [N -> Int], preds : [N -> Seq(N)],
                 delta : [N -> Int], order : Seq(N), queue : Seq(N)]
      BY DEF Searches
    <3> QED BY <1>7, <3>1 DEF Taken, v
  <2>2. Seen(f[0]) = Seen(b)
    BY <2>1 DEF Seen
  <2>3. Measured(R, u, f[0])
    BY <2>1, <2>2 DEF Counted, Measured
  <2>4. \A x \in DOMAIN R : Tally(R, u, f[0], x, E)
    BY <2>1 DEF Counted, Tally
  <2>5. {list[j] : j \in 1..0} = {} /\ \A j \in 1..0 : FALSE
    OBVIOUS
  <2> HIDE DEF E, order
  <2>6. Expanding(R, u, v, f[0], E, {}, done + 1)
    BY <1>1, <2>1, <2>2, <2>3, <2>4 DEF Expanding
  <2>7. Seen(f[0]) \ Range(f[0].queue) = E \cup {v}
    <3>1. v \in Seen(b) /\ v \notin Range(Tail(b.queue))
      BY <1>1 DEF Crest
    <3> QED BY <1>4, <2>1, <2>2, <3>1
  <2> QED BY <2>1, <2>5, <2>6, <2>7 DEF Turn
<1>10. ASSUME NEW k \in Nat, k + 1 <= n, P(k)
       PROVE  P(k + 1)
  <2> DEFINE a == f[k]
             new1 == f[k + 1]
             dn == done + 1
  <2>1. k + 1 \in 1..n /\ (k + 1) - 1 = k /\ k \in 0..n
    BY <1>2, <1>10
  <2>2. new1 = Tried(v, a, list[k + 1]) /\ a \in Searches(N)
    BY <1>7, <2>1
  <2>3. Turn(R, u, v, a, E, list, k, order, dn)
    BY <1>10
  <2> HIDE DEF a, new1, dn, E, order
  <2>4. {list[i] : i \in 1..n} = R[v] \ {v}
    BY <1>2, <1>8
  <2>5. /\ R \in [N -> SUBSET N] /\ v \in N /\ n \in Nat /\ list \in [1..n -> N]
        /\ \A i, j \in 1..n : list[i] = list[j] => i = j
    BY <1>0, <1>1, <1>2
  <2>6. Turn(R, u, v, new1, E, list, k + 1, order, dn)
    BY <1>4, <1>5, <1>10, <2>2, <2>3, <2>4, <2>5, TurnGoesOn
  <2> QED BY <2>6 DEF new1, dn
<1>11. P(n)
  <2>1. 0 \in F
    BY <1>9
  <2>2. \A k \in Nat : k \in F => k + 1 \in F
    <3> SUFFICES ASSUME NEW k \in Nat, k \in F, k + 1 <= n PROVE P(k + 1)
      OBVIOUS
    <3>1. k <= n
      BY <1>2
    <3>2. P(k)
      BY <3>1
    <3> HIDE DEF P
    <3> QED BY <1>10, <3>2
  <2>3. \A k \in Nat : k \in F
    <3> HIDE DEF F
    <3> QED BY <2>1, <2>2, NumberInduction
  <2>4. n \in F /\ n <= n
    BY <1>2, <2>3
  <2> HIDE DEF P
  <2> QED BY <2>4
<1> DEFINE D == {list[j] : j \in 1..n}
<1>12. /\ Expanding(R, u, v, new, E, D, done + 1) /\ D \subseteq Seen(new)
       /\ new.order = order /\ Seen(new) \ Range(new.queue) = E \cup {v}
  BY <1>7, <1>11 DEF Turn
<1>13. D = R[v] \ {v}
  BY <1>2, <1>8
<1>14. /\ IsInjective(order) /\ Heralded(R, u, order) /\ Range(order) = E \cup {v}
  <2> DEFINE o == b.order
  <2>1. /\ o \in Seq(N) /\ IsInjective(o) /\ Heralded(R, u, o) /\ v \notin Range(o)
        /\ Befores(R, u, v, N) \subseteq Range(o)
    BY <1>3, <1>4, <1>5 DEF Counted
  <2> HIDE DEF o
  <2>2. Ordering(R, u, Append(o, v), Range(o) \cup {v})
    BY <1>0, <1>1, <2>1, OrderExtended
  <2> QED BY <2>2 DEF o, Ordering
<1> HIDE DEF E, order, D
<1>15. Measured(R, u, new) /\ Crest(R, u, v, Seen(new), new.queue, done + 1)
  BY <1>12 DEF Expanding
<1>16. Wave(R, u, Seen(new), new.queue, done + 1)
  <2>1. v \in Seen(new)
    BY <1>15 DEF Crest
  <2>2. R[v] \subseteq Seen(new)
    BY <1>12, <1>13, <2>1
  <2> QED BY <1>0, <1>15, <2>2, CrestFalls
<1>17. ASSUME NEW x \in N
       PROVE  Tally(R, u, new, x, E \cup {v})
  <2>1. Tally(R, u, new, x, IF x \in D THEN E \cup {v} ELSE E)
    BY <1>0, <1>12 DEF Expanding
  <2>2. CASE x \in D
    BY <2>1, <2>2
  <2>3. CASE x \notin D
    <3>1. ~Onward(R, u, v, x)
      <4>1. x = v \/ x \notin R[v]
        BY <1>13, <2>3
      <4>2. ASSUME Onward(R, u, v, x)
            PROVE  x \in R[v] /\ x # v
        <5>1. R \in [N -> SUBSET N] /\ v \in N
          BY <1>0, <1>1
        <5>2. x \in R[v]
          BY <4>2, <5>1, OnwardIs
        <5>3. Reached(R, u, v) /\ Depth(R, u, x) = Depth(R, u, v) + 1
          BY <4>2, <5>1, OnwardIs
        <5>4. Depth(R, u, v) \in Nat
          BY <5>1, <5>3, DepthIs
        <5> QED BY <5>2, <5>3, <5>4
      <4> QED BY <4>1, <4>2
    <3>2. /\ Ways(R, u, x, E \cup {v}) = Ways(R, u, x, E)
          /\ Befores(R, u, x, E \cup {v}) = Befores(R, u, x, E)
      <4>1. R \in [N -> SUBSET N] /\ E \in SUBSET N /\ v \in N
        BY <1>0, <1>1, <1>4
      <4>2. Keeps(R, u, x, E, E \cup {v})
        BY <3>1, <4>1, WaysKept
      <4> QED BY <4>2 DEF Keeps
    <3>3. Tally(R, u, new, x, E)
      BY <2>1, <2>3
    <3> QED BY <3>2, <3>3 DEF Tally
  <2> QED BY <2>2, <2>3
<1>18. Counted(R, u, new)
  <2>1. \A x \in DOMAIN R : Tally(R, u, new, x, Range(new.order))
    BY <1>0, <1>12, <1>14, <1>17
  <2> QED BY <1>12, <1>14, <1>15, <2>1 DEF Counted
<1> QED BY <1>16, <1>18

\* After k turns: k nodes are expanded, or all are.
Tracking(R, u, a, k) ==
  /\ Counted(R, u, a)
  /\ \E done \in Nat : Wave(R, u, Seen(a), a.queue, done) /\ (done = k \/ a.queue = << >>)

LEMMA PoppingKeeps ==
  ASSUME NEW g, NEW N, N = NodesIn(g), IsFiniteSet(N), N \subseteq Int,
         NEW R, R = Edges(g), NEW u \in N, NEW k \in Nat,
         NEW a \in Searches(N), Tracking(R, u, a, k), NEW new, new = Popping(g, a)
  PROVE  Tracking(R, u, new, k + 1)
<1>1. CASE a.queue = << >>
  <2>1. new = a
    BY <1>1 DEF Popping
  <2> QED BY <1>1, <2>1 DEF Tracking
<1>2. CASE a.queue # << >>
  <2>1. new = Pop(g, a)
    BY <1>2 DEF Popping
  <2>2. PICK done \in Nat : Wave(R, u, Seen(a), a.queue, done) /\ (done = k \/ a.queue = << >>)
    BY DEF Tracking
  <2>3. Counted(R, u, a)
    BY DEF Tracking
  <2>4. Counted(R, u, new) /\ Wave(R, u, Seen(new), new.queue, done + 1)
    BY <1>2, <2>1, <2>2, <2>3, PopKeeps
  <2>5. done = k
    BY <1>2, <2>2
  <2> QED BY <2>4, <2>5 DEF Tracking
<1> QED BY <1>1, <1>2

\* All the shortest walks from u to w.
Arrivals(R, u, w) == {p \in Seq(DOMAIN R) : Direct(R, p) /\ p[1] = u /\ p[Len(p)] = w}

\* Before any node is expanded, only the start has a walk to it.
LEMMA WaysStart ==
  ASSUME NEW N, NEW R \in [N -> SUBSET N], NEW u \in N, NEW w \in N
  PROVE  Ways(R, u, w, {}) = IF w = u THEN {<<u>>} ELSE {}
<1>1. ASSUME NEW p \in Ways(R, u, w, {})
      PROVE  p = <<u>> /\ w = u
  <2>1. p \in Seq(N) /\ p # << >> /\ p[1] = u /\ p[Len(p)] = w /\ Len(p) = 1
    BY DEF Ways, Direct, IsWalk
  <2>2. <<u>> \in Seq(N) /\ Len(<<u>>) = 1 /\ <<u>>[1] = u
    OBVIOUS
  <2>3. \A i \in 1..Len(p) : p[i] = <<u>>[i]
    BY <2>1, <2>2
  <2>4. p = <<u>>
    BY <2>1, <2>2, <2>3, SeqEqual
  <2> QED BY <2>1, <2>4
<1>2. ASSUME w = u PROVE <<u>> \in Ways(R, u, w, {})
  <2>1. Links(R, <<u>>, u, u) /\ <<u>> \in Seq(N)
    BY WalkOne
  <2>2. Near(R, u, 0) = {u}
    BY NearGrows
  <2>3. At(R, u, u, 0)
    BY <2>2 DEF At
  <2>4. Len(<<u>>) = 1 /\ <<u>>[1] = u /\ 1 - 1 = 0
    OBVIOUS
  <2> QED BY <1>2, <2>1, <2>3, <2>4 DEF Ways, Direct, Links
<1> QED BY <1>1, <1>2

LEMMA NothingSeen == Range(<< >>) = {} /\ IsInjective(<< >>) /\ Len(<< >>) = 0
BY DEF Range, IsInjective

\* The state before the first turn.
LEMMA TrackingStarts ==
  ASSUME NEW g, NEW N, N = NodesIn(g), NEW R \in [N -> SUBSET N], NEW u \in N,
         NEW a, a = Cleared(g, u, NoScratch(g))
  PROVE  Tracking(R, u, a, 0)
<1>1. /\ a.sigma = [v \in N |-> IF v = u THEN 1 ELSE 0]
      /\ a.dist = [v \in N |-> IF v = u THEN 0 ELSE -1]
      /\ a.preds = [v \in N |-> << >>] /\ a.order = << >> /\ a.queue = <<u>>
  BY DEF Cleared, All
<1>2. Depth(R, u, u) = 0 /\ Wave(R, u, {u}, <<u>>, 0)
  BY WaveStarts
<1>3. Seen(a) = {u}
  <2>1. Seen(a) = {w \in N : (IF w = u THEN 0 ELSE -1) >= 0}
    BY <1>1 DEF Seen
  <2> QED BY <2>1
<1>4. Measured(R, u, a)
  BY <1>1, <1>2, <1>3 DEF Measured
<1>5. Range(<<u>>) = {u}
  BY DEF Range
<1>6. ASSUME NEW w \in N
      PROVE  Tally(R, u, a, w, {})
  <2>1. Ways(R, u, w, {}) = IF w = u THEN {<<u>>} ELSE {}
    BY WaysStart
  <2>2. IsFiniteSet({<<u>>}) /\ Cardinality({<<u>>}) = 1
    BY FS_Singleton
  <2>3. IsFiniteSet({}) /\ Cardinality({}) = 0
    BY FS_EmptySet
  <2>4. IsFiniteSet(Ways(R, u, w, {})) /\ Cardinality(Ways(R, u, w, {})) = a.sigma[w]
    BY <1>1, <2>1, <2>2, <2>3
  <2>5. Befores(R, u, w, {}) = {}
    BY DEF Befores
  <2> QED BY <1>1, <2>4, <2>5, NothingSeen DEF Tally
<1>7. Heralded(R, u, << >>)
  BY NothingSeen DEF Heralded
<1>8. \A w \in DOMAIN R : Tally(R, u, a, w, Range(a.order))
  BY <1>1, <1>6, NothingSeen
<1>9. Counted(R, u, a)
  BY <1>1, <1>3, <1>4, <1>5, <1>7, <1>8, NothingSeen DEF Counted
<1> QED BY <1>1, <1>2, <1>3, <1>9 DEF Tracking

\* When all that leads to w has been expanded, no shortest walk is left out.
LEMMA WaysAll ==
  ASSUME NEW N, NEW R \in [N -> SUBSET N], NEW u \in N, NEW w \in N, NEW E \in SUBSET N,
         Befores(R, u, w, N) \subseteq E
  PROVE  Ways(R, u, w, E) = Arrivals(R, u, w) /\ Befores(R, u, w, E) = Befores(R, u, w, N)
<1>1. \A p \in Ways(R, u, w, E) : p \in Arrivals(R, u, w)
  BY DEF Ways, Arrivals
<1>2. ASSUME NEW p \in Arrivals(R, u, w)
      PROVE  p \in Ways(R, u, w, E)
  <2>1. p \in Seq(N) /\ Direct(R, p) /\ p[1] = u /\ p[Len(p)] = w
    BY DEF Arrivals
  <2>2. ASSUME Len(p) # 1
        PROVE  p[Len(p) - 1] \in E
    <3>1. PICK q \in Seq(N), x \in N :
             /\ p = Append(q, p[Len(p)]) /\ Len(p) = Len(q) + 1 /\ x = p[Len(p) - 1]
             /\ Direct(R, q) /\ q[1] = u /\ q[Len(q)] = x /\ Onward(R, u, x, p[Len(p)])
      BY <2>1, <2>2, DirectSplits
    <3>2. x \in Befores(R, u, w, N)
      BY <2>1, <3>1 DEF Befores
    <3> QED BY <3>1, <3>2
  <2> QED BY <2>1, <2>2 DEF Ways
<1>3. Befores(R, u, w, E) = Befores(R, u, w, N)
  BY DEF Befores
<1> QED BY <1>1, <1>2, <1>3

\* What the first phase leaves.
Found(R, u, b, N) ==
  /\ b \in Searches(N) /\ IsInjective(b.order) /\ Heralded(R, u, b.order)
  /\ Range(b.order) = {w \in N : Reached(R, u, w)}
  /\ \A w \in N : /\ IsFiniteSet(Arrivals(R, u, w)) /\ b.sigma[w] = Cardinality(Arrivals(R, u, w))
                  /\ IsInjective(b.preds[w]) /\ Range(b.preds[w]) = Befores(R, u, w, N)

LEMMA TrackingEnds ==
  ASSUME NEW N, IsFiniteSet(N), NEW R \in [N -> SUBSET N], NEW u \in N,
         NEW b \in Searches(N), Tracking(R, u, b, Cardinality(N))
  PROVE  Found(R, u, b, N)
<1>1. PICK done \in Nat : Wave(R, u, Seen(b), b.queue, done) /\ (done = Cardinality(N) \/ b.queue = << >>)
  BY DEF Tracking
<1>2. b.queue = << >>
  <2>1. Wave(R, u, Seen(b), b.queue, Cardinality(N)) \/ b.queue = << >>
    BY <1>1
  <2> QED BY <2>1, WaveFull
<1>3. /\ IsInjective(b.order) /\ Heralded(R, u, b.order) /\ Range(b.order) = Seen(b)
      /\ \A w \in N : Tally(R, u, b, w, Range(b.order))
  BY <1>2, NothingSeen DEF Tracking, Counted
<1>4. Seen(b) = {w \in N : Reached(R, u, w)}
  <2>1. Seen(b) \in SUBSET N /\ \A w \in Seen(b) : Reached(R, u, w)
    BY <1>1 DEF Wave, Grown
  <2>2. \A w : Reached(R, u, w) => w \in Seen(b)
    BY <1>1, <1>2, WaveDone
  <2> QED BY <2>1, <2>2
<1> DEFINE E == Range(b.order)
<1>5. E = {w \in N : Reached(R, u, w)}
  BY <1>3, <1>4
<1> HIDE DEF E
<1>6. ASSUME NEW w \in N
      PROVE  /\ IsFiniteSet(Arrivals(R, u, w)) /\ b.sigma[w] = Cardinality(Arrivals(R, u, w))
             /\ IsInjective(b.preds[w]) /\ Range(b.preds[w]) = Befores(R, u, w, N)
  <2>1. E \in SUBSET N /\ Befores(R, u, w, N) \subseteq E
    BY <1>5 DEF Befores, Onward
  <2>2. Ways(R, u, w, E) = Arrivals(R, u, w) /\ Befores(R, u, w, E) = Befores(R, u, w, N)
    BY <2>1, WaysAll
  <2>3. Tally(R, u, b, w, E)
    BY <1>3 DEF E
  <2> QED BY <2>2, <2>3 DEF Tally
<1> QED BY <1>3, <1>5, <1>6 DEF Found, E

\* The first phase of approximate_betweenness takes every node that can be
\* reached from the queue once, after all that shortest walks to it come from;
\* sigma counts the shortest walks to a node, whatever the order of expansion,
\* and its predecessors are the nodes those walks come from, each once.
THEOREM SearchIs ==
  ASSUME NEW g, NEW n \in Nat, NodesIn(g) = 1..n, NEW u \in 1..n
  PROVE  Found(Edges(g), u, Searched(g, Cleared(g, u, NoScratch(g))), 1..n)
<1> DEFINE N == 1..n
           R == Edges(g)
           start == Cleared(g, u, NoScratch(g))
<1>1. N = NodesIn(g) /\ IsFiniteSet(N) /\ N \subseteq Int /\ Cardinality(N) = n /\ u \in N
  <2>1. IsFiniteSet(N) /\ Cardinality(N) = IF 1 > n THEN 0 ELSE n - 1 + 1
    BY FS_Interval
  <2> QED BY <2>1
<1>2. R \in [N -> SUBSET N]
  BY DEF Edges, Neighbours
<1>3. PICK f : Searching(f, n, g, u)
  BY SearchFold
<1>4. /\ f \in [0..n -> Searches(N)] /\ f[0] = start /\ f[n] = Searched(g, start)
      /\ \A k \in 1..n : f[k] = Popping(g, f[k - 1])
  BY <1>3 DEF Searching
<1> HIDE DEF N, R, start
<1> DEFINE F == {k \in Nat : k <= n => Tracking(R, u, f[k], k)}
<1>5. Tracking(R, u, f[0], 0)
  BY <1>1, <1>2, <1>4, TrackingStarts DEF start
<1>6. ASSUME NEW k \in Nat, k + 1 <= n, Tracking(R, u, f[k], k)
      PROVE  Tracking(R, u, f[k + 1], k + 1)
  <2> DEFINE a == f[k]
             new == f[k + 1]
  <2>1. k + 1 \in 1..n /\ (k + 1) - 1 = k /\ k \in 0..n
    BY <1>6
  <2>2. a \in Searches(N) /\ new = Popping(g, a) /\ Tracking(R, u, a, k)
    BY <1>4, <1>6, <2>1
  <2> HIDE DEF a, new
  <2>3. Tracking(R, u, new, k + 1)
    BY <1>1, <2>2, PoppingKeeps DEF R
  <2> QED BY <2>3 DEF new
<1>7. Tracking(R, u, f[n], n)
  <2>1. 0 \in F
    BY <1>5
  <2>2. \A k \in Nat : k \in F => k + 1 \in F
    <3> SUFFICES ASSUME NEW k \in Nat, k \in F, k + 1 <= n
                 PROVE  Tracking(R, u, f[k + 1], k + 1)
      OBVIOUS
    <3>1. k <= n
      OBVIOUS
    <3>2. Tracking(R, u, f[k], k)
      BY <3>1
    <3> QED BY <1>6, <3>2
  <2>3. \A k \in Nat : k \in F
    <3> HIDE DEF F
    <3> QED BY <2>1, <2>2, NumberInduction
  <2>4. n \in F /\ n <= n
    BY <2>3
  <2> QED BY <2>4
<1> DEFINE b == f[n]
<1>8. b \in Searches(N) /\ Tracking(R, u, b, Cardinality(N)) /\ b = Searched(g, start)
  BY <1>1, <1>4, <1>7
<1> HIDE DEF b, F
<1>9. Found(R, u, b, N)
  BY <1>1, <1>2, <1>8, TrackingEnds
<1> QED BY <1>8, <1>9 DEF N, R, start

\* The nodes one step before w on its shortest walks are those with a step on.
LEMMA BeforesLast ==
  ASSUME NEW N, NEW R \in [N -> SUBSET N], NEW u \in N, NEW w \in N
  PROVE  Befores(R, u, w, N) = {p[Len(p) - 1] : p \in {q \in Arrivals(R, u, w) : Len(q) > 1}}
<1>1. ASSUME NEW x \in Befores(R, u, w, N)
      PROVE  \E p \in Arrivals(R, u, w) : Len(p) > 1 /\ x = p[Len(p) - 1]
  <2>1. x \in N /\ Onward(R, u, x, w) /\ Reached(R, u, x)
    BY DEF Befores, Onward
  <2>2. PICK q \in Seq(N) : Direct(R, q) /\ Links(R, q, u, x)
    BY <2>1, ReachedDirect
  <2>3. q[1] = u /\ q[Len(q)] = x /\ q # << >>
    BY <2>2 DEF Links, IsWalk
  <2> DEFINE p == Append(q, w)
  <2>4. /\ p \in Seq(N) /\ Direct(R, p)
        /\ Len(p) = Len(q) + 1 /\ p[1] = u /\ p[Len(q) + 1] = w /\ p[Len(q)] = x
    BY <2>1, <2>2, <2>3, DirectOn
  <2>5. Len(q) \in Nat /\ Len(q) # 0
    BY <2>3, EmptySeq, LenProperties
  <2> HIDE DEF p
  <2>6. Len(p) > 1 /\ Len(p) - 1 = Len(q)
    BY <2>4, <2>5
  <2>7. p \in Arrivals(R, u, w)
    BY <2>4 DEF Arrivals
  <2> QED BY <2>4, <2>6, <2>7
<1>2. ASSUME NEW p \in Arrivals(R, u, w), Len(p) > 1
      PROVE  p[Len(p) - 1] \in Befores(R, u, w, N)
  <2>1. p \in Seq(N) /\ Direct(R, p) /\ p[1] = u /\ p[Len(p)] = w /\ Len(p) # 1
    BY <1>2 DEF Arrivals
  <2>2. PICK q \in Seq(N), x \in N :
           /\ p = Append(q, p[Len(p)]) /\ Len(p) = Len(q) + 1 /\ x = p[Len(p) - 1]
           /\ Direct(R, q) /\ q[1] = u /\ q[Len(q)] = x /\ Onward(R, u, x, p[Len(p)])
    BY <2>1, DirectSplits
  <2> QED BY <2>1, <2>2 DEF Befores
<1> QED BY <1>1, <1>2

\* An earlier place for every predecessor.
LEMMA HeraldsFirst ==
  ASSUME NEW N, NEW R, DOMAIN R = N, NEW u, NEW order \in Seq(N), IsInjective(order),
         Heralded(R, u, order), NEW i \in DOMAIN order, NEW j \in DOMAIN order,
         Onward(R, u, order[i], order[j])
  PROVE  i < j
<1>1. DOMAIN order = 1..Len(order) /\ Len(order) \in Nat /\ order[i] \in N
  BY LenProperties
<1>2. PICK k \in 1..(j - 1) : order[k] = order[i]
  BY <1>1 DEF Heralded
<1>3. k \in 1..Len(order) /\ k < j
  BY <1>1, <1>2
<1>4. k = i
  BY <1>1, <1>2, <1>3 DEF IsInjective
<1> QED BY <1>3, <1>4

LEMMA CountingPaths ==
  ASSUME FilesInv
  PROVE  PathsCounted
<1> SUFFICES ASSUME part = << >>, NEW s \in NodesIn(graph)
             PROVE  LET paths == ShortestFrom(graph, s)
                        b     == Searched(graph, Cleared(graph, s, NoScratch(graph)))
                        To(v) == {p \in paths : Last(p) = v}
                    IN  /\ IsInjective(b.order) /\ ToSet(b.order) = {Last(p) : p \in paths}
                        /\ \A i, j \in DOMAIN b.order : b.order[i] \in ToSet(b.preds[b.order[j]]) => i < j
                        /\ \A v \in NodesIn(graph) :
                             /\ b.sigma[v] = Cardinality(To(v))
                             /\ IsInjective(b.preds[v])
                             /\ ToSet(b.preds[v]) = {p[Len(p) - 1] : p \in {q \in To(v) : Len(q) > 1}}
  BY DEF PathsCounted
<1> DEFINE N == 1..size
           R == Edges(graph)
           paths == ShortestFrom(graph, s)
           b == Searched(graph, Cleared(graph, s, NoScratch(graph)))
           To(v) == {p \in paths : Last(p) = v}
<1>1. NodesIn(graph) = N /\ size \in Nat /\ s \in N
  BY MeantIs DEF FilesInv
<1>2. R \in [N -> SUBSET N]
  BY <1>1 DEF Edges, Neighbours
<1>3. paths = {p \in Seq(N) : Direct(R, p) /\ p[1] = s}
  BY <1>1, ShortestFromIs
<1>4. Found(R, s, b, N)
  BY <1>1, SearchIs
<1> HIDE DEF N, R, b, paths
<1>5. \A v : To(v) = Arrivals(R, s, v)
  BY <1>2, <1>3 DEF Arrivals, Last
<1>6. {Last(p) : p \in paths} = {v \in N : Reached(R, s, v)}
  <2>1. ASSUME NEW p \in paths
        PROVE  Last(p) \in N /\ Reached(R, s, Last(p))
    <3>1. p \in Seq(N) /\ Direct(R, p) /\ p[1] = s /\ p # << >>
      BY <1>2, <1>3 DEF Direct, IsWalk
    <3>2. At(R, s, p[Len(p)], Len(p) - 1)
      BY <3>1 DEF Direct
    <3>3. Len(p) - 1 \in Nat /\ Len(p) \in 1..Len(p)
      <4>1. Len(p) \in Nat /\ Len(p) # 0
        BY <3>1, EmptySeq, LenProperties
      <4> QED BY <4>1
    <3>4. p[Len(p)] \in N
      BY <3>1, <3>3, LenProperties
    <3> QED BY <3>2, <3>3, <3>4 DEF Reached, Last
  <2>2. ASSUME NEW v \in N, Reached(R, s, v)
        PROVE  \E p \in paths : Last(p) = v
    <3>1. PICK p \in Seq(N) : Direct(R, p) /\ Links(R, p, s, v)
      BY <1>1, <1>2, <2>2, ReachedDirect
    <3> QED BY <1>3, <3>1 DEF Links, Last
  <2> QED BY <2>1, <2>2
<1>7. /\ b \in Searches(N) /\ IsInjective(b.order) /\ Heralded(R, s, b.order)
      /\ Range(b.order) = {w \in N : Reached(R, s, w)}
      /\ \A w \in N : /\ b.sigma[w] = Cardinality(Arrivals(R, s, w))
                      /\ IsInjective(b.preds[w]) /\ Range(b.preds[w]) = Befores(R, s, w, N)
  BY <1>4 DEF Found
<1>8. \A x : ToSet(x) = Range(x)
  BY DEF ToSet, Range
<1>9. IsInjective(b.order) /\ ToSet(b.order) = {Last(p) : p \in paths}
  BY <1>6, <1>7, <1>8
<1>10. ASSUME NEW i \in DOMAIN b.order, NEW j \in DOMAIN b.order,
              b.order[i] \in ToSet(b.preds[b.order[j]])
       PROVE  i < j
  <2> DEFINE order == b.order
  <2>1. order \in Seq(N) /\ IsInjective(order) /\ Heralded(R, s, order) /\ DOMAIN R = N
    BY <1>2, <1>7 DEF Searches
  <2>2. order[i] \in N /\ order[j] \in N
    BY <2>1, LenProperties
  <2>3. Onward(R, s, order[i], order[j])
    BY <1>7, <1>8, <1>10, <2>2 DEF Befores
  <2>4. i \in DOMAIN order /\ j \in DOMAIN order
    OBVIOUS
  <2> HIDE DEF order
  <2> QED BY <2>1, <2>3, <2>4, HeraldsFirst
<1>11. ASSUME NEW v \in N
       PROVE  /\ b.sigma[v] = Cardinality(To(v))
              /\ IsInjective(b.preds[v])
              /\ ToSet(b.preds[v]) = {p[Len(p) - 1] : p \in {q \in To(v) : Len(q) > 1}}
  <2>1. To(v) = Arrivals(R, s, v)
    BY <1>5
  <2>2. Befores(R, s, v, N) = {p[Len(p) - 1] : p \in {q \in Arrivals(R, s, v) : Len(q) > 1}}
    BY <1>1, <1>2, BeforesLast
  <2> HIDE DEF To
  <2> QED BY <1>7, <1>8, <2>1, <2>2
<1> HIDE DEF To
<1>12. \A v \in NodesIn(graph) :
         /\ b.sigma[v] = Cardinality(To(v))
         /\ IsInjective(b.preds[v])
         /\ ToSet(b.preds[v]) = {p[Len(p) - 1] : p \in {q \in To(v) : Len(q) > 1}}
  BY <1>1, <1>11
<1> QED BY <1>9, <1>10, <1>12 DEF b, paths, To

\* From every source the first phase counts all the shortest paths to each node,
\* parallel edges and detours left out, and takes the nodes in an order in which
\* the second phase can hand the dependencies back.
THEOREM PathsAreCounted == Spec => []PathsCounted
<1>1. FilesInv => PathsCounted
  BY CountingPaths
<1> QED BY <1>1, FilesKeepShape, PTL
=============================================================================
