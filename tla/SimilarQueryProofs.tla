------------------------- MODULE SimilarQueryProofs -------------------------
(***************************************************************************)
(* What a query returns, for every image the index may have, every limit   *)
(* and every request: distinct nodes, the nearest first, none missed below *)
(* the limit, and under the names it was asked by.  And what they read:    *)
(* every value of a good index is read back from its bytes as it was       *)
(* written, and bytes that are damaged or of another format are refused.   *)
(***************************************************************************)
EXTENDS StoredQueries, DataProofs

-----------------------------------------------------------------------------
(* The operators on lists.                                                 *)

\* First is the beginning of a list, all of it below the limit.
LEMMA FirstIs ==
  ASSUME NEW T, NEW seq \in Seq(T), NEW n \in Nat
  PROVE  /\ First(seq, n) \in Seq(T)
         /\ Len(First(seq, n)) <= n
         /\ Range(First(seq, n)) \subseteq Range(seq)
         /\ Len(First(seq, n)) < n => First(seq, n) = seq
         /\ IsInjective(seq) => IsInjective(First(seq, n))
<1> DEFINE l == Len(seq)
           m == IF n < l THEN n ELSE l
           f == First(seq, n)
<1>1. l \in Nat /\ DOMAIN seq = 1..l /\ seq \in [1..l -> T]
  BY LenProperties
<1>2. f = SubSeq(seq, 1, m)
  BY DEF First
<1> HIDE DEF l, f
<1>3. m \in Nat /\ m <= n /\ m <= l /\ (m < n => m = l)
  BY <1>1
<1> HIDE DEF m
<1>4. /\ f \in Seq(T) /\ Len(f) = m
      /\ \A i \in 1..m : f[i] = seq[i]
  <2>1. \A i \in 1..m : seq[i] \in T
    BY <1>1, <1>3
  <2>2. 1 \in Int /\ m \in Int
    BY <1>3
  <2>3. /\ SubSeq(seq, 1, m) \in Seq(T)
        /\ Len(SubSeq(seq, 1, m)) = IF 1 <= m THEN m - 1 + 1 ELSE 0
        /\ \A i \in 1..(m - 1 + 1) : SubSeq(seq, 1, m)[i] = seq[1 + i - 1]
    BY ONLY <2>1, <2>2, SubSeqProperties
  <2>4. m - 1 + 1 = m /\ (~(1 <= m) => m = 0) /\ \A i \in 1..m : 1 + i - 1 = i
    BY <1>3
  <2> QED
    BY <1>2, <2>3, <2>4
<1>5. f \in [1..m -> T] /\ DOMAIN f = 1..m
  BY <1>4, LenProperties
<1>6. \A i \in 1..m : i \in 1..l
  BY <1>1, <1>3
<1>7. Range(f) \subseteq Range(seq)
  BY <1>1, <1>4, <1>5, <1>6 DEF Range
<1>8. Len(f) < n => f = seq
  <2> SUFFICES ASSUME m < n
               PROVE  f = seq
    BY <1>4
  <2>1. m = l
    BY <1>3
  <2> QED
    BY <1>1, <1>4, <1>5, <2>1
<1>9. IsInjective(seq) => IsInjective(f)
  BY <1>1, <1>4, <1>5, <1>6 DEF IsInjective
<1> QED
  BY <1>3, <1>4, <1>7, <1>8, <1>9 DEF f

\* The list r continues found with distinct members of fresh: with all of them,
\* or up to the length max.
Continues(r, T, found, fresh, max) ==
  /\ r \in Seq(T)
  /\ Len(found) <= Len(r) /\ Len(r) <= max
  /\ \A i \in 1..Len(found) : r[i] = found[i]
  /\ \A i \in (Len(found) + 1)..Len(r) : r[i] \in fresh
  /\ Range(found) \subseteq Range(r)
  /\ Range(r) \subseteq Range(found) \cup fresh
  /\ Len(r) < max => fresh \subseteq Range(r)
  /\ IsInjective(r)

\* The loop over a cluster's members keeps what was found and appends members
\* that were not seen.
LEMMA CollectIs ==
  ASSUME NEW T, NEW found \in Seq(T), NEW members \in Seq(T),
         IsInjective(found), IsInjective(members),
         NEW seen, Range(found) \subseteq seen,
         NEW max \in Nat, Len(found) <= max
  PROVE  Continues(Collect(found, members, seen, max), T, found,
                   Range(members) \ seen, max)
<1> DEFINE P == {i \in DOMAIN members : members[i] \notin seen}
           new == Chosen(members, P)
           room == max - Len(found)
           taken == First(new, room)
           r == Collect(found, members, seen, max)
           l == Len(found)
           t == Len(taken)
<1>1. P \in SUBSET DOMAIN members
  OBVIOUS
<1>2. Range(members) = {members[i] : i \in DOMAIN members}
  BY DEF Range
<1>3. {members[i] : i \in P} = Range(members) \ seen
  BY <1>2
<1>4. l \in Nat /\ room \in Nat /\ l + room = max
  BY LenProperties
<1> HIDE DEF P
<1>5. new \in Seq(T) /\ Range(new) = Range(members) \ seen /\ IsInjective(new)
  BY <1>1, <1>3, ChosenIs
<1> HIDE DEF new, room
<1>6. /\ taken \in Seq(T) /\ Len(taken) <= room
      /\ Range(taken) \subseteq Range(new)
      /\ Len(taken) < room => taken = new
      /\ IsInjective(taken)
  BY <1>4, <1>5, FirstIs
<1>7. r = found \o taken
  BY DEF Collect, taken, room, new, P
<1> HIDE DEF taken, r
<1>8. /\ r \in Seq(T) /\ Len(r) = l + t
      /\ \A i \in 1..(l + t) : r[i] = IF i <= l THEN found[i] ELSE taken[i - l]
  BY <1>6, <1>7, ConcatProperties
<1>9. /\ t \in Nat /\ DOMAIN found = 1..l /\ DOMAIN taken = 1..t
      /\ DOMAIN r = 1..(l + t)
  BY <1>6, <1>8, LenProperties
<1> HIDE DEF l, t
<1>10. /\ Range(found) = {found[i] : i \in 1..l}
       /\ Range(taken) = {taken[i] : i \in 1..t}
       /\ Range(r) = {r[i] : i \in 1..(l + t)}
  BY <1>9 DEF Range
<1>11. \A i \in 1..l : i \in 1..(l + t) /\ r[i] = found[i]
  BY <1>4, <1>8, <1>9
<1>12. \A i \in 1..t : l + i \in 1..(l + t) /\ r[l + i] = taken[i]
  BY <1>4, <1>8, <1>9
<1>13. \A i \in (l + 1)..(l + t) : i - l \in 1..t /\ r[i] = taken[i - l]
  BY <1>4, <1>8, <1>9
<1>14. \A i \in 1..(l + t) : i \in 1..l \/ i \in (l + 1)..(l + t)
  BY <1>4, <1>9
<1>15. Range(found) \subseteq Range(r) /\ Range(taken) \subseteq Range(r)
  BY <1>10, <1>11, <1>12
<1>16. Range(r) \subseteq Range(found) \cup Range(taken)
  BY <1>10, <1>11, <1>13, <1>14
<1>17. Len(r) < max => taken = new
  BY <1>4, <1>6, <1>8, <1>9 DEF t
<1>18. \A i \in (l + 1)..(l + t) : r[i] \in Range(members) \ seen
  BY <1>5, <1>6, <1>10, <1>13
<1>19. ASSUME NEW i \in 1..(l + t), NEW j \in 1..(l + t), r[i] = r[j]
       PROVE  i = j
  <2>1. CASE i \in 1..l /\ j \in 1..l
    BY <1>9, <1>11, <1>19, <2>1 DEF IsInjective
  <2>2. CASE i \in (l + 1)..(l + t) /\ j \in (l + 1)..(l + t)
    <3>1. i - l \in 1..t /\ j - l \in 1..t /\ taken[i - l] = taken[j - l]
      BY <1>13, <1>19, <2>2
    <3>2. i - l = j - l
      BY <1>6, <1>9, <3>1 DEF IsInjective
    <3> QED
      BY <1>4, <1>9, <3>2
  <2>3. \A a \in 1..l : r[a] \in seen
    BY <1>10, <1>11
  <2> QED
    BY <1>14, <1>18, <1>19, <2>1, <2>2, <2>3
<1>20. IsInjective(r)
  BY <1>9, <1>19 DEF IsInjective
<1> QED
  <2>1. Len(r) <= max /\ l <= Len(r)
    BY <1>4, <1>6, <1>8, <1>9 DEF t
  <2> QED
    BY <1>5, <1>6, <1>8, <1>11, <1>15, <1>16, <1>17, <1>18, <1>20, <2>1
       DEF Continues, l, t, r

-----------------------------------------------------------------------------
(* The images.                                                             *)

\* The nodes an image maps to cluster c.
NodesIn(i, c) == {u \in DOMAIN i.uuid_to_cluster : i.uuid_to_cluster[u] = c}

\* A cluster's stored list names each of its nodes once; a cluster without a
\* list has none.
LEMMA MembersAre ==
  ASSUME NEW i, Good(i), NEW c
  PROVE  /\ MembersOf(i, c) \in Seq(Uuid)
         /\ IsInjective(MembersOf(i, c))
         /\ Range(MembersOf(i, c)) = NodesIn(i, c)
<1> DEFINE M == i.cluster_members
<1>1. M \in [DOMAIN M -> Seq(Uuid)]
  BY DEF Good, IsImage, IsMap
<1>2. CASE c \in DOMAIN M
  <2>1. MembersOf(i, c) = M[c] /\ M[c] \in Seq(Uuid)
    BY <1>1, <1>2 DEF MembersOf, Lookup
  <2>2. Range(M[c]) = NodesIn(i, c)
    BY <1>2 DEF Good, ClustersInverse, NodesIn
  <2>3. IsAscending(M[c])
    BY <1>2 DEF Good, ListsAscend
  <2>4. DOMAIN M[c] = 1..Len(M[c]) /\ \A j \in DOMAIN M[c] : M[c][j] \in Nat
    BY <2>1, LenProperties, UuidAssumption
  <2>5. \A j, k \in DOMAIN M[c] : j < k => M[c][j] # M[c][k]
    BY <2>3, <2>4 DEF IsAscending
  <2>6. \A j, k \in DOMAIN M[c] : j < k \/ k < j \/ j = k
    BY <2>4, LenProperties, <2>1
  <2>7. IsInjective(M[c])
    BY <2>5, <2>6 DEF IsInjective
  <2> QED
    BY <2>1, <2>2, <2>7
<1>3. CASE c \notin DOMAIN M
  <2>1. MembersOf(i, c) = << >>
    BY <1>3 DEF MembersOf, Lookup
  <2>2. NodesIn(i, c) = {}
    BY <1>3 DEF Good, ClustersInverse, NodesIn
  <2>3. DOMAIN << >> = {} /\ << >> \in Seq(Uuid)
    OBVIOUS
  <2> QED
    BY <2>1, <2>2, <2>3 DEF Range, IsInjective
<1> QED
  BY <1>2, <1>3

\* What the indexed nodes and the label tables of an image are.
LEMMA ImageTypes ==
  ASSUME NEW i, Good(i)
  PROVE  /\ DOMAIN i.uuid_to_cluster \subseteq Uuid
         /\ DOMAIN i.labels \subseteq DOMAIN i.uuid_to_cluster
         /\ \A u \in DOMAIN i.labels : i.labels[u] \in DOMAIN i.label_to_uuid
         /\ \A l \in DOMAIN i.label_to_uuid :
              /\ i.label_to_uuid[l] \in DOMAIN i.labels
              /\ i.labels[i.label_to_uuid[l]] = l
<1>1. IsMap(i.uuid_to_cluster, Uuid, ClusterId) /\ LabelsAgree(i)
  BY DEF Good, IsImage
<1> QED
  BY <1>1 DEF IsMap, LabelsAgree, Range

-----------------------------------------------------------------------------
(* The answer: distinct nodes, and the names it is given under.            *)

\* The request and what was collected so far.
TypeInv ==
  /\ img \in Images /\ Good(img)
  /\ kind \in {"same_cluster", "similar"}
  /\ limit \in Nat
  /\ pc \in {"resolve", "begin", "local", "entry", "walk", "name", "done"}
  /\ out \in Seq(Uuid)

\* Where a request stands: what each stage of it may rely on.
StageInv ==
  /\ pc \in {"local", "entry", "walk"} => kind = "similar" /\ Known
  /\ pc \in {"resolve", "begin", "local"} => out = << >>
  /\ pc # "done" => shown = << >>
  /\ kind = "same_cluster" /\ pc \in {"name", "done"} /\ Known =>
       Range(out) = NodesIn(img, StartCluster)

\* A query by label: resolved to the node the label names, or over at once.
NameInv ==
  /\ pc = "resolve" => asked # << >> /\ start = NoNode
  /\ asked # << >> /\ pc # "resolve" =>
       \/ /\ asked[1] \notin DOMAIN img.label_to_uuid
          /\ pc = "done" /\ shown = << >>
       \/ /\ asked[1] \in DOMAIN img.label_to_uuid
          /\ start = img.label_to_uuid[asked[1]]
          /\ pc = "done" => shown = [i \in DOMAIN out |-> ShownAs(img, out[i])]

\* The inductive invariant.
AnswerInv == TypeInv /\ StageInv /\ NameInv /\ ResultsDistinct

\* What the collecting of cluster c adds to the answer.
FreshOf(c) == (NodesIn(img, c) \ {start}) \ Range(out)

\* One cluster's members added to the answer.
LEMMA DrainIs ==
  ASSUME TypeInv, IsInjective(out), Len(out) <= limit, NEW c
  PROVE  Continues(Drain(MembersOf(img, c)), Uuid, out, FreshOf(c), limit)
<1> DEFINE members == MembersOf(img, c)
<1>1. /\ members \in Seq(Uuid) /\ IsInjective(members)
      /\ Range(members) = NodesIn(img, c)
  BY MembersAre DEF TypeInv
<1>2. out \in Seq(Uuid) /\ limit \in Nat
  BY DEF TypeInv
<1>3. Range(out) \subseteq Seen
  BY DEF Seen
<1>4. Range(members) \ Seen = FreshOf(c)
  BY <1>1 DEF Seen, FreshOf
<1> HIDE DEF members
<1>5. Continues(Collect(out, members, Seen, limit), Uuid, out,
                Range(members) \ Seen, limit)
  BY <1>1, <1>2, <1>3, CollectIs
<1> QED
  BY <1>4, <1>5 DEF Drain, members

LEMMA AnswerInit == Init => AnswerInv
<1> SUFFICES ASSUME Init PROVE AnswerInv
  OBVIOUS
<1>1. out = << >> /\ << >> \in Seq(Uuid) /\ Len(<< >>) = 0 /\ DOMAIN << >> = {}
  BY DEF Init
<1>2. TypeInv
  <2>1. img \in Images /\ Good(img)
    BY ImagesAssumption DEF Init
  <2>2. limit \in Nat
    <3>1. limit = 0 \/ limit \in Limits
      BY DEF Init
    <3>2. \A n \in Limits : n \in Nat
      BY LimitsAssumption
    <3>3. 0 \in Nat
      OBVIOUS
    <3> QED
      BY ONLY <3>1, <3>2, <3>3
  <2>3. /\ kind \in {"same_cluster", "similar"}
        /\ pc \in {"resolve", "begin"}
    BY DEF Init
  <2> QED
    BY <1>1, <2>1, <2>2, <2>3 DEF TypeInv
<1>3. StageInv
  BY <1>1 DEF Init, StageInv
<1>4. NameInv
  BY DEF Init, NameInv
<1>5. Range(out) = {} /\ IsInjective(out)
  BY <1>1 DEF Range, IsInjective
<1>6. ResultsDistinct
  BY <1>1, <1>2, <1>5 DEF ResultsDistinct, TypeInv
<1> QED
  BY <1>2, <1>3, <1>4, <1>6 DEF AnswerInv

\* A step that collects cluster c and ends, or goes on to stage.
LEMMA CollectingKeepsAnswer ==
  ASSUME AnswerInv, pc \in {"local", "walk"}, NEW c, NEW stage \in {"entry", "walk"},
         out' = Drain(MembersOf(img, c)),
         pc' = IF Len(out') >= limit THEN End ELSE stage,
         UNCHANGED <<request, start, shown>>
  PROVE  AnswerInv'
<1> USE DEF AnswerInv
<1>1. /\ kind = "similar" /\ Known
      /\ IsInjective(out) /\ Len(out) <= limit /\ start \notin Range(out)
      /\ Range(out) \subseteq DOMAIN img.uuid_to_cluster
  BY DEF StageInv, ResultsDistinct
<1>2. Continues(out', Uuid, out, FreshOf(c), limit)
  BY <1>1, DrainIs
<1>3. /\ img' = img /\ kind' = kind /\ limit' = limit /\ asked' = asked
      /\ start' = start /\ shown' = shown
  BY DEF request
<1>4. pc' \in {"name", "done", "entry", "walk"} /\ (pc' = "done" => asked = << >>)
  BY DEF End
<1>5. TypeInv'
  BY <1>2, <1>3, <1>4 DEF TypeInv, Continues
<1>6. StageInv'
  <2>1. Known'
    BY <1>1, <1>3 DEF Known
  <2>2. shown' = << >>
    BY <1>3 DEF StageInv
  <2> QED
    BY <1>1, <1>3, <1>4, <2>1, <2>2 DEF StageInv
<1>7. NameInv'
  BY <1>3, <1>4 DEF NameInv
<1>8. ResultsDistinct'
  <2>1. FreshOf(c) \subseteq DOMAIN img.uuid_to_cluster \ {start}
    BY DEF FreshOf, NodesIn
  <2>2. Range(out') \subseteq DOMAIN img.uuid_to_cluster \ {start}
    BY <1>1, <1>2, <2>1 DEF Continues
  <2> QED
    BY <1>2, <1>3, <2>2 DEF ResultsDistinct, Continues
<1> QED
  BY <1>5, <1>6, <1>7, <1>8

\* A step that leaves what was collected alone.
LEMMA WaitingKeepsAnswer ==
  ASSUME AnswerInv, UNCHANGED <<request, start, out>>
  PROVE  ResultsDistinct'
<1>1. /\ img' = img /\ kind' = kind /\ limit' = limit /\ start' = start /\ out' = out
  BY DEF request
<1> QED
  BY <1>1 DEF AnswerInv, ResultsDistinct

LEMMA AnswerStep == AnswerInv /\ [Next]_vars => AnswerInv'
<1> SUFFICES ASSUME AnswerInv, [Next]_vars PROVE AnswerInv'
  OBVIOUS
<1> USE DEF AnswerInv
<1>1. CASE Resolve
  <2>1. /\ img' = img /\ kind' = kind /\ limit' = limit /\ asked' = asked
        /\ out' = out /\ shown' = shown /\ pc' \in {"begin", "done"}
    BY <1>1 DEF Resolve, request
  <2>2. out = << >> /\ shown = << >> /\ asked # << >>
    BY <1>1 DEF Resolve, StageInv, NameInv
  <2>3. TypeInv'
    BY <2>1 DEF TypeInv
  <2>4. NameInv'
    BY <1>1, <2>1, <2>2 DEF Resolve, NameInv
  <2>5. Range(<< >>) = {} /\ Len(<< >>) = 0 /\ IsInjective(<< >>)
    BY DEF Range, IsInjective
  <2>6. ResultsDistinct'
    BY <2>1, <2>2, <2>5 DEF ResultsDistinct, TypeInv
  <2>7. StageInv'
    <3>1. CASE asked[1] \in DOMAIN img.label_to_uuid
      BY <1>1, <2>1, <2>2, <3>1 DEF StageInv, Resolve
    <3>2. CASE asked[1] \notin DOMAIN img.label_to_uuid
      <4>1. start' = NoNode
        BY <1>1, <3>2 DEF Resolve, NameInv
      <4>2. DOMAIN img.uuid_to_cluster \subseteq Nat
        BY ImageTypes, UuidAssumption DEF TypeInv
      <4>3. ~Known'
        BY <2>1, <4>1, <4>2 DEF Known, NoNode
      <4> QED
        BY <1>1, <2>1, <2>2, <3>2, <4>3 DEF StageInv, Resolve
    <3> QED
      BY <3>1, <3>2
  <2> QED
    BY <2>3, <2>4, <2>6, <2>7
<1>2. CASE SameCluster
  <2>1. /\ img' = img /\ kind' = kind /\ limit' = limit /\ asked' = asked
        /\ start' = start /\ shown' = shown /\ kind = "same_cluster"
        /\ pc = "begin" /\ pc' = End /\ out = << >>
    BY <1>2 DEF SameCluster, request, StageInv
  <2>2. pc' \in {"name", "done"} /\ (pc' = "done" => asked = << >>)
    BY <2>1 DEF End
  <2>3. CASE Known
    <3>1. out' = MembersOf(img, StartCluster)
      BY <1>2, <2>3 DEF SameCluster
    <3>2. /\ out' \in Seq(Uuid) /\ IsInjective(out')
          /\ Range(out') = NodesIn(img, StartCluster)
      BY <3>1, MembersAre DEF TypeInv
    <3>3. TypeInv'
      BY <2>1, <2>2, <3>2 DEF TypeInv
    <3>4. StartCluster' = StartCluster
      BY <2>1 DEF StartCluster
    <3>5. StageInv'
      BY <2>1, <2>2, <3>2, <3>4 DEF StageInv
    <3>6. ResultsDistinct'
      BY <2>1, <3>2 DEF ResultsDistinct, NodesIn
    <3>7. NameInv'
      BY <2>1, <2>2 DEF NameInv
    <3> QED
      BY <3>3, <3>5, <3>6, <3>7
  <2>4. CASE ~Known
    <3>1. out' = out
      BY <1>2, <2>4 DEF SameCluster
    <3>2. ~Known'
      BY <2>1, <2>4 DEF Known
    <3>3. TypeInv' /\ NameInv'
      BY <2>1, <2>2, <3>1 DEF TypeInv, NameInv
    <3>4. StageInv'
      BY <2>1, <2>2, <3>1, <3>2 DEF StageInv
    <3>5. ResultsDistinct'
      BY <2>1, <3>1 DEF ResultsDistinct
    <3> QED
      BY <3>3, <3>4, <3>5
  <2> QED
    BY <2>3, <2>4
<1>3. CASE Begin
  <2>1. /\ UNCHANGED <<request, start, shown, out>> /\ pc = "begin"
        /\ kind = "similar" /\ pc' = IF limit = 0 \/ ~Known THEN End ELSE "local"
    BY <1>3 DEF Begin
  <2>2. pc' \in {"name", "done", "local"} /\ (pc' = "done" => asked = << >>)
    BY <2>1 DEF End
  <2>3. pc' = "local" => Known'
    BY <2>1 DEF End, Known, request
  <2> QED
    BY <2>1, <2>2, <2>3, WaitingKeepsAnswer DEF TypeInv, StageInv, NameInv, request
<1>4. CASE Local
  BY <1>4, CollectingKeepsAnswer DEF Local
<1>5. CASE FindEntry
  <2>1. /\ UNCHANGED <<request, start, shown, out>> /\ pc = "entry"
        /\ pc' \in {End, "walk"}
    BY <1>5 DEF FindEntry
  <2>2. pc' \in {"name", "done", "walk"} /\ (pc' = "done" => asked = << >>)
    BY <2>1 DEF End
  <2>3. Known' /\ kind = "similar"
    BY <2>1 DEF StageInv, Known, request
  <2> QED
    BY <2>1, <2>2, <2>3, WaitingKeepsAnswer DEF TypeInv, StageInv, NameInv, request
<1>6. CASE Follow
  <2>1. UNCHANGED <<request, start, shown>> /\ pc = "walk"
    BY <1>6 DEF Follow
  <2>2. CASE UNCHANGED <<pc, out>>
    <3>1. Known' /\ kind = "similar"
      BY <2>1, <2>2 DEF StageInv, Known, request
    <3> QED
      BY <2>1, <2>2, <3>1, WaitingKeepsAnswer DEF TypeInv, StageInv, NameInv, request
  <2>3. CASE ~UNCHANGED <<pc, out>>
    <3> DEFINE c == img.uuid_to_cluster[Head(edges)[1]]
    <3>1. /\ out' = Drain(MembersOf(img, c))
          /\ pc' = IF Len(out') >= limit THEN End ELSE "walk"
      BY <1>6, <2>3 DEF Follow
    <3> QED
      BY <2>1, <3>1, CollectingKeepsAnswer
  <2> QED
    BY <2>2, <2>3
<1>7. CASE Finish
  <2>1. UNCHANGED <<request, start, shown, out>> /\ pc = "walk" /\ pc' = End
    BY <1>7 DEF Finish
  <2>2. /\ pc' \in {"name", "done"} /\ (pc' = "done" => asked = << >>)
        /\ kind = "similar"
    BY <2>1 DEF End, StageInv
  <2> QED
    BY <2>1, <2>2, WaitingKeepsAnswer DEF TypeInv, StageInv, NameInv, request
<1>8. CASE Name
  <2>1. /\ UNCHANGED <<request, start, out>> /\ pc = "name" /\ pc' = "done"
        /\ shown' = [i \in DOMAIN out |-> ShownAs(img, out[i])]
        /\ img' = img /\ start' = start /\ out' = out /\ asked' = asked
    BY <1>8 DEF Name, request
  <2>2. TypeInv'
    BY <2>1 DEF TypeInv, request
  <2>3. StartCluster' = StartCluster /\ Known' = Known
    BY <2>1 DEF StartCluster, Known
  <2>4. StageInv'
    BY <2>1, <2>3 DEF StageInv, request
  <2>5. NameInv'
    BY <2>1 DEF NameInv
  <2> QED
    BY <2>1, <2>2, <2>4, <2>5, WaitingKeepsAnswer
<1>9. CASE UNCHANGED vars
  <2>1. /\ UNCHANGED <<request, start, shown, out, pc>>
        /\ StartCluster' = StartCluster /\ Known' = Known
        /\ img' = img /\ start' = start /\ out' = out /\ asked' = asked
    BY <1>9 DEF vars, request, StartCluster, Known
  <2> QED
    BY <2>1, WaitingKeepsAnswer DEF TypeInv, StageInv, NameInv, request
<1> QED
  BY <1>1, <1>2, <1>3, <1>4, <1>5, <1>6, <1>7, <1>8, <1>9 DEF Next

LEMMA AnswerAlways == Spec => []AnswerInv
<1> QED
  BY AnswerInit, AnswerStep, PTL DEF Spec

\* A query returns no node twice and none the index does not hold; a similar
\* query at most limit of them, the seed not among them.
THEOREM QueryReturnsDistinctNodes == Spec => []ResultsDistinct
<1>1. AnswerInv => ResultsDistinct
  BY DEF AnswerInv
<1> QED
  BY <1>1, AnswerAlways, PTL

\* A query by label answers about the node of the label, by names that can be
\* asked about in turn.
THEOREM QueryAnswersByName == Spec => []AskedByName
<1>1. AnswerInv => AskedByName
  <2> SUFFICES ASSUME AnswerInv, pc = "done", asked # << >>
               PROVE  AskedByName
    BY DEF AskedByName
  <2> USE DEF AnswerInv
  <2>1. CASE asked[1] \notin DOMAIN img.label_to_uuid
    <3>1. shown = << >>
      BY <2>1 DEF NameInv
    <3>2. DOMAIN shown = {} /\ Range(shown) = {}
      BY <3>1 DEF Range
    <3> QED
      BY <2>1, <3>2 DEF AskedByName
  <2>2. CASE asked[1] \in DOMAIN img.label_to_uuid
    <3>1. /\ start = img.label_to_uuid[asked[1]]
          /\ shown = [i \in DOMAIN out |-> ShownAs(img, out[i])]
      BY <2>2 DEF NameInv
    <3>2. /\ start \in DOMAIN img.labels /\ img.labels[start] = asked[1]
          /\ DOMAIN img.labels \subseteq DOMAIN img.uuid_to_cluster
          /\ \A u \in DOMAIN img.labels : img.labels[u] \in DOMAIN img.label_to_uuid
          /\ \A l \in DOMAIN img.label_to_uuid :
               img.labels[img.label_to_uuid[l]] = l
      BY <2>2, <3>1, ImageTypes DEF TypeInv
    <3>3. \A i \in DOMAIN out :
            \/ out[i] \in DOMAIN img.labels /\ shown[i] = <<"label", img.labels[out[i]]>>
            \/ shown[i] = <<"uuid", out[i]>>
      BY <3>1 DEF ShownAs
    <3>4. DOMAIN shown = DOMAIN out
      BY <3>1
    <3>5. \A i \in DOMAIN shown : shown[i][1] = "label" =>
             /\ shown[i][2] \in DOMAIN img.label_to_uuid
             /\ img.labels[img.label_to_uuid[shown[i][2]]] = shown[i][2]
      BY <3>2, <3>3, <3>4
    <3>6. ASSUME NEW i \in DOMAIN out, shown[i] = <<"label", asked[1]>>
          PROVE  out[i] \in DOMAIN img.labels /\ img.labels[out[i]] = asked[1]
      BY <3>3, <3>6
    <3>7. ASSUME <<"label", asked[1]>> \in Range(shown), kind = "similar"
          PROVE  \E u \in DOMAIN img.labels : u # start /\ img.labels[u] = asked[1]
      <4>1. PICK i \in DOMAIN out : shown[i] = <<"label", asked[1]>>
        BY <3>4, <3>7 DEF Range
      <4>2. out[i] # start
        BY <3>7 DEF ResultsDistinct, Range
      <4> QED
        BY <3>6, <4>1, <4>2
    <3>8. ASSUME kind = "same_cluster"
          PROVE  <<"label", asked[1]>> \in Range(shown)
      <4>1. Range(out) = NodesIn(img, StartCluster)
        BY <3>2, <3>8 DEF StageInv, Known
      <4>2. start \in Range(out)
        BY <3>2, <4>1 DEF NodesIn, StartCluster
      <4>3. PICK i \in DOMAIN out : out[i] = start
        BY <4>2 DEF Range
      <4>4. shown[i] = <<"label", asked[1]>>
        BY <3>1, <3>2, <4>3 DEF ShownAs
      <4> QED
        BY <3>4, <4>4 DEF Range
    <3> QED
      BY <2>2, <3>5, <3>7, <3>8 DEF AskedByName
  <2> QED
    BY <2>1, <2>2
<1> QED
  BY <1>1, AnswerAlways, PTL

-----------------------------------------------------------------------------
(* The sort of the hub edges.                                              *)

\* How many members of D come before x, or are x, in the order R.
Position(D, R, x) == Cardinality({y \in D : <<y, x>> \in R})

\* A finite total order gives every place from 1 to its size to one member, the
\* earlier member the smaller place.
LEMMA PositionsAre ==
  ASSUME NEW D, IsFiniteSet(D), NEW R,
         \A x \in D : <<x, x>> \in R,
         \A x, y \in D : <<x, y>> \in R \/ <<y, x>> \in R,
         \A x, y \in D : <<x, y>> \in R /\ <<y, x>> \in R => x = y,
         \A x, y, z \in D : <<x, y>> \in R /\ <<y, z>> \in R => <<x, z>> \in R
  PROVE  /\ \A x \in D : Position(D, R, x) \in 1..Cardinality(D)
         /\ \A k \in 1..Cardinality(D) : \E x \in D : Position(D, R, x) = k
         /\ \A x, y \in D : Position(D, R, x) <= Position(D, R, y) => <<x, y>> \in R
         /\ \A x, y \in D : Position(D, R, x) = Position(D, R, y) => x = y
<1> DEFINE B(x) == {y \in D : <<y, x>> \in R}
           n == Cardinality(D)
           f == [x \in D |-> Position(D, R, x)]
<1>1. n \in Nat
  BY FS_CardinalityType
<1>2. ASSUME NEW x \in D
      PROVE  /\ IsFiniteSet(B(x)) /\ Cardinality(B(x)) \in 1..n
             /\ Position(D, R, x) = Cardinality(B(x))
  <2>1. IsFiniteSet(B(x)) /\ Cardinality(B(x)) <= n
    BY FS_Subset
  <2>2. x \in B(x)
    OBVIOUS
  <2>3. Cardinality(B(x)) \in Nat /\ Cardinality(B(x)) # 0
    BY <2>1, <2>2, FS_CardinalityType, FS_EmptySet
  <2> QED
    BY <1>1, <2>1, <2>3 DEF Position
<1>3. ASSUME NEW x \in D, NEW y \in D, <<x, y>> \in R, x # y
      PROVE  Position(D, R, x) < Position(D, R, y)
  <2>1. B(x) \in SUBSET B(y) /\ y \in B(y) /\ y \notin B(x)
    BY <1>3
  <2>2. IsFiniteSet(B(y)) /\ Cardinality(B(y)) \in Nat /\ Cardinality(B(x)) \in Nat
    BY SMTT(30), <1>1, <1>2
  <2>3. /\ Cardinality(B(x)) <= Cardinality(B(y))
        /\ Cardinality(B(x)) # Cardinality(B(y))
    <3> HIDE DEF B
    <3> QED
      BY <2>1, <2>2, FS_Subset
  <2>4. Cardinality(B(x)) < Cardinality(B(y))
    <3> HIDE DEF B
    <3> QED
      BY <2>2, <2>3
  <2> QED
    BY <1>2, <2>4
<1>4. \A x \in D : Position(D, R, x) \in 1..n
  BY ZenonT(30), <1>2
<1> HIDE DEF n
<1>5. \A x, y \in D : Position(D, R, x) <= Position(D, R, y) => <<x, y>> \in R
  <2> SUFFICES ASSUME NEW x \in D, NEW y \in D, <<x, y>> \notin R
               PROVE  ~(Position(D, R, x) <= Position(D, R, y))
    OBVIOUS
  <2>1. <<y, x>> \in R /\ x # y
    OBVIOUS
  <2>2. Position(D, R, y) < Position(D, R, x)
    BY <1>3, <2>1
  <2>3. Position(D, R, x) \in Int /\ Position(D, R, y) \in Int
    BY <1>1, <1>4
  <2> QED
    BY <2>2, <2>3
<1>6. \A x, y \in D : Position(D, R, x) = Position(D, R, y) => x = y
  <2> SUFFICES ASSUME NEW x \in D, NEW y \in D,
                      Position(D, R, x) = Position(D, R, y)
               PROVE  x = y
    OBVIOUS
  <2>1. /\ Position(D, R, x) <= Position(D, R, y)
        /\ Position(D, R, y) <= Position(D, R, x)
    BY <1>1, <1>4
  <2> QED
    BY <1>5, <2>1
<1>7. f \in [D -> 1..n]
  BY <1>4
<1>8. f \in Injection(D, 1..n)
  BY <1>6, <1>7 DEF Injection, IsInjective
<1>9. IsFiniteSet(1..n) /\ Cardinality(1..n) = n
  BY <1>1, FS_Interval
<1>10. f \in Surjection(D, 1..n)
  BY <1>8, <1>9, FS_Injection DEF n
<1>11. \A k \in 1..n : \E x \in D : Position(D, R, x) = k
  BY <1>10 DEF Surjection
<1> QED
  BY <1>5, <1>6, <1>11, <1>4 DEF n

\* ByWeight puts the same edges in the order of their distance.
LEMMA ByWeightSorts ==
  ASSUME NEW T, NEW list \in Seq(T \X Nat)
  PROVE  /\ ByWeight(list) \in Seq(T \X Nat)
         /\ Range(ByWeight(list)) = Range(list)
         /\ \A i, j \in DOMAIN ByWeight(list) :
              i <= j => ByWeight(list)[i][2] <= ByWeight(list)[j][2]
<1> DEFINE D == DOMAIN list
           n == Len(list)
           Before(i, j) == \/ list[i][2] < list[j][2]
                           \/ list[i][2] = list[j][2] /\ i <= j
           R == {e \in D \X D : Before(e[1], e[2])}
           r == ByWeight(list)
           At(k) == CHOOSE j \in D : Cardinality({i \in D : Before(i, j)}) = k
<1>1. n \in Nat /\ D = 1..n /\ \A i \in D : list[i] \in T \X Nat
  BY LenProperties
<1>2. \A i \in D : i \in Nat /\ list[i][2] \in Nat
  BY <1>1
<1>3. IsFiniteSet(D) /\ Cardinality(D) = n
  BY <1>1, FS_Interval
<1>4. \A i, j \in D : <<i, j>> \in R <=> Before(i, j)
  OBVIOUS
<1>5. /\ \A x \in D : Before(x, x)
      /\ \A x, y \in D : Before(x, y) \/ Before(y, x)
      /\ \A x, y \in D : Before(x, y) /\ Before(y, x) => x = y
      /\ \A x, y, z \in D : Before(x, y) /\ Before(y, z) => Before(x, z)
  BY <1>2
<1>6. \A j \in D : Position(D, R, j) = Cardinality({i \in D : Before(i, j)})
  <2> TAKE j \in D
  <2>1. {i \in D : Before(i, j)} = {i \in D : <<i, j>> \in R}
    BY <1>4
  <2> QED
    BY <2>1 DEF Position
<1>7. \A k \in D : r[k] = list[At(k)] /\ DOMAIN r = D
  BY DEF ByWeight
<1> HIDE DEF R, r, Before, D
<1>8. /\ \A x \in D : Position(D, R, x) \in 1..n
      /\ \A k \in 1..n : \E x \in D : Position(D, R, x) = k
      /\ \A x, y \in D : Position(D, R, x) <= Position(D, R, y) => Before(x, y)
      /\ \A x, y \in D : Position(D, R, x) = Position(D, R, y) => x = y
  <2>1. /\ \A x \in D : <<x, x>> \in R
        /\ \A x, y \in D : <<x, y>> \in R \/ <<y, x>> \in R
        /\ \A x, y \in D : <<x, y>> \in R /\ <<y, x>> \in R => x = y
        /\ \A x, y, z \in D : <<x, y>> \in R /\ <<y, z>> \in R => <<x, z>> \in R
    BY <1>4, <1>5
  <2>2. /\ \A x \in D : Position(D, R, x) \in 1..Cardinality(D)
        /\ \A k \in 1..Cardinality(D) : \E x \in D : Position(D, R, x) = k
        /\ \A x, y \in D : Position(D, R, x) <= Position(D, R, y) => <<x, y>> \in R
        /\ \A x, y \in D : Position(D, R, x) = Position(D, R, y) => x = y
    BY ONLY <1>3, <2>1, PositionsAre
  <2> QED
    BY <1>3, <1>4, <2>2
<1>9. \A k \in 1..n : At(k) \in D /\ Position(D, R, At(k)) = k
  <2> TAKE k \in 1..n
  <2>1. \E j \in D : Cardinality({i \in D : Before(i, j)}) = k
    BY <1>6, <1>8
  <2>2. At(k) \in D /\ Cardinality({i \in D : Before(i, At(k))}) = k
    BY <2>1
  <2> QED
    BY <1>6, <2>2
<1> HIDE DEF At
<1>10. DOMAIN r = 1..n /\ \A k \in 1..n : r[k] = list[At(k)] /\ r[k] \in T \X Nat
  <2>1. DOMAIN r = 1..n
    BY <1>1 DEF r, ByWeight, D
  <2> QED
    BY <1>1, <1>7, <1>9, <2>1
<1>11. r \in Seq(T \X Nat)
  <2>1. r = [k \in 1..n |-> r[k]]
    BY <1>1 DEF r, ByWeight, D
  <2>2. r \in [1..n -> T \X Nat]
    BY <1>10, <2>1
  <2>3. n \in Nat
    BY <1>1
  <2> HIDE DEF n
  <2> QED
    BY ONLY <2>2, <2>3, SeqDef
<1>12. Range(r) = Range(list)
  <2>1. Range(r) = {r[k] : k \in 1..n} /\ Range(list) = {list[j] : j \in D}
    BY <1>10 DEF Range, D
  <2>2. \A k \in 1..n : At(k) \in D /\ r[k] = list[At(k)]
    BY <1>9, <1>10
  <2>3. \A j \in D : \E k \in 1..n : r[k] = list[j]
    <3> TAKE j \in D
    <3>1. Position(D, R, j) \in 1..n
      BY <1>8
    <3>2. At(Position(D, R, j)) = j
      BY <1>8, <1>9, <3>1
    <3> QED
      BY <2>2, <3>1, <3>2
  <2> QED
    BY <2>1, <2>2, <2>3
<1>13. \A i, j \in 1..n : i <= j => r[i][2] <= r[j][2]
  <2> SUFFICES ASSUME NEW i \in 1..n, NEW j \in 1..n, i <= j
               PROVE  r[i][2] <= r[j][2]
    OBVIOUS
  <2>1. Before(At(i), At(j))
    BY <1>8, <1>9
  <2>2. list[At(i)][2] <= list[At(j)][2]
    BY <1>2, <1>9, <2>1 DEF Before
  <2> QED
    BY <1>10, <2>2
<1> QED
  BY <1>10, <1>11, <1>12, <1>13 DEF r

-----------------------------------------------------------------------------
(* The walk over the hub edges.                                            *)

\* The hub edges the walk of this query follows.
EntryEdges ==
  UNION {Range(Lookup(img.hub_neighbors, h, << >>)) : h \in EntryHubs}

\* Every node of cluster c but the seed was collected.
Taken(c) == NodesIn(img, c) \ {start} \subseteq Range(out)

\* The same operators as functions of the image and the start, which a step
\* that changes neither leaves alone.
EntryOf(i, s) ==
  IF Lookup(i.uuid_is_hub, s, FALSE) THEN {s}
  ELSE LET m == MembersOf(i, i.uuid_to_cluster[s])
       IN  {m[k] : k \in {j \in DOMAIN m :
              /\ Lookup(i.uuid_is_hub, m[j], FALSE)
              /\ \A l \in 1..(j - 1) : ~Lookup(i.uuid_is_hub, m[l], FALSE)}}

EdgesOf(i, s) == UNION {Range(Lookup(i.hub_neighbors, h, << >>)) : h \in EntryOf(i, s)}

HopsOf(i, s, c) == {e[2] : e \in {x \in EdgesOf(i, s) : i.uuid_to_cluster[x[1]] = c}}

Least(S) == CHOOSE d \in S : \A e \in S : d <= e

RankOf(i, s, u) ==
  IF i.uuid_to_cluster[u] = i.uuid_to_cluster[s] THEN 0
  ELSE Least(HopsOf(i, s, i.uuid_to_cluster[u]))

LEMMA RanksFixed ==
  ASSUME img' = img, start' = start
  PROVE  /\ EntryHubs' = EntryHubs /\ EntryEdges' = EntryEdges
         /\ \A c : Hops(c)' = Hops(c)
         /\ \A u : Rank(u)' = Rank(u)
<1>1. EntryHubs = EntryOf(img, start) /\ EntryHubs' = EntryOf(img', start')
  BY DEF EntryHubs, EntryOf, IsHub, StartCluster
<1>2. /\ EntryEdges = EdgesOf(img, start) /\ EntryEdges' = EdgesOf(img', start')
  BY <1>1 DEF EntryEdges, EdgesOf
<1>3. ASSUME NEW c
      PROVE  Hops(c) = HopsOf(img, start, c) /\ Hops(c)' = HopsOf(img', start', c)
  BY <1>2 DEF Hops, HopsOf, EntryEdges
<1>4. ASSUME NEW u
      PROVE  Rank(u) = RankOf(img, start, u) /\ Rank(u)' = RankOf(img', start', u)
  <2> DEFINE c == img.uuid_to_cluster[u]
  <2>1. Rank(u) = IF c = StartCluster THEN 0 ELSE Least(Hops(c))
    BY DEF Rank, Least
  <2>2. Rank(u)' = IF c' = StartCluster' THEN 0 ELSE Least(Hops(c)')
    BY <1>3 DEF Rank, Least
  <2>3. Hops(c) = HopsOf(img, start, c) /\ Hops(c)' = HopsOf(img', start', c')
    BY <1>3
  <2> QED
    BY <2>1, <2>2, <2>3 DEF RankOf, StartCluster
<1> QED
  BY <1>1, <1>2, <1>3, <1>4

\* All walks of a query follow the list of one hub, which ends at hubs of the
\* index.
LEMMA EdgesAre ==
  ASSUME TypeInv, NEW h \in EntryHubs
  PROVE  /\ EntryEdges = Range(Lookup(img.hub_neighbors, h, << >>))
         /\ Lookup(img.hub_neighbors, h, << >>) \in Seq(Uuid \X Nat)
<1>1. EntryHubs = {h}
  <2>1. CASE IsHub(start)
    BY <2>1 DEF EntryHubs
  <2>2. CASE ~IsHub(start)
    <3> DEFINE m == MembersOf(img, StartCluster)
               firsts == {j \in DOMAIN m : /\ IsHub(m[j])
                                           /\ \A k \in 1..(j - 1) : ~IsHub(m[k])}
    <3>1. EntryHubs = {m[i] : i \in firsts}
      BY <2>2 DEF EntryHubs
    <3>2. m \in Seq(Uuid) /\ DOMAIN m = 1..Len(m) /\ Len(m) \in Nat
      BY MembersAre, LenProperties DEF TypeInv
    <3>3. ASSUME NEW i \in firsts, NEW j \in firsts
          PROVE  i = j
      <4> HIDE DEF m
      <4>1. i \in Nat /\ j \in Nat /\ 1 <= i /\ 1 <= j
        BY <3>2
      <4>2. ~(i < j) /\ ~(j < i)
        BY <4>1
      <4> QED
        BY <4>1, <4>2
    <3> HIDE DEF firsts, m
    <3> QED
      BY <3>1, <3>3
  <2> QED
    BY <2>1, <2>2
<1>2. EntryEdges = Range(Lookup(img.hub_neighbors, h, << >>))
  BY <1>1 DEF EntryEdges
<1>3. IsMap(img.hub_neighbors, Uuid, Seq(Uuid \X Nat))
  BY DEF TypeInv, Good, IsImage
<1>4. << >> \in Seq(Uuid \X Nat)
  OBVIOUS
<1>5. Lookup(img.hub_neighbors, h, << >>) \in Seq(Uuid \X Nat)
  BY <1>3, <1>4 DEF IsMap, Lookup
<1> QED
  BY <1>2, <1>5

LEMMA EdgesEndInIndex ==
  ASSUME TypeInv, NEW x \in EntryEdges
  PROVE  /\ x \in Uuid \X Nat /\ x[2] \in Nat
         /\ x[1] \in DOMAIN img.uuid_to_cluster
         /\ x[2] \in Hops(img.uuid_to_cluster[x[1]])
<1>1. PICK h \in EntryHubs : x \in Range(Lookup(img.hub_neighbors, h, << >>))
  BY DEF EntryEdges
<1> DEFINE list == Lookup(img.hub_neighbors, h, << >>)
<1>2. list \in Seq(Uuid \X Nat)
  BY EdgesAre
<1>3. PICK k \in DOMAIN list : list[k] = x
  BY <1>1 DEF Range
<1>4. DOMAIN << >> = {}
  OBVIOUS
<1>5. h \in DOMAIN img.hub_neighbors /\ list = img.hub_neighbors[h]
  BY <1>3, <1>4 DEF Lookup
<1>6. HubsAgree(img)
  BY DEF TypeInv, Good
<1>7. x[1] \in DOMAIN img.hub_neighbors
  BY <1>3, <1>5, <1>6 DEF HubsAgree, LinksSymmetric
<1>8. x[1] \in DOMAIN img.uuid_to_cluster
  BY <1>6, <1>7 DEF HubsAgree
<1>9. x \in Uuid \X Nat
  <2>1. \A j \in DOMAIN list : list[j] \in Uuid \X Nat
    <3> HIDE DEF list
    <3> QED
      BY <1>2, LenProperties
  <2> QED
    BY <1>3, <2>1
<1>10. x[2] \in Hops(img.uuid_to_cluster[x[1]])
  BY DEF Hops, EntryEdges
<1> QED
  BY <1>8, <1>9, <1>10

\* What the walk relies on: the start's cluster was taken first; of the edges
\* of the entry hub the followed ones led to clusters that are taken, and the
\* others, still in order, are at least as far as everything found.
WalkInv ==
  /\ kind = "same_cluster" => limit = 0
  /\ Known => \A u \in Range(out) : Rank(u) \in Nat
  /\ kind = "similar" /\ Known => \A u \in Range(out) :
       \/ img.uuid_to_cluster[u] = StartCluster
       \/ Hops(img.uuid_to_cluster[u]) # {}
  /\ pc = "entry" => \A u \in Range(out) : Rank(u) = 0
  /\ pc \in {"entry", "walk"} => Len(out) < limit /\ Taken(StartCluster)
  /\ pc = "walk" =>
       /\ edges \in Seq(Uuid \X Nat)
       /\ Range(edges) \subseteq EntryEdges
       /\ \A i, j \in DOMAIN edges : i <= j => edges[i][2] <= edges[j][2]
       /\ \A x \in EntryEdges :
            x \in Range(edges) \/ Taken(img.uuid_to_cluster[x[1]])
       /\ \A u \in Range(out), x \in Range(edges) : Rank(u) <= x[2]

\* The inductive invariant.
QueryInv == AnswerInv /\ WalkInv /\ ShortMeansComplete /\ NearestFirst

\* With the start's cluster and all the clusters of the edges taken, nothing is
\* missing.
LEMMA TakenMeansComplete ==
  ASSUME AnswerInv, kind = "similar", Known, Taken(StartCluster),
         \A x \in EntryEdges : Taken(img.uuid_to_cluster[x[1]]),
         \A u \in Range(out) : \/ img.uuid_to_cluster[u] = StartCluster
                               \/ Hops(img.uuid_to_cluster[u]) # {}
  PROVE  Range(out) = {u \in DOMAIN img.uuid_to_cluster :
                         \/ img.uuid_to_cluster[u] = StartCluster
                         \/ Hops(img.uuid_to_cluster[u]) # {}} \ {start}
<1>1. Range(out) \subseteq DOMAIN img.uuid_to_cluster \ {start}
  BY DEF AnswerInv, ResultsDistinct
<1>2. ASSUME NEW u \in DOMAIN img.uuid_to_cluster, u # start,
             img.uuid_to_cluster[u] = StartCluster \/ Hops(img.uuid_to_cluster[u]) # {}
      PROVE  u \in Range(out)
  <2>1. Taken(img.uuid_to_cluster[u]) => u \in Range(out)
    BY <1>2 DEF Taken, NodesIn
  <2>2. CASE img.uuid_to_cluster[u] = StartCluster
    BY <2>1, <2>2
  <2>3. CASE Hops(img.uuid_to_cluster[u]) # {}
    <3>1. PICK x \in EntryEdges : img.uuid_to_cluster[x[1]] = img.uuid_to_cluster[u]
      BY <2>3 DEF Hops, EntryEdges
    <3> QED
      BY <2>1, <3>1
  <2> QED
    BY <1>2, <2>2, <2>3
<1> QED
  BY <1>1, <1>2

\* Collecting nodes that all have one rank, which none collected before
\* exceeds, keeps the answer in order.
LEMMA CollectingKeepsOrder ==
  ASSUME TypeInv, Known, NearestFirst, img' = img, start' = start,
         NEW F, Continues(out', Uuid, out, F, limit),
         NEW w \in Nat,
         \A u \in Range(out) : Rank(u) \in Nat /\ Rank(u) <= w,
         \A u \in F : Rank(u) = w
  PROVE  /\ NearestFirst'
         /\ \A u \in Range(out') : Rank(u)' = Rank(u) /\ Rank(u) \in Nat /\ Rank(u) <= w
<1> DEFINE l == Len(out)
           n == Len(out')
<1>1. \A u : Rank(u)' = Rank(u)
  BY RanksFixed
<1>2. /\ \A i \in 1..l : out'[i] = out[i]
      /\ \A i \in (l + 1)..n : out'[i] \in F
      /\ Range(out') \subseteq Range(out) \cup F
  BY DEF Continues
<1>3. l \in Nat /\ n \in Nat /\ DOMAIN out = 1..l /\ DOMAIN out' = 1..n
  BY LenProperties DEF TypeInv, Continues
<1>4. \A u \in Range(out') : Rank(u) \in Nat /\ Rank(u) <= w
  BY <1>2
<1> HIDE DEF l, n
<1>5. \A i \in 1..n : Rank(out'[i]) \in Nat /\ Rank(out'[i]) <= w
  BY <1>3, <1>4 DEF Range
<1>6. \A i \in (l + 1)..n : Rank(out'[i]) = w
  BY <1>2
<1>7. \A i, j \in 1..l : i < j => Rank(out[i]) <= Rank(out[j])
  BY <1>3 DEF NearestFirst
<1>8. ASSUME NEW i \in 1..n, NEW j \in 1..n, i < j
      PROVE  Rank(out'[i]) <= Rank(out'[j])
  <2>1. CASE j \in 1..l
    <3>1. i \in 1..l
      BY <1>3, <1>8, <2>1
    <3>2. out'[i] = out[i] /\ out'[j] = out[j]
      BY <1>2, <2>1, <3>1
    <3> QED
      BY <1>7, <1>8, <2>1, <3>1, <3>2
  <2>2. CASE j \notin 1..l
    <3>1. j \in (l + 1)..n
      BY <1>3, <2>2
    <3> QED
      BY <1>5, <1>6, <3>1
  <2> QED
    BY <2>1, <2>2
<1>9. NearestFirst'
  BY <1>1, <1>3, <1>8 DEF NearestFirst
<1> QED
  BY <1>1, <1>4, <1>9

\* A step of a similar query that leaves image, start and answer alone keeps
\* what was collected in order.
LEMMA WaitingKeepsOrder ==
  ASSUME QueryInv, UNCHANGED <<request, start, out>>
  PROVE  /\ NearestFirst'
         /\ \A u : Rank(u)' = Rank(u)
         /\ \A c : Hops(c)' = Hops(c)
         /\ \A c : Taken(c)' = Taken(c)
         /\ EntryEdges' = EntryEdges /\ EntryHubs' = EntryHubs
         /\ Known' = Known /\ StartCluster' = StartCluster
<1>1. img' = img /\ start' = start /\ out' = out
  BY DEF request
<1>2. /\ \A u : Rank(u)' = Rank(u)
      /\ \A c : Hops(c)' = Hops(c)
      /\ EntryEdges' = EntryEdges /\ EntryHubs' = EntryHubs
  BY <1>1, RanksFixed
<1>3. Known' = Known /\ StartCluster' = StartCluster
  BY <1>1 DEF Known, StartCluster
<1>4. NearestFirst'
  BY <1>1, <1>2, <1>3 DEF QueryInv, NearestFirst
<1>5. \A c : Taken(c)' = Taken(c)
  BY <1>1 DEF Taken, NodesIn
<1> QED
  BY <1>2, <1>3, <1>4, <1>5

LEMMA WalkInit == Init => WalkInv /\ ShortMeansComplete /\ NearestFirst
<1> SUFFICES ASSUME Init PROVE WalkInv /\ ShortMeansComplete /\ NearestFirst
  OBVIOUS
<1>1. /\ DOMAIN out = {} /\ Range(out) = {} /\ pc \in {"begin", "resolve"}
      /\ kind = "same_cluster" => limit = 0
  BY DEF Init, Range
<1> QED
  BY <1>1 DEF WalkInv, ShortMeansComplete, NearestFirst

\* The first step of a query by label, and the whole of a same-cluster query.
LEMMA StartingKeepsWalk ==
  ASSUME QueryInv, AnswerInv', Resolve \/ SameCluster
  PROVE  WalkInv' /\ ShortMeansComplete' /\ NearestFirst'
<1> USE DEF QueryInv
<1>1. CASE Resolve
  <2>1. /\ img' = img /\ kind' = kind /\ limit' = limit
        /\ out' = out /\ pc' \in {"begin", "done"}
    BY <1>1 DEF Resolve, request
  <2>2. DOMAIN out' = {} /\ Range(out') = {}
    BY <1>1, <2>1 DEF Resolve, AnswerInv, StageInv, Range
  <2>3. pc' = "done" => ~Known'
    <3> SUFFICES ASSUME pc' = "done" PROVE ~Known'
      OBVIOUS
    <3>1. start' = NoNode
      BY <1>1 DEF Resolve, AnswerInv, NameInv
    <3>2. DOMAIN img.uuid_to_cluster \subseteq Nat
      BY ImageTypes, UuidAssumption DEF AnswerInv, TypeInv
    <3> QED
      BY <2>1, <3>1, <3>2 DEF Known, NoNode
  <2> QED
    BY <2>1, <2>2, <2>3 DEF WalkInv, ShortMeansComplete, NearestFirst
<1>2. CASE SameCluster
  <2>1. /\ img' = img /\ kind' = kind /\ limit' = limit /\ start' = start
        /\ kind = "same_cluster" /\ pc' \in {"name", "done"} /\ limit = 0
    BY <1>2 DEF SameCluster, request, End, WalkInv
  <2>2. Len(out') \in Nat /\ out' \in Seq(Uuid) /\ DOMAIN out' = 1..Len(out')
    BY LenProperties DEF AnswerInv, TypeInv
  <2>3. Known' = Known /\ StartCluster' = StartCluster
    BY <2>1 DEF Known, StartCluster
  <2>4. ASSUME Known, NEW u \in Range(out')
        PROVE  Rank(u)' = 0
    <3>1. Range(out') = NodesIn(img, StartCluster)
      BY <2>1, <2>3, <2>4 DEF AnswerInv, StageInv
    <3> QED
      BY <2>1, <2>3, <2>4, <3>1 DEF NodesIn, Rank
  <2>5. \A i \in DOMAIN out' : out'[i] \in Range(out')
    BY DEF Range
  <2>6. NearestFirst'
    BY <2>2, <2>3, <2>4, <2>5 DEF NearestFirst
  <2>7. ShortMeansComplete'
    BY <2>1, <2>2 DEF ShortMeansComplete
  <2>8. WalkInv'
    BY <2>1, <2>3, <2>4 DEF WalkInv
  <2> QED
    BY <2>6, <2>7, <2>8
<1> QED
  BY <1>1, <1>2

LEMMA LocalKeepsWalk ==
  ASSUME QueryInv, AnswerInv', Local
  PROVE  WalkInv' /\ ShortMeansComplete' /\ NearestFirst'
<1> USE DEF QueryInv
<1>1. /\ img' = img /\ kind' = kind /\ limit' = limit /\ start' = start
      /\ out' = Drain(MembersOf(img, StartCluster))
      /\ pc' = IF Len(out') >= limit THEN End ELSE "entry"
  BY DEF Local, request
<1>2. kind = "similar" /\ Known /\ out = << >> /\ TypeInv
  BY DEF Local, AnswerInv, StageInv
<1>3. IsInjective(out) /\ Len(out) <= limit
  BY <1>2 DEF AnswerInv, ResultsDistinct
<1>4. Continues(out', Uuid, out, FreshOf(StartCluster), limit)
  BY <1>1, <1>2, <1>3, DrainIs
<1>5. Range(out) = {}
  BY <1>2 DEF Range
<1>6. \A u \in FreshOf(StartCluster) : Rank(u) = 0 /\ img.uuid_to_cluster[u] = StartCluster
  BY DEF FreshOf, NodesIn, Rank
<1>7. /\ NearestFirst'
      /\ \A u \in Range(out') : Rank(u)' = Rank(u)
  BY <1>1, <1>2, <1>4, <1>5, <1>6, CollectingKeepsOrder
<1>8. Range(out') \subseteq FreshOf(StartCluster)
  BY <1>4, <1>5 DEF Continues
<1>9. Known' = Known /\ StartCluster' = StartCluster
  BY <1>1 DEF Known, StartCluster
<1>10. Len(out') < limit => Taken(StartCluster)'
  BY <1>1, <1>4, <1>9 DEF Continues, Taken, FreshOf
<1>11. Len(out') \in Nat /\ limit \in Nat
  BY <1>1, LenProperties DEF AnswerInv, TypeInv
<1>12. /\ pc' \in {"name", "done", "entry"}
       /\ pc' = "entry" => Len(out') < limit
       /\ pc' # "entry" => ~(Len(out') < limit)
  BY <1>1, <1>11 DEF End
<1>13. WalkInv'
  <2>1. \A u \in Range(out') : Rank(u)' = 0 /\ img'.uuid_to_cluster[u] = StartCluster'
    BY <1>1, <1>6, <1>7, <1>8, <1>9
  <2> QED
    BY <1>1, <1>2, <1>10, <1>12, <2>1 DEF WalkInv
<1>14. ShortMeansComplete'
  BY <1>1, <1>12 DEF ShortMeansComplete
<1> QED
  BY <1>7, <1>13, <1>14

LEMMA FindEntryKeepsWalk ==
  ASSUME QueryInv, AnswerInv', FindEntry
  PROVE  WalkInv' /\ ShortMeansComplete' /\ NearestFirst'
<1> USE DEF QueryInv
<1>1. UNCHANGED <<request, start, out>> /\ pc = "entry"
  BY DEF FindEntry
<1>2. /\ NearestFirst'
      /\ \A u : Rank(u)' = Rank(u)
      /\ \A c : Hops(c)' = Hops(c)
      /\ \A c : Taken(c)' = Taken(c)
      /\ EntryEdges' = EntryEdges
      /\ Known' = Known /\ StartCluster' = StartCluster
      /\ img' = img /\ kind' = kind /\ limit' = limit /\ out' = out /\ start' = start
  BY <1>1, WaitingKeepsOrder DEF request
<1>3. /\ kind = "similar" /\ Known /\ Len(out) < limit /\ Taken(StartCluster)
      /\ \A u \in Range(out) : Rank(u) = 0
      /\ \A u \in Range(out) : \/ img.uuid_to_cluster[u] = StartCluster
                               \/ Hops(img.uuid_to_cluster[u]) # {}
  BY <1>1 DEF AnswerInv, StageInv, WalkInv
<1>4. CASE EntryHubs = {} /\ pc' = End
  <2>1. EntryEdges = {}
    BY <1>4 DEF EntryEdges
  <2>2. pc' \in {"name", "done"}
    BY <1>4 DEF End
  <2>3. Range(out) = {u \in DOMAIN img.uuid_to_cluster :
                         \/ img.uuid_to_cluster[u] = StartCluster
                         \/ Hops(img.uuid_to_cluster[u]) # {}} \ {start}
    BY <1>3, <2>1, TakenMeansComplete
  <2>4. ShortMeansComplete'
    BY <1>2, <2>3 DEF ShortMeansComplete
  <2>5. WalkInv'
    BY <1>2, <1>3, <2>2 DEF WalkInv
  <2> QED
    BY <1>2, <2>4, <2>5
<1>5. ASSUME NEW h \in EntryHubs, pc' = "walk",
             edges' = ByWeight(Lookup(img.hub_neighbors, h, << >>))
      PROVE  WalkInv' /\ ShortMeansComplete' /\ NearestFirst'
  <2> DEFINE list == Lookup(img.hub_neighbors, h, << >>)
  <2>1. list \in Seq(Uuid \X Nat) /\ EntryEdges = Range(list)
    BY EdgesAre DEF AnswerInv
  <2>2. edges' = ByWeight(list)
    BY <1>5
  <2> HIDE DEF list
  <2>3. /\ edges' \in Seq(Uuid \X Nat) /\ Range(edges') = EntryEdges
        /\ \A i, j \in DOMAIN edges' : i <= j => edges'[i][2] <= edges'[j][2]
    BY <2>1, <2>2, ByWeightSorts
  <2>4. \A x \in EntryEdges : x[2] \in Nat
    BY EdgesEndInIndex DEF AnswerInv
  <2>5. \A u \in Range(out), x \in Range(edges') : Rank(u) <= x[2]
    BY <1>3, <2>3, <2>4
  <2>6. WalkInv'
    BY <1>2, <1>3, <1>5, <2>3, <2>5 DEF WalkInv
  <2>7. ShortMeansComplete'
    BY <1>5 DEF ShortMeansComplete
  <2> QED
    BY <1>2, <2>6, <2>7
<1> QED
  BY <1>4, <1>5 DEF FindEntry

LEMMA FollowKeepsWalk ==
  ASSUME QueryInv, AnswerInv', Follow
  PROVE  WalkInv' /\ ShortMeansComplete' /\ NearestFirst'
<1> USE DEF QueryInv
<1> DEFINE x == Head(edges)
           rest == Tail(edges)
           c == img.uuid_to_cluster[x[1]]
<1>1. /\ pc = "walk" /\ edges # << >> /\ edges' = rest
      /\ img' = img /\ kind' = kind /\ limit' = limit /\ start' = start
      /\ UNCHANGED <<request, start>>
  BY DEF Follow, request
<1>2. /\ kind = "similar" /\ Known /\ TypeInv /\ IsInjective(out)
      /\ Len(out) < limit /\ Taken(StartCluster)
      /\ edges \in Seq(Uuid \X Nat) /\ Range(edges) \subseteq EntryEdges
      /\ \A i, j \in DOMAIN edges : i <= j => edges[i][2] <= edges[j][2]
      /\ \A y \in EntryEdges :
            y \in Range(edges) \/ Taken(img.uuid_to_cluster[y[1]])
      /\ \A u \in Range(out), y \in Range(edges) : Rank(u) <= y[2]
      /\ \A u \in Range(out) : Rank(u) \in Nat
      /\ \A u \in Range(out) : \/ img.uuid_to_cluster[u] = StartCluster
                               \/ Hops(img.uuid_to_cluster[u]) # {}
  BY <1>1 DEF AnswerInv, StageInv, ResultsDistinct, WalkInv
<1>3. /\ rest \in Seq(Uuid \X Nat) /\ Len(rest) = Len(edges) - 1
      /\ \A i \in 1..Len(rest) : rest[i] = edges[i + 1]
      /\ x = edges[1]
  BY <1>1, <1>2, HeadTailProperties
<1>4. /\ DOMAIN edges = 1..Len(edges) /\ DOMAIN rest = 1..Len(rest)
      /\ Len(edges) \in Nat /\ Len(rest) \in Nat /\ 1 \in DOMAIN edges
  BY <1>1, <1>2, <1>3, LenProperties
<1> HIDE DEF x, rest
<1>5. /\ Range(edges) = {edges[i] : i \in DOMAIN edges}
      /\ Range(rest) = {rest[i] : i \in DOMAIN rest}
  BY DEF Range
<1>6. \A i \in DOMAIN rest : i + 1 \in DOMAIN edges /\ rest[i] = edges[i + 1]
  BY <1>3, <1>4
<1>7. /\ x \in Range(edges) /\ x \in EntryEdges
      /\ Range(rest) \subseteq Range(edges)
      /\ \A y \in Range(edges) : y = x \/ y \in Range(rest)
      /\ \A y \in Range(edges) : x[2] <= y[2]
  <2>1. \A i \in DOMAIN edges : i = 1 \/ (i - 1 \in DOMAIN rest /\ i = (i - 1) + 1)
    BY <1>3, <1>4
  <2>2. \A i \in DOMAIN edges : 1 <= i
    BY <1>4
  <2>3. x \in Range(edges)
    BY <1>3, <1>4, <1>5
  <2>4. Range(rest) \subseteq Range(edges)
    BY <1>5, <1>6
  <2>5. \A y \in Range(edges) : y = x \/ y \in Range(rest)
    <3> TAKE y \in Range(edges)
    <3>1. PICK i \in DOMAIN edges : edges[i] = y
      BY <1>5
    <3>2. CASE i = 1
      BY <1>3, <3>1, <3>2
    <3>3. CASE i - 1 \in DOMAIN rest /\ i = (i - 1) + 1
      BY <1>5, <1>6, <3>1, <3>3
    <3> QED
      BY <2>1, <3>2, <3>3
  <2>6. \A y \in Range(edges) : x[2] <= y[2]
    BY <1>2, <1>3, <1>4, <1>5, <2>2
  <2> QED
    BY <1>2, <2>3, <2>4, <2>5, <2>6
<1>8. \A i, j \in DOMAIN rest : i <= j => rest[i][2] <= rest[j][2]
  <2> SUFFICES ASSUME NEW i \in DOMAIN rest, NEW j \in DOMAIN rest, i <= j
               PROVE  rest[i][2] <= rest[j][2]
    OBVIOUS
  <2>1. i + 1 \in DOMAIN edges /\ j + 1 \in DOMAIN edges /\ i + 1 <= j + 1
    BY <1>4, <1>6
  <2>2. edges[i + 1][2] <= edges[j + 1][2]
    BY <1>2, <2>1
  <2> QED
    BY <1>6, <2>2
<1>9. x[2] \in Nat /\ x[1] \in DOMAIN img.uuid_to_cluster /\ x[2] \in Hops(c)
  BY <1>2, <1>7, EdgesEndInIndex
<1>10. CASE c = StartCluster
  <2>1. UNCHANGED <<pc, out>>
    BY <1>10 DEF Follow, x
  <2>2. /\ NearestFirst'
        /\ \A u : Rank(u)' = Rank(u)
        /\ \A d : Hops(d)' = Hops(d)
        /\ \A d : Taken(d)' = Taken(d)
        /\ EntryEdges' = EntryEdges
        /\ Known' = Known /\ StartCluster' = StartCluster
    BY <1>1, <2>1, WaitingKeepsOrder
  <2>3. \A y \in EntryEdges : y \in Range(rest) \/ Taken(img.uuid_to_cluster[y[1]])
    BY <1>2, <1>7, <1>10
  <2>4. WalkInv'
    BY <1>1, <1>2, <1>3, <1>7, <1>8, <2>1, <2>2, <2>3 DEF WalkInv
  <2>5. ShortMeansComplete'
    BY <1>1, <2>1 DEF ShortMeansComplete
  <2> QED
    BY <2>2, <2>4, <2>5
<1>11. CASE c # StartCluster
  <2>1. /\ out' = Drain(MembersOf(img, c))
        /\ pc' = IF Len(out') >= limit THEN End ELSE "walk"
    BY <1>9, <1>11 DEF Follow, x
  <2>2. limit \in Nat /\ Len(out) \in Nat /\ Len(out) <= limit
    BY <1>2, LenProperties DEF TypeInv
  <2>3. Continues(out', Uuid, out, FreshOf(c), limit)
    BY <1>2, <2>1, <2>2, DrainIs
  <2>4. ASSUME NEW u \in FreshOf(c)
        PROVE  Rank(u) = x[2]
    <3>1. img.uuid_to_cluster[u] = c /\ ~Taken(c)
      BY <2>4 DEF FreshOf, NodesIn, Taken
    <3>2. \A d \in Hops(c) : x[2] <= d
      <4> TAKE d \in Hops(c)
      <4>1. PICK y \in EntryEdges : y[2] = d /\ img.uuid_to_cluster[y[1]] = c
        BY DEF Hops, EntryEdges
      <4>2. y \in Range(edges)
        BY <1>2, <3>1, <4>1
      <4> QED
        BY <1>7, <4>1, <4>2
    <3>3. \A d \in Hops(c) : d \in Nat
      <4> TAKE d \in Hops(c)
      <4>1. PICK y \in EntryEdges : y[2] = d
        BY DEF Hops, EntryEdges
      <4> QED
        BY <1>2, <4>1, EdgesEndInIndex
    <3>4. \A d \in Hops(c) : (\A e \in Hops(c) : d <= e) => d = x[2]
      BY <1>9, <3>2, <3>3
    <3>5. Rank(u) = Least(Hops(c))
      BY <1>11, <3>1 DEF Rank, Least
    <3>6. Least(Hops(c)) = x[2]
      BY <1>9, <3>2, <3>4 DEF Least
    <3> QED
      BY <3>5, <3>6
  <2>5. \A u \in Range(out) : Rank(u) \in Nat /\ Rank(u) <= x[2]
    BY <1>2, <1>7
  <2>6. /\ NearestFirst'
        /\ \A u \in Range(out') : Rank(u)' = Rank(u) /\ Rank(u) \in Nat /\ Rank(u) <= x[2]
    <3> DEFINE w == x[2]
    <3>1. w \in Nat
      BY <1>9
    <3>2. /\ \A u \in Range(out) : Rank(u) \in Nat /\ Rank(u) <= w
          /\ \A u \in FreshOf(c) : Rank(u) = w
      BY <2>4, <2>5
    <3> HIDE DEF w, c
    <3>3. /\ NearestFirst'
          /\ \A u \in Range(out') : Rank(u)' = Rank(u) /\ Rank(u) \in Nat /\ Rank(u) <= w
      BY <1>1, <1>2, <2>3, <3>1, <3>2, CollectingKeepsOrder
    <3> QED
      BY <3>3 DEF w
  <2>7. /\ EntryEdges' = EntryEdges /\ \A d : Hops(d)' = Hops(d)
    BY <1>1, RanksFixed
  <2>8. Known' = Known /\ StartCluster' = StartCluster
    BY <1>1 DEF Known, StartCluster
  <2>9. Range(out) \subseteq Range(out') /\ Range(out') \subseteq Range(out) \cup FreshOf(c)
    BY <2>3 DEF Continues
  <2>10. \A d : Taken(d) => Taken(d)'
    BY <1>1, <2>9 DEF Taken, NodesIn
  <2>11. Len(out') < limit => NodesIn(img, c) \ {start} \subseteq Range(out')
    BY <2>3, <2>9 DEF Continues, FreshOf
  <2>12. Len(out') \in Nat
    BY LenProperties DEF AnswerInv, TypeInv
  <2>13. /\ pc' \in {"name", "done", "walk"}
         /\ pc' = "walk" => Len(out') < limit
         /\ pc' # "walk" => ~(Len(out') < limit)
    BY <2>1, <2>2, <2>12 DEF End
  <2>14. pc' = "walk" => \A y \in EntryEdges :
            y \in Range(rest) \/ Taken(img.uuid_to_cluster[y[1]])'
    <3> SUFFICES ASSUME pc' = "walk", NEW y \in EntryEdges, y \notin Range(rest)
                 PROVE  Taken(img.uuid_to_cluster[y[1]])'
      OBVIOUS
    <3>1. CASE y = x
      BY <1>1, <2>11, <2>13, <3>1 DEF Taken
    <3>2. CASE y # x
      <4>1. Taken(img.uuid_to_cluster[y[1]])
        BY <1>2, <1>7, <3>2
      <4> QED
        BY <1>1, <2>10, <4>1
    <3> QED
      BY <3>1, <3>2
  <2>15. \A u \in Range(out'), y \in Range(rest) : Rank(u)' <= y[2]
    <3> TAKE u \in Range(out'), y \in Range(rest)
    <3>1. y \in EntryEdges /\ x[2] <= y[2]
      BY <1>2, <1>7
    <3>2. y[2] \in Nat
      BY <1>2, <3>1, EdgesEndInIndex
    <3>3. Rank(u)' = Rank(u) /\ Rank(u) \in Nat /\ Rank(u) <= x[2]
      BY <2>6
    <3> QED
      BY <1>9, <3>1, <3>2, <3>3
  <2>16. \A u \in Range(out') : \/ img'.uuid_to_cluster[u] = StartCluster'
                                \/ Hops(img.uuid_to_cluster[u])' # {}
    <3> TAKE u \in Range(out')
    <3>1. CASE u \in Range(out)
      BY <1>1, <1>2, <2>7, <2>8, <3>1
    <3>2. CASE u \in FreshOf(c)
      <4>1. img.uuid_to_cluster[u] = c
        BY <3>2 DEF FreshOf, NodesIn
      <4> QED
        BY <1>1, <1>9, <2>7, <4>1
    <3> QED
      BY <2>9, <3>1, <3>2
  <2>17. Taken(StartCluster)'
    BY <1>1, <1>2, <2>8, <2>10
  <2>18. WalkInv'
    <3>1. Range(rest) \subseteq EntryEdges
      BY <1>2, <1>7
    <3>2. \A u \in Range(out') : Rank(u)' \in Nat
      BY <2>6
    <3> QED
      BY <1>1, <1>2, <1>3, <1>8, <2>7, <2>8, <2>13, <2>14, <2>15, <2>16, <2>17,
         <3>1, <3>2 DEF WalkInv
  <2>19. ShortMeansComplete'
    BY <1>1, <2>13 DEF ShortMeansComplete
  <2> QED
    BY <2>6, <2>18, <2>19
<1> QED
  BY <1>10, <1>11

\* Every step keeps the walk's part of the invariant.
LEMMA WalkStep ==
  QueryInv /\ AnswerInv' /\ [Next]_vars => WalkInv' /\ ShortMeansComplete' /\ NearestFirst'
<1> SUFFICES ASSUME QueryInv, AnswerInv', [Next]_vars
             PROVE  WalkInv' /\ ShortMeansComplete' /\ NearestFirst'
  OBVIOUS
<1> USE DEF QueryInv
<1>1. CASE Resolve \/ SameCluster
  BY <1>1, StartingKeepsWalk
<1>2. CASE Local
  BY <1>2, LocalKeepsWalk
<1>3. CASE FindEntry
  BY <1>3, FindEntryKeepsWalk
<1>4. CASE Follow
  BY <1>4, FollowKeepsWalk
<1>5. ASSUME UNCHANGED <<request, start, out>>
      PROVE  /\ NearestFirst'
             /\ \A u : Rank(u)' = Rank(u)
             /\ \A c : Hops(c)' = Hops(c)
             /\ \A c : Taken(c)' = Taken(c)
             /\ EntryEdges' = EntryEdges
             /\ Known' = Known /\ StartCluster' = StartCluster
             /\ img' = img /\ kind' = kind /\ limit' = limit /\ out' = out
             /\ start' = start
  BY <1>5, WaitingKeepsOrder DEF request
<1>6. CASE Begin
  <2>1. /\ UNCHANGED <<request, start, out>> /\ kind = "similar"
        /\ pc' = IF limit = 0 \/ ~Known THEN End ELSE "local"
        /\ out = << >>
    BY <1>6 DEF Begin, AnswerInv, StageInv
  <2>2. Range(out) = {} /\ Len(out) = 0
    BY <2>1 DEF Range
  <2>3. /\ pc' \in {"name", "done", "local"}
        /\ pc' # "local" => ~(Len(out) < limit) \/ ~Known
    BY <2>1, <2>2 DEF End
  <2>4. WalkInv'
    BY <1>5, <2>1, <2>2, <2>3 DEF WalkInv
  <2>5. ShortMeansComplete'
    BY <1>5, <2>1, <2>3 DEF ShortMeansComplete
  <2> QED
    BY <1>5, <2>1, <2>4, <2>5
<1>7. CASE Finish
  <2>1. /\ UNCHANGED <<request, start, out>> /\ pc = "walk" /\ edges = << >>
        /\ pc' \in {"name", "done"}
    BY <1>7 DEF Finish, End
  <2>2. Range(edges) = {}
    BY <2>1 DEF Range
  <2>3. /\ kind = "similar" /\ Known /\ Taken(StartCluster)
        /\ \A x \in EntryEdges : Taken(img.uuid_to_cluster[x[1]])
        /\ \A u \in Range(out) : \/ img.uuid_to_cluster[u] = StartCluster
                                 \/ Hops(img.uuid_to_cluster[u]) # {}
    BY <2>1, <2>2 DEF AnswerInv, StageInv, WalkInv
  <2>4. Range(out) = {u \in DOMAIN img.uuid_to_cluster :
                         \/ img.uuid_to_cluster[u] = StartCluster
                         \/ Hops(img.uuid_to_cluster[u]) # {}} \ {start}
    BY <2>3, TakenMeansComplete
  <2>5. ShortMeansComplete'
    BY <1>5, <2>1, <2>4 DEF ShortMeansComplete
  <2>6. WalkInv'
    BY <1>5, <2>1 DEF WalkInv
  <2> QED
    BY <1>5, <2>1, <2>5, <2>6
<1>8. CASE Name
  <2>1. /\ UNCHANGED <<request, start, out>> /\ pc = "name" /\ pc' = "done"
    BY <1>8 DEF Name
  <2>2. ShortMeansComplete'
    BY <1>5, <2>1 DEF ShortMeansComplete
  <2>3. WalkInv'
    BY <1>5, <2>1 DEF WalkInv
  <2> QED
    BY <1>5, <2>1, <2>2, <2>3
<1>9. CASE UNCHANGED vars
  <2>1. UNCHANGED <<request, start, out>> /\ pc' = pc /\ edges' = edges
    BY <1>9 DEF vars, request
  <2>2. ShortMeansComplete'
    BY <1>5, <2>1 DEF ShortMeansComplete
  <2>3. WalkInv'
    BY <1>5, <2>1 DEF WalkInv
  <2> QED
    BY <1>5, <2>1, <2>2, <2>3
<1> QED
  BY <1>1, <1>2, <1>3, <1>4, <1>6, <1>7, <1>8, <1>9 DEF Next

LEMMA QueryAlways == Spec => []QueryInv
<1>1. Init => QueryInv
  BY AnswerInit, WalkInit DEF QueryInv
<1>2. QueryInv /\ [Next]_vars => QueryInv'
  BY AnswerStep, WalkStep DEF QueryInv
<1> QED
  BY <1>1, <1>2, PTL DEF Spec

\* The results come in the order of their distance: the start's own cluster,
\* then the clusters of nearer hubs before those of farther ones, for every hub
\* graph and at every moment of the walk.
THEOREM QueryFindsNearestFirst == Spec => []NearestFirst
<1>1. QueryInv => NearestFirst
  BY DEF QueryInv
<1> QED
  BY <1>1, QueryAlways, PTL

\* A similar query that stops below its limit has returned every node it can
\* reach through the entry hub.
THEOREM QueryMissesNone == Spec => []ShortMeansComplete
<1>1. QueryInv => ShortMeansComplete
  BY DEF QueryInv
<1> QED
  BY <1>1, QueryAlways, PTL

-----------------------------------------------------------------------------
(* The bytes the queries read.  Numbers are taken apart and put together   *)
(* again, lists are cut where they were joined, and a list whose bytes end *)
(* early or late no longer has the length its count stands for.            *)

-----------------------------------------------------------------------------
(* Numbers.                                                                *)

\* Four bytes hold a u32.
LEMMA WordReadsBack ==
  ASSUME NEW n, IsU32(n)
  PROVE  Of32(Le32(n)) = n
<1>1. /\ n \in Nat /\ n \div 65536 < 65536
  BY SMT DEF IsU32
<1> DEFINE a == n \div 256
           b == n \div 65536
           c == n \div 16777216
<1>2. n = 256 * a + (n % 256) /\ a \in Nat /\ (n % 256) \in 0..255
  BY SMT, <1>1
<1>3. a = 256 * b + (a % 256) /\ b \in Nat /\ (a % 256) \in 0..255
  BY SMT, <1>1
<1>4. b = 256 * c + (b % 256) /\ c \in Nat /\ (b % 256) \in 0..255
  BY SMT, <1>1
<1>5. c < 256
  BY SMT, <1>1
<1>6. (c % 256) = c
  BY SMT, <1>4, <1>5
<1>7. Le32(n) = <<(n % 256), (a % 256), (b % 256), c>>
  BY SMT, <1>6 DEF Le32
<1> HIDE DEF a, b, c
<1>8. Of32(Le32(n)) = (n % 256) + 256 * (a % 256) + 65536 * (b % 256) + 16777216 * c
  BY SMT, <1>7 DEF Of32
<1> QED
  BY SMT, <1>8, <1>2, <1>3, <1>4

\* A word is four bytes, whatever the number.
LEMMA WordIsFour ==
  ASSUME NEW n \in Nat
  PROVE  Le32(n) \in Seq(Byte) /\ Len(Le32(n)) = 4
<1>1. /\ (n % 256) \in Byte /\ (n \div 256) % 256 \in Byte
      /\ (n \div 65536) % 256 \in Byte /\ (n \div 16777216) % 256 \in Byte
  BY SMT DEF Byte
<1> QED
  BY SMT, <1>1 DEF Le32

\* The lower half of a u64 is all that its first word keeps of it.
LEMMA LowWord ==
  ASSUME NEW n \in Nat
  PROVE  Of32(Le32(n)) = n - 65536 * (65536 * ((n \div 65536) \div 65536))
<1> DEFINE a == n \div 256
           b == n \div 65536
           c == n \div 16777216
           d == b \div 65536
<1>1. n = 256 * a + (n % 256) /\ a \in Nat /\ (n % 256) \in 0..255
  BY SMT
<1>2. a = 256 * b + (a % 256) /\ b \in Nat /\ (a % 256) \in 0..255
  BY SMT
<1>3. b = 256 * c + (b % 256) /\ c \in Nat /\ (b % 256) \in 0..255
  BY SMT
<1>4. c = 256 * d + (c % 256) /\ d \in Nat /\ (c % 256) \in 0..255
  BY SMT
<1>5. Le32(n) = <<(n % 256), (a % 256), (b % 256), (c % 256)>>
  BY SMT DEF Le32
<1> HIDE DEF a, b, c
<1>6. Of32(Le32(n)) =
        (n % 256) + 256 * (a % 256) + 65536 * (b % 256) + 16777216 * (c % 256)
  BY SMT, <1>5 DEF Of32
<1>7. d = (n \div 65536) \div 65536
  BY SMT DEF b
<1> HIDE DEF d
<1> QED
  BY SMT, <1>1, <1>2, <1>3, <1>4, <1>6, <1>7

\* Two sequences joined are told apart by their lengths.
LEMMA TwoParts ==
  ASSUME NEW S, NEW a \in Seq(S), NEW b \in Seq(S), NEW m \in Nat, NEW n \in Nat,
         Len(a) = m, Len(a \o b) = n
  PROVE  SubSeq(a \o b, 1, m) = a /\ SubSeq(a \o b, m + 1, n) = b
<1>1. n = m + Len(b) /\ a \o b \in Seq(S)
  BY SMT
<1> QED
  BY SMT, <1>1, SeqEqual

\* Where the items of two sequences are when they are joined.
Joined(a, b) == a \o b
Joins(c, a, b) ==
  /\ Len(c) = Len(a) + Len(b)
  /\ \A i \in 1..Len(a) : c[i] = a[i]
  /\ \A i \in 1..Len(b) : c[Len(a) + i] = b[i]

LEMMA JoinedIs ==
  ASSUME NEW S, NEW a \in Seq(S), NEW b \in Seq(S)
  PROVE  Joined(a, b) \in Seq(S) /\ Joins(Joined(a, b), a, b)
<1> DEFINE m == Len(a)
           c == Joined(a, b)
<1>1. m \in Nat /\ Len(b) \in Nat
  OBVIOUS
<1>2. \A i \in 1..(Len(a) + Len(b)) : (a \o b)[i] = IF i <= Len(a) THEN a[i] ELSE b[i - Len(a)]
  BY ConcatProperties
<1>3. \A i \in 1..(m + Len(b)) : c[i] = IF i <= m THEN a[i] ELSE b[i - m]
  BY <1>2 DEF Joined
<1>4. c \in Seq(S) /\ Len(c) = m + Len(b)
  BY ConcatProperties DEF Joined
<1> HIDE DEF m, c
<1>5. ASSUME NEW i \in 1..m
      PROVE  c[i] = a[i]
  <2>1. i \in 1..(m + Len(b)) /\ i <= m
    BY <1>1
  <2> QED
    BY <1>3, <2>1
<1>6. ASSUME NEW i \in 1..Len(b)
      PROVE  c[m + i] = b[i]
  <2>1. m + i \in 1..(m + Len(b)) /\ ~(m + i <= m) /\ (m + i) - m = i
    BY <1>1
  <2>2. c[m + i] = IF m + i <= m THEN a[m + i] ELSE b[(m + i) - m]
    BY <1>3, <2>1
  <2> QED
    BY <2>1, <2>2
<1> QED
  BY <1>4, <1>5, <1>6 DEF m, c, Joins

\* Eight bytes are read as two words.
LEMMA TwoWords ==
  ASSUME NEW low \in Seq(Byte), NEW top \in Seq(Byte), Len(low) = 4, Len(top) = 4
  PROVE  Of64(low \o top) = Of32(low) + 65536 * (65536 * Of32(top))
<1>1. Len(low \o top) = 8
  <2>1. Len(low \o top) = Len(low) + Len(top)
    BY ConcatProperties
  <2> QED
    BY <2>1
<1>2. SubSeq(low \o top, 1, 4) = low /\ SubSeq(low \o top, 4 + 1, 8) = top
  BY <1>1, TwoParts
<1>3. 4 + 1 = 5
  OBVIOUS
<1>4. SubSeq(low \o top, 5, 8) = top
  BY <1>2, <1>3
<1> DEFINE b == low \o top
           first == SubSeq(b, 1, 4)
           second == SubSeq(b, 5, 8)
<1>5. Of64(b) = Of32(first) + 65536 * (65536 * Of32(second))
  BY SMT DEF Of64
<1>6. first = low /\ second = top
  BY <1>2, <1>4
<1> HIDE DEF first, second
<1>7. Of64(b) = Of32(low) + 65536 * (65536 * Of32(top))
  BY SMT, <1>5, <1>6
<1> QED
  BY <1>7

\* Eight bytes hold a u64.
LEMMA LongReadsBack ==
  ASSUME NEW n, IsU64(n)
  PROVE  Of64(Le64(n)) = n
<1> DEFINE high == (n \div 65536) \div 65536
<1>1. n \in Nat /\ IsU32(high)
  BY SMT DEF IsU64
<1>2. high \in Nat
  BY SMT, <1>1 DEF IsU32
<1>3. Of32(Le32(n)) = n - 65536 * (65536 * high)
  BY <1>1, LowWord
<1>4. Of32(Le32(high)) = high
  BY <1>1, WordReadsBack
<1> HIDE DEF high
<1>5. Of64(Le32(n) \o Le32(high)) = Of32(Le32(n)) + 65536 * (65536 * Of32(Le32(high)))
  BY <1>1, <1>2, WordIsFour, TwoWords
<1>6. Le64(n) = Le32(n) \o Le32(high)
  BY DEF Le64, high
<1>7. Of64(Le64(n)) = (n - 65536 * (65536 * high)) + 65536 * (65536 * high)
  BY <1>3, <1>4, <1>5, <1>6
<1> QED
  BY SMT, <1>1, <1>2, <1>7

\* A long is eight bytes, whatever the number.
LEMMA LongIsEight ==
  ASSUME NEW n \in Nat
  PROVE  Le64(n) \in Seq(Byte) /\ Len(Le64(n)) = 8
<1> DEFINE high == (n \div 65536) \div 65536
<1>1. high \in Nat
  BY SMT
<1>2. Le64(n) = Le32(n) \o Le32(high)
  BY DEF Le64
<1> HIDE DEF high
<1>3. /\ Le32(n) \in Seq(Byte) /\ Len(Le32(n)) = 4
      /\ Le32(high) \in Seq(Byte) /\ Len(Le32(high)) = 4
  BY <1>1, WordIsFour
<1>4. /\ Le32(n) \o Le32(high) \in Seq(Byte)
      /\ Len(Le32(n) \o Le32(high)) = Len(Le32(n)) + Len(Le32(high))
  BY <1>3, ConcatProperties
<1> QED
  BY <1>2, <1>3, <1>4

-----------------------------------------------------------------------------
(* The byte in front.                                                      *)

\* The bytes with the version in front.
LEMMA FrameIs ==
  ASSUME NEW body \in Seq(Byte)
  PROVE  LET bytes == <<FormatV1>> \o body
         IN  /\ bytes \in Seq(Byte) /\ Len(bytes) = 1 + Len(body)
             /\ bytes[1] = FormatV1
             /\ \A i \in 1..Len(body) : bytes[i + 1] = body[i]
<1> DEFINE head == <<FormatV1>>
<1>1. head \in Seq(Byte) /\ Len(head) = 1 /\ head[1] = FormatV1 /\ 1 \in 1..1
  BY SMT DEF FormatV1, Byte
<1> HIDE DEF head
<1> DEFINE bytes == Joined(head, body)
<1>2. bytes = head \o body
  BY DEF Joined
<1>3. /\ bytes \in Seq(Byte) /\ Len(bytes) = 1 + Len(body)
      /\ \A i \in 1..1 : bytes[i] = head[i]
      /\ \A i \in 1..Len(body) : bytes[1 + i] = body[i]
  <2>1. bytes \in Seq(Byte) /\ Joins(bytes, head, body)
    BY <1>1, JoinedIs
  <2> HIDE DEF bytes
  <2> QED
    BY <1>1, <2>1 DEF Joins
<1> HIDE DEF bytes
<1>4. \A i \in 1..Len(body) : 1 + i = i + 1
  BY SMT
<1>5. bytes[1] = FormatV1 /\ \A i \in 1..Len(body) : bytes[i + 1] = body[i]
  BY <1>1, <1>3, <1>4
<1> QED
  BY <1>2, <1>3, <1>5 DEF head

\* Behind the version byte is the body.
LEMMA FrameReadsBack ==
  ASSUME NEW body \in Seq(Byte)
  PROVE  ReadFormatByte(<<FormatV1>> \o body) = Accept(body)
<1> DEFINE bytes == <<FormatV1>> \o body
<1>1. bytes \in Seq(Byte) /\ Len(bytes) = 1 + Len(body)
  BY FrameIs
<1>2. bytes[1] = FormatV1 /\ \A i \in 1..Len(body) : bytes[i + 1] = body[i]
  BY FrameIs
<1> HIDE DEF bytes
<1>3. bytes # << >>
  BY SMT, <1>1
<1>4. Tail(bytes) = body
  <2>1. Tail(bytes) \in Seq(Byte) /\ Len(Tail(bytes)) = Len(body)
    BY SMT, <1>1
  <2>2. \A i \in 1..Len(body) : Tail(bytes)[i] = body[i]
    BY SMT, <1>1, <1>2
  <2> QED
    BY <2>1, <2>2, SeqEqual
<1>5. ReadFormatByte(bytes) = Accept(body)
  BY <1>2, <1>3, <1>4 DEF ReadFormatByte
<1> QED
  BY <1>5 DEF bytes

\* Another byte in front is told apart from damage.
LEMMA OtherFormatRefused ==
  ASSUME NEW body \in Seq(Byte), NEW v \in {0, 2}
  PROVE  ReadFormatByte([<<FormatV1>> \o body EXCEPT ![1] = v]) = Newer
<1> DEFINE bytes == <<FormatV1>> \o body
           other == [bytes EXCEPT ![1] = v]
<1>1. bytes \in Seq(Byte) /\ Len(bytes) = 1 + Len(body)
  BY FrameIs
<1>2. 1 \in DOMAIN bytes
  BY SMT, <1>1
<1> HIDE DEF bytes
<1>3. other[1] = v /\ DOMAIN other = DOMAIN bytes
  BY <1>2
<1>4. other # << >>
  BY SMT, <1>2, <1>3
<1>5. v # FormatV1
  BY SMT DEF FormatV1
<1> HIDE DEF other
<1>6. ReadFormatByte(other) = Newer
  BY <1>3, <1>4, <1>5 DEF ReadFormatByte
<1> QED
  BY <1>6 DEF other, bytes

\* A payload that lost its end or has bytes behind it keeps its version byte,
\* and its body agrees with the written one as far as both go but has another
\* length.
LEMMA DamagedFrame ==
  ASSUME NEW body \in Seq(Byte), NEW d \in Damaged(<<FormatV1>> \o body)
  PROVE  \E rest \in Seq(Byte) :
           /\ ReadFormatByte(d) = Accept(rest)
           /\ Len(rest) # Len(body)
           /\ \A i \in 1..Len(rest) : i <= Len(body) => rest[i] = body[i]
<1> DEFINE bytes == <<FormatV1>> \o body
<1>1. bytes \in Seq(Byte) /\ Len(bytes) = 1 + Len(body)
  BY FrameIs
<1>2. bytes[1] = FormatV1 /\ \A i \in 1..Len(body) : bytes[i + 1] = body[i]
  BY FrameIs
<1>3. \/ \E n \in 1..(Len(bytes) - 1) : d = SubSeq(bytes, 1, n)
      \/ \E b \in {0, 1} : d = Append(bytes, b)
  BY DEF Damaged
<1> HIDE DEF bytes
<1>4. /\ d \in Seq(Byte) /\ d[1] = FormatV1 /\ Len(d) # Len(bytes) /\ Len(d) >= 1
      /\ \A i \in 1..Len(d) : i <= Len(bytes) => d[i] = bytes[i]
  <2>1. CASE \E n \in 1..(Len(bytes) - 1) : d = SubSeq(bytes, 1, n)
    <3>1. PICK n \in 1..(Len(bytes) - 1) : d = SubSeq(bytes, 1, n)
      BY <2>1
    <3>2. n \in Nat /\ 1 <= n /\ n < Len(bytes)
      BY SMT, <1>1, <3>1
    <3> QED
      BY SMT, <1>1, <1>2, <3>1, <3>2
  <2>2. CASE \E b \in {0, 1} : d = Append(bytes, b)
    <3>1. PICK b \in {0, 1} : d = Append(bytes, b)
      BY <2>2
    <3>2. b \in Byte
      BY SMT DEF Byte
    <3> QED
      BY SMT, <1>1, <1>2, <3>1, <3>2
  <2> QED
    BY <1>3, <2>1, <2>2
<1>5. d # << >>
  BY SMT, <1>4
<1> DEFINE rest == Tail(d)
<1>6. /\ rest \in Seq(Byte) /\ Len(rest) = Len(d) - 1
      /\ \A i \in 1..Len(rest) : rest[i] = d[i + 1]
  BY SMT, <1>4, <1>5
<1>7. ReadFormatByte(d) = Accept(rest)
  BY <1>4, <1>5 DEF ReadFormatByte
<1> HIDE DEF rest
<1>8. Len(rest) # Len(body)
  BY SMT, <1>1, <1>4, <1>6
<1>9. ASSUME NEW i \in 1..Len(rest), i <= Len(body)
      PROVE  rest[i] = body[i]
  <2>1. i + 1 \in 1..Len(d) /\ i + 1 <= Len(bytes) /\ i \in 1..Len(body)
    BY SMT, <1>1, <1>4, <1>6, <1>9
  <2>2. rest[i] = d[i + 1] /\ d[i + 1] = bytes[i + 1] /\ bytes[i + 1] = body[i]
    BY <1>2, <1>4, <1>6, <2>1
  <2> QED
    BY <2>2
<1> QED
  BY <1>6, <1>7, <1>8, <1>9

\* Nothing is not even a version byte.
LEMMA NothingRefused == ReadFormatByte(<< >>) = Corrupt
BY DEF ReadFormatByte

\* What a result says.
LEMMA Verdicts ==
  /\ \A v : Accept(v).verdict = "ok" /\ Accept(v).value = v
  /\ Corrupt.verdict # "ok" /\ Newer.verdict # "ok"
BY DEF Accept, Corrupt, Newer

-----------------------------------------------------------------------------
(* Bodies of fixed length.                                                 *)

\* A body of the expected length is accepted and one of another refused.
LEMMA BodyReadsBack ==
  ASSUME NEW body \in Seq(Byte), NEW length, Len(body) = length
  PROVE  LET bytes == <<FormatV1>> \o body
         IN  /\ BodyOf(bytes, length) = Accept(body)
             /\ \A d \in Damaged(bytes) : BodyOf(d, length) = Corrupt
             /\ \A v \in {0, 2} : BodyOf([bytes EXCEPT ![1] = v], length) = Newer
             /\ BodyOf(<< >>, length) = Corrupt
<1> DEFINE bytes == <<FormatV1>> \o body
<1>1. BodyOf(bytes, length) = Accept(body)
  <2>1. ReadFormatByte(bytes) = Accept(body)
    BY FrameReadsBack
  <2> HIDE DEF bytes
  <2> QED
    BY <2>1, Verdicts DEF BodyOf
<1>2. ASSUME NEW d \in Damaged(bytes)
      PROVE  BodyOf(d, length) = Corrupt
  <2>1. PICK rest \in Seq(Byte) : ReadFormatByte(d) = Accept(rest) /\ Len(rest) # Len(body)
    BY DamagedFrame
  <2> QED
    BY <2>1, Verdicts DEF BodyOf
<1>3. ASSUME NEW v \in {0, 2}
      PROVE  BodyOf([bytes EXCEPT ![1] = v], length) = Newer
  <2>1. ReadFormatByte([bytes EXCEPT ![1] = v]) = Newer
    BY OtherFormatRefused
  <2> HIDE DEF bytes
  <2> DEFINE other == [bytes EXCEPT ![1] = v]
  <2> HIDE DEF other
  <2>2. ReadFormatByte(other) = Newer
    BY <2>1 DEF other
  <2>3. BodyOf(other, length) = Newer
    BY <2>2, Verdicts DEF BodyOf
  <2> QED
    BY <2>3 DEF other
<1>4. BodyOf(<< >>, length) = Corrupt
  BY NothingRefused, Verdicts DEF BodyOf
<1> QED
  BY <1>1, <1>2, <1>3, <1>4

-----------------------------------------------------------------------------
(* Counted lists.                                                          *)

Widths == {8, 16, 20}

\* A place in a flat list is a place in one of its items.
LEMMA PlaceOfByte ==
  ASSUME NEW width \in Widths, NEW i \in Nat \ {0}, NEW k \in 1..width
  PROVE  LET at == (i - 1) * width + k
         IN  /\ at \in Nat \ {0}
             /\ ((at - 1) \div width) + 1 = i
             /\ ((at - 1) % width) + 1 = k
<1>1. CASE width = 8
  BY SMT, <1>1
<1>2. CASE width = 16
  BY SMT, <1>2
<1>3. CASE width = 20
  BY SMT, <1>3
<1> QED
  BY <1>1, <1>2, <1>3 DEF Widths

\* And the other way round.
LEMMA ByteOfPlace ==
  ASSUME NEW width \in Widths, NEW n \in Nat, NEW at \in 1..(width * n)
  PROVE  /\ ((at - 1) \div width) + 1 \in 1..n
         /\ ((at - 1) % width) + 1 \in 1..width
<1>1. CASE width = 8
  BY SMT, <1>1
<1>2. CASE width = 16
  BY SMT, <1>2
<1>3. CASE width = 20
  BY SMT, <1>3
<1> QED
  BY <1>1, <1>2, <1>3 DEF Widths

\* The places of the items lie in the flat list.
LEMMA PlaceInside ==
  ASSUME NEW width \in Widths, NEW n \in Nat, NEW i \in 1..n, NEW k \in 1..width
  PROVE  (i - 1) * width + k \in 1..(width * n)
<1>1. CASE width = 8
  BY SMT, <1>1
<1>2. CASE width = 16
  BY SMT, <1>2
<1>3. CASE width = 20
  BY SMT, <1>3
<1> QED
  BY <1>1, <1>2, <1>3 DEF Widths

\* A flat list is the bytes of its items one after the other.
LEMMA FlatIs ==
  ASSUME NEW width \in Widths, NEW items \in Seq([1..width -> Byte])
  PROVE  /\ Flat(items, width) \in Seq(Byte)
         /\ Len(Flat(items, width)) = width * Len(items)
         /\ \A i \in 1..Len(items) : \A k \in 1..width :
              Flat(items, width)[(i - 1) * width + k] = items[i][k]
<1> DEFINE n == Len(items)
           size == width * n
           item(k) == ((k - 1) \div width) + 1
           part(k) == ((k - 1) % width) + 1
<1>1. n \in Nat /\ \A i \in 1..n : items[i] \in [1..width -> Byte]
  OBVIOUS
<1>2. size \in Nat
  BY SMT, <1>1 DEF Widths
<1>3. \A at \in 1..size : item(at) \in 1..n /\ part(at) \in 1..width
  BY <1>1, ByteOfPlace
<1>4. \A i \in 1..n : \A k \in 1..width :
        /\ (i - 1) * width + k \in 1..size
        /\ item((i - 1) * width + k) = i
        /\ part((i - 1) * width + k) = k
  <2> TAKE i \in 1..n
  <2> TAKE k \in 1..width
  <2>1. i \in Nat \ {0}
    BY SMT, <1>1
  <2> QED
    BY <1>1, <2>1, PlaceInside, PlaceOfByte
<1>5. Flat(items, width) = [k \in 1..size |-> items[item(k)][part(k)]]
  BY DEF Flat
<1> HIDE DEF n, size, item, part
<1>6. \A at \in 1..size : items[item(at)][part(at)] \in Byte
  BY <1>1, <1>3
<1>7. Flat(items, width) \in [1..size -> Byte]
  BY <1>5, <1>6
<1>8. Flat(items, width) \in Seq(Byte) /\ Len(Flat(items, width)) = size
  BY SMT, <1>2, <1>7
<1>9. \A i \in 1..n : \A k \in 1..width :
        Flat(items, width)[(i - 1) * width + k] = items[i][k]
  BY <1>4, <1>5
<1> QED
  BY <1>8, <1>9 DEF n, size

\* What is behind the version byte of a list.
ListBody(items, width) == Le32(Len(items)) \o Flat(items, width)

\* The body of a list begins with the count, and the items follow.
LEMMA ListBodyIs ==
  ASSUME NEW width \in Widths, NEW items \in Seq([1..width -> Byte])
  PROVE  LET body == ListBody(items, width)
         IN  /\ Counted(items, width) = <<FormatV1>> \o body
             /\ body \in Seq(Byte)
             /\ Len(body) = 4 + Len(items) * width
             /\ \A i \in 1..4 : body[i] = Le32(Len(items))[i]
             /\ \A i \in 1..Len(items) : \A k \in 1..width :
                  body[4 + (i - 1) * width + k] = items[i][k]
<1> DEFINE count == Le32(Len(items))
           flat == Flat(items, width)
           head == <<FormatV1>>
<1>1. Len(items) \in Nat
  OBVIOUS
<1>2. count \in Seq(Byte) /\ Len(count) = 4
  BY <1>1, WordIsFour
<1>3. flat \in Seq(Byte) /\ Len(flat) = width * Len(items)
  BY FlatIs
<1>4. head \in Seq(Byte)
  BY SMT DEF FormatV1, Byte
<1>5. Counted(items, width) = (head \o count) \o flat
  BY DEF Counted
<1>6. \A i \in 1..Len(items) : \A k \in 1..width :
        /\ flat[(i - 1) * width + k] = items[i][k]
        /\ (i - 1) * width + k \in 1..Len(flat)
  BY <1>1, <1>3, FlatIs, PlaceInside
<1> HIDE DEF count, flat, head
<1>7. (head \o count) \o flat = head \o (count \o flat)
  BY <1>2, <1>3, <1>4, ConcatAssociative
<1> DEFINE body == Joined(count, flat)
<1>8. body = count \o flat
  BY DEF Joined
<1>9. /\ body \in Seq(Byte) /\ Len(body) = 4 + Len(flat)
      /\ \A i \in 1..4 : body[i] = count[i]
      /\ \A at \in 1..Len(flat) : body[4 + at] = flat[at]
  <2>1. body \in Seq(Byte) /\ Joins(body, count, flat)
    BY <1>2, <1>3, JoinedIs
  <2> HIDE DEF body
  <2> QED
    BY <1>2, <2>1 DEF Joins
<1> HIDE DEF body
<1>10. width * Len(items) = Len(items) * width
  BY SMT, <1>1 DEF Widths
<1>11. ASSUME NEW i \in 1..Len(items), NEW k \in 1..width
       PROVE  body[4 + (i - 1) * width + k] = items[i][k]
  <2> DEFINE at == (i - 1) * width + k
             offset == (i - 1) * width
  <2>1. at \in 1..Len(flat) /\ flat[at] = items[i][k]
    BY <1>6
  <2>2. offset \in Int /\ k \in Int
    BY SMT, <1>1 DEF Widths
  <2>3. at = offset + k
    OBVIOUS
  <2> HIDE DEF at, offset
  <2>4. (4 + offset) + k = 4 + at
    BY SMT, <2>2, <2>3
  <2>5. body[(4 + offset) + k] = items[i][k]
    BY <1>9, <2>1, <2>4
  <2> QED
    BY <2>5 DEF offset
<1>12. Len(body) = 4 + Len(items) * width
  BY <1>3, <1>9, <1>10
<1>13. Counted(items, width) = head \o body
  BY <1>5, <1>7, <1>8
<1>14. ListBody(items, width) = body
  BY <1>8 DEF ListBody, count, flat
<1> QED
  BY <1>9, <1>11, <1>12, <1>13, <1>14 DEF head, count

\* Bodies that begin alike have the same count.
LEMMA SameCount ==
  ASSUME NEW a, NEW b, \A i \in 1..4 : a[i] = b[i]
  PROVE  Of32(a) = Of32(b)
<1>1. a[1] = b[1] /\ a[2] = b[2] /\ a[3] = b[3] /\ a[4] = b[4]
  OBVIOUS
<1> QED
  BY SMT, <1>1 DEF Of32

\* A list is cut into the items it was joined from, and a list whose bytes end
\* early or late is refused.
LEMMA ListReadsBack ==
  ASSUME NEW width \in Widths, NEW items \in Seq([1..width -> Byte]), IsU32(Len(items))
  PROVE  LET bytes == <<FormatV1>> \o ListBody(items, width)
         IN  /\ ItemsOf(bytes, width) = Accept(items)
             /\ \A d \in Damaged(bytes) : ItemsOf(d, width) = Corrupt
             /\ \A v \in {0, 2} : ItemsOf([bytes EXCEPT ![1] = v], width) = Newer
             /\ ItemsOf(<< >>, width) = Corrupt
<1> DEFINE body == ListBody(items, width)
           bytes == <<FormatV1>> \o body
           count == Len(items)
<1>1. count \in Nat
  OBVIOUS
<1>2. /\ body \in Seq(Byte) /\ Len(body) = 4 + count * width
      /\ \A i \in 1..4 : body[i] = Le32(count)[i]
      /\ \A i \in 1..count : \A k \in 1..width :
           body[4 + (i - 1) * width + k] = items[i][k]
  BY ListBodyIs
<1>3. Of32(body) = count
  <2>1. Of32(body) = Of32(Le32(count))
    BY <1>2, SameCount
  <2> QED
    BY <2>1, WordReadsBack
<1>4. count * width \in Nat
  BY SMT, <1>1 DEF Widths
<1> HIDE DEF body
<1>5. ItemsOf(bytes, width) = Accept(items)
  <2>1. ReadFormatByte(bytes) = Accept(body)
    BY <1>2, FrameReadsBack
  <2>2. ~(Len(body) < 4) /\ HasExactly(body, Of32(body), width)
    BY SMT, <1>2, <1>3, <1>4 DEF HasExactly
  <2>3. [i \in 1..count |-> Item(body, i, width)] = items
    <3>1. \A i \in 1..count : items[i] \in [1..width -> Byte]
      OBVIOUS
    <3>2. \A i \in 1..count : Item(body, i, width) = items[i]
      BY <1>2, <3>1 DEF Item
    <3>3. DOMAIN items = 1..count /\ items = [i \in 1..count |-> items[i]]
      OBVIOUS
    <3> QED
      BY <3>2, <3>3
  <2> HIDE DEF bytes
  <2>4. ItemsOf(bytes, width) = Accept([i \in 1..Of32(body) |-> Item(body, i, width)])
    BY <2>1, <2>2, Verdicts DEF ItemsOf
  <2> QED
    BY <1>3, <2>3, <2>4
<1>6. ASSUME NEW d \in Damaged(bytes)
      PROVE  ItemsOf(d, width) = Corrupt
  <2>1. PICK rest \in Seq(Byte) :
          /\ ReadFormatByte(d) = Accept(rest)
          /\ Len(rest) # Len(body)
          /\ \A i \in 1..Len(rest) : i <= Len(body) => rest[i] = body[i]
    BY <1>2, DamagedFrame
  <2>2. Len(rest) < 4 \/ ~HasExactly(rest, Of32(rest), width)
    <3> SUFFICES ASSUME ~(Len(rest) < 4)
                 PROVE  ~HasExactly(rest, Of32(rest), width)
      OBVIOUS
    <3>1. \A i \in 1..4 : i \in 1..Len(rest) /\ i <= Len(body)
      BY SMT, <1>2, <1>4, <2>1
    <3>2. Of32(rest) = Of32(body)
      BY <2>1, <3>1, SameCount
    <3> QED
      BY <1>2, <1>3, <2>1, <3>2 DEF HasExactly
  <2> QED
    BY <2>1, <2>2, Verdicts DEF ItemsOf
<1>7. ASSUME NEW v \in {0, 2}
      PROVE  ItemsOf([bytes EXCEPT ![1] = v], width) = Newer
  <2> DEFINE other == [bytes EXCEPT ![1] = v]
  <2>1. ReadFormatByte(other) = Newer
    BY <1>2, OtherFormatRefused
  <2> HIDE DEF other
  <2>2. ItemsOf(other, width) = Newer
    BY <2>1, Verdicts DEF ItemsOf
  <2> QED
    BY <2>2 DEF other
<1>8. ItemsOf(<< >>, width) = Corrupt
  BY NothingRefused, Verdicts DEF ItemsOf
<1> QED
  BY <1>5, <1>6, <1>7, <1>8 DEF body

-----------------------------------------------------------------------------
(* The values of each partition.                                           *)

\* A value is read back, and damage and other formats are refused.
Sound(name, bytes, raw) ==
  /\ Read(name, bytes) = Accept(raw)
  /\ name # "labels" => \A d \in Damaged(bytes) : Read(name, d) = Corrupt
  /\ \A v \in {0, 2} : Read(name, [bytes EXCEPT ![1] = v]) = Newer
  /\ Read(name, << >>) = Corrupt

Framed(body) == <<FormatV1>> \o body

\* What a decoder of a fixed body owes: it accepts what BodyOf accepts and passes
\* on what BodyOf refuses.
LEMMA FixedSound ==
  ASSUME NEW name, NEW body \in Seq(Byte), NEW length, Len(body) = length, NEW raw,
         \A b : BodyOf(b, length) = Accept(body) => Read(name, b) = Accept(raw),
         \A b : BodyOf(b, length) \in {Corrupt, Newer} => Read(name, b) = BodyOf(b, length)
  PROVE  Sound(name, Framed(body), raw)
<1> DEFINE bytes == Framed(body)
<1>1. /\ BodyOf(bytes, length) = Accept(body)
      /\ \A d \in Damaged(bytes) : BodyOf(d, length) = Corrupt
      /\ \A v \in {0, 2} : BodyOf([bytes EXCEPT ![1] = v], length) = Newer
      /\ BodyOf(<< >>, length) = Corrupt
  BY BodyReadsBack DEF Framed
<1> HIDE DEF bytes
<1>2. ASSUME NEW v \in {0, 2}
      PROVE  Read(name, [bytes EXCEPT ![1] = v]) = Newer
  <2> DEFINE other == [bytes EXCEPT ![1] = v]
  <2>1. BodyOf(other, length) = Newer
    BY <1>1
  <2> HIDE DEF other
  <2>2. Read(name, other) = Newer
    BY <2>1
  <2> QED
    BY <2>2 DEF other
<1>3. \A d \in Damaged(bytes) : Read(name, d) = Corrupt
  BY <1>1
<1>4. Read(name, bytes) = Accept(raw) /\ Read(name, << >>) = Corrupt
  BY <1>1
<1> QED
  BY <1>2, <1>3, <1>4 DEF Sound, bytes

\* Size and hub count of a cluster.
LEMMA MetaSound ==
  ASSUME NEW raw, raw = [size |-> raw.size, hub_count |-> raw.hub_count],
         IsU32(raw.size), IsU32(raw.hub_count)
  PROVE  Sound("cluster_meta", Write("cluster_meta", raw), raw)
<1> DEFINE size == Le32(raw.size)
           hubs == Le32(raw.hub_count)
           head == <<FormatV1>>
           body == size \o hubs
<1>1. raw.size \in Nat /\ raw.hub_count \in Nat
  BY SMT DEF IsU32
<1>2. size \in Seq(Byte) /\ Len(size) = 4 /\ hubs \in Seq(Byte) /\ Len(hubs) = 4
  BY <1>1, WordIsFour
<1>3. head \in Seq(Byte)
  BY SMT DEF FormatV1, Byte
<1>4. Write("cluster_meta", raw) = (head \o size) \o hubs
  BY DEF Write, EncodeClusterMeta
<1>5. Of32(size) = raw.size /\ Of32(hubs) = raw.hub_count
  BY WordReadsBack
<1> HIDE DEF size, hubs, head
<1>6. (head \o size) \o hubs = head \o (size \o hubs)
  BY <1>2, <1>3, ConcatAssociative
<1>7. body \in Seq(Byte) /\ Len(body) = 8
  <2>1. body \in Seq(Byte) /\ Len(body) = Len(size) + Len(hubs)
    BY <1>2, ConcatProperties
  <2> QED
    BY <1>2, <2>1
<1>8. SubSeq(body, 1, 4) = size /\ SubSeq(body, 5, 8) = hubs
  <2>1. 4 + 1 = 5
    OBVIOUS
  <2>2. SubSeq(body, 1, 4) = size /\ SubSeq(body, 4 + 1, 8) = hubs
    BY <1>2, <1>7, TwoParts
  <2> QED
    BY <2>1, <2>2
<1>9. Write("cluster_meta", raw) = Framed(body)
  BY <1>4, <1>6 DEF Framed, head
<1> HIDE DEF body
<1>10. \A b : Read("cluster_meta", b) = DecodeClusterMeta(b)
  BY DEF Read
<1>11. \A b : BodyOf(b, 8) = Accept(body) => DecodeClusterMeta(b) = Accept(raw)
  BY <1>5, <1>8, Verdicts DEF DecodeClusterMeta
<1>12. \A b : BodyOf(b, 8) \in {Corrupt, Newer} => DecodeClusterMeta(b) = BodyOf(b, 8)
  BY Verdicts DEF DecodeClusterMeta
<1>13. \A b : BodyOf(b, 8) = Accept(body) => Read("cluster_meta", b) = Accept(raw)
  BY <1>10, <1>11
<1>14. \A b : BodyOf(b, 8) \in {Corrupt, Newer} => Read("cluster_meta", b) = BodyOf(b, 8)
  BY <1>10, <1>12
<1>15. Sound("cluster_meta", Framed(body), raw)
  BY <1>7, <1>13, <1>14, FixedSound
<1> QED
  BY <1>9, <1>15

\* Generation and inserts of a cluster.
LEMMA DriftSound ==
  ASSUME NEW raw, raw = [generation |-> raw.generation, delta_inserts |-> raw.delta_inserts],
         IsU64(raw.generation), IsU32(raw.delta_inserts)
  PROVE  Sound("cluster_drift", Write("cluster_drift", raw), raw)
<1> DEFINE generation == Le64(raw.generation)
           inserts == Le32(raw.delta_inserts)
           head == <<FormatV1>>
           body == generation \o inserts
<1>1. raw.generation \in Nat /\ raw.delta_inserts \in Nat
  BY SMT DEF IsU32, IsU64
<1>2. inserts \in Seq(Byte) /\ Len(inserts) = 4
  BY <1>1, WordIsFour
<1>3. generation \in Seq(Byte) /\ Len(generation) = 8
  BY <1>1, LongIsEight
<1>4. head \in Seq(Byte)
  BY SMT DEF FormatV1, Byte
<1>5. Write("cluster_drift", raw) = (head \o generation) \o inserts
  BY DEF Write, EncodeClusterDrift
<1>6. Of64(generation) = raw.generation /\ Of32(inserts) = raw.delta_inserts
  BY WordReadsBack, LongReadsBack
<1> HIDE DEF generation, inserts, head
<1>7. (head \o generation) \o inserts = head \o (generation \o inserts)
  BY SMTT(30), <1>2, <1>3, <1>4, ConcatAssociative
<1>8. body \in Seq(Byte) /\ Len(body) = 12
  <2>1. body \in Seq(Byte) /\ Len(body) = Len(generation) + Len(inserts)
    BY <1>2, <1>3, ConcatProperties
  <2> QED
    BY <1>2, <1>3, <2>1
<1>9. SubSeq(body, 1, 8) = generation /\ SubSeq(body, 9, 12) = inserts
  <2> DEFINE cut == 8
             end == 12
  <2>1. cut + 1 = 9 /\ cut \in Nat /\ end \in Nat
    OBVIOUS
  <2>2. generation \in Seq(Byte) /\ inserts \in Seq(Byte) /\ Len(generation) = cut
    BY <1>2, <1>3
  <2>3. Len(generation \o inserts) = end
    BY <1>8
  <2> HIDE DEF cut, end
  <2>4. SubSeq(body, 1, cut) = generation /\ SubSeq(body, cut + 1, end) = inserts
    BY <2>1, <2>2, <2>3, TwoParts
  <2> QED
    BY <2>1, <2>4 DEF cut, end
<1>10. Write("cluster_drift", raw) = Framed(body)
  BY <1>5, <1>7 DEF Framed, head
<1> HIDE DEF body
<1>11. \A b : Read("cluster_drift", b) = DecodeClusterDrift(b)
  BY DEF Read
<1>12. \A b : BodyOf(b, 12) = Accept(body) => DecodeClusterDrift(b) = Accept(raw)
  BY <1>6, <1>9, Verdicts DEF DecodeClusterDrift
<1>13. \A b : BodyOf(b, 12) \in {Corrupt, Newer} => DecodeClusterDrift(b) = BodyOf(b, 12)
  BY Verdicts DEF DecodeClusterDrift
<1>14. \A b : BodyOf(b, 12) = Accept(body) => Read("cluster_drift", b) = Accept(raw)
  BY <1>11, <1>12
<1>15. \A b : BodyOf(b, 12) \in {Corrupt, Newer} => Read("cluster_drift", b) = BodyOf(b, 12)
  BY <1>11, <1>13
<1>16. Sound("cluster_drift", Framed(body), raw)
  BY <1>8, <1>14, <1>15, FixedSound
<1> QED
  BY <1>10, <1>16

\* A label is behind the version byte as it is.
LEMMA LabelSound ==
  ASSUME NEW raw \in Seq(Byte), IsText(raw)
  PROVE  Sound("labels", Write("labels", raw), raw)
<1>1. Write("labels", raw) = Framed(raw)
  BY DEF Write, EncodeLabel, Framed
<1>2. \A b : Read("labels", b) = DecodeLabel(b)
  BY DEF Read
<1>3. \A b : ReadFormatByte(b) = Accept(raw) => DecodeLabel(b) = Accept(raw)
  BY Verdicts DEF DecodeLabel
<1>4. \A b : ReadFormatByte(b) \in {Corrupt, Newer} => DecodeLabel(b) = ReadFormatByte(b)
  BY Verdicts DEF DecodeLabel
<1>5. ReadFormatByte(Framed(raw)) = Accept(raw)
  BY FrameReadsBack DEF Framed
<1>6. ASSUME NEW v \in {0, 2}
      PROVE  Read("labels", [Framed(raw) EXCEPT ![1] = v]) = Newer
  <2> DEFINE other == [Framed(raw) EXCEPT ![1] = v]
  <2>1. ReadFormatByte(other) = Newer
    BY OtherFormatRefused DEF Framed
  <2> HIDE DEF other
  <2>2. Read("labels", other) = Newer
    BY <1>2, <1>4, <2>1
  <2> QED
    BY <2>2 DEF other
<1>7. Read("labels", Framed(raw)) = Accept(raw)
  BY <1>2, <1>3, <1>5
<1>8. Read("labels", << >>) = Corrupt
  BY <1>2, <1>4, NothingRefused
<1>9. Sound("labels", Framed(raw), raw)
  BY <1>6, <1>7, <1>8 DEF Sound
<1> QED
  BY <1>1, <1>9

\* What a decoder of a list owes: it makes the value of the items and passes on
\* what ItemsOf refuses.
LEMMA ListSound ==
  ASSUME NEW name, NEW width \in Widths, NEW items \in Seq([1..width -> Byte]),
         IsU32(Len(items)), NEW raw,
         \A b : ItemsOf(b, width) = Accept(items) => Read(name, b) = Accept(raw),
         \A b : ItemsOf(b, width) \in {Corrupt, Newer} => Read(name, b) = ItemsOf(b, width)
  PROVE  Sound(name, Counted(items, width), raw)
<1> DEFINE bytes == Framed(ListBody(items, width))
<1>1. /\ ItemsOf(bytes, width) = Accept(items)
      /\ \A d \in Damaged(bytes) : ItemsOf(d, width) = Corrupt
      /\ \A v \in {0, 2} : ItemsOf([bytes EXCEPT ![1] = v], width) = Newer
      /\ ItemsOf(<< >>, width) = Corrupt
  BY ListReadsBack DEF Framed
<1>2. Counted(items, width) = bytes
  BY ListBodyIs DEF Framed
<1> HIDE DEF bytes
<1>3. ASSUME NEW v \in {0, 2}
      PROVE  Read(name, [bytes EXCEPT ![1] = v]) = Newer
  <2> DEFINE other == [bytes EXCEPT ![1] = v]
  <2>1. ItemsOf(other, width) = Newer
    BY <1>1
  <2> HIDE DEF other
  <2>2. Read(name, other) = Newer
    BY <2>1
  <2> QED
    BY <2>2 DEF other
<1>4. \A d \in Damaged(bytes) : Read(name, d) = Corrupt
  BY <1>1
<1>5. Read(name, bytes) = Accept(raw) /\ Read(name, << >>) = Corrupt
  BY <1>1
<1>6. Sound(name, bytes, raw)
  BY <1>3, <1>4, <1>5 DEF Sound
<1> QED
  BY <1>2, <1>6

\* The members of a cluster.
LEMMA MembersSound ==
  ASSUME NEW raw \in Seq([1..16 -> Byte]), IsU32(Len(raw)), AllV7(raw)
  PROVE  Sound("cluster_members", Write("cluster_members", raw), raw)
<1>1. Write("cluster_members", raw) = Counted(raw, 16)
  BY DEF Write, EncodeUuidVec
<1>2. \A b : Read("cluster_members", b) = DecodeUuidVec(b)
  BY DEF Read
<1>3. \A b : ItemsOf(b, 16) = Accept(raw) => DecodeUuidVec(b) = Accept(raw)
  BY Verdicts DEF DecodeUuidVec
<1>4. \A b : ItemsOf(b, 16) \in {Corrupt, Newer} => DecodeUuidVec(b) = ItemsOf(b, 16)
  BY Verdicts DEF DecodeUuidVec
<1>5. 16 \in Widths
  BY DEF Widths
<1>6. \A b : ItemsOf(b, 16) = Accept(raw) => Read("cluster_members", b) = Accept(raw)
  BY <1>2, <1>3
<1>7. \A b : ItemsOf(b, 16) \in {Corrupt, Newer} => Read("cluster_members", b) = ItemsOf(b, 16)
  BY <1>2, <1>4
<1>8. Sound("cluster_members", Counted(raw, 16), raw)
  BY <1>5, <1>6, <1>7, ListSound
<1> QED
  BY <1>1, <1>8

\* Bytes of a known number are a sequence.
LEMMA BytesAreSequence ==
  ASSUME NEW n \in Nat, NEW a \in [1..n -> Byte]
  PROVE  a \in Seq(Byte) /\ Len(a) = n
OBVIOUS

\* Two parts side by side make an item, and are cut out of it again.
IsItem(c, a, b, m, n) ==
  /\ c \in [1..n -> Byte]
  /\ \A i \in 1..m : c[i] = a[i]
  /\ SubSeq(c, 1, m) = a /\ SubSeq(c, m + 1, n) = b

LEMMA ItemOfParts ==
  ASSUME NEW a \in Seq(Byte), NEW b \in Seq(Byte), NEW m, NEW n,
         Len(a) = m, Len(b) = n - m, m \in Nat, n \in Nat
  PROVE  IsItem(a \o b, a, b, m, n)
<1> DEFINE c == Joined(a, b)
<1>1. c = a \o b
  BY DEF Joined
<1>2. c \in Seq(Byte) /\ Joins(c, a, b)
  BY JoinedIs
<1> HIDE DEF c
<1>3. Len(c) = n /\ \A i \in 1..m : c[i] = a[i]
  BY <1>2 DEF Joins
<1>4. c \in [1..n -> Byte]
  BY <1>2, <1>3
<1>5. Len(a \o b) = n
  BY <1>1, <1>3
<1>6. SubSeq(a \o b, 1, m) = a /\ SubSeq(a \o b, m + 1, n) = b
  BY <1>5, TwoParts
<1>7. SubSeq(c, 1, m) = a /\ SubSeq(c, m + 1, n) = b
  BY <1>1, <1>6
<1>8. IsItem(c, a, b, m, n)
  BY <1>3, <1>4, <1>7 DEF IsItem
<1> QED
  BY <1>1, <1>8

\* A uuid and a weight.
LEMMA Item20 ==
  ASSUME NEW a \in Seq(Byte), NEW b \in Seq(Byte), Len(a) = 16, Len(b) = 4
  PROVE  /\ a \o b \in [1..20 -> Byte] /\ (a \o b)[7] = a[7]
         /\ SubSeq(a \o b, 1, 16) = a /\ SubSeq(a \o b, 17, 20) = b
<1> DEFINE m == 16
           n == 20
           c == a \o b
<1>1. m + 1 = 17 /\ m \in Nat /\ n \in Nat /\ n - m = 4 /\ 7 \in 1..m
  OBVIOUS
<1>2. Len(a) = m /\ Len(b) = n - m
  BY <1>1
<1> HIDE DEF m, n
<1>3. IsItem(c, a, b, m, n)
  BY <1>1, <1>2, ItemOfParts
<1> HIDE DEF c
<1>4. c[7] = a[7]
  BY <1>1, <1>3 DEF IsItem
<1>5. SubSeq(c, 1, 16) = a /\ SubSeq(c, 17, 20) = b /\ c \in [1..20 -> Byte]
  BY <1>1, <1>3 DEF m, n, IsItem
<1> QED
  BY <1>4, <1>5 DEF c

\* A cluster id and a weight.
LEMMA Item8 ==
  ASSUME NEW a \in Seq(Byte), NEW b \in Seq(Byte), Len(a) = 4, Len(b) = 4
  PROVE  /\ a \o b \in [1..8 -> Byte]
         /\ SubSeq(a \o b, 1, 4) = a /\ SubSeq(a \o b, 5, 8) = b
<1> DEFINE m == 4
           n == 8
           c == a \o b
<1>1. m + 1 = 5 /\ m \in Nat /\ n \in Nat /\ n - m = 4
  OBVIOUS
<1>2. Len(a) = m /\ Len(b) = n - m
  BY <1>1
<1> HIDE DEF m, n
<1>3. IsItem(c, a, b, m, n)
  BY <1>1, <1>2, ItemOfParts
<1> HIDE DEF c
<1>4. SubSeq(c, 1, 4) = a /\ SubSeq(c, 5, 8) = b /\ c \in [1..8 -> Byte]
  BY <1>1, <1>3 DEF m, n, IsItem
<1> QED
  BY <1>4 DEF c

\* The hubs near a hub: uuid and weight side by side.
LEMMA HubsSound ==
  ASSUME NEW raw \in Seq([1..16 -> Byte] \X [1..4 -> Byte]), IsU32(Len(raw)),
         \A i \in DOMAIN raw : IsV7(raw[i][1])
  PROVE  Sound("hub_neighbors", Write("hub_neighbors", raw), raw)
<1> DEFINE item(i) == raw[i][1] \o raw[i][2]
           items == [i \in DOMAIN raw |-> item(i)]
<1>1. DOMAIN raw = 1..Len(raw) /\ Len(raw) \in Nat
  OBVIOUS
<1>2. ASSUME NEW i \in DOMAIN raw
      PROVE  /\ item(i) \in [1..20 -> Byte] /\ IsV7(item(i))
             /\ <<SubSeq(item(i), 1, 16), SubSeq(item(i), 17, 20)>> = raw[i]
  <2> DEFINE a == raw[i][1]
             b == raw[i][2]
  <2>1. raw[i] \in [1..16 -> Byte] \X [1..4 -> Byte]
    OBVIOUS
  <2>2. a \in [1..16 -> Byte] /\ b \in [1..4 -> Byte] /\ raw[i] = <<a, b>>
    BY <2>1
  <2>3. IsV7(a)
    OBVIOUS
  <2> HIDE DEF a, b
  <2>4. a \in Seq(Byte) /\ Len(a) = 16 /\ b \in Seq(Byte) /\ Len(b) = 4
    BY <2>2, BytesAreSequence
  <2>5. a \o b \in [1..20 -> Byte] /\ (a \o b)[7] = a[7]
    BY <2>4, Item20
  <2>6. SubSeq(a \o b, 1, 16) = a /\ SubSeq(a \o b, 17, 20) = b
    BY <2>4, Item20
  <2>7. IsV7(a \o b)
    BY <2>3, <2>5 DEF IsV7
  <2> QED
    BY <2>2, <2>5, <2>6, <2>7 DEF a, b
<1> HIDE DEF item
<1>3. items \in Seq([1..20 -> Byte]) /\ DOMAIN items = DOMAIN raw /\ Len(items) = Len(raw)
  BY <1>1, <1>2
<1>4. \A i \in DOMAIN raw : items[i] = item(i)
  OBVIOUS
<1>5. Write("hub_neighbors", raw) = Counted(items, 20)
  BY DEF Write, EncodeHubNeighbors, item
<1> HIDE DEF items
<1>6. AllV7(items)
  BY <1>2, <1>3, <1>4 DEF AllV7
<1>7. [i \in DOMAIN items |-> <<SubSeq(items[i], 1, 16), SubSeq(items[i], 17, 20)>>] = raw
  <2>1. raw = [i \in DOMAIN raw |-> raw[i]]
    BY <1>1
  <2>2. \A i \in DOMAIN items : <<SubSeq(items[i], 1, 16), SubSeq(items[i], 17, 20)>> = raw[i]
    BY <1>2, <1>3, <1>4
  <2> QED
    BY <1>3, <2>1, <2>2
<1>8. \A b : ItemsOf(b, 20) = Accept(items) => DecodeHubNeighbors(b) = Accept(raw)
  BY ZenonT(30), <1>6, <1>7, Verdicts DEF DecodeHubNeighbors
<1>9. \A b : ItemsOf(b, 20) \in {Corrupt, Newer} => DecodeHubNeighbors(b) = ItemsOf(b, 20)
  BY Verdicts DEF DecodeHubNeighbors
<1>10. \A b : Read("hub_neighbors", b) = DecodeHubNeighbors(b)
  BY DEF Read
<1>11. \A b : ItemsOf(b, 20) = Accept(items) => Read("hub_neighbors", b) = Accept(raw)
  BY <1>8, <1>10
<1>12. \A b : ItemsOf(b, 20) \in {Corrupt, Newer} => Read("hub_neighbors", b) = ItemsOf(b, 20)
  BY <1>9, <1>10
<1>13. 20 \in Widths
  BY DEF Widths
<1>14. Sound("hub_neighbors", Counted(items, 20), raw)
  BY <1>3, <1>11, <1>12, <1>13, ListSound
<1> QED
  BY <1>5, <1>14

\* The clusters near a cluster: id and weight side by side.
LEMMA NeighborsSound ==
  ASSUME NEW raw \in Seq(Nat \X [1..4 -> Byte]), IsU32(Len(raw)),
         \A i \in DOMAIN raw : IsU32(raw[i][1])
  PROVE  Sound("cluster_neighbors", Write("cluster_neighbors", raw), raw)
<1> DEFINE item(i) == Le32(raw[i][1]) \o raw[i][2]
           items == [i \in DOMAIN raw |-> item(i)]
<1>1. DOMAIN raw = 1..Len(raw) /\ Len(raw) \in Nat
  OBVIOUS
<1>2. ASSUME NEW i \in DOMAIN raw
      PROVE  /\ item(i) \in [1..8 -> Byte]
             /\ <<Of32(SubSeq(item(i), 1, 4)), SubSeq(item(i), 5, 8)>> = raw[i]
  <2> DEFINE n == raw[i][1]
             a == Le32(raw[i][1])
             b == raw[i][2]
  <2>1. raw[i] \in Nat \X [1..4 -> Byte]
    OBVIOUS
  <2>2. n \in Nat /\ b \in [1..4 -> Byte] /\ raw[i] = <<n, b>>
    BY <2>1
  <2>3. IsU32(n)
    OBVIOUS
  <2>4. Of32(a) = n
    BY <2>3, WordReadsBack
  <2>5. a \in Seq(Byte) /\ Len(a) = 4
    BY <2>2, WordIsFour
  <2> HIDE DEF n, a, b
  <2>6. b \in Seq(Byte) /\ Len(b) = 4
    BY <2>2, BytesAreSequence
  <2>7. /\ a \o b \in [1..8 -> Byte]
        /\ SubSeq(a \o b, 1, 4) = a /\ SubSeq(a \o b, 5, 8) = b
    BY <2>5, <2>6, Item8
  <2> QED
    BY <2>2, <2>4, <2>7 DEF a, b
<1> HIDE DEF item
<1>3. items \in Seq([1..8 -> Byte]) /\ DOMAIN items = DOMAIN raw /\ Len(items) = Len(raw)
  BY <1>1, <1>2
<1>4. \A i \in DOMAIN raw : items[i] = item(i)
  OBVIOUS
<1>5. Write("cluster_neighbors", raw) = Counted(items, 8)
  BY DEF Write, EncodeClusterNeighbors, item
<1> HIDE DEF items
<1>6. [i \in DOMAIN items |-> <<Of32(SubSeq(items[i], 1, 4)), SubSeq(items[i], 5, 8)>>] = raw
  <2>1. raw = [i \in DOMAIN raw |-> raw[i]]
    BY <1>1
  <2>2. \A i \in DOMAIN items :
          <<Of32(SubSeq(items[i], 1, 4)), SubSeq(items[i], 5, 8)>> = raw[i]
    BY <1>2, <1>3, <1>4
  <2> QED
    BY <1>3, <2>1, <2>2
<1>7. \A b : ItemsOf(b, 8) = Accept(items) => DecodeClusterNeighbors(b) = Accept(raw)
  BY <1>6, Verdicts DEF DecodeClusterNeighbors
<1>8. \A b : ItemsOf(b, 8) \in {Corrupt, Newer} => DecodeClusterNeighbors(b) = ItemsOf(b, 8)
  BY Verdicts DEF DecodeClusterNeighbors
<1>9. \A b : Read("cluster_neighbors", b) = DecodeClusterNeighbors(b)
  BY DEF Read
<1>10. \A b : ItemsOf(b, 8) = Accept(items) => Read("cluster_neighbors", b) = Accept(raw)
  BY <1>7, <1>9
<1>11. \A b : ItemsOf(b, 8) \in {Corrupt, Newer} => Read("cluster_neighbors", b) = ItemsOf(b, 8)
  BY <1>8, <1>9
<1>12. 8 \in Widths
  BY DEF Widths
<1>13. Sound("cluster_neighbors", Counted(items, 8), raw)
  BY <1>3, <1>10, <1>11, <1>12, ListSound
<1> QED
  BY <1>5, <1>13

\* The values without a version byte.
LEMMA PlainReadsBack ==
  /\ \A n : IsU32(n) => DecodeU32(Le32(n)) = Accept(n)
  /\ \A f \in BOOLEAN : DecodeFlag(EncodeFlag(f)) = f
  /\ \A u \in [1..16 -> Byte] : IsV7(u) => DecodeUuid(u) = Accept(u)
<1>1. ASSUME NEW n, IsU32(n)
      PROVE  DecodeU32(Le32(n)) = Accept(n)
  <2>1. n \in Nat
    BY <1>1 DEF IsU32
  <2>2. Len(Le32(n)) = 4
    BY <2>1, WordIsFour
  <2>3. Of32(Le32(n)) = n
    BY <1>1, WordReadsBack
  <2> QED
    BY <2>2, <2>3 DEF DecodeU32
<1>2. ASSUME NEW f \in BOOLEAN
      PROVE  DecodeFlag(EncodeFlag(f)) = f
  <2>1. CASE f
    <3>1. EncodeFlag(f) = <<1>>
      BY <2>1 DEF EncodeFlag
    <3>2. <<1>> # << >> /\ <<1>>[1] = 1
      OBVIOUS
    <3> QED
      BY <2>1, <3>1, <3>2 DEF DecodeFlag
  <2>2. CASE ~f
    <3>1. EncodeFlag(f) = <<0>>
      BY <2>2 DEF EncodeFlag
    <3>2. <<0>>[1] # 1
      OBVIOUS
    <3> QED
      BY <2>2, <3>1, <3>2 DEF DecodeFlag
  <2> QED
    BY <2>1, <2>2
<1>3. ASSUME NEW u \in [1..16 -> Byte], IsV7(u)
      PROVE  DecodeUuid(u) = Accept(u)
  <2>1. Len(u) = 16
    BY BytesAreSequence
  <2> QED
    BY <1>3, <2>1 DEF DecodeUuid
<1> QED
  BY <1>1, <1>2, <1>3

-----------------------------------------------------------------------------
(* The images.                                                             *)

\* A stored number of the index fits a u32.
LEMMA ClusterIdFits == \A c \in ClusterId : IsU32(c)
<1>1. MaxU32 \in Nat /\ MaxU32 \div 65536 < 65536
  BY MaxU32Assumption, WidthAssumption DEF IsU32
<1>2. ASSUME NEW c \in 0..MaxU32
      PROVE  IsU32(c)
  <2>1. c \in Nat /\ c <= MaxU32
    BY SMT, <1>1
  <2>2. c \div 65536 < 65536
    BY SMT, <1>1, <2>1
  <2> QED
    BY <2>1, <2>2 DEF IsU32
<1> QED
  BY <1>2 DEF ClusterId

\* So does the count of a list that is no longer than that.
LEMMA CountFits ==
  ASSUME NEW S, NEW v \in Seq(S), Len(v) <= MaxU32
  PROVE  IsU32(Len(v))
<1>1. Len(v) \in 0..MaxU32
  BY MaxU32Assumption
<1> QED
  BY <1>1, ClusterIdFits DEF ClusterId

\* A function on 1..n is a sequence.
LEMMA FunctionIsSequence ==
  ASSUME NEW S, NEW n \in Nat, NEW f, DOMAIN f = 1..n, f = [i \in DOMAIN f |-> f[i]],
         \A i \in 1..n : f[i] \in S
  PROVE  f \in Seq(S) /\ Len(f) = n
<1>1. f \in [1..n -> S]
  OBVIOUS
<1> QED
  BY <1>1

\* Hub lists are sound.
LEMMA StoredHubs ==
  ASSUME NEW v \in Seq(Uuid \X Nat), IsU32(Len(v)),
         \A i \in DOMAIN v : WeightBytes(v[i][2]) \in [1..4 -> Byte]
  PROVE  LET raw == Raw("hub_neighbors", v)
         IN  Sound("hub_neighbors", Write("hub_neighbors", raw), raw)
<1> DEFINE raw == [i \in DOMAIN v |-> <<UuidBytes(v[i][1]), WeightBytes(v[i][2])>>]
<1>1. Raw("hub_neighbors", v) = raw
  BY DEF Raw
<1>2. DOMAIN v = 1..Len(v) /\ Len(v) \in Nat
  OBVIOUS
<1>3. ASSUME NEW i \in DOMAIN v
      PROVE  /\ raw[i] \in [1..16 -> Byte] \X [1..4 -> Byte]
             /\ IsV7(raw[i][1])
  <2>1. v[i] \in Uuid \X Nat
    OBVIOUS
  <2>2. v[i][1] \in Uuid
    BY <2>1
  <2>3. WeightBytes(v[i][2]) \in [1..4 -> Byte]
    OBVIOUS
  <2> QED
    BY <2>2, <2>3, UuidBytesAssumption
<1>4. DOMAIN raw = DOMAIN v
  OBVIOUS
<1> HIDE DEF raw
<1>5. raw = [i \in DOMAIN raw |-> raw[i]]
  BY DEF raw
<1> DEFINE S == [1..16 -> Byte] \X [1..4 -> Byte]
           n == Len(v)
<1>6. raw \in Seq(S) /\ Len(raw) = n
  <2>1. n \in Nat /\ DOMAIN raw = 1..n /\ \A i \in 1..n : raw[i] \in S
    BY <1>2, <1>3, <1>4
  <2> HIDE DEF S, n
  <2> QED
    BY <1>5, <2>1, FunctionIsSequence
<1>7. IsU32(Len(raw))
  BY <1>6
<1> QED
  BY <1>1, <1>3, <1>4, <1>6, <1>7, HubsSound

\* Cluster neighbour lists are sound.
LEMMA StoredNeighbors ==
  ASSUME NEW v \in Seq(Nat \X Nat), IsU32(Len(v)), \A i \in DOMAIN v : IsU32(v[i][1]),
         \A i \in DOMAIN v : WeightBytes(v[i][2]) \in [1..4 -> Byte]
  PROVE  LET raw == Raw("cluster_neighbors", v)
         IN  Sound("cluster_neighbors", Write("cluster_neighbors", raw), raw)
<1> DEFINE raw == [i \in DOMAIN v |-> <<v[i][1], WeightBytes(v[i][2])>>]
<1>1. Raw("cluster_neighbors", v) = raw
  BY DEF Raw
<1>2. DOMAIN v = 1..Len(v) /\ Len(v) \in Nat
  OBVIOUS
<1>3. ASSUME NEW i \in DOMAIN v
      PROVE  raw[i] \in Nat \X [1..4 -> Byte] /\ IsU32(raw[i][1])
  <2>1. v[i] \in Nat \X Nat
    OBVIOUS
  <2>2. v[i][1] \in Nat
    BY <2>1
  <2>3. WeightBytes(v[i][2]) \in [1..4 -> Byte]
    OBVIOUS
  <2> QED
    BY <2>2, <2>3
<1>4. DOMAIN raw = DOMAIN v
  OBVIOUS
<1> HIDE DEF raw
<1>5. raw = [i \in DOMAIN raw |-> raw[i]]
  BY DEF raw
<1> DEFINE S == Nat \X [1..4 -> Byte]
           n == Len(v)
<1>6. raw \in Seq(S) /\ Len(raw) = n
  <2>1. n \in Nat /\ DOMAIN raw = 1..n /\ \A i \in 1..n : raw[i] \in S
    BY <1>2, <1>3, <1>4
  <2> HIDE DEF S, n
  <2> QED
    BY <1>5, <2>1, FunctionIsSequence
<1>7. IsU32(Len(raw))
  BY <1>6
<1> QED
  BY <1>1, <1>3, <1>4, <1>6, <1>7, NeighborsSound

\* Member lists are sound.
LEMMA StoredMembers ==
  ASSUME NEW v \in Seq(Uuid), IsU32(Len(v))
  PROVE  LET raw == Raw("cluster_members", v)
         IN  Sound("cluster_members", Write("cluster_members", raw), raw)
<1> DEFINE raw == [i \in DOMAIN v |-> UuidBytes(v[i])]
<1>1. Raw("cluster_members", v) = raw
  BY DEF Raw
<1>2. DOMAIN v = 1..Len(v) /\ Len(v) \in Nat
  OBVIOUS
<1>3. ASSUME NEW i \in DOMAIN v
      PROVE  raw[i] \in [1..16 -> Byte] /\ IsV7(raw[i])
  <2>1. v[i] \in Uuid
    OBVIOUS
  <2> QED
    BY <2>1, UuidBytesAssumption
<1>4. DOMAIN raw = DOMAIN v
  OBVIOUS
<1> HIDE DEF raw
<1>5. raw = [i \in DOMAIN raw |-> raw[i]]
  BY DEF raw
<1>6. raw \in Seq([1..16 -> Byte]) /\ Len(raw) = Len(v)
  BY <1>2, <1>3, <1>4, <1>5, FunctionIsSequence
<1>7. AllV7(raw)
  BY <1>3, <1>4 DEF AllV7
<1> QED
  BY <1>1, <1>6, <1>7, MembersSound

\* The versioned partitions of an image are sound.
LEMMA VersionedSound ==
  ASSUME NEW i, Good(i), Encodable(i), NEW name \in Versioned, NEW k \in DOMAIN i[name]
  PROVE  LET raw == Raw(name, i[name][k])
         IN  Sound(name, Write(name, raw), raw)
<1> USE DEF IsMap
<1>1. IsImage(i)
  BY DEF Good
<1>2. CASE name = "hub_neighbors"
  <2>1. i.hub_neighbors[k] \in Seq(Uuid \X Nat)
    BY <1>1, <1>2 DEF IsImage
  <2>2. \A j \in DOMAIN i.hub_neighbors[k] :
          WeightBytes(i.hub_neighbors[k][j][2]) \in [1..4 -> Byte]
    BY <1>2 DEF Encodable, Range
  <2>3. Len(i.hub_neighbors[k]) <= MaxU32
    BY <1>1, <1>2 DEF IsImage, ListsFit
  <2>4. IsU32(Len(i.hub_neighbors[k]))
    BY <2>1, <2>3, CountFits
  <2> QED
    BY <1>2, <2>1, <2>2, <2>4, StoredHubs
<1>3. CASE name = "cluster_neighbors"
  <2>1. i.cluster_neighbors[k] \in Seq(Nat \X Nat)
    BY <1>1, <1>3 DEF IsImage
  <2>2. \A j \in DOMAIN i.cluster_neighbors[k] :
          WeightBytes(i.cluster_neighbors[k][j][2]) \in [1..4 -> Byte]
    BY <1>3 DEF Encodable, Range
  <2>3. /\ Len(i.cluster_neighbors[k]) <= MaxU32
        /\ \A j \in DOMAIN i.cluster_neighbors[k] : i.cluster_neighbors[k][j][1] \in ClusterId
    BY <1>1, <1>3 DEF IsImage, ListsFit
  <2>4. IsU32(Len(i.cluster_neighbors[k]))
    BY <2>1, <2>3, CountFits
  <2>5. \A j \in DOMAIN i.cluster_neighbors[k] : IsU32(i.cluster_neighbors[k][j][1])
    BY <2>3, ClusterIdFits
  <2> QED
    BY <1>3, <2>1, <2>2, <2>4, <2>5, StoredNeighbors
<1>4. CASE name = "cluster_members"
  <2>1. i.cluster_members[k] \in Seq(Uuid)
    BY <1>1, <1>4 DEF IsImage
  <2>2. k \in DOMAIN i.cluster_meta /\ i.cluster_meta[k].size = Len(i.cluster_members[k])
    BY <1>4 DEF Good, MetaAgrees
  <2>3. i.cluster_meta[k] \in [size : ClusterId, hub_count : ClusterId]
    BY <1>1, <2>2 DEF IsImage
  <2>4. IsU32(Len(i.cluster_members[k]))
    BY <2>2, <2>3, ClusterIdFits
  <2> QED
    BY <1>4, <2>1, <2>4, StoredMembers
<1>5. CASE name = "cluster_meta"
  <2> DEFINE raw == i.cluster_meta[k]
  <2>1. raw \in [size : ClusterId, hub_count : ClusterId]
    BY <1>1, <1>5 DEF IsImage
  <2>2. Raw("cluster_meta", raw) = raw
    BY DEF Raw
  <2> HIDE DEF raw
  <2>3. /\ raw = [size |-> raw.size, hub_count |-> raw.hub_count]
        /\ IsU32(raw.size) /\ IsU32(raw.hub_count)
    BY <2>1, ClusterIdFits
  <2>4. Sound("cluster_meta", Write("cluster_meta", raw), raw)
    BY <2>3, MetaSound
  <2> QED
    BY <1>5, <2>2, <2>4 DEF raw
<1>6. CASE name = "cluster_drift"
  <2> DEFINE raw == i.cluster_drift[k]
  <2>1. raw \in [generation : Nat, delta_inserts : ClusterId]
    BY <1>1, <1>6 DEF IsImage
  <2>2. Raw("cluster_drift", raw) = raw
    BY DEF Raw
  <2>3. IsU64(raw.generation)
    BY <1>6 DEF Encodable
  <2> HIDE DEF raw
  <2>4. /\ raw = [generation |-> raw.generation, delta_inserts |-> raw.delta_inserts]
        /\ IsU32(raw.delta_inserts)
    BY <2>1, ClusterIdFits
  <2>5. Sound("cluster_drift", Write("cluster_drift", raw), raw)
    BY <2>3, <2>4, DriftSound
  <2> QED
    BY <1>6, <2>2, <2>5 DEF raw
<1>7. CASE name = "labels"
  <2>1. i.labels[k] \in Label
    BY <1>1, <1>7 DEF IsImage
  <2>2. Raw("labels", i.labels[k]) = TextBytes(i.labels[k])
    BY DEF Raw
  <2>3. TextBytes(i.labels[k]) \in Seq(Byte) /\ IsText(TextBytes(i.labels[k]))
    BY <2>1, TextBytesAssumption
  <2> QED
    BY <1>7, <2>2, <2>3, LabelSound
<1> QED
  BY <1>2, <1>3, <1>4, <1>5, <1>6, <1>7 DEF Versioned

\* Every value of a good index that the encoders accept is read back as it was
\* written; damage to it is refused, and so is another format, under its own
\* name.
THEOREM ImagesReadBack ==
  ASSUME NEW i, Good(i), Encodable(i)
  PROVE  ReadsBack(i) /\ RefusesDamage(i)
<1> USE DEF IsMap
<1>1. IsImage(i)
  BY DEF Good
<1>2. RefusesDamage(i)
  BY VersionedSound DEF RefusesDamage, Sound
<1>3. ASSUME NEW name \in DOMAIN EmptyImage, NEW k \in DOMAIN i[name]
      PROVE  Read(name, Write(name, Raw(name, i[name][k]))) = Accept(Raw(name, i[name][k]))
  <2> DEFINE v == i[name][k]
  <2>1. CASE name \in Versioned
    BY <2>1, VersionedSound DEF Sound
  <2>2. CASE name = "uuid_to_cluster" \/ name = "uuid_to_region"
    <3>1. v \in ClusterId
      BY <1>1, <2>2 DEF IsImage
    <3> HIDE DEF v
    <3>2. DecodeU32(Le32(v)) = Accept(v)
      BY <3>1, ClusterIdFits, PlainReadsBack
    <3>3. /\ Raw(name, v) = v
          /\ \A x : Write(name, x) = Le32(x)
          /\ \A b : Read(name, b) = DecodeU32(b)
      BY <2>2 DEF Raw, Write, Read
    <3> QED
      BY <3>2, <3>3 DEF v
  <2>3. CASE name = "uuid_is_hub"
    <3>1. v \in BOOLEAN
      BY <1>1, <2>3 DEF IsImage
    <3> HIDE DEF v
    <3>2. DecodeFlag(EncodeFlag(v)) = v
      BY <3>1, PlainReadsBack
    <3>3. /\ Raw(name, v) = v
          /\ \A x : Write(name, x) = EncodeFlag(x)
          /\ \A b : Read(name, b) = Accept(DecodeFlag(b))
      BY <2>3 DEF Raw, Write, Read
    <3> QED
      BY <3>2, <3>3 DEF v
  <2>4. CASE name = "label_to_uuid"
    <3>1. v \in Uuid
      BY <1>1, <2>4 DEF IsImage
    <3> HIDE DEF v
    <3>2. DecodeUuid(UuidBytes(v)) = Accept(UuidBytes(v))
      BY <3>1, UuidBytesAssumption, PlainReadsBack
    <3>3. /\ Raw(name, v) = UuidBytes(v)
          /\ \A x : Write(name, x) = x
          /\ \A b : Read(name, b) = DecodeUuid(b)
      BY <2>4 DEF Raw, Write, Read
    <3> QED
      BY <3>2, <3>3 DEF v
  <2> QED
    BY <2>1, <2>2, <2>3, <2>4 DEF EmptyImage, Versioned
<1>4. \A c \in DOMAIN i.cluster_meta \cup DOMAIN i.cluster_drift : Of32(Le32(c)) = c
  <2>1. DOMAIN i.cluster_meta \subseteq ClusterId /\ DOMAIN i.cluster_drift \subseteq ClusterId
    BY <1>1 DEF IsImage
  <2> QED
    BY <2>1, ClusterIdFits, WordReadsBack
<1>5. ReadsBack(i)
  BY <1>3, <1>4 DEF ReadsBack
<1> QED
  BY <1>2, <1>5

\* So is every value a query meets.
THEOREM QueriesReadWhatWasStored == Spec => []StoreReadsBack
<1> DEFINE Inv == img \in Images
<1>1. Init => Inv
  BY DEF Init
<1>2. Inv /\ [Next]_vars => Inv'
  BY DEF Next, vars, request, Resolve, SameCluster, Begin, Local, FindEntry, Follow, Finish,
         Name
<1>3. Inv => StoreReadsBack
  BY ImagesAssumption, EncodableAssumption, ImagesReadBack DEF StoreReadsBack
<1> QED
  BY <1>1, <1>2, <1>3, PTL DEF Spec
=============================================================================
