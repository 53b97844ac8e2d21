----------------------------- MODULE DataProofs -----------------------------
(***************************************************************************)
(* What the proofs about every component rest on: induction over finite    *)
(* sets and over numbers, the sum of a function over a finite set          *)
(* (SumFunctionOnSet), and ascending lists.                                *)
(*                                                                         *)
(* A property of sets is itself a set here, of the sets that have it: so   *)
(* stated, induction is a fact like any other and needs no operator as a   *)
(* parameter.  It rests on the library's theorem that the strict subsets   *)
(* of a finite set are well founded.                                       *)
(***************************************************************************)
EXTENDS SortedLists, FiniteSetTheorems, SequenceTheorems, TLAPS

\* Of some subsets of a finite set, one has no other below it.
LEMMA SmallestSubset ==
  ASSUME NEW S, IsFiniteSet(S), NEW F \in SUBSET (SUBSET S), F # {}
  PROVE  \E A \in F : \A B \in F : B \subseteq A => B = A
<1>1. FiniteSubsetsOf(S) = SUBSET S
  BY FS_FiniteSubsetsOfFinite
<1>2. IsWellFoundedOn(StrictSubsetOrdering(S), SUBSET S)
  BY <1>1, FS_StrictSubsetOrderingWellFounded
<1>3. PICK A \in F : \A B \in F : ~(<<B, A>> \in StrictSubsetOrdering(S))
  BY <1>2, WFMin
<1> QED
  BY <1>3 DEF StrictSubsetOrdering

\* There are n numbers below n.
LEMMA NumbersBelow ==
  ASSUME NEW n \in Nat
  PROVE  IsFiniteSet(0..(n - 1)) /\ Cardinality(0..(n - 1)) = n
<1> DEFINE m == n - 1
<1>1. m \in Int /\ (0 > m => n = 0) /\ m - 0 + 1 = n
  OBVIOUS
<1> HIDE DEF m
<1>2. IsFiniteSet(0..m) /\ Cardinality(0..m) = IF 0 > m THEN 0 ELSE m - 0 + 1
  BY <1>1, FS_Interval
<1>3. IsFiniteSet(0..m) /\ Cardinality(0..m) = n
  BY <1>1, <1>2
<1> QED
  BY <1>3 DEF m

\* Induction over a finite set: what holds of {} and survives the addition of
\* any member holds of the set and of all its subsets.
LEMMA SetInduction ==
  ASSUME NEW S, IsFiniteSet(S), NEW F, {} \in F,
         \A A \in SUBSET S, x \in S : A \in F /\ x \notin A => A \cup {x} \in F
  PROVE  \A A \in SUBSET S : A \in F
<1> SUFFICES ASSUME NEW C \in SUBSET S, C \notin F
             PROVE  FALSE
  OBVIOUS
<1> DEFINE Bad == {A \in SUBSET S : A \notin F}
<1>1. Bad \in SUBSET (SUBSET S) /\ Bad # {}
  OBVIOUS
<1>2. PICK A \in Bad : \A B \in Bad : B \subseteq A => B = A
  <2> HIDE DEF Bad
  <2> QED
    BY <1>1, SmallestSubset
<1>3. PICK x \in A : TRUE
  BY <1>2
<1>4. A \ {x} \notin Bad
  BY <1>2, <1>3
<1>5. A \ {x} \in F
  BY <1>2, <1>4
<1>6. (A \ {x}) \cup {x} = A /\ A \ {x} \in SUBSET S /\ x \in S /\ x \notin A \ {x}
  BY <1>2, <1>3
<1>7. A \in F
  BY <1>5, <1>6
<1> QED
  BY <1>2, <1>7

\* A set of numbers has a least one.
LEMMA LeastNumber ==
  ASSUME NEW T \in SUBSET Nat, T # {}
  PROVE  \E n \in T : \A m \in T : n <= m
<1>1. PICK k \in T : TRUE
  OBVIOUS
<1> DEFINE S == 0..k
           F == {0..m : m \in {i \in T : i <= k}}
<1>2. F \in SUBSET (SUBSET S) /\ F # {}
  BY <1>1
<1>3. IsFiniteSet(S)
  BY FS_Interval
<1>4. PICK A \in F : \A B \in F : B \subseteq A => B = A
  <2> HIDE DEF F, S
  <2> QED
    BY <1>2, <1>3, SmallestSubset
<1>5. PICK n \in T : n <= k /\ A = 0..n
  BY <1>4
<1>6. \A m \in T : n <= m
  <2> SUFFICES ASSUME NEW m \in T, m < n
               PROVE  FALSE
    OBVIOUS
  <2>1. 0..m \in F /\ 0..m \subseteq 0..n
    BY <1>5
  <2>2. 0..m = 0..n
    BY <1>4, <1>5, <2>1
  <2> QED
    BY <2>2
<1> QED
  BY <1>6

\* Induction over the numbers.
LEMMA NumberInduction ==
  ASSUME NEW F, 0 \in F, \A n \in Nat : n \in F => n + 1 \in F
  PROVE  \A n \in Nat : n \in F
<1> SUFFICES ASSUME NEW k \in Nat, k \notin F
             PROVE  FALSE
  OBVIOUS
<1> DEFINE Bad == {n \in Nat : n \notin F}
<1>1. Bad \in SUBSET Nat /\ Bad # {}
  OBVIOUS
<1>2. PICK n \in Bad : \A m \in Bad : n <= m
  <2> HIDE DEF Bad
  <2> QED
    BY <1>1, LeastNumber
<1>3. n \in Nat /\ n # 0 /\ n - 1 \in Nat
  BY <1>2
<1>4. n - 1 \in F
  BY <1>2, <1>3
<1> QED
  BY <1>2, <1>3, <1>4

\* A recursion over the numbers up to k has a solution, and what it yields stays
\* where its steps do.
Solves(f, base, step, n) == f[0] = base /\ \A d \in 1..n : f[d] = step[<<d, f[d - 1]>>]

LEMMA RecursionExists ==
  ASSUME NEW S, NEW base \in S, NEW step \in [Nat \X S -> S], NEW k \in Nat
  PROVE  \E f \in [0..k -> S] : Solves(f, base, step, k)
<1> DEFINE F == {n \in Nat : \E f \in [0..n -> S] : Solves(f, base, step, n)}
<1>1. 0 \in F
  <2> DEFINE f == [d \in 0..0 |-> base]
  <2>1. f \in [0..0 -> S] /\ f[0] = base
    OBVIOUS
  <2>2. \A d \in 1..0 : FALSE
    OBVIOUS
  <2>3. Solves(f, base, step, 0)
    BY <2>1, <2>2 DEF Solves
  <2> HIDE DEF f
  <2> QED
    BY <2>1, <2>3
<1>2. ASSUME NEW n \in Nat, n \in F
      PROVE  n + 1 \in F
  <2>1. PICK f \in [0..n -> S] : Solves(f, base, step, n)
    BY <1>2
  <2> DEFINE new == step[<<n + 1, f[n]>>]
             w == [d \in 0..(n + 1) |-> IF d = n + 1 THEN new ELSE f[d]]
  <2>2. new \in S
    BY <1>2
  <2>3. \A d \in 0..(n + 1) : d # n + 1 => d \in 0..n
    BY <1>2
  <2>4. w \in [0..(n + 1) -> S]
    BY <2>2, <2>3
  <2>5. \A d \in 0..n : w[d] = f[d]
    BY <1>2
  <2>6. w[n + 1] = new
    BY <1>2
  <2>7. 0 \in 0..n /\ n \in 0..n /\ (n + 1) - 1 = n
    BY <1>2
  <2> HIDE DEF w
  <2>8. w[0] = base
    BY <2>1, <2>5, <2>7 DEF Solves
  <2>9. ASSUME NEW d \in 1..(n + 1)
        PROVE  w[d] = step[<<d, w[d - 1]>>]
    <3>1. CASE d = n + 1
      BY <2>5, <2>6, <2>7, <3>1
    <3>2. CASE d # n + 1
      <4>1. d \in 1..n /\ d \in 0..n /\ d - 1 \in 0..n
        BY <1>2, <3>2
      <4>2. f[d] = step[<<d, f[d - 1]>>]
        BY <2>1, <4>1 DEF Solves
      <4> QED
        BY <2>5, <4>1, <4>2
    <3> QED
      BY <3>1, <3>2
  <2>10. Solves(w, base, step, n + 1)
    BY <2>8, <2>9 DEF Solves
  <2> QED
    BY <1>2, <2>4, <2>10
<1>3. \A n \in Nat : n \in F
  <2> HIDE DEF F
  <2> QED
    BY <1>1, <1>2, NumberInduction
<1> QED
  BY <1>3

-----------------------------------------------------------------------------
(* A sum is the last value of a function on the subsets that takes away    *)
(* one member after the other.                                             *)

Picked(s) == CHOOSE x \in s : TRUE

\* What the function that computes the sums of f has to satisfy.
Step(f, it, s) == IF s = {} THEN 0 ELSE f[Picked(s)] + it[s \ {Picked(s)}]
Sums(f, it, S) == it = [s \in SUBSET S |-> Step(f, it, s)]

LEMMA SumIsIteration ==
  ASSUME NEW f, NEW S
  PROVE  SumFunctionOnSet(f, S) = (CHOOSE it : Sums(f, it, S))[S]
BY DEF SumFunctionOnSet, FoldFunctionOnSet, MapThenFoldSet, Picked, Sums, Step

\* There is such a function.
LEMMA SumsExist ==
  ASSUME NEW f, NEW S, IsFiniteSet(S)
  PROVE  \E it : Sums(f, it, S)
<1> DEFINE Small(n) == {s \in SUBSET S : Cardinality(s) <= n}
           Good == {n \in Nat : \E it : it = [s \in Small(n) |-> Step(f, it, s)]}
<1>1. \A s \in SUBSET S : IsFiniteSet(s) /\ Cardinality(s) \in Nat
  BY FS_Subset, FS_CardinalityType
<1>2. \A s \in SUBSET S : s # {} =>
        /\ Picked(s) \in s /\ s \ {Picked(s)} \in SUBSET S
        /\ Cardinality(s \ {Picked(s)}) = Cardinality(s) - 1
  <2> SUFFICES ASSUME NEW s \in SUBSET S, s # {}
               PROVE  /\ Picked(s) \in s /\ s \ {Picked(s)} \in SUBSET S
                      /\ Cardinality(s \ {Picked(s)}) = Cardinality(s) - 1
    OBVIOUS
  <2>1. Picked(s) \in s
    BY DEF Picked
  <2> QED
    BY <1>1, <2>1, FS_RemoveElement
<1>3. 0 \in Good
  <2> DEFINE it == [s \in Small(0) |-> 0]
  <2>1. \A s \in Small(0) : s = {}
    BY <1>1, FS_EmptySet
  <2>2. it = [s \in Small(0) |-> Step(f, it, s)]
    BY <2>1 DEF Step
  <2> QED
    BY <2>2
<1>4. ASSUME NEW n \in Nat, n \in Good
      PROVE  n + 1 \in Good
  <2>1. PICK it : it = [s \in Small(n) |-> Step(f, it, s)]
    BY <1>4
  <2> DEFINE up == [s \in Small(n + 1) |-> Step(f, it, s)]
  <2>2. \A s \in Small(n) : s \in Small(n + 1) /\ up[s] = it[s]
    <3> SUFFICES ASSUME NEW s \in Small(n)
                 PROVE  s \in Small(n + 1) /\ up[s] = it[s]
      OBVIOUS
    <3>1. s \in Small(n + 1)
      BY <1>1
    <3>2. it[s] = Step(f, it, s)
      BY <2>1
    <3> QED
      BY <3>1, <3>2
  <2>3. \A s \in Small(n + 1) : s # {} => s \ {Picked(s)} \in Small(n)
    BY <1>1, <1>2
  <2>4. \A s \in Small(n + 1) : Step(f, it, s) = Step(f, up, s)
    <3> HIDE DEF up, Small
    <3> QED
      BY <2>2, <2>3 DEF Step
  <2>5. up = [s \in Small(n + 1) |-> Step(f, up, s)]
    BY <2>4
  <2> HIDE DEF up, Small
  <2> QED
    BY <2>5
<1>5. \A n \in Nat : n \in Good
  <2> HIDE DEF Good
  <2> QED
    BY <1>3, <1>4, NumberInduction
<1>6. Cardinality(S) \in Good
  BY <1>1, <1>5
<1>7. Small(Cardinality(S)) = SUBSET S
  BY <1>1, FS_Subset
<1> QED
  BY <1>6, <1>7 DEF Sums

\* It is determined on every set by f on the members of that set.
LEMMA SumsUnique ==
  ASSUME NEW f, NEW S, IsFiniteSet(S), NEW it, Sums(f, it, S),
         NEW g, NEW T \in SUBSET S, NEW jt, Sums(g, jt, T),
         \A x \in T : f[x] = g[x]
  PROVE  it[T] = jt[T]
<1> DEFINE Bad == {s \in SUBSET T : it[s] # jt[s]}
<1>1. IsFiniteSet(T)
  BY FS_Subset
<1> SUFFICES ASSUME it[T] # jt[T]
             PROVE  FALSE
  OBVIOUS
<1>2. Bad \in SUBSET (SUBSET T) /\ Bad # {}
  OBVIOUS
<1>3. PICK s \in Bad : \A B \in Bad : B \subseteq s => B = s
  <2> HIDE DEF Bad
  <2> QED
    BY <1>1, <1>2, SmallestSubset
<1>4. it[s] = Step(f, it, s) /\ jt[s] = Step(g, jt, s)
  BY <1>3 DEF Sums
<1>5. s # {}
  BY <1>3, <1>4 DEF Step
<1>6. Picked(s) \in s
  BY <1>5 DEF Picked
<1>7. s \ {Picked(s)} \notin Bad
  BY <1>3, <1>6
<1>8. it[s \ {Picked(s)}] = jt[s \ {Picked(s)}] /\ f[Picked(s)] = g[Picked(s)]
  BY <1>3, <1>6, <1>7
<1> QED
  BY <1>3, <1>4, <1>5, <1>8 DEF Step
\* The sum of a function over a set depends on its values there only.
LEMMA SumCongruence ==
  ASSUME NEW S, IsFiniteSet(S), NEW f, NEW g, \A x \in S : f[x] = g[x]
  PROVE  SumFunctionOnSet(f, S) = SumFunctionOnSet(g, S)
<1>1. PICK it : Sums(f, it, S) /\ SumFunctionOnSet(f, S) = it[S]
  BY SumsExist, SumIsIteration
<1>2. PICK jt : Sums(g, jt, S) /\ SumFunctionOnSet(g, S) = jt[S]
  BY SumsExist, SumIsIteration
<1> QED
  BY <1>1, <1>2, SumsUnique

\* The sum over nothing, and the sum with the member it takes first apart.
LEMMA SumEmpty ==
  ASSUME NEW f
  PROVE  SumFunctionOnSet(f, {}) = 0
<1>1. IsFiniteSet({})
  BY FS_EmptySet
<1>2. PICK it : Sums(f, it, {}) /\ SumFunctionOnSet(f, {}) = it[{}]
  BY <1>1, SumsExist, SumIsIteration
<1> QED
  BY <1>2 DEF Sums, Step

LEMMA SumPicked ==
  ASSUME NEW S, IsFiniteSet(S), S # {}, NEW f
  PROVE  SumFunctionOnSet(f, S) =
           f[Picked(S)] + SumFunctionOnSet(f, S \ {Picked(S)})
<1> DEFINE R == S \ {Picked(S)}
<1>1. PICK it : Sums(f, it, S) /\ SumFunctionOnSet(f, S) = it[S]
  BY SumsExist, SumIsIteration
<1>2. IsFiniteSet(R)
  BY FS_Subset
<1>3. PICK jt : Sums(f, jt, R) /\ SumFunctionOnSet(f, R) = jt[R]
  BY <1>2, SumsExist, SumIsIteration
<1>4. it[S] = f[Picked(S)] + it[R]
  BY <1>1 DEF Sums, Step
<1>5. [s \in SUBSET R |-> it[s]] = [s \in SUBSET R |-> Step(f, [t \in SUBSET R |-> it[t]], s)]
  <2>1. \A s \in SUBSET R : it[s] = Step(f, it, s)
    BY <1>1 DEF Sums
  <2>2. \A s \in SUBSET R : s \ {Picked(s)} \in SUBSET R
    OBVIOUS
  <2> HIDE DEF R
  <2> QED
    BY <2>1, <2>2 DEF Step
<1>6. Sums(f, [s \in SUBSET R |-> it[s]], R)
  BY <1>5 DEF Sums
<1>7. it[R] = jt[R]
  BY <1>2, <1>3, <1>6, SumsUnique
<1> QED
  BY <1>1, <1>3, <1>4, <1>7

\* A sum of whole numbers is one, of natural numbers a natural number.
LEMMA SumType ==
  ASSUME NEW S, IsFiniteSet(S), NEW f, \A x \in S : f[x] \in Int
  PROVE  /\ SumFunctionOnSet(f, S) \in Int
         /\ (\A x \in S : f[x] \in Nat) => SumFunctionOnSet(f, S) \in Nat
<1> DEFINE Bad(T) == {A \in SUBSET S : SumFunctionOnSet(f, A) \notin T}
<1>1. ASSUME NEW T \in {Int, Nat}, \A x \in S : f[x] \in T, Bad(T) # {}
      PROVE  FALSE
  <2>1. Bad(T) \in SUBSET (SUBSET S)
    OBVIOUS
  <2>2. PICK A \in Bad(T) : \A B \in Bad(T) : B \subseteq A => B = A
    <3> HIDE DEF Bad
    <3> QED
      BY <1>1, <2>1, SmallestSubset
  <2>3. A # {} /\ IsFiniteSet(A)
    <3>1. 0 \in T /\ A \in SUBSET S /\ SumFunctionOnSet(f, A) \notin T
      BY <2>2
    <3> QED
      BY <3>1, SumEmpty, FS_Subset
  <2>4. Picked(A) \in A
    BY <2>3 DEF Picked
  <2>5. A \ {Picked(A)} \notin Bad(T)
    BY <2>2, <2>4
  <2>6. SumFunctionOnSet(f, A \ {Picked(A)}) \in T /\ f[Picked(A)] \in T
    BY <1>1, <2>2, <2>4, <2>5
  <2>7. SumFunctionOnSet(f, A) = f[Picked(A)] + SumFunctionOnSet(f, A \ {Picked(A)})
    BY <2>3, SumPicked
  <2> QED
    BY <1>1, <2>2, <2>6, <2>7
<1> QED
  BY <1>1

\* Any member may be taken apart from the rest.
LEMMA SumRemove ==
  ASSUME NEW S, IsFiniteSet(S), NEW f, \A x \in S : f[x] \in Int, NEW x \in S
  PROVE  SumFunctionOnSet(f, S) = f[x] + SumFunctionOnSet(f, S \ {x})
<1> DEFINE Bad == {A \in SUBSET S :
              \E z \in A : SumFunctionOnSet(f, A) # f[z] + SumFunctionOnSet(f, A \ {z})}
<1> SUFFICES ASSUME Bad # {}
             PROVE  FALSE
  OBVIOUS
<1>1. Bad \in SUBSET (SUBSET S)
  OBVIOUS
<1>2. PICK A \in Bad : \A B \in Bad : B \subseteq A => B = A
  <2> HIDE DEF Bad
  <2> QED
    BY <1>1, SmallestSubset
<1>3. PICK z \in A : SumFunctionOnSet(f, A) # f[z] + SumFunctionOnSet(f, A \ {z})
  BY <1>2
<1> DEFINE y == Picked(A)
<1>4. IsFiniteSet(A) /\ IsFiniteSet(A \ {z}) /\ IsFiniteSet((A \ {y}) \ {z})
  BY <1>2, FS_Subset
<1>5. y \in A
  BY <1>3 DEF Picked
<1>6. SumFunctionOnSet(f, A) = f[y] + SumFunctionOnSet(f, A \ {y})
  BY <1>3, <1>4, SumPicked
<1>7. y # z
  BY <1>3, <1>6
<1>8. A \ {y} \notin Bad /\ A \ {z} \notin Bad
  BY <1>2, <1>3, <1>5
<1>9. /\ SumFunctionOnSet(f, A \ {y}) = f[z] + SumFunctionOnSet(f, (A \ {y}) \ {z})
      /\ SumFunctionOnSet(f, A \ {z}) = f[y] + SumFunctionOnSet(f, (A \ {z}) \ {y})
  BY <1>2, <1>3, <1>5, <1>7, <1>8
<1>10. SumFunctionOnSet(f, (A \ {z}) \ {y}) = SumFunctionOnSet(f, (A \ {y}) \ {z})
  <2>1. (A \ {z}) \ {y} = (A \ {y}) \ {z}
    OBVIOUS
  <2> QED
    BY <2>1
<1>11. f[y] \in Int /\ f[z] \in Int /\ SumFunctionOnSet(f, (A \ {y}) \ {z}) \in Int
  BY <1>2, <1>3, <1>4, <1>5, SumType
<1> DEFINE sum == SumFunctionOnSet(f, (A \ {y}) \ {z})
<1>12. /\ SumFunctionOnSet(f, A) = f[y] + (f[z] + sum)
       /\ SumFunctionOnSet(f, A \ {z}) = f[y] + sum
       /\ f[y] \in Int /\ f[z] \in Int /\ sum \in Int
  BY <1>6, <1>9, <1>10, <1>11
<1> HIDE DEF y, sum, Bad
<1> QED
  BY <1>3, <1>12

LEMMA SumAdd ==
  ASSUME NEW S, IsFiniteSet(S), NEW x, x \notin S,
         NEW f, \A y \in S \cup {x} : f[y] \in Int
  PROVE  SumFunctionOnSet(f, S \cup {x}) = f[x] + SumFunctionOnSet(f, S)
<1>1. IsFiniteSet(S \cup {x}) /\ (S \cup {x}) \ {x} = S
  BY FS_AddElement
<1> QED
  BY <1>1, SumRemove

\* Sums over disjoint sets add up to the sum over both.
LEMMA SumUnion ==
  ASSUME NEW S, IsFiniteSet(S), NEW T, IsFiniteSet(T), S \cap T = {},
         NEW f, \A x \in S \cup T : f[x] \in Int
  PROVE  SumFunctionOnSet(f, S \cup T) = SumFunctionOnSet(f, S) + SumFunctionOnSet(f, T)
<1> DEFINE F == {A \in SUBSET T :
       SumFunctionOnSet(f, S \cup A) = SumFunctionOnSet(f, S) + SumFunctionOnSet(f, A)}
<1>1. {} \in F
  <2>1. S \cup {} = S /\ SumFunctionOnSet(f, S) \in Int
    BY SumType
  <2> QED
    BY <2>1, SumEmpty
<1>2. ASSUME NEW A \in SUBSET T, NEW x \in T, A \in F, x \notin A
      PROVE  A \cup {x} \in F
  <2>1. IsFiniteSet(A) /\ IsFiniteSet(S \cup A)
    BY FS_Subset, FS_Union
  <2>2. x \notin S \cup A /\ S \cup (A \cup {x}) = (S \cup A) \cup {x}
    BY <1>2
  <2>3. SumFunctionOnSet(f, (S \cup A) \cup {x}) = f[x] + SumFunctionOnSet(f, S \cup A)
    BY <2>1, <2>2, SumAdd
  <2>4. SumFunctionOnSet(f, A \cup {x}) = f[x] + SumFunctionOnSet(f, A)
    BY <1>2, <2>1, SumAdd
  <2>5. f[x] \in Int /\ SumFunctionOnSet(f, S) \in Int /\ SumFunctionOnSet(f, A) \in Int
    BY <2>1, SumType
  <2>6. SumFunctionOnSet(f, S \cup A) = SumFunctionOnSet(f, S) + SumFunctionOnSet(f, A)
    BY <1>2
  <2>7. SumFunctionOnSet(f, (S \cup A) \cup {x}) =
          SumFunctionOnSet(f, S) + SumFunctionOnSet(f, A \cup {x})
    BY <2>3, <2>4, <2>5, <2>6
  <2>8. SumFunctionOnSet(f, S \cup (A \cup {x})) =
          SumFunctionOnSet(f, S) + SumFunctionOnSet(f, A \cup {x})
    BY <2>2, <2>7
  <2> QED
    BY <1>2, <2>8
<1>3. T \in F
  <2> HIDE DEF F
  <2> QED
    BY <1>1, <1>2, SetInduction
<1> QED
  BY <1>3

\* Members whose value is 0 do not count.
LEMMA SumZero ==
  ASSUME NEW S, IsFiniteSet(S), NEW f, \A x \in S : f[x] = 0
  PROVE  SumFunctionOnSet(f, S) = 0
<1> DEFINE F == {A \in SUBSET S : SumFunctionOnSet(f, A) = 0}
<1>1. {} \in F
  BY SumEmpty
<1>2. ASSUME NEW A \in SUBSET S, NEW x \in S, A \in F, x \notin A
      PROVE  A \cup {x} \in F
  <2>1. IsFiniteSet(A)
    BY FS_Subset
  <2>2. \A y \in A \cup {x} : f[y] \in Int
    BY <1>2
  <2>3. SumFunctionOnSet(f, A \cup {x}) = f[x] + SumFunctionOnSet(f, A)
    BY <1>2, <2>1, <2>2, SumAdd
  <2> QED
    BY <1>2, <2>3
<1>3. S \in F
  <2> HIDE DEF F
  <2> QED
    BY <1>1, <1>2, SetInduction
<1> QED
  BY <1>3

LEMMA SumOfSupport ==
  ASSUME NEW S, IsFiniteSet(S), NEW f, \A x \in S : f[x] \in Int,
         NEW T \in SUBSET S, \A x \in S \ T : f[x] = 0
  PROVE  SumFunctionOnSet(f, S) = SumFunctionOnSet(f, T)
<1>1. IsFiniteSet(T) /\ IsFiniteSet(S \ T) /\ T \cup (S \ T) = S /\ T \cap (S \ T) = {}
  BY FS_Subset
<1>2. SumFunctionOnSet(f, T \cup (S \ T)) =
        SumFunctionOnSet(f, T) + SumFunctionOnSet(f, S \ T)
  BY <1>1, SumUnion
<1>3. SumFunctionOnSet(f, S \ T) = 0 /\ SumFunctionOnSet(f, T) \in Int
  BY <1>1, SumZero, SumType
<1>4. SumFunctionOnSet(f, S) = SumFunctionOnSet(f, T) + SumFunctionOnSet(f, S \ T)
  BY <1>1, <1>2
<1> QED
  BY <1>3, <1>4
-----------------------------------------------------------------------------
(* Sums by groups, and sums over other names for the same things.          *)

\* A sum over a set is the sum, over groups it falls into, of their sums.
LEMMA SumByGroups ==
  ASSUME NEW S, IsFiniteSet(S), NEW f, \A x \in S : f[x] \in Int,
         NEW C, IsFiniteSet(C), NEW k, \A x \in S : k[x] \in C
  PROVE  SumFunctionOnSet(f, S) =
           SumFunctionOnSet([c \in C |-> SumFunctionOnSet(f, {x \in S : k[x] = c})], C)
<1> DEFINE Group(c) == {x \in S : k[x] = c}
           Groups(D) == {x \in S : k[x] \in D}
           g == [c \in C |-> SumFunctionOnSet(f, Group(c))]
           F == {D \in SUBSET C : SumFunctionOnSet(f, Groups(D)) = SumFunctionOnSet(g, D)}
<1>1. \A D \in SUBSET C : IsFiniteSet(D) /\ IsFiniteSet(Groups(D))
  BY FS_Subset
<1>2. \A c \in C : /\ IsFiniteSet(Group(c)) /\ g[c] = SumFunctionOnSet(f, Group(c))
                   /\ g[c] \in Int
  <2>1. \A c \in C : IsFiniteSet(Group(c)) /\ \A x \in Group(c) : f[x] \in Int
    BY FS_Subset
  <2> HIDE DEF Group
  <2>2. \A c \in C : SumFunctionOnSet(f, Group(c)) \in Int
    BY <2>1, SumType
  <2> QED
    BY <2>1, <2>2
<1>3. {} \in F
  <2>1. Groups({}) = {}
    OBVIOUS
  <2>2. SumFunctionOnSet(f, Groups({})) = 0 /\ SumFunctionOnSet(g, {}) = 0
    BY <2>1, SumEmpty
  <2> QED
    BY <2>2
<1>4. ASSUME NEW D \in SUBSET C, NEW c \in C, D \in F, c \notin D
      PROVE  D \cup {c} \in F
  <2>1. /\ Groups(D \cup {c}) = Groups(D) \cup Group(c) /\ Groups(D) \cap Group(c) = {}
        /\ \A x \in Groups(D) \cup Group(c) : f[x] \in Int
        /\ \A d \in D \cup {c} : d \in C
    BY <1>4
  <2>2. SumFunctionOnSet(f, Groups(D)) = SumFunctionOnSet(g, D)
    BY <1>4
  <2> HIDE DEF Group, Groups, g
  <2>3. SumFunctionOnSet(f, Groups(D) \cup Group(c)) =
          SumFunctionOnSet(f, Groups(D)) + SumFunctionOnSet(f, Group(c))
    BY <1>1, <1>2, <2>1, SumUnion
  <2>4. SumFunctionOnSet(g, D \cup {c}) = g[c] + SumFunctionOnSet(g, D)
    BY <1>1, <1>2, <1>4, <2>1, SumAdd
  <2>5. SumFunctionOnSet(g, D) \in Int
    BY <1>1, <1>2, SumType
  <2>6. SumFunctionOnSet(f, Groups(D) \cup Group(c)) = SumFunctionOnSet(g, D \cup {c})
    BY <1>2, <2>2, <2>3, <2>4, <2>5
  <2>7. SumFunctionOnSet(f, Groups(D \cup {c})) = SumFunctionOnSet(g, D \cup {c})
    BY <2>1, <2>6
  <2> QED
    BY <1>4, <2>7
<1>5. C \in F
  <2> HIDE DEF F
  <2> QED
    BY <1>3, <1>4, SetInduction
<1>6. Groups(C) = S
  OBVIOUS
<1>7. SumFunctionOnSet(f, Groups(C)) = SumFunctionOnSet(g, C)
  BY <1>5
<1> QED
  BY <1>6, <1>7

\* A sum over T is a sum over S when b names each member of T by one of S.
LEMMA SumRenamed ==
  ASSUME NEW S, IsFiniteSet(S), NEW T, NEW b \in [S -> T],
         \A x, y \in S : b[x] = b[y] => x = y, \A t \in T : \E x \in S : b[x] = t,
         NEW f, \A t \in T : f[t] \in Int,
         NEW g, \A x \in S : g[x] = f[b[x]]
  PROVE  SumFunctionOnSet(f, T) = SumFunctionOnSet(g, S)
<1> DEFINE Image(A) == {t \in T : \E x \in A : b[x] = t}
           F == {A \in SUBSET S : /\ IsFiniteSet(Image(A))
                                  /\ SumFunctionOnSet(f, Image(A)) = SumFunctionOnSet(g, A)}
<1>1. {} \in F
  <2>1. Image({}) = {}
    OBVIOUS
  <2>2. IsFiniteSet(Image({})) /\ SumFunctionOnSet(f, Image({})) = 0
    BY <2>1, SumEmpty, FS_EmptySet
  <2>3. SumFunctionOnSet(g, {}) = 0
    BY SumEmpty
  <2> QED
    BY <2>2, <2>3
<1>2. ASSUME NEW A \in SUBSET S, NEW x \in S, A \in F, x \notin A
      PROVE  A \cup {x} \in F
  <2>1. IsFiniteSet(A) /\ \A y \in A \cup {x} : g[y] \in Int
    BY FS_Subset
  <2>2. SumFunctionOnSet(g, A \cup {x}) = g[x] + SumFunctionOnSet(g, A)
    BY <1>2, <2>1, SumAdd
  <2>3. /\ Image(A \cup {x}) = Image(A) \cup {b[x]} /\ b[x] \notin Image(A)
        /\ \A t \in Image(A) \cup {b[x]} : f[t] \in Int
    BY <1>2
  <2>4. IsFiniteSet(Image(A)) /\ SumFunctionOnSet(f, Image(A)) = SumFunctionOnSet(g, A)
    BY <1>2
  <2> HIDE DEF Image
  <2>5. /\ IsFiniteSet(Image(A) \cup {b[x]})
        /\ SumFunctionOnSet(f, Image(A) \cup {b[x]}) =
              f[b[x]] + SumFunctionOnSet(f, Image(A))
    BY <2>3, <2>4, SumAdd, FS_AddElement
  <2>6. /\ IsFiniteSet(Image(A \cup {x}))
        /\ SumFunctionOnSet(f, Image(A \cup {x})) = f[b[x]] + SumFunctionOnSet(f, Image(A))
    BY <2>3, <2>5
  <2>7. SumFunctionOnSet(f, Image(A \cup {x})) = SumFunctionOnSet(g, A \cup {x})
    BY <2>2, <2>4, <2>6
  <2> QED
    BY <1>2, <2>6, <2>7
<1>3. S \in F
  <2> HIDE DEF F
  <2> QED
    BY <1>1, <1>2, SetInduction
<1>4. Image(S) = T
  OBVIOUS
<1>5. SumFunctionOnSet(f, Image(S)) = SumFunctionOnSet(g, S)
  BY <1>3
<1> QED
  BY <1>4, <1>5

\* When only the values at a and b change, the sum changes by what they do.
LEMMA SumChange ==
  ASSUME NEW S, IsFiniteSet(S), NEW f, NEW g, \A x \in S : f[x] \in Int /\ g[x] \in Int,
         NEW a \in S, NEW b \in S, a # b, \A x \in S \ {a, b} : f[x] = g[x]
  PROVE  SumFunctionOnSet(g, S) - SumFunctionOnSet(f, S) = (g[a] - f[a]) + (g[b] - f[b])
<1> DEFINE R == (S \ {a}) \ {b}
<1>1. IsFiniteSet(S \ {a}) /\ IsFiniteSet(R) /\ b \in S \ {a}
  BY FS_Subset
<1>2. /\ SumFunctionOnSet(f, S) = f[a] + SumFunctionOnSet(f, S \ {a})
      /\ SumFunctionOnSet(g, S) = g[a] + SumFunctionOnSet(g, S \ {a})
  BY SumRemove
<1>3. /\ SumFunctionOnSet(f, S \ {a}) = f[b] + SumFunctionOnSet(f, R)
      /\ SumFunctionOnSet(g, S \ {a}) = g[b] + SumFunctionOnSet(g, R)
  BY <1>1, SumRemove
<1>4. SumFunctionOnSet(f, R) = SumFunctionOnSet(g, R)
  BY <1>1, SumCongruence
<1>5. SumFunctionOnSet(f, R) \in Int
  BY <1>1, SumType
<1> DEFINE rest == SumFunctionOnSet(f, R)
<1>6. /\ SumFunctionOnSet(f, S) = f[a] + (f[b] + rest)
      /\ SumFunctionOnSet(g, S) = g[a] + (g[b] + rest)
      /\ f[a] \in Int /\ f[b] \in Int /\ g[a] \in Int /\ g[b] \in Int /\ rest \in Int
  BY <1>2, <1>3, <1>4, <1>5
<1> HIDE DEF rest
<1> QED
  BY <1>6

\* The sum of pairwise sums.
LEMMA SumPlus ==
  ASSUME NEW S, IsFiniteSet(S), NEW f, NEW g, NEW h,
         \A x \in S : f[x] \in Int /\ g[x] \in Int /\ h[x] = f[x] + g[x]
  PROVE  SumFunctionOnSet(h, S) = SumFunctionOnSet(f, S) + SumFunctionOnSet(g, S)
<1> DEFINE F == {A \in SUBSET S :
       SumFunctionOnSet(h, A) = SumFunctionOnSet(f, A) + SumFunctionOnSet(g, A)}
<1>1. {} \in F
  BY SumEmpty
<1>2. ASSUME NEW A \in SUBSET S, NEW x \in S, A \in F, x \notin A
      PROVE  A \cup {x} \in F
  <2>1. IsFiniteSet(A)
    BY FS_Subset
  <2>2. \A y \in A \cup {x} : f[y] \in Int /\ g[y] \in Int /\ h[y] \in Int
    OBVIOUS
  <2>3. /\ SumFunctionOnSet(f, A \cup {x}) = f[x] + SumFunctionOnSet(f, A)
        /\ SumFunctionOnSet(g, A \cup {x}) = g[x] + SumFunctionOnSet(g, A)
        /\ SumFunctionOnSet(h, A \cup {x}) = h[x] + SumFunctionOnSet(h, A)
    BY <1>2, <2>1, <2>2, SumAdd
  <2>4. SumFunctionOnSet(f, A) \in Int /\ SumFunctionOnSet(g, A) \in Int
    BY <2>1, <2>2, SumType
  <2>5. SumFunctionOnSet(h, A) = SumFunctionOnSet(f, A) + SumFunctionOnSet(g, A)
    BY <1>2
  <2>6. SumFunctionOnSet(h, A \cup {x}) =
          SumFunctionOnSet(f, A \cup {x}) + SumFunctionOnSet(g, A \cup {x})
    BY <2>2, <2>3, <2>4, <2>5
  <2> QED
    BY <1>2, <2>6
<1>3. S \in F
  <2> HIDE DEF F
  <2> QED
    BY <1>1, <1>2, SetInduction
<1> QED
  BY <1>3

-----------------------------------------------------------------------------
(* Ascending lists.                                                        *)

\* Every place lies between 1 and the size of the set.
LEMMA PlaceType ==
  ASSUME NEW S, IsFiniteSet(S), S \subseteq Int, NEW x \in S
  PROVE  Place(S, x) \in 1..Cardinality(S)
<1> DEFINE B == {y \in S : y <= x}
<1>1. IsFiniteSet(B) /\ Cardinality(B) <= Cardinality(S)
  BY FS_Subset
<1>2. Cardinality(B) \in Nat /\ Cardinality(S) \in Nat
  BY <1>1, FS_CardinalityType
<1>3. x \in B
  OBVIOUS
<1>4. Cardinality(B) # 0
  BY <1>1, <1>3, FS_EmptySet
<1> QED
  BY <1>1, <1>2, <1>4 DEF Place

\* A larger member has a larger place.
LEMMA PlaceMonotone ==
  ASSUME NEW S, IsFiniteSet(S), S \subseteq Int, NEW x \in S, NEW y \in S, x < y
  PROVE  Place(S, x) < Place(S, y)
<1> DEFINE B(z) == {w \in S : w <= z}
<1>1. IsFiniteSet(B(y)) /\ Cardinality(B(y)) \in Nat
  BY FS_Subset, FS_CardinalityType
<1>2. B(x) \in SUBSET B(y) /\ y \in B(y) /\ y \notin B(x)
  <2>1. x \in Int /\ y \in Int /\ \A w \in S : w \in Int
    OBVIOUS
  <2>2. \A w \in S : w <= x => w <= y
    BY <2>1
  <2>3. y <= y /\ ~(y <= x)
    BY <2>1
  <2> QED
    BY <2>2, <2>3
<1>3. /\ Cardinality(B(x)) <= Cardinality(B(y))
      /\ Cardinality(B(x)) # Cardinality(B(y))
  BY <1>1, <1>2, FS_Subset
<1>4. Cardinality(B(x)) \in Nat
  BY <1>1, <1>2, FS_Subset, FS_CardinalityType
<1> QED
  BY <1>1, <1>3, <1>4 DEF Place

\* Every place up to the size of the set is taken: the places are a one-to-one
\* map from S into an interval of the same size, hence onto it.
LEMMA PlaceOnto ==
  ASSUME NEW S, IsFiniteSet(S), S \subseteq Int, NEW i \in 1..Cardinality(S)
  PROVE  \E x \in S : Place(S, x) = i
<1> DEFINE n == Cardinality(S)
           f == [x \in S |-> Place(S, x)]
<1>1. n \in Nat
  BY FS_CardinalityType
<1>2. f \in [S -> 1..n]
  BY PlaceType
<1>3. \A x, y \in S : f[x] = f[y] => x = y
  <2> SUFFICES ASSUME NEW x \in S, NEW y \in S, x # y
               PROVE  f[x] # f[y]
    OBVIOUS
  <2>1. x \in Int /\ y \in Int /\ f[x] \in Int /\ f[y] \in Int
    BY <1>2
  <2>2. CASE x < y
    <3>1. Place(S, x) < Place(S, y)
      BY <2>2, PlaceMonotone
    <3> QED
      BY <2>1, <3>1
  <2>3. CASE y < x
    <3>1. Place(S, y) < Place(S, x)
      BY <2>3, PlaceMonotone
    <3> QED
      BY <2>1, <3>1
  <2> QED
    BY <2>1, <2>2, <2>3
<1>4. f \in Injection(S, 1..n)
  BY <1>2, <1>3 DEF Injection, IsInjective
<1>5. IsFiniteSet(1..n) /\ Cardinality(1..n) = n
  BY <1>1, FS_Interval
<1>6. f \in Surjection(S, 1..n)
  BY <1>4, <1>5, FS_Injection
<1> QED
  BY <1>6 DEF Surjection

\* Ascending(S) is a strictly ascending list of exactly the members of S.
LEMMA AscendingSorts ==
  ASSUME NEW S, IsFiniteSet(S), S \subseteq Int
  PROVE  /\ Ascending(S) \in Seq(S)
         /\ Len(Ascending(S)) = Cardinality(S)
         /\ Range(Ascending(S)) = S
         /\ IsAscending(Ascending(S))
<1> DEFINE n == Cardinality(S)
           s == Ascending(S)
<1> HIDE DEF n, s
<1>1. n \in Nat
  BY FS_CardinalityType DEF n
<1>2. \A i \in 1..n : s[i] \in S /\ Place(S, s[i]) = i
  BY PlaceOnto DEF Ascending, s, n
<1>3. s \in [1..n -> S]
  BY <1>2 DEF Ascending, s, n
<1>4. s \in Seq(S) /\ Len(s) = n
  BY <1>1, <1>3, SeqDef, LenProperties
<1>5. \A a \in S : Place(S, a) \in 1..n
  BY PlaceType DEF n
<1>6. \A a, b \in S : Place(S, a) = Place(S, b) => a = b
  <2>1. \A a, b \in S : a < b => Place(S, a) < Place(S, b)
    BY PlaceMonotone
  <2>2. \A a \in S : a \in Int
    OBVIOUS
  <2>3. \A a \in S : Place(S, a) \in Int
    BY <1>5
  <2> QED
    BY <2>1, <2>2, <2>3
<1>7. Range(s) = S
  <2>1. ASSUME NEW x \in S
        PROVE  \E i \in 1..n : s[i] = x
    <3>1. PICK i \in 1..n : Place(S, x) = i
      BY <1>5
    <3>2. s[i] \in S /\ Place(S, s[i]) = i
      BY <1>2
    <3>3. s[i] = x
      BY <1>6, <3>1, <3>2
    <3> QED
      BY <3>3
  <2> QED
    BY <2>1, <1>3 DEF Range
<1>8. IsAscending(s)
  <2> SUFFICES ASSUME NEW i \in 1..n, NEW j \in 1..n, i < j
               PROVE  s[i] < s[j]
    BY <1>3 DEF IsAscending
  <2>1. s[i] \in S /\ s[j] \in S
    BY <1>2
  <2>2. Place(S, s[i]) = i /\ Place(S, s[j]) = j
    BY <1>2
  <2>3. s[i] \in Int /\ s[j] \in Int
    BY <2>1
  <2>4. ~(s[j] < s[i])
    <3>1. s[j] < s[i] => Place(S, s[j]) < Place(S, s[i])
      BY <2>1, PlaceMonotone
    <3> QED
      BY <2>2, <3>1
  <2>5. s[i] # s[j]
    BY <2>2
  <2> QED
    BY <2>3, <2>4, <2>5
<1> QED
  BY <1>4, <1>7, <1>8 DEF s, n

\* A finite non-empty set of integers has a greatest member.
LEMMA GreatestExists ==
  ASSUME NEW S, IsFiniteSet(S), S \subseteq Int, S # {}
  PROVE  \E m \in S : \A x \in S : x <= m
<1> DEFINE n == Cardinality(S)
<1>1. n \in Nat /\ n # 0
  BY FS_CardinalityType, FS_EmptySet
<1>2. n \in 1..n
  BY <1>1
<1>3. PICK m \in S : Place(S, m) = n
  BY <1>2, PlaceOnto
<1>4. {y \in S : y <= m} = S
  BY <1>3, FS_Subset DEF Place
<1> QED
  BY <1>4

\* The members below an absent element are the first ones of a sorted list.
LEMMA SearchSplits ==
  ASSUME NEW s \in Seq(Int), IsAscending(s), NEW x \in Int, x \notin Range(s),
         NEW pos \in SearchMisses(s, x)
  PROVE  /\ pos \in 1..(Len(s) + 1)
         /\ \A i \in 1..Len(s) : IF i < pos THEN s[i] < x ELSE x < s[i]
<1> DEFINE n == Len(s)
           D == {i \in DOMAIN s : s[i] < x}
           k == Cardinality(D)
<1> HIDE DEF n, D, k
<1>1. n \in Nat /\ DOMAIN s = 1..n /\ s \in [1..n -> Int]
  BY LenProperties DEF n
<1>2. IsFiniteSet(D) /\ k \in Nat /\ k <= n
  <2>1. IsFiniteSet(1..n) /\ Cardinality(1..n) = n
    BY <1>1, FS_Interval
  <2>2. IsFiniteSet(D) /\ k <= n
    BY <1>1, <2>1, FS_Subset DEF D, k
  <2> QED
    BY <2>2, FS_CardinalityType DEF k
<1>3. pos = 1 + k
  BY DEF SearchMisses, D, k
<1>4. \A i : i \in D <=> i \in 1..n /\ s[i] < x
  BY <1>1 DEF D
<1>5. ASSUME NEW i \in D
      PROVE  i <= k
  <2>1. 1..i \in SUBSET D
    <3> SUFFICES ASSUME NEW j \in 1..i
                 PROVE  j \in D
      OBVIOUS
    <3>1. i \in 1..n /\ s[i] < x
      BY <1>4
    <3>2. j \in 1..n /\ j <= i
      BY <1>1, <3>1
    <3>3. j = i \/ s[j] < s[i]
      BY <1>1, <3>1, <3>2 DEF IsAscending
    <3>4. s[j] \in Int /\ s[i] \in Int
      BY <1>1, <3>1, <3>2
    <3>5. s[j] < x
      BY <3>1, <3>3, <3>4
    <3> QED
      BY <1>4, <3>2, <3>5
  <2>2. i \in Nat /\ Cardinality(1..i) = i
    <3>1. i \in Nat /\ i # 0
      BY <1>1, <1>4
    <3> QED
      BY <3>1, FS_Interval
  <2>3. Cardinality(1..i) <= k
    BY <1>2, <2>1, FS_Subset DEF k
  <2> QED
    BY <2>2, <2>3
<1>6. ASSUME NEW i \in 1..n, i \notin D
      PROVE  k < i
  <2>1. D \in SUBSET (1..(i - 1))
    <3> SUFFICES ASSUME NEW j \in D
                 PROVE  j \in 1..(i - 1)
      OBVIOUS
    <3>1. j \in 1..n /\ s[j] < x /\ ~(s[i] < x)
      BY <1>4, <1>6
    <3>2. i < j => s[i] < s[j]
      BY <1>1, <3>1 DEF IsAscending
    <3>3. s[j] \in Int /\ s[i] \in Int
      BY <1>1, <3>1
    <3>4. ~(i < j) /\ i # j
      BY <3>1, <3>2, <3>3
    <3> QED
      BY <1>1, <3>1, <3>4
  <2>2. IsFiniteSet(1..(i - 1)) /\ Cardinality(1..(i - 1)) = i - 1
    BY FS_Interval
  <2>3. k <= i - 1
    BY <2>1, <2>2, FS_Subset DEF k
  <2> QED
    BY <1>2, <2>3
<1>7. ASSUME NEW i \in 1..n
      PROVE  IF i < pos THEN s[i] < x ELSE x < s[i]
  <2>1. s[i] \in Int /\ s[i] # x
    BY <1>1 DEF Range
  <2>2. i \in D <=> s[i] < x
    BY <1>4
  <2>3. i < pos <=> i \in D
    BY <1>1, <1>2, <1>3, <1>5, <1>6
  <2> QED
    BY <2>1, <2>2, <2>3
<1> QED
  BY <1>1, <1>2, <1>3, <1>7 DEF n

\* Vec::insert at the position of a failed binary_search adds the element and
\* keeps the list sorted.
LEMMA InsertKeepsOrder ==
  ASSUME NEW T, T \subseteq Int, NEW s \in Seq(T), IsAscending(s),
         NEW x \in T, x \notin Range(s), NEW pos \in SearchMisses(s, x)
  PROVE  /\ InsertAtPos(s, pos, x) \in Seq(T)
         /\ Len(InsertAtPos(s, pos, x)) = Len(s) + 1
         /\ Range(InsertAtPos(s, pos, x)) = Range(s) \cup {x}
         /\ IsAscending(InsertAtPos(s, pos, x))
<1> DEFINE n == Len(s)
           t == InsertAtPos(s, pos, x)
<1>1. n \in Nat /\ DOMAIN s = 1..n /\ s \in [1..n -> T]
  BY LenProperties
<1>2. s \in Seq(Int)
  BY SeqMonotonic
<1>3. /\ pos \in 1..(n + 1)
      /\ \A i \in 1..n : IF i < pos THEN s[i] < x ELSE x < s[i]
  BY <1>2, SearchSplits
<1>4. t \in [1..(n + 1) -> T]
  BY <1>1, <1>3 DEF InsertAtPos
<1>5. \A i \in 1..(n + 1) :
        t[i] = IF i < pos THEN s[i] ELSE IF i = pos THEN x ELSE s[i - 1]
  BY DEF InsertAtPos
<1>6. t \in Seq(T) /\ Len(t) = n + 1
  BY <1>1, <1>4, SeqDef, LenProperties
<1>7. Range(t) = Range(s) \cup {x}
  <2>1. ASSUME NEW i \in 1..(n + 1)
        PROVE  t[i] \in Range(s) \cup {x}
    <3>1. \A j \in 1..n : s[j] \in Range(s)
      BY <1>1 DEF Range
    <3>2. i < pos => i \in 1..n
      BY <1>1, <1>3
    <3>3. pos < i => i - 1 \in 1..n
      BY <1>1, <1>3
    <3> QED
      BY <1>3, <1>5, <3>1, <3>2, <3>3
  <2>2. ASSUME NEW j \in 1..n
        PROVE  \E i \in 1..(n + 1) : t[i] = s[j]
    <3>1. CASE j < pos
      BY <1>1, <1>5, <3>1
    <3>2. CASE ~(j < pos)
      <4>1. j + 1 \in 1..(n + 1) /\ pos < j + 1 /\ (j + 1) - 1 = j
        BY <1>1, <1>3, <3>2
      <4>2. t[j + 1] = s[j]
        BY <1>3, <1>5, <4>1
      <4> QED
        BY <4>1, <4>2
    <3> QED
      BY <3>1, <3>2
  <2>3. t[pos] = x
    BY <1>3, <1>5
  <2> QED
    BY ZenonT(30), <1>1, <1>3, <1>4, <2>1, <2>2, <2>3 DEF Range
<1>8. IsAscending(t)
  <2> SUFFICES ASSUME NEW i \in 1..(n + 1), NEW j \in 1..(n + 1), i < j
               PROVE  t[i] < t[j]
    BY <1>4 DEF IsAscending
  <2>1. \A a, b \in 1..n : a < b => s[a] < s[b]
    BY <1>1 DEF IsAscending
  <2>2. x \in Int /\ \A a \in 1..n : s[a] \in Int
    BY <1>1
  <2>3. CASE j < pos
    BY <1>1, <1>3, <1>5, <2>1, <2>3
  <2>4. CASE j = pos
    BY <1>1, <1>3, <1>5, <2>2, <2>4
  <2>5. CASE pos < j
    <3>1. j - 1 \in 1..n /\ t[j] = s[j - 1]
      BY <1>1, <1>3, <1>5, <2>5
    <3>2. CASE i < pos
      BY <1>1, <1>3, <1>5, <2>1, <2>5, <3>1, <3>2
    <3>3. CASE i = pos
      BY <1>1, <1>3, <1>5, <2>2, <2>5, <3>1, <3>3
    <3>4. CASE pos < i
      <4>1. i - 1 \in 1..n /\ t[i] = s[i - 1] /\ i - 1 < j - 1
        BY <1>1, <1>3, <1>5, <3>4
      <4> QED
        BY <2>1, <3>1, <4>1
    <3> QED
      BY <1>3, <3>2, <3>3, <3>4
  <2> QED
    BY <1>3, <2>3, <2>4, <2>5
<1> QED
  BY <1>6, <1>7, <1>8

\* Choosing some of the places of a list gives a list of just their items, each
\* as often as it is at one of the places.
LEMMA ChosenIs ==
  ASSUME NEW T, NEW list \in Seq(T), NEW P \in SUBSET DOMAIN list
  PROVE  /\ Chosen(list, P) \in Seq(T)
         /\ Range(Chosen(list, P)) = {list[i] : i \in P}
         /\ IsInjective(list) => IsInjective(Chosen(list, P))
<1> DEFINE n == Cardinality(P)
           places == Ascending(P)
           c == Chosen(list, P)
<1> HIDE DEF n, places, c
<1>1. Len(list) \in Nat /\ DOMAIN list = 1..Len(list) /\ list \in [1..Len(list) -> T]
  BY LenProperties
<1>2. IsFiniteSet(P) /\ P \subseteq Int /\ n \in Nat
  <2>1. IsFiniteSet(1..Len(list)) /\ P \in SUBSET (1..Len(list))
    BY <1>1, FS_Interval
  <2>2. IsFiniteSet(P)
    BY <2>1, FS_Subset
  <2> QED
    BY <2>1, <2>2, FS_CardinalityType DEF n
<1>3. /\ places \in Seq(P) /\ Len(places) = n
      /\ Range(places) = P /\ IsAscending(places)
  BY <1>2, AscendingSorts DEF places, n
<1>4. places \in [1..n -> P] /\ DOMAIN places = 1..n
  BY <1>3, LenProperties
<1>5. c = [i \in 1..n |-> list[places[i]]]
  BY DEF Chosen, c, n, places
<1>6. c \in [1..n -> T]
  BY <1>1, <1>4, <1>5
<1>7. c \in Seq(T)
  BY <1>2, <1>6, SeqDef
<1>8. Range(c) = {list[i] : i \in P}
  <2>1. Range(c) = {list[places[i]] : i \in 1..n}
    BY <1>5 DEF Range
  <2>2. P = {places[i] : i \in 1..n}
    BY <1>3, <1>4 DEF Range
  <2> QED
    BY <2>1, <2>2
<1>9. IsInjective(list) => IsInjective(c)
  <2> SUFFICES ASSUME IsInjective(list), NEW i \in 1..n, NEW j \in 1..n, i # j
               PROVE  c[i] # c[j]
    BY <1>5 DEF IsInjective
  <2>1. places[i] \in P /\ places[j] \in P
    BY <1>4
  <2>2. places[i] \in Int /\ places[j] \in Int
    BY <1>2, <2>1
  <2>3. i < j \/ j < i
    BY <1>2
  <2>4. places[i] < places[j] \/ places[j] < places[i]
    BY <1>3, <1>4, <2>3 DEF IsAscending
  <2>5. places[i] # places[j]
    BY <2>2, <2>4
  <2> QED
    BY <1>5, <2>1, <2>5 DEF IsInjective
<1> QED
  BY <1>7, <1>8, <1>9 DEF c

\* An ascending list is as long as it has members.
LEMMA AscendingLength ==
  ASSUME NEW T, T \subseteq Int, NEW s \in Seq(T), IsAscending(s)
  PROVE  IsFiniteSet(Range(s)) /\ Cardinality(Range(s)) = Len(s)
<1>1. Len(s) \in Nat /\ DOMAIN s = 1..Len(s) /\ s \in [1..Len(s) -> T]
  BY LenProperties
<1>2. \A i, j \in 1..Len(s) : s[i] = s[j] => i = j
  <2> SUFFICES ASSUME NEW i \in 1..Len(s), NEW j \in 1..Len(s), s[i] = s[j], i # j
               PROVE  FALSE
    OBVIOUS
  <2>1. i < j \/ j < i
    OBVIOUS
  <2>2. s[i] \in Int /\ s[j] \in Int
    BY <1>1
  <2>3. s[i] < s[j] \/ s[j] < s[i]
    BY <1>1, <2>1 DEF IsAscending
  <2> QED
    BY <2>2, <2>3
<1>3. s \in Bijection(1..Len(s), Range(s))
  BY <1>1, <1>2 DEF Bijection, Injection, Surjection, IsInjective, Range
<1>4. IsFiniteSet(1..Len(s)) /\ Cardinality(1..Len(s)) = Len(s)
  BY <1>1, FS_Interval
<1> QED
  BY <1>3, <1>4, FS_Bijection DEF ExistsBijection

\* Places of different items give a list without repeats.
LEMMA ChosenDistinct ==
  ASSUME NEW T, NEW list \in Seq(T), NEW P \in SUBSET DOMAIN list,
         \A i, j \in P : list[i] = list[j] => i = j
  PROVE  IsInjective(Chosen(list, P))
<1> DEFINE n == Cardinality(P)
           places == Ascending(P)
<1>1. DOMAIN list = 1..Len(list) /\ Len(list) \in Nat
  BY LenProperties
<1>2. IsFiniteSet(P) /\ P \subseteq Int
  <2>1. IsFiniteSet(1..Len(list)) /\ P \in SUBSET (1..Len(list))
    BY <1>1, FS_Interval
  <2> QED
    BY <2>1, FS_Subset
<1>3. places \in Seq(P) /\ Len(places) = n /\ IsAscending(places)
  BY <1>2, AscendingSorts
<1>4. n \in Nat /\ places \in [1..n -> P] /\ DOMAIN places = 1..n
  BY <1>3, LenProperties
<1>5. Chosen(list, P) = [i \in 1..n |-> list[places[i]]]
  BY DEF Chosen
<1> HIDE DEF n, places
<1>6. ASSUME NEW i \in 1..n, NEW j \in 1..n, i # j
      PROVE  list[places[i]] # list[places[j]]
  <2>1. i < j \/ j < i
    BY <1>4, <1>6
  <2>2. places[i] \in P /\ places[j] \in P
    BY <1>4
  <2>3. places[i] < places[j] \/ places[j] < places[i]
    BY <1>3, <1>4, <2>1 DEF IsAscending
  <2>4. places[i] # places[j]
    BY <1>2, <2>2, <2>3
  <2> QED
    BY <2>2, <2>4
<1> QED
  BY <1>5, <1>6 DEF IsInjective
=============================================================================
