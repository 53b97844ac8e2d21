----------------------------- MODULE DumpProofs -----------------------------
(***************************************************************************)
(* Proofs about the reading of SQL dumps, for every schema a writer may    *)
(* spell out: any databases, tables, foreign keys and routines.            *)
(***************************************************************************)
EXTENDS DumpReading, DataProofs

-----------------------------------------------------------------------------
(* Lists.                                                                  *)

\* The listing of a finite set lists each member once.
LEMMA ListingIs ==
  ASSUME NEW S, IsFiniteSet(S)
  PROVE  /\ Cardinality(S) \in Nat
         /\ SetToSeq(S) \in [1..Cardinality(S) -> S] /\ SetToSeq(S) \in Seq(S)
         /\ Len(SetToSeq(S)) = Cardinality(S)
         /\ IsInjective(SetToSeq(S)) /\ Range(SetToSeq(S)) = S
<1> DEFINE n == Cardinality(S)
           f == SetToSeq(S)
<1>1. n \in Nat /\ ExistsBijection(1..n, S)
  BY FS_CardinalityType
<1>2. \E h \in [1..n -> S] : IsInjective(h)
  BY <1>1 DEF ExistsBijection, Bijection, Injection
<1>3. f \in [1..n -> S] /\ IsInjective(f)
  BY <1>2 DEF SetToSeq
<1>4. IsFiniteSet(1..n) /\ Cardinality(1..n) = n
  BY <1>1, FS_Interval
<1> HIDE DEF f
<1>5. f \in Injection(1..n, S)
  BY <1>3 DEF Injection
<1>6. f \in Surjection(1..n, S)
  BY <1>4, <1>5, FS_Injection
<1>7. Range(f) = S
  BY <1>3, <1>6 DEF Surjection, Range
<1>8. f \in Seq(S)
  BY <1>1, <1>3, SeqDef
<1>9. Len(f) = n
  BY <1>1, <1>3, <1>8, LenProperties
<1> QED
  BY <1>1, <1>3, <1>7, <1>8, <1>9 DEF f

\* A list has finitely many places.
LEMMA PlacesFinite ==
  ASSUME NEW T, NEW list \in Seq(T)
  PROVE  DOMAIN list = 1..Len(list) /\ Len(list) \in Nat /\ IsFiniteSet(DOMAIN list)
<1>1. DOMAIN list = 1..Len(list) /\ Len(list) \in Nat
  BY LenProperties
<1>2. IsFiniteSet(1..Len(list))
  BY <1>1, FS_Interval
<1> QED
  BY <1>1, <1>2

\* How often an item is in a list.
LEMMA TimesType ==
  ASSUME NEW T, NEW list \in Seq(T), NEW x
  PROVE  /\ IsFiniteSet({i \in DOMAIN list : list[i] = x})
         /\ Times(list, x) \in Nat
         /\ x \notin Range(list) => Times(list, x) = 0
<1> DEFINE P == {i \in DOMAIN list : list[i] = x}
<1>1. IsFiniteSet(DOMAIN list) /\ P \in SUBSET DOMAIN list
  BY PlacesFinite
<1>2. IsFiniteSet(P)
  BY <1>1, FS_Subset
<1>3. x \notin Range(list) => P = {}
  BY DEF Range
<1>4. Times(list, x) = Cardinality(P)
  BY DEF Times
<1>5. Cardinality({}) = 0
  BY FS_EmptySet
<1> HIDE DEF P
<1>6. Cardinality(P) \in Nat
  BY <1>2, FS_CardinalityType
<1> QED
  BY <1>2, <1>3, <1>4, <1>5, <1>6 DEF P

LEMMA TimesEmpty ==
  ASSUME NEW x
  PROVE  Times(<< >>, x) = 0
<1>1. {i \in DOMAIN << >> : << >>[i] = x} = {}
  OBVIOUS
<1> QED
  BY <1>1, FS_EmptySet DEF Times

LEMMA TimesAppend ==
  ASSUME NEW T, NEW list \in Seq(T), NEW e \in T, NEW x
  PROVE  Times(Append(list, e), x) = Times(list, x) + (IF e = x THEN 1 ELSE 0)
<1> DEFINE P == {i \in DOMAIN list : list[i] = x}
           L == Append(list, e)
           Q == {i \in DOMAIN L : L[i] = x}
           n == Len(list)
<1>1. DOMAIN list = 1..n /\ n \in Nat
  BY LenProperties
<1>2. L \in Seq(T) /\ Len(L) = n + 1 /\ (\A i \in 1..n : L[i] = list[i]) /\ L[n + 1] = e
  BY AppendProperties
<1> HIDE DEF L, n
<1>3. DOMAIN L = 1..(n + 1)
  BY <1>2, LenProperties
<1>4. \A i \in 1..(n + 1) : i = n + 1 \/ i \in 1..n
  BY <1>1
<1>5. n + 1 \notin P /\ n + 1 \in 1..(n + 1) /\ \A i \in 1..n : i \in 1..(n + 1)
  BY <1>1
<1>6. Q = IF e = x THEN P \cup {n + 1} ELSE P
  BY <1>1, <1>2, <1>3, <1>4, <1>5
<1>7. IsFiniteSet(P) /\ Times(list, x) = Cardinality(P) /\ Times(list, x) \in Nat
  BY TimesType DEF Times
<1>8. Times(L, x) = Cardinality(Q)
  BY DEF Times
<1>9. Cardinality(P \cup {n + 1}) = Cardinality(P) + 1
  <2> HIDE DEF P
  <2> QED
    BY <1>5, <1>7, FS_AddElement
<1> HIDE DEF P, Q
<1> QED
  BY <1>6, <1>7, <1>8, <1>9 DEF L

LEMMA TimesTail ==
  ASSUME NEW T, NEW list \in Seq(T), list # << >>, NEW x
  PROVE  Times(list, x) = Times(Tail(list), x) + (IF Head(list) = x THEN 1 ELSE 0)
<1> DEFINE rest == Tail(list)
           n == Len(list)
           P == {i \in DOMAIN rest : rest[i] = x}
           Q == {i \in DOMAIN list : list[i] = x}
           shift == [i \in P |-> i + 1]
<1>1. DOMAIN list = 1..n /\ n \in Nat /\ n > 0
  BY LenProperties, EmptySeq
<1>2. rest \in Seq(T) /\ Len(rest) = n - 1 /\ \A i \in 1..Len(rest) : rest[i] = list[i + 1]
  BY HeadTailProperties
<1>3. Head(list) = list[1]
  OBVIOUS
<1> HIDE DEF rest, n
<1>4. DOMAIN rest = 1..(n - 1)
  BY <1>2, LenProperties
<1>5. IsFiniteSet(P) /\ Times(rest, x) = Cardinality(P) /\ Times(rest, x) \in Nat
  BY <1>2, TimesType DEF Times
<1>6. shift \in Bijection(P, Q \ {1})
  <2>1. \A i \in P : i + 1 \in Q \ {1}
    BY <1>1, <1>2, <1>4
  <2>2. \A i, j \in P : i + 1 = j + 1 => i = j
    BY <1>4
  <2>3. \A j \in Q \ {1} : j - 1 \in P /\ (j - 1) + 1 = j
    BY <1>1, <1>2, <1>4
  <2>4. shift \in [P -> Q \ {1}]
    BY <2>1
  <2>5. \A i, j \in P : shift[i] = shift[j] => i = j
    BY <2>2
  <2>6. \A j \in Q \ {1} : \E i \in P : shift[i] = j
    BY <2>3
  <2> HIDE DEF shift, P, Q
  <2> QED
    BY <2>4, <2>5, <2>6 DEF Bijection, Injection, Surjection, IsInjective
<1>7. IsFiniteSet(Q) /\ Times(list, x) = Cardinality(Q) /\ Times(list, x) \in Nat
  BY TimesType DEF Times
<1>8. 1 \in Q <=> Head(list) = x
  BY <1>1, <1>3
<1> HIDE DEF P, Q, shift
<1>9. Cardinality(Q \ {1}) = Cardinality(P)
  BY <1>5, <1>6, FS_Bijection DEF ExistsBijection
<1>10. Cardinality(Q \ {1}) = IF 1 \in Q THEN Cardinality(Q) - 1 ELSE Cardinality(Q)
  BY <1>7, FS_RemoveElement
<1> QED
  BY <1>5, <1>7, <1>8, <1>9, <1>10 DEF rest

\* The chosen places of a list have an item as often as the list has it there.
LEMMA TimesChosen ==
  ASSUME NEW T, NEW list \in Seq(T), NEW P \in SUBSET DOMAIN list, NEW x
  PROVE  Times(Chosen(list, P), x) = Cardinality({i \in P : list[i] = x})
<1> DEFINE n == Cardinality(P)
           places == Ascending(P)
           D == {k \in 1..n : list[places[k]] = x}
           R == {i \in P : list[i] = x}
           f == [k \in D |-> places[k]]
<1>1. IsFiniteSet(P) /\ P \subseteq Int
  <2>1. IsFiniteSet(DOMAIN list) /\ DOMAIN list = 1..Len(list)
    BY PlacesFinite
  <2>2. IsFiniteSet(P)
    BY <2>1, FS_Subset
  <2>3. \A i \in 1..Len(list) : i \in Int
    OBVIOUS
  <2> QED
    BY <2>1, <2>2, <2>3
<1>2. places \in Seq(P) /\ Len(places) = n /\ Range(places) = P /\ IsAscending(places)
  BY <1>1, AscendingSorts
<1>3. n \in Nat /\ places \in [1..n -> P] /\ DOMAIN places = 1..n
  BY <1>2, LenProperties
<1>4. Chosen(list, P) = [k \in 1..n |-> list[places[k]]]
  BY DEF Chosen
<1> HIDE DEF places, n
<1>5. Times(Chosen(list, P), x) = Cardinality(D)
  BY <1>4 DEF Times
<1>6. f \in Bijection(D, R)
  <2>1. \A k \in D : f[k] \in R
    BY <1>3
  <2>2. \A j, k \in 1..n : places[j] = places[k] => j = k
    <3> SUFFICES ASSUME NEW j \in 1..n, NEW k \in 1..n, places[j] = places[k], j # k
                 PROVE  FALSE
      OBVIOUS
    <3>1. j < k \/ k < j
      BY <1>3
    <3>2. places[j] \in Int /\ places[k] \in Int
      BY <1>1, <1>3
    <3>3. places[j] < places[k] \/ places[k] < places[j]
      BY <1>2, <1>3, <3>1 DEF IsAscending
    <3> QED
      BY <3>2, <3>3
  <2>3. \A j, k \in D : f[j] = f[k] => j = k
    BY <2>2
  <2>4. \A i \in P : \E k \in 1..n : places[k] = i
    BY <1>2, <1>3 DEF Range
  <2>5. \A i \in R : \E k \in D : f[k] = i
    BY <2>4
  <2>6. f \in [D -> R]
    BY <2>1
  <2> HIDE DEF f, D, R
  <2> QED
    BY <2>3, <2>5, <2>6 DEF Bijection, Injection, Surjection, IsInjective
<1>7. IsFiniteSet(D)
  <2>1. IsFiniteSet(1..n) /\ D \in SUBSET (1..n)
    BY <1>3, FS_Interval
  <2> QED
    BY <2>1, FS_Subset
<1> HIDE DEF D, R, f
<1>8. Cardinality(R) = Cardinality(D)
  BY <1>6, <1>7, FS_Bijection DEF ExistsBijection
<1> QED
  BY <1>5, <1>8 DEF R

\* Lists put one after the other list what they do.
Joined(seqs, f, i) == IF i = 1 THEN seqs[i] ELSE f[i - 1] \o seqs[i]
Joins(seqs, f)     == f = [i \in 1..Len(seqs) |-> Joined(seqs, f, i)]

LEMMA FlattenIs ==
  ASSUME NEW T, NEW seqs \in Seq(Seq(T))
  PROVE  /\ FlattenSeq(seqs) \in Seq(T)
         /\ Range(FlattenSeq(seqs)) = UNION {Range(seqs[i]) : i \in DOMAIN seqs}
<1> DEFINE n == Len(seqs)
           step == [e \in Nat \X Seq(T) |-> IF e[1] \in 1..n THEN e[2] \o seqs[e[1]] ELSE e[2]]
<1>1. n \in Nat /\ DOMAIN seqs = 1..n /\ seqs \in [1..n -> Seq(T)]
  BY LenProperties
<1> HIDE DEF n
<1>2. step \in [Nat \X Seq(T) -> Seq(T)]
  <2>1. \A e \in Nat \X Seq(T) : e[1] \in 1..n => e[2] \o seqs[e[1]] \in Seq(T)
    BY <1>1, ConcatProperties
  <2> QED
    BY <2>1
<1>3. \A i \in 1..n : \A s \in Seq(T) : step[<<i, s>>] = s \o seqs[i]
  <2>1. \A i \in 1..n : \A s \in Seq(T) :
          <<i, s>> \in Nat \X Seq(T) /\ <<i, s>>[1] = i /\ <<i, s>>[2] = s
    BY <1>1
  <2> QED
    BY <2>1
<1>4. << >> \in Seq(T)
  BY EmptySeq
<1> HIDE DEF step
<1> DEFINE none == << >>
           S == Seq(T)
<1> HIDE DEF none, S
<1>a. PICK f \in [0..n -> S] : Solves(f, none, step, n)
  <2>1. none \in S /\ step \in [Nat \X S -> S]
    BY <1>2, <1>4 DEF none, S
  <2> QED
    BY <1>1, <2>1, RecursionExists
<1>5. f[0] = << >> /\ \A d \in 1..n : f[d] = step[<<d, f[d - 1]>>]
  BY <1>a DEF Solves, none
<1>6. \A d \in 1..n : d \in 0..n /\ d - 1 \in 0..n /\ f[d] \in Seq(T) /\ f[d - 1] \in Seq(T)
  <2>1. \A d \in 1..n : d \in 0..n /\ d - 1 \in 0..n
    BY <1>1
  <2>2. \A d \in 0..n : f[d] \in S
    BY <1>a
  <2> QED
    BY <2>1, <2>2 DEF S
<1>7. \A d \in 1..n : f[d] = f[d - 1] \o seqs[d]
  BY <1>3, <1>5, <1>6
<1>8. 1 \in 1..n => f[1] = seqs[1]
  <2>1. 1 - 1 = 0
    OBVIOUS
  <2>2. 1 \in 1..n => f[1] = << >> \o seqs[1] /\ seqs[1] \in Seq(T)
    BY <1>1, <1>5, <1>7, <2>1
  <2> QED
    BY <2>2, ConcatEmptySeq
<1> DEFINE g == [i \in 1..n |-> f[i]]
<1>9. Joins(seqs, g)
  <2>1. \A i \in 1..n : i # 1 => i - 1 \in 1..n
    BY <1>1
  <2>2. \A i \in 1..n : i # 1 => g[i - 1] = f[i - 1]
    BY <2>1
  <2>3. \A i \in 1..n : f[i] = IF i = 1 THEN seqs[i] ELSE f[i - 1] \o seqs[i]
    BY <1>7, <1>8
  <2>4. \A i \in 1..n : f[i] = Joined(seqs, g, i)
    BY <2>2, <2>3 DEF Joined
  <2>5. g = [i \in 1..n |-> Joined(seqs, g, i)]
    <3>1. \A i \in 1..n : g[i] = Joined(seqs, g, i)
      BY <2>4
    <3>2. g = [i \in 1..n |-> g[i]]
      OBVIOUS
    <3> HIDE DEF g
    <3> QED
      BY <3>1, <3>2
  <2> QED
    BY <2>5 DEF Joins, n
<1> DEFINE flat == CHOOSE h : Joins(seqs, h)
<1>10. Joins(seqs, flat)
  BY <1>9
<1> HIDE DEF flat, g
<1>11. FlattenSeq(seqs) = IF n = 0 THEN seqs ELSE flat[n]
  BY DEF FlattenSeq, Joins, Joined, flat, n
<1>12. \A i \in 1..n : flat[i] = IF i = 1 THEN seqs[i] ELSE flat[i - 1] \o seqs[i]
  <2>1. flat = [i \in 1..n |-> Joined(seqs, flat, i)]
    BY <1>10 DEF Joins, n
  <2> QED
    BY <2>1 DEF Joined
<1> DEFINE All(i) == UNION {Range(seqs[j]) : j \in 1..i}
           F == {i \in Nat : i \in 1..n => flat[i] \in Seq(T) /\ Range(flat[i]) = All(i)}
<1>13. \A i \in Nat : i \in F
  <2>1. 0 \in F
    OBVIOUS
  <2>2. ASSUME NEW i \in Nat, i \in F
        PROVE  i + 1 \in F
    <3> SUFFICES ASSUME i + 1 \in 1..n
                 PROVE  flat[i + 1] \in Seq(T) /\ Range(flat[i + 1]) = All(i + 1)
      OBVIOUS
    <3>1. seqs[i + 1] \in Seq(T) /\ (i + 1) - 1 = i
      BY <1>1, <2>2
    <3>2. CASE i = 0
      <4>1. flat[1] = seqs[1] /\ i + 1 = 1
        BY <1>12, <3>2
      <4>2. \A j \in 1..1 : j = 1
        OBVIOUS
      <4>3. All(1) = Range(seqs[1])
        BY <4>2
      <4> QED
        BY <3>1, <4>1, <4>3
    <3>3. CASE i # 0
      <4>1. i \in 1..n /\ i + 1 # 1
        BY <1>1, <2>2, <3>3
      <4>2. flat[i] \in Seq(T) /\ Range(flat[i]) = All(i)
        BY <2>2, <4>1
      <4>3. flat[i + 1] = flat[i] \o seqs[i + 1]
        BY <1>12, <3>1, <4>1
      <4>4. flat[i + 1] \in Seq(T) /\ Range(flat[i + 1]) = Range(flat[i]) \cup Range(seqs[i + 1])
        BY <3>1, <4>2, <4>3, ConcatProperties, RangeConcatenation
      <4>5. \A j : j \in 1..(i + 1) <=> j \in 1..i \/ j = i + 1
        BY <2>2
      <4>6. All(i + 1) = All(i) \cup Range(seqs[i + 1])
        BY <4>5
      <4> QED
        BY <4>2, <4>4, <4>6
    <3> QED
      BY <3>2, <3>3
  <2> HIDE DEF F
  <2> QED
    BY <2>1, <2>2, NumberInduction
<1>14. CASE n = 0
  <2>1. seqs = << >> /\ DOMAIN seqs = {}
    BY <1>1, <1>14
  <2> QED
    BY <1>4, <1>11, <1>14, <2>1 DEF Range
<1>15. CASE n # 0
  <2>1. n \in 1..n
    BY <1>1, <1>15
  <2>2. n \in F
    <3> HIDE DEF F
    <3> QED
      BY <1>1, <1>13
  <2>3. flat[n] \in Seq(T) /\ Range(flat[n]) = All(n)
    BY <2>1, <2>2
  <2> QED
    BY <1>1, <1>11, <1>15, <2>3
<1> QED
  BY <1>14, <1>15

\* What a bag counts after one more of each item of a set, or of a list.
LEMMA AddAllCounts ==
  ASSUME NEW bag, NEW S, NEW x
  PROVE  Counted(AddAll(bag, S), x) = Counted(bag, x) + (IF x \in S THEN 1 ELSE 0)
BY DEF Counted, AddAll

LEMMA AddEachCounts ==
  ASSUME NEW bag, NEW T, NEW list \in Seq(T), NEW x
  PROVE  Counted(AddEach(bag, list), x) = Counted(bag, x) + Times(list, x)
<1>1. x \notin Range(list) => Times(list, x) = 0
  BY TimesType
<1>2. CASE x \in DOMAIN bag \cup Range(list)
  BY <1>2 DEF Counted, AddEach
<1>3. CASE x \notin DOMAIN bag \cup Range(list)
  BY <1>1, <1>3 DEF Counted, AddEach
<1> QED
  BY <1>2, <1>3

LEMMA TimesOne ==
  ASSUME NEW e, NEW x
  PROVE  Times(<<e>>, x) = IF e = x THEN 1 ELSE 0
<1> DEFINE none == << >>
           T == {e}
<1>1. none \in Seq(T) /\ e \in T
  OBVIOUS
<1>2. Append(none, e) = <<e>>
  OBVIOUS
<1>3. Times(none, x) = 0
  BY TimesEmpty
<1> HIDE DEF none, T
<1>4. Times(Append(none, e), x) = Times(none, x) + (IF e = x THEN 1 ELSE 0)
  BY <1>1, TimesAppend
<1> QED
  BY <1>2, <1>3, <1>4

-----------------------------------------------------------------------------
(* Lines.                                                                  *)

Tables == (Dbs \cup {NoDb}) \X Names

Line ==
  [use : Dbs \cup {NoDb}, delimiter : {"none", "begin", "end"}, routine : BOOLEAN,
   create : Spellings \cup {NoName}, alter : Spellings \cup {NoName},
   refs : Seq(Spellings), closes : BOOLEAN, mentions : SUBSET Spellings]

BeginLine == [Blank EXCEPT !.delimiter = "begin"]
EndLine   == [Blank EXCEPT !.delimiter = "end"]

LEMMA BlankIs == Blank \in Line /\ Plain(Blank)
<1>1. << >> \in Seq(Spellings)
  BY EmptySeq
<1> QED
  BY <1>1 DEF Blank, Line, Plain

\* What the lines of a dump hold.
LEMMA MarksAre ==
  /\ BeginLine \in Line /\ BeginLine.use = NoDb /\ BeginLine.delimiter = "begin"
  /\ EndLine \in Line /\ EndLine.use = NoDb /\ EndLine.delimiter = "end"
  /\ EndLine.mentions = {}
<1>1. << >> \in Seq(Spellings)
  BY EmptySeq
<1> QED
  BY <1>1 DEF BeginLine, EndLine, Blank, Line

LEMMA UseLineIs ==
  ASSUME NEW db \in Dbs
  PROVE  UseLine(db) \in Line /\ UseLine(db).use = db
<1>1. << >> \in Seq(Spellings)
  BY EmptySeq
<1> QED
  BY <1>1 DEF UseLine, Blank, Line

LEMMA BareIs ==
  ASSUME NEW t \in Names, NEW db
  PROVE  Bare(t) \in Spellings /\ Bare(t) # NoName /\ Qualify(db, Bare(t)) = <<db, t>>
BY NamesAssumption DEF Bare, Spellings, Qualify

LEMMA SpellingIs ==
  ASSUME NEW db \in Dbs \cup {NoDb}, NEW n \in Spellings
  PROVE  Qualify(db, n) \in Tables
BY DEF Qualify, Spellings, Tables

LEMMA KeyLineIs ==
  ASSUME NEW r \in Names
  PROVE  /\ KeyLine(r) \in Line /\ Plain(KeyLine(r)) /\ ~KeyLine(r).closes
         /\ KeyLine(r).refs = <<Bare(r)>> /\ KeyLine(r) # ClosingLine
<1>1. Bare(r) \in Spellings
  BY BareIs
<1> DEFINE refs == <<Bare(r)>>
<1>2. refs \in Seq(Spellings) /\ refs # << >>
  BY <1>1
<1> HIDE DEF refs
<1>3. KeyLine(r) = [Blank EXCEPT !.refs = refs]
  BY DEF KeyLine, refs
<1>4. KeyLine(r).refs = refs /\ ~KeyLine(r).closes /\ Plain(KeyLine(r))
  BY <1>3 DEF Blank, Plain
<1>5. KeyLine(r) \in Line
  BY <1>2, <1>3 DEF Blank, Line
<1>6. ClosingLine.closes
  BY DEF ClosingLine, Blank
<1> QED
  BY <1>4, <1>5, <1>6 DEF refs

LEMMA ClosingLineIs ==
  ClosingLine \in Line /\ Plain(ClosingLine) /\ ClosingLine.closes /\ ClosingLine.refs = << >>
<1>1. << >> \in Seq(Spellings)
  BY EmptySeq
<1> QED
  BY <1>1 DEF ClosingLine, Blank, Line, Plain

LEMMA CreateLineIs ==
  ASSUME NEW t \in Names
  PROVE  /\ CreateLine(t) \in Line /\ Plain(CreateLine(t)) /\ ~CreateLine(t).routine
         /\ CreateLine(t).create = Bare(t) /\ ~CreateLine(t).closes
         /\ CreateLine(t).refs = << >>
<1>1. Bare(t) \in Spellings /\ << >> \in Seq(Spellings)
  BY BareIs, EmptySeq
<1> QED
  BY <1>1 DEF CreateLine, Blank, Line, Plain

LEMMA AlterLineIs ==
  ASSUME NEW t \in Names, NEW r \in Names
  PROVE  /\ AlterLine(t, r) \in Line /\ Plain(AlterLine(t, r)) /\ ~AlterLine(t, r).routine
         /\ AlterLine(t, r).create = NoName /\ AlterLine(t, r).alter = Bare(t)
         /\ AlterLine(t, r).refs = <<Bare(r)>>
<1>1. Bare(t) \in Spellings /\ Bare(r) \in Spellings
  BY BareIs
<1> DEFINE refs == <<Bare(r)>>
           table == Bare(t)
<1>2. refs \in Seq(Spellings)
  BY <1>1
<1> HIDE DEF refs, table
<1>3. AlterLine(t, r) = [Blank EXCEPT !.refs = refs, !.alter = table]
  BY DEF AlterLine, KeyLine, refs, table, Blank
<1>4. /\ Plain(AlterLine(t, r)) /\ ~AlterLine(t, r).routine
      /\ AlterLine(t, r).create = NoName /\ AlterLine(t, r).alter = table
      /\ AlterLine(t, r).refs = refs
  BY <1>3 DEF Blank, Plain
<1>5. table \in Spellings
  BY <1>1 DEF table
<1>6. AlterLine(t, r) \in Line
  BY <1>2, <1>3, <1>5 DEF Blank, Line
<1> QED
  BY <1>4, <1>6 DEF refs, table

LEMMA NonTableLineIs ==
  ASSUME NEW S \in SUBSET Spellings
  PROVE  /\ NonTableLine(S) \in Line /\ Plain(NonTableLine(S)) /\ NonTableLine(S).routine
         /\ NonTableLine(S).mentions = S
<1>1. << >> \in Seq(Spellings)
  BY EmptySeq
<1> QED
  BY <1>1 DEF NonTableLine, Blank, Line, Plain

LEMMA MentionLineIs ==
  ASSUME NEW n \in Spellings
  PROVE  MentionLine(n) \in Line /\ Plain(MentionLine(n)) /\ MentionLine(n).mentions = {n}
<1>1. << >> \in Seq(Spellings)
  BY EmptySeq
<1> QED
  BY <1>1 DEF MentionLine, Blank, Line, Plain

\* A CREATE TABLE on one line.
TheLine(t, refs) == [CreateLine(t) EXCEPT !.refs = Bares(refs), !.closes = TRUE]

LEMMA BaresAre ==
  ASSUME NEW refs \in Seq(Names)
  PROVE  /\ Bares(refs) \in Seq(Spellings) /\ (Bares(refs) = << >> <=> refs = << >>)
         /\ refs # << >> => Head(Bares(refs)) = Bare(refs[1]) /\ refs[1] \in Names
<1>1. Len(refs) \in Nat /\ DOMAIN refs = 1..Len(refs) /\ refs \in [1..Len(refs) -> Names]
  BY LenProperties
<1>2. \A r \in Names : Bare(r) \in Spellings
  BY BareIs
<1>3. Bares(refs) = [i \in 1..Len(refs) |-> Bare(refs[i])]
  BY <1>1 DEF Bares
<1>4. Bares(refs) \in [1..Len(refs) -> Spellings]
  BY <1>1, <1>2, <1>3
<1>5. Bares(refs) \in Seq(Spellings)
  BY <1>1, <1>4, SeqDef
<1>6. Len(Bares(refs)) = Len(refs)
  BY <1>1, <1>4, <1>5, LenProperties
<1>7. refs # << >> => 1 \in 1..Len(refs)
  BY <1>1
<1>8. Bares(refs) = << >> <=> refs = << >>
  BY <1>1, <1>5, <1>6
<1>9. refs # << >> => Head(Bares(refs)) = Bare(refs[1]) /\ refs[1] \in Names
  BY <1>1, <1>3, <1>7, <1>8
<1> QED
  BY <1>5, <1>8, <1>9

LEMMA TheLineIs ==
  ASSUME NEW t \in Names, NEW refs \in Seq(Names)
  PROVE  /\ OneLine(t, refs) = <<TheLine(t, refs)>>
         /\ TheLine(t, refs) \in Line /\ Plain(TheLine(t, refs)) /\ ~TheLine(t, refs).routine
         /\ TheLine(t, refs).create = Bare(t) /\ TheLine(t, refs).closes
         /\ TheLine(t, refs).refs = Bares(refs) /\ TheLine(t, refs).mentions = {}
<1>1. Bare(t) \in Spellings /\ Bares(refs) \in Seq(Spellings)
  BY BareIs, BaresAre
<1>2. OneLine(t, refs) = <<TheLine(t, refs)>>
  BY DEF OneLine, TheLine
<1>3. /\ TheLine(t, refs) \in Line /\ Plain(TheLine(t, refs)) /\ ~TheLine(t, refs).routine
      /\ TheLine(t, refs).create = Bare(t) /\ TheLine(t, refs).closes
      /\ TheLine(t, refs).refs = Bares(refs) /\ TheLine(t, refs).mentions = {}
  BY <1>1 DEF TheLine, CreateLine, Blank, Line, Plain
<1> QED
  BY <1>2, <1>3
-----------------------------------------------------------------------------
(* What has been read and what is ahead.                                   *)

\* The foreign keys read and those ahead are those meant.
KeysExact(meant, read, ahead) ==
  OneLineKeys <= 1 =>
    \A x \in Tables \X Tables : Counted(meant, x) = Times(read, x) + Times(ahead, x)

\* The tables read and those ahead, which are new, are those meant.
TablesExact(meant, read, ahead) ==
  meant = Range(read) \cup ahead /\ ahead \cap Range(read) = {}

\* The pairs of the routines read and of the one ahead are those meant, but for the
\* pairs that a block of several routines mentions.
PairsExact(meant, read, ahead, but) ==
  \A p \in PairsOf(Tables) \ but :
    Counted(meant, p) = Counted(read, p) + (IF p \subseteq ahead THEN 1 ELSE 0)

\* The lines of the body of a table, and the foreign keys on them.
IsKeyLine(line) == \E r \in Names : line = KeyLine(r)
IsBody(lines) ==
  /\ lines # << >> /\ lines[Len(lines)] = ClosingLine
  /\ \A i \in 1..(Len(lines) - 1) : IsKeyLine(lines[i])
KeysOn(db, t, lines) ==
  [i \in 1..(Len(lines) - 1) |-> <<t, Qualify(db, lines[i].refs[1])>>]

\* The lines of a block after its first, and the tables mentioned on them.
IsBlock(lines) ==
  /\ lines # << >> /\ lines[Len(lines)] = EndLine
  /\ \A i \in 1..(Len(lines) - 1) : Plain(lines[i])
NamesOn(lines)         == UNION {lines[i].mentions : i \in DOMAIN lines}
QualifyAll(db, S)      == {Qualify(db, n) : n \in S}
MentionedOn(db, lines) == QualifyAll(db, NamesOn(lines))

\* What follows the first line of a list.
LEMMA TailIs ==
  ASSUME NEW T, NEW lines \in Seq(T), lines # << >>
  PROVE  /\ Head(lines) = lines[1] /\ lines[1] \in T /\ Tail(lines) \in Seq(T)
         /\ Len(lines) \in Nat /\ Len(lines) > 0 /\ Len(Tail(lines)) = Len(lines) - 1
         /\ DOMAIN lines = 1..Len(lines) /\ DOMAIN Tail(lines) = 1..(Len(lines) - 1)
         /\ \A i \in 1..(Len(lines) - 1) : Tail(lines)[i] = lines[i + 1]
         /\ Tail(lines) = << >> <=> Len(lines) = 1
<1>1. Len(lines) \in Nat /\ Len(lines) > 0 /\ DOMAIN lines = 1..Len(lines)
  BY LenProperties, EmptySeq
<1>2. Tail(lines) \in Seq(T) /\ Len(Tail(lines)) = Len(lines) - 1
      /\ \A i \in 1..Len(Tail(lines)) : Tail(lines)[i] = lines[i + 1]
  BY HeadTailProperties
<1>3. DOMAIN Tail(lines) = 1..(Len(lines) - 1)
  BY <1>2, LenProperties
<1>4. Head(lines) = lines[1]
  OBVIOUS
<1>5. lines[1] \in T
  BY <1>1
<1>6. Tail(lines) = << >> <=> Len(lines) = 1
  BY <1>1, <1>2, EmptySeq
<1> QED
  BY <1>1, <1>2, <1>3, <1>4, <1>5, <1>6

\* A body is its closing line, or a line with a foreign key before a body.
LEMMA BodyTail ==
  ASSUME NEW lines \in Seq(Line), IsBody(lines), NEW db \in Dbs \cup {NoDb}, NEW t \in Tables
  PROVE  /\ KeysOn(db, t, lines) \in Seq(Tables \X Tables)
         /\ Len(lines) = 1 => Head(lines) = ClosingLine /\ KeysOn(db, t, lines) = << >>
         /\ Len(lines) # 1 =>
              /\ IsKeyLine(Head(lines)) /\ IsBody(Tail(lines))
              /\ KeysOn(db, t, lines) # << >>
              /\ Head(KeysOn(db, t, lines)) = <<t, Qualify(db, Head(lines).refs[1])>>
              /\ Tail(KeysOn(db, t, lines)) = KeysOn(db, t, Tail(lines))
<1> DEFINE n == Len(lines) - 1
           rest == Tail(lines)
           Key(line) == <<t, Qualify(db, line.refs[1])>>
           ks == [i \in 1..n |-> Key(lines[i])]
<1>1. /\ lines # << >> /\ lines[n + 1] = ClosingLine
      /\ n \in Nat /\ (\A i \in 1..n : IsKeyLine(lines[i]))
      /\ Len(lines) = n + 1 /\ Head(lines) = lines[1]
      /\ rest \in Seq(Line) /\ Len(rest) = n /\ \A i \in 1..n : rest[i] = lines[i + 1]
      /\ (rest = << >> <=> n = 0)
  BY TailIs DEF IsBody
<1>2. KeysOn(db, t, lines) = ks
  BY DEF KeysOn
<1>3. \A line : IsKeyLine(line) => Key(line) \in Tables \X Tables
  <2> SUFFICES ASSUME NEW r \in Names
               PROVE  Key(KeyLine(r)) \in Tables \X Tables
    BY DEF IsKeyLine
  <2>1. KeyLine(r).refs[1] = Bare(r)
    BY KeyLineIs
  <2>2. Qualify(db, Bare(r)) \in Tables
    BY BareIs, SpellingIs
  <2> QED
    BY <2>1, <2>2
<1> HIDE DEF n, rest, Key
<1>4. ks \in [1..n -> Tables \X Tables]
  BY <1>1, <1>3
<1>5. ks \in Seq(Tables \X Tables)
  BY <1>1, <1>4, SeqDef
<1>6. Len(ks) = n
  BY <1>1, <1>4, <1>5, LenProperties
<1>7. CASE n = 0
  <2>1. ks = << >>
    BY <1>5, <1>6, <1>7, EmptySeq
  <2> HIDE DEF ks
  <2> QED
    BY <1>1, <1>2, <1>5, <1>7, <2>1 DEF Key, rest
<1>8. CASE n # 0
  <2>1. 1 \in 1..n /\ ks # << >>
    BY <1>1, <1>6, <1>8, EmptySeq
  <2>2. Head(ks) = Key(lines[1]) /\ IsKeyLine(lines[1])
    BY <1>1, <2>1
  <2>3. IsBody(rest)
    <3>1. rest # << >> /\ rest[n] = ClosingLine
      BY <1>1, <1>8
    <3>2. \A i \in 1..(n - 1) : IsKeyLine(rest[i])
      <4>1. \A i \in 1..(n - 1) : i \in 1..n /\ i + 1 \in 1..n
        BY <1>1
      <4> QED
        BY <1>1, <4>1
    <3> QED
      BY <1>1, <3>1, <3>2 DEF IsBody
  <2>4. Tail(ks) = [i \in 1..(n - 1) |-> Key(rest[i])]
    <3>1. \A i \in 1..(n - 1) : i \in 1..n /\ i + 1 \in 1..n
      BY <1>1
    <3>2. \A i \in 1..(n - 1) : ks[i + 1] = Key(rest[i])
      BY <1>1, <3>1
    <3> DEFINE rhs == [i \in 1..(n - 1) |-> Key(rest[i])]
    <3>3. n - 1 \in Nat
      BY <1>1, <1>8
    <3>4. \A i \in 1..(n - 1) : Key(rest[i]) \in Tables \X Tables
      BY <1>1, <1>3, <3>1
    <3>5. rhs \in [1..(n - 1) -> Tables \X Tables]
      BY <3>4
    <3>6. \A i \in 1..(n - 1) : rhs[i] = ks[i + 1]
      BY <3>2
    <3> HIDE DEF ks, rhs
    <3>7. rhs \in Seq(Tables \X Tables)
      BY <3>3, <3>5, SeqDef
    <3>8. Len(rhs) = n - 1
      BY <3>3, <3>5, <3>7, LenProperties
    <3>9. Tail(ks) \in Seq(Tables \X Tables) /\ Len(Tail(ks)) = n - 1
          /\ \A i \in 1..(n - 1) : Tail(ks)[i] = ks[i + 1]
      BY <1>5, <1>6, <2>1, TailIs
    <3> QED
      BY <3>6, <3>7, <3>8, <3>9, SeqEqual DEF rhs
  <2>5. KeysOn(db, t, rest) = [i \in 1..(n - 1) |-> Key(rest[i])]
    BY <1>1 DEF KeysOn, Key
  <2>6. Tail(ks) = KeysOn(db, t, rest)
    BY <2>4, <2>5
  <2> HIDE DEF ks
  <2>7. Len(lines) # 1
    BY <1>1, <1>8
  <2> QED
    BY <1>1, <1>2, <1>5, <2>1, <2>2, <2>3, <2>6, <2>7 DEF Key, rest
<1> QED
  BY <1>7, <1>8
\* The lines of a block after its first are its end, or a line before such lines.
LEMMA BlockTail ==
  ASSUME NEW lines \in Seq(Line), IsBlock(lines)
  PROVE  /\ Len(lines) = 1 => Head(lines) = EndLine /\ NamesOn(lines) = {}
         /\ Len(lines) # 1 =>
              /\ Plain(Head(lines)) /\ IsBlock(Tail(lines))
              /\ NamesOn(lines) = Head(lines).mentions \cup NamesOn(Tail(lines))
<1> DEFINE n == Len(lines) - 1
           rest == Tail(lines)
<1>1. /\ lines # << >> /\ lines[n + 1] = EndLine
      /\ n \in Nat /\ (\A i \in 1..n : Plain(lines[i]))
      /\ Len(lines) = n + 1 /\ DOMAIN lines = 1..(n + 1) /\ Head(lines) = lines[1]
      /\ rest \in Seq(Line) /\ Len(rest) = n /\ \A i \in 1..n : rest[i] = lines[i + 1]
      /\ (rest = << >> <=> n = 0) /\ DOMAIN rest = 1..n
  BY TailIs DEF IsBlock
<1> HIDE DEF n, rest
<1>2. CASE n = 0
  <2>1. DOMAIN lines = {1} /\ lines[1] = EndLine
    BY <1>1, <1>2
  <2>2. NamesOn(lines) = EndLine.mentions
    BY <2>1 DEF NamesOn
  <2> QED
    BY <1>1, <1>2, <2>1, <2>2, MarksAre
<1>3. CASE n # 0
  <2>1. 1 \in 1..n /\ Plain(lines[1])
    BY <1>1, <1>3
  <2>2. IsBlock(rest)
    <3>1. rest # << >> /\ rest[n] = EndLine
      BY <1>1, <1>3
    <3>2. \A i \in 1..(n - 1) : i \in 1..n /\ i + 1 \in 1..n
      BY <1>1
    <3>3. \A i \in 1..(n - 1) : Plain(rest[i])
      BY <1>1, <3>2
    <3> QED
      BY <1>1, <3>1, <3>3 DEF IsBlock
  <2>3. NamesOn(lines) = lines[1].mentions \cup NamesOn(rest)
    <3>1. \A i \in DOMAIN lines : i = 1 \/ (i - 1 \in DOMAIN rest /\ rest[i - 1] = lines[i])
      <4>1. \A i \in 1..(n + 1) : i = 1 \/ (i - 1 \in 1..n /\ (i - 1) + 1 = i)
        BY <1>1
      <4> QED
        BY <1>1, <4>1
    <3>2. \A i \in DOMAIN rest : i + 1 \in DOMAIN lines /\ rest[i] = lines[i + 1]
      BY <1>1
    <3>3. 1 \in DOMAIN lines
      BY <1>1
    <3>4. NamesOn(lines) \subseteq lines[1].mentions \cup NamesOn(rest)
      BY <3>1 DEF NamesOn
    <3>5. lines[1].mentions \cup NamesOn(rest) \subseteq NamesOn(lines)
      BY <3>2, <3>3 DEF NamesOn
    <3> QED
      BY <3>4, <3>5
  <2> QED
    BY <1>1, <1>3, <2>1, <2>2, <2>3 DEF rest
<1> QED
  BY <1>2, <1>3

\* A CREATE TABLE over many lines.
KeyLines(refs) == [i \in DOMAIN refs |-> KeyLine(refs[i])]
MeantKeys(db, t, refs) == [i \in DOMAIN refs |-> <<<<db, t>>, <<db, refs[i]>>>>]

LEMMA ManyLinesAre ==
  ASSUME NEW t \in Names, NEW refs \in Seq(Names), NEW db \in Dbs \cup {NoDb}
  PROVE  /\ ManyLines(t, refs) \in Seq(Line) /\ ManyLines(t, refs) # << >>
         /\ Head(ManyLines(t, refs)) = CreateLine(t) /\ IsBody(Tail(ManyLines(t, refs)))
         /\ KeysOn(db, <<db, t>>, Tail(ManyLines(t, refs))) = MeantKeys(db, t, refs)
<1> DEFINE n == Len(refs)
           ks == KeyLines(refs)
           first == <<CreateLine(t)>>
           last == <<ClosingLine>>
           body == ks \o last
           all == first \o body
<1>1. n \in Nat /\ DOMAIN refs = 1..n /\ refs \in [1..n -> Names]
  BY LenProperties
<1>2. ks = [i \in 1..n |-> KeyLine(refs[i])] /\ ks \in [1..n -> Line]
  <2>1. \A r \in Names : KeyLine(r) \in Line
    BY KeyLineIs
  <2>2. ks = [i \in 1..n |-> KeyLine(refs[i])]
    BY <1>1 DEF KeyLines
  <2> QED
    BY <1>1, <2>1, <2>2
<1>3. first \in Seq(Line) /\ last \in Seq(Line) /\ Len(first) = 1 /\ Len(last) = 1
      /\ first[1] = CreateLine(t) /\ last[1] = ClosingLine
  <2>1. CreateLine(t) \in Line /\ ClosingLine \in Line
    BY CreateLineIs, ClosingLineIs
  <2> QED
    BY <2>1
<1> HIDE DEF n, ks, first, last
<1>4. ks \in Seq(Line)
  BY <1>1, <1>2, SeqDef
<1>5. Len(ks) = n
  BY <1>1, <1>2, <1>4, LenProperties
<1>6. /\ body \in Seq(Line) /\ Len(body) = n + 1 /\ body[n + 1] = ClosingLine
      /\ \A i \in 1..n : body[i] = KeyLine(refs[i])
  <2>1. body \in Seq(Line) /\ Len(body) = n + 1
        /\ \A i \in 1..(n + 1) : body[i] = IF i <= n THEN ks[i] ELSE last[i - n]
    <3>1. /\ ks \o last \in Seq(Line) /\ Len(ks \o last) = Len(ks) + Len(last)
          /\ \A i \in 1..(Len(ks) + Len(last)) :
               (ks \o last)[i] = IF i <= Len(ks) THEN ks[i] ELSE last[i - Len(ks)]
      BY <1>3, <1>4, ConcatProperties
    <3> QED
      BY <1>3, <1>5, <3>1
  <2>2. body[n + 1] = ClosingLine
    <3>1. n + 1 \in 1..(n + 1) /\ ~(n + 1 <= n) /\ (n + 1) - n = 1
      BY <1>1
    <3> QED
      BY <1>3, <2>1, <3>1
  <2>3. \A i \in 1..n : body[i] = KeyLine(refs[i])
    <3>1. \A i \in 1..n : i \in 1..(n + 1) /\ i <= n
      BY <1>1
    <3> QED
      BY <1>2, <2>1, <3>1
  <2> QED
    BY <2>1, <2>2, <2>3
<1> HIDE DEF body
<1>7. /\ all \in Seq(Line) /\ Len(all) = n + 2 /\ all[1] = CreateLine(t)
      /\ \A i \in 1..(n + 1) : all[i + 1] = body[i]
  <2>1. all \in Seq(Line) /\ Len(all) = 1 + (n + 1)
        /\ \A i \in 1..(1 + (n + 1)) : all[i] = IF i <= 1 THEN first[i] ELSE body[i - 1]
    BY <1>3, <1>6, ConcatProperties
  <2>2. \A i \in 1..(n + 1) : i + 1 \in 1..(1 + (n + 1)) /\ ~(i + 1 <= 1) /\ (i + 1) - 1 = i
    BY <1>1
  <2>3. 1 \in 1..(1 + (n + 1)) /\ 1 <= 1 /\ 1 + (n + 1) = n + 2
    BY <1>1
  <2> QED
    BY <1>3, <2>1, <2>2, <2>3
<1>8. ManyLines(t, refs) = all
  <2>1. ManyLines(t, refs) = (first \o ks) \o last
    BY DEF ManyLines, KeyLines, first, ks, last
  <2> QED
    BY <1>3, <1>4, <2>1, ConcatAssociative DEF body
<1> HIDE DEF all
<1>9. all # << >> /\ Head(all) = CreateLine(t)
  BY <1>1, <1>7, EmptySeq
<1>10. Tail(all) = body
  <2>1. Tail(all) \in Seq(Line) /\ Len(Tail(all)) = n + 1
        /\ \A i \in 1..(n + 1) : Tail(all)[i] = body[i]
    BY <1>1, <1>7, <1>9, TailIs
  <2> QED
    BY <1>6, <2>1, SeqEqual
<1>11. IsBody(body)
  <2>1. body # << >> /\ Len(body) - 1 = n
    BY <1>1, <1>6, EmptySeq
  <2>2. \A i \in 1..n : IsKeyLine(body[i])
    BY <1>1, <1>6 DEF IsKeyLine
  <2> QED
    BY <1>6, <2>1, <2>2 DEF IsBody
<1>12. KeysOn(db, <<db, t>>, body) = MeantKeys(db, t, refs)
  <2>1. Len(body) - 1 = n
    BY <1>1, <1>6
  <2>2. \A i \in 1..n : Qualify(db, body[i].refs[1]) = <<db, refs[i]>>
    <3> SUFFICES ASSUME NEW i \in 1..n
                 PROVE  Qualify(db, body[i].refs[1]) = <<db, refs[i]>>
      OBVIOUS
    <3>1. refs[i] \in Names /\ body[i] = KeyLine(refs[i])
      BY <1>1, <1>6
    <3>2. body[i].refs = <<Bare(refs[i])>>
      BY <3>1, KeyLineIs
    <3> QED
      BY <3>1, <3>2, BareIs
  <2> QED
    BY <1>1, <2>1, <2>2 DEF KeysOn, MeantKeys
<1> QED
  BY <1>7, <1>8, <1>9, <1>10, <1>11, <1>12
\* What a list mentions depends on the lines in it alone.
Mentions(S) == UNION {line.mentions : line \in S}

LEMMA NamesOnIs ==
  ASSUME NEW lines \in Seq(Line)
  PROVE  NamesOn(lines) = Mentions(Range(lines))
BY DEF NamesOn, Mentions, Range

LEMMA MentionsJoin ==
  ASSUME NEW V, NEW S, NEW U, V = S \cup U
  PROVE  Mentions(V) = Mentions(S) \cup Mentions(U)
BY DEF Mentions

LEMMA OneLineList ==
  ASSUME NEW T, NEW line \in T, NEW list, list = <<line>>
  PROVE  list \in Seq(T) /\ Range(list) = {line} /\ Len(list) = 1 /\ list[1] = line
BY DEF Range

LEMMA SpellingsFinite == IsFiniteSet(Spellings) /\ IsFiniteSet(Tables)
<1>1. IsFiniteSet(Dbs \cup {NoDb})
  BY NamesAssumption, FS_AddElement
<1> QED
  BY <1>1, NamesAssumption, FS_Product DEF Spellings, Tables

\* The lines of a routine are plain, and mention what the routine does.
LEMMA RoutineLinesAre ==
  ASSUME NEW body \in SUBSET Spellings, NEW t \in Names
  PROVE  /\ RoutineLines(body, t) \in Seq(Line)
         /\ \A line \in Range(RoutineLines(body, t)) : Plain(line)
         /\ Mentions(Range(RoutineLines(body, t))) = body
<1> DEFINE n == Cardinality(body)
           names == SetToSeq(body)
           first == <<NonTableLine({})>>
           middle == [i \in 1..n |-> MentionLine(names[i])]
           last == OneLine(t, <<t>>)
<1>1. n \in Nat /\ names \in [1..n -> body] /\ Range(names) = body
  <2>1. IsFiniteSet(body)
    BY SpellingsFinite, FS_Subset
  <2> QED
    BY <2>1, ListingIs
<1> HIDE DEF n, names
<1>2. middle \in Seq(Line)
  <2>1. \A i \in 1..n : MentionLine(names[i]) \in Line
    BY <1>1, MentionLineIs
  <2>2. middle \in [1..n -> Line]
    BY <2>1
  <2> HIDE DEF middle
  <2> QED
    BY <1>1, <2>2, SeqDef
<1>3. Range(middle) = {MentionLine(name) : name \in body}
  <2>1. \A name \in body : \E i \in 1..n : names[i] = name
    BY <1>1 DEF Range
  <2> QED
    BY <1>1, <2>1 DEF Range
<1>4. /\ first \in Seq(Line) /\ Range(first) = {NonTableLine({})}
      /\ Plain(NonTableLine({})) /\ NonTableLine({}).mentions = {}
  <2>1. {} \in SUBSET Spellings
    OBVIOUS
  <2>2. NonTableLine({}) \in Line /\ Plain(NonTableLine({})) /\ NonTableLine({}).mentions = {}
    BY <2>1, NonTableLineIs
  <2> QED
    BY <2>2, OneLineList
<1> DEFINE refs == <<t>>
<1>5. last \in Seq(Line) /\ Range(last) = {TheLine(t, refs)}
      /\ Plain(TheLine(t, refs)) /\ TheLine(t, refs).mentions = {}
  <2>1. refs \in Seq(Names)
    OBVIOUS
  <2> HIDE DEF refs
  <2>2. OneLine(t, refs) = <<TheLine(t, refs)>> /\ TheLine(t, refs) \in Line
        /\ Plain(TheLine(t, refs)) /\ TheLine(t, refs).mentions = {}
    BY <2>1, TheLineIs
  <2>3. last = <<TheLine(t, refs)>>
    BY <2>2 DEF refs
  <2> HIDE DEF last
  <2> QED
    BY <2>2, <2>3, OneLineList
<1> DEFINE start == first \o middle
<1>6. RoutineLines(body, t) = start \o last
  BY DEF RoutineLines, n, names
<1> HIDE DEF first, middle, last, refs
<1>7. start \in Seq(Line) /\ Range(start) = Range(first) \cup Range(middle)
  BY <1>2, <1>4, ConcatProperties, RangeConcatenation
<1> HIDE DEF start
<1>8. RoutineLines(body, t) \in Seq(Line)
      /\ Range(RoutineLines(body, t)) = Range(start) \cup Range(last)
  BY <1>5, <1>6, <1>7, ConcatProperties, RangeConcatenation
<1>9. \A name \in body : Plain(MentionLine(name)) /\ MentionLine(name).mentions = {name}
  BY MentionLineIs
<1>10. \A line \in Range(RoutineLines(body, t)) : Plain(line)
  BY <1>3, <1>4, <1>5, <1>7, <1>8, <1>9
<1>11. Mentions(Range(first)) = {} /\ Mentions(Range(last)) = {} /\ Mentions(Range(middle)) = body
  <2>1. Mentions(Range(first)) = {} /\ Mentions(Range(last)) = {}
    BY <1>4, <1>5 DEF Mentions
  <2>2. Mentions(Range(middle)) = body
    BY <1>3, <1>9 DEF Mentions
  <2> QED
    BY <2>1, <2>2
<1>12. Mentions(Range(RoutineLines(body, t))) = body
  <2>1. Mentions(Range(start)) = body
    <3>1. Mentions(Range(start)) = Mentions(Range(first)) \cup Mentions(Range(middle))
      BY <1>7, MentionsJoin
    <3> QED
      BY <1>11, <3>1
  <2>2. Mentions(Range(RoutineLines(body, t))) = Mentions(Range(start)) \cup Mentions(Range(last))
    BY <1>8, MentionsJoin
  <2> QED
    BY <1>11, <2>1, <2>2
<1> QED
  BY <1>8, <1>10, <1>12

\* The lines of a block: the mark it begins with, and a block that mentions what its
\* routines do.
LEMMA BlockLinesAre ==
  ASSUME NEW block \in Seq(SUBSET Spellings), NEW t \in Names
  PROVE  /\ BlockLines(block, t) \in Seq(Line) /\ BlockLines(block, t) # << >>
         /\ Head(BlockLines(block, t)) = BeginLine /\ IsBlock(Tail(BlockLines(block, t)))
         /\ NamesOn(Tail(BlockLines(block, t))) = UNION Range(block)
<1> DEFINE parts == [i \in DOMAIN block |-> RoutineLines(block[i], t)]
           flat == FlattenSeq(parts)
           first == <<BeginLine>>
           last == <<EndLine>>
           lines == flat \o last
           all == first \o lines
           n == Len(flat)
<1>1. DOMAIN block = 1..Len(block) /\ Len(block) \in Nat
      /\ \A i \in DOMAIN block : block[i] \in SUBSET Spellings
  BY LenProperties
<1>2. \A i \in DOMAIN block :
        /\ RoutineLines(block[i], t) \in Seq(Line)
        /\ \A line \in Range(RoutineLines(block[i], t)) : Plain(line)
        /\ Mentions(Range(RoutineLines(block[i], t))) = block[i]
  BY <1>1, RoutineLinesAre
<1>3. /\ parts \in [1..Len(block) -> Seq(Line)] /\ DOMAIN parts = DOMAIN block
      /\ \A i \in DOMAIN block : parts[i] = RoutineLines(block[i], t)
  BY <1>1, <1>2
<1> HIDE DEF parts
<1>4. parts \in Seq(Seq(Line))
  BY SMTT(30), <1>1, <1>3, SeqDef
<1>5. flat \in Seq(Line) /\ Range(flat) = UNION {Range(parts[i]) : i \in DOMAIN parts}
  BY <1>4, FlattenIs
<1> HIDE DEF flat
<1>6. \A line \in Range(flat) : Plain(line)
  BY <1>2, <1>3, <1>5
<1>7. Mentions(Range(flat)) = UNION Range(block)
  <2>1. Range(block) = {block[i] : i \in DOMAIN block}
    BY DEF Range
  <2>2. Mentions(Range(flat)) = UNION {Mentions(Range(parts[i])) : i \in DOMAIN parts}
    BY <1>5 DEF Mentions
  <2>3. \A i \in DOMAIN parts : Mentions(Range(parts[i])) = block[i]
    BY <1>2, <1>3
  <2> QED
    BY <1>3, <2>1, <2>2, <2>3
<1>8. /\ first \in Seq(Line) /\ Len(first) = 1 /\ first[1] = BeginLine
      /\ last \in Seq(Line) /\ Len(last) = 1 /\ last[1] = EndLine /\ Range(last) = {EndLine}
      /\ EndLine.mentions = {}
  BY MarksAre, OneLineList
<1>9. BlockLines(block, t) = (first \o flat) \o last
  BY DEF BlockLines, parts, flat, BeginLine, EndLine
<1> HIDE DEF first, last
<1>10. BlockLines(block, t) = all
  <2>1. (first \o flat) \o last = first \o (flat \o last)
    BY SMTT(30), <1>5, <1>8, ConcatAssociative
  <2> QED
    BY <1>9, <2>1
<1>11. n \in Nat /\ DOMAIN flat = 1..n
  BY <1>5, LenProperties
<1> HIDE DEF n
<1>12. /\ lines \in Seq(Line) /\ Len(lines) = n + 1 /\ Range(lines) = Range(flat) \cup {EndLine}
       /\ \A i \in 1..(n + 1) : lines[i] = IF i <= n THEN flat[i] ELSE last[i - n]
  <2>1. /\ lines \in Seq(Line) /\ Len(lines) = Len(flat) + Len(last)
        /\ \A i \in 1..(Len(flat) + Len(last)) :
             lines[i] = IF i <= Len(flat) THEN flat[i] ELSE last[i - Len(flat)]
    BY ZenonT(30), <1>5, <1>8, ConcatProperties
  <2>2. Range(lines) = Range(flat) \cup {EndLine}
    BY <1>5, <1>8, RangeConcatenation
  <2> QED
    BY <1>8, <2>1, <2>2 DEF n
<1> HIDE DEF lines
<1>13. IsBlock(lines)
  <2>1. lines # << >> /\ Len(lines) - 1 = n
    BY <1>11, <1>12, EmptySeq
  <2>2. lines[n + 1] = EndLine
    <3>1. n + 1 \in 1..(n + 1) /\ ~(n + 1 <= n) /\ (n + 1) - n = 1
      BY <1>11
    <3> QED
      BY <1>8, <1>12, <3>1
  <2>3. \A i \in 1..n : i \in 1..(n + 1) /\ i <= n
    BY <1>11
  <2>5. \A i \in 1..n : flat[i] \in Range(flat)
    BY <1>11 DEF Range
  <2>4. \A i \in 1..n : Plain(lines[i])
    BY <1>6, <1>12, <2>3, <2>5
  <2> QED
    BY <1>12, <2>1, <2>2, <2>4 DEF IsBlock
<1>14. NamesOn(lines) = UNION Range(block)
  <2>1. NamesOn(lines) = Mentions(Range(lines))
    BY <1>12, NamesOnIs
  <2>2. Mentions({EndLine}) = {}
    BY <1>8 DEF Mentions
  <2>3. Mentions(Range(lines)) = Mentions(Range(flat)) \cup Mentions({EndLine})
    BY <1>12, MentionsJoin
  <2> QED
    BY <1>7, <2>1, <2>2, <2>3
<1>15. /\ all \in Seq(Line) /\ Len(all) = n + 2 /\ all[1] = BeginLine
       /\ \A i \in 1..(n + 1) : all[i + 1] = lines[i]
  <2>1. /\ all \in Seq(Line) /\ Len(all) = 1 + (n + 1)
        /\ \A i \in 1..(1 + (n + 1)) : all[i] = IF i <= 1 THEN first[i] ELSE lines[i - 1]
    <3>1. /\ first \o lines \in Seq(Line) /\ Len(first \o lines) = Len(first) + Len(lines)
          /\ \A i \in 1..(Len(first) + Len(lines)) :
               (first \o lines)[i] = IF i <= Len(first) THEN first[i] ELSE lines[i - Len(first)]
      <4>1. first \in Seq(Line) /\ lines \in Seq(Line)
        BY <1>8, <1>12
      <4> QED
        BY <4>1, ConcatProperties
    <3> QED
      BY <1>8, <1>12, <3>1
  <2>2. \A i \in 1..(n + 1) : i + 1 \in 1..(1 + (n + 1)) /\ ~(i + 1 <= 1) /\ (i + 1) - 1 = i
    BY <1>11
  <2>3. 1 \in 1..(1 + (n + 1)) /\ 1 <= 1 /\ 1 + (n + 1) = n + 2
    BY <1>11
  <2> QED
    BY <1>8, <1>12, <2>1, <2>2, <2>3
<1> HIDE DEF all
<1>16. all # << >> /\ Head(all) = BeginLine
  BY <1>11, <1>15, EmptySeq
<1>17. Tail(all) = lines
  <2>1. Tail(all) \in Seq(Line) /\ Len(Tail(all)) = n + 1
        /\ \A i \in 1..(n + 1) : Tail(all)[i] = lines[i]
    BY <1>11, <1>15, <1>16, TailIs
  <2> QED
    BY <1>12, <2>1, SeqEqual
<1> QED
  BY <1>10, <1>13, <1>14, <1>15, <1>16, <1>17
-----------------------------------------------------------------------------
(* Reading and writing keep what is meant.                                 *)

LEMMA SingleIs ==
  ASSUME NEW line, NEW list, list = <<line>>
  PROVE  Head(list) = line /\ Tail(list) = << >> /\ list # << >> /\ list[1] = line /\ Len(list) = 1
OBVIOUS

LEMMA KeysRead ==
  ASSUME NEW meant, NEW read \in Seq(Tables \X Tables), NEW ahead \in Seq(Tables \X Tables),
         ahead # << >>, KeysExact(meant, read, ahead)
  PROVE  /\ Append(read, Head(ahead)) \in Seq(Tables \X Tables)
         /\ KeysExact(meant, Append(read, Head(ahead)), Tail(ahead))
<1> DEFINE T == Tables \X Tables
<1>1. Head(ahead) \in T /\ Tail(ahead) \in Seq(T)
  BY TailIs
<1> HIDE DEF T
<1>2. Append(read, Head(ahead)) \in Seq(T)
  BY <1>1, AppendProperties DEF T
<1>3. ASSUME NEW x \in T, Counted(meant, x) = Times(read, x) + Times(ahead, x)
      PROVE  Counted(meant, x) = Times(Append(read, Head(ahead)), x) + Times(Tail(ahead), x)
  <2>1. Times(Append(read, Head(ahead)), x)
          = Times(read, x) + (IF Head(ahead) = x THEN 1 ELSE 0)
    BY <1>1, TimesAppend DEF T
  <2>2. Times(ahead, x) = Times(Tail(ahead), x) + (IF Head(ahead) = x THEN 1 ELSE 0)
    BY TimesTail DEF T
  <2>3. Times(read, x) \in Nat /\ Times(Tail(ahead), x) \in Nat
    BY <1>1, TimesType DEF T
  <2> QED
    BY <1>3, <2>1, <2>2, <2>3
<1> QED
  BY <1>2, <1>3 DEF KeysExact, T

LEMMA KeysWritten ==
  ASSUME NEW meant, NEW read \in Seq(Tables \X Tables), NEW list \in Seq(Tables \X Tables),
         KeysExact(meant, read, << >>)
  PROVE  KeysExact(AddEach(meant, list), read, list)
<1>1. ASSUME NEW x \in Tables \X Tables, Counted(meant, x) = Times(read, x) + Times(<< >>, x)
      PROVE  Counted(AddEach(meant, list), x) = Times(read, x) + Times(list, x)
  <2>1. Counted(AddEach(meant, list), x) = Counted(meant, x) + Times(list, x)
    BY AddEachCounts
  <2>2. Times(read, x) \in Nat /\ Times(list, x) \in Nat
    BY TimesType
  <2> QED
    BY <1>1, <2>1, <2>2, TimesEmpty
<1> QED
  BY <1>1 DEF KeysExact

LEMMA KeyAltered ==
  ASSUME NEW meant, NEW read \in Seq(Tables \X Tables), NEW key, KeysExact(meant, read, << >>)
  PROVE  KeysExact(AddAll(meant, {key}), read, <<key>>)
<1>1. ASSUME NEW x \in Tables \X Tables, Counted(meant, x) = Times(read, x) + Times(<< >>, x)
      PROVE  Counted(AddAll(meant, {key}), x) = Times(read, x) + Times(<<key>>, x)
  <2>1. Counted(AddAll(meant, {key}), x) = Counted(meant, x) + (IF x \in {key} THEN 1 ELSE 0)
    BY AddAllCounts
  <2>2. Times(<<key>>, x) = IF key = x THEN 1 ELSE 0
    BY TimesOne
  <2>3. Times(read, x) \in Nat
    BY TimesType
  <2> QED
    BY <1>1, <2>1, <2>2, <2>3, TimesEmpty
<1> QED
  BY <1>1 DEF KeysExact

LEMMA TablesRead ==
  ASSUME NEW meant, NEW read \in Seq(Tables), IsInjective(read), NEW t \in Tables,
         TablesExact(meant, read, {t})
  PROVE  /\ t \notin ToSet(read) /\ Append(read, t) \in Seq(Tables)
         /\ IsInjective(Append(read, t)) /\ TablesExact(meant, Append(read, t), {})
<1> DEFINE n == Len(read)
           L == Append(read, t)
<1>1. n \in Nat /\ DOMAIN read = 1..n
  BY LenProperties
<1>2. L \in Seq(Tables) /\ Len(L) = n + 1 /\ (\A i \in 1..n : L[i] = read[i]) /\ L[n + 1] = t
  BY AppendProperties
<1> HIDE DEF n, L
<1>3. DOMAIN L = 1..(n + 1)
  BY <1>2, LenProperties
<1>4. t \notin Range(read)
  BY DEF TablesExact
<1>5. \A i \in 1..(n + 1) : i = n + 1 \/ i \in 1..n
  BY <1>1
<1>6. \A i \in 1..n : i \in 1..(n + 1) /\ L[i] # t
  <2>1. \A i \in 1..n : i \in 1..(n + 1)
    BY <1>1
  <2>2. \A i \in 1..n : read[i] \in Range(read)
    BY <1>1 DEF Range
  <2> QED
    BY <1>2, <1>4, <2>1, <2>2
<1>7. n + 1 \in 1..(n + 1)
  BY <1>1
<1>8. IsInjective(L)
  <2>1. \A i, j \in 1..n : L[i] = L[j] => i = j
    BY <1>1, <1>2 DEF IsInjective
  <2> QED
    BY <1>2, <1>3, <1>5, <1>6, <2>1 DEF IsInjective
<1>9. Range(L) = Range(read) \cup {t}
  <2>1. Range(L) \subseteq Range(read) \cup {t}
    BY <1>1, <1>2, <1>3, <1>5 DEF Range
  <2>2. Range(read) \cup {t} \subseteq Range(L)
    BY <1>1, <1>2, <1>3, <1>6, <1>7 DEF Range
  <2> QED
    BY <2>1, <2>2
<1>10. ToSet(read) = Range(read)
  BY DEF ToSet, Range
<1>11. TablesExact(meant, L, {})
  BY <1>9 DEF TablesExact
<1> QED
  BY <1>2, <1>4, <1>8, <1>10, <1>11 DEF L

\* The counts of pairs, after those of the tables mentioned.
AreCounts(counts) == DOMAIN counts \subseteq PairsOf(Tables) /\ counts \in [DOMAIN counts -> Nat]
WithPairs(counts, S) ==
  [p \in DOMAIN counts \cup PairsOf(S) |->
     (IF p \in DOMAIN counts THEN counts[p] ELSE 0) + (IF p \subseteq S THEN 1 ELSE 0)]

LEMMA PairsRead ==
  ASSUME NEW meant, NEW read, AreCounts(read), NEW S \in SUBSET Tables, NEW but,
         PairsExact(meant, read, S, but)
  PROVE  AreCounts(WithPairs(read, S)) /\ PairsExact(meant, WithPairs(read, S), {}, but)
<1> DEFINE W == WithPairs(read, S)
           D == DOMAIN read \cup PairsOf(S)
<1>1. PairsOf(S) \subseteq PairsOf(Tables)
  BY DEF PairsOf
<1>2. \A p \in DOMAIN read : read[p] \in Nat
  BY DEF AreCounts
<1>3. DOMAIN W = D /\ \A p \in D :
        W[p] = (IF p \in DOMAIN read THEN read[p] ELSE 0) + (IF p \subseteq S THEN 1 ELSE 0)
  BY DEF WithPairs
<1>4. \A p \in D : W[p] \in Nat
  BY <1>2, <1>3
<1>5. W = [p \in D |-> W[p]]
  BY DEF WithPairs
<1>6. AreCounts(W)
  <2> HIDE DEF W
  <2>1. W \in [D -> Nat]
    BY <1>4, <1>5
  <2> QED
    BY <1>1, <1>3, <2>1 DEF AreCounts
<1>7. ASSUME NEW p \in PairsOf(Tables)
      PROVE  Counted(W, p) = Counted(read, p) + (IF p \subseteq S THEN 1 ELSE 0)
             /\ Counted(W, p) \in Nat /\ ~(p \subseteq {})
  <2>1. p \subseteq S => p \in PairsOf(S)
    BY DEF PairsOf
  <2>2. p # {}
    BY FS_EmptySet DEF PairsOf
  <2> HIDE DEF W
  <2>3. CASE p \in D
    BY <1>2, <1>3, <2>2, <2>3 DEF Counted
  <2>4. CASE p \notin D
    BY <1>3, <2>1, <2>2, <2>4 DEF Counted
  <2> QED
    BY <2>3, <2>4
<1> HIDE DEF W
<1>8. PairsExact(meant, W, {}, but)
  BY <1>7 DEF PairsExact
<1> QED
  BY <1>6, <1>8 DEF W

LEMMA PairIs ==
  ASSUME NEW S, NEW p \in PairsOf(S)
  PROVE  p # {} /\ p \subseteq S /\ \A T : p \in PairsOf(T) <=> p \subseteq T
<1>1. p \subseteq S /\ Cardinality(p) = 2
  BY DEF PairsOf
<1>2. Cardinality({}) = 0
  BY FS_EmptySet
<1>3. p # {}
  BY <1>1, <1>2
<1>4. \A T : p \in PairsOf(T) <=> p \subseteq T
  BY <1>1 DEF PairsOf
<1> QED
  BY <1>1, <1>3, <1>4

\* A block of one routine at most mentions all of a pair as often as its routines do.
LEMMA MentioningIs ==
  ASSUME NEW block \in Seq(SUBSET Spellings), NEW p \in PairsOf(Tables),
         Len(block) <= 1 \/ p \notin PairsAll(block)
  PROVE  /\ Mentioning(block, p)
              = IF p \subseteq MeantIn(UNION Range(block)) THEN 1 ELSE 0
         /\ p \notin PairsEach(block) => Mentioning(block, p) = 0
<1> DEFINE all == MeantIn(UNION Range(block))
           hits == {i \in DOMAIN block : p \subseteq MeantIn(block[i])}
<1>1. p # {} /\ \A T : p \in PairsOf(T) <=> p \subseteq T
  BY PairIs
<1>2. Len(block) \in Nat /\ DOMAIN block = 1..Len(block)
  BY LenProperties
<1>3. \A i \in DOMAIN block : MeantIn(block[i]) \subseteq all
  BY DEF MeantIn, Range
<1>4. Mentioning(block, p) = Cardinality(hits)
  BY DEF Mentioning
<1>5. p \notin PairsEach(block) => hits = {}
  <2>1. \A i \in DOMAIN block : p \subseteq MeantIn(block[i]) => p \in PairsEach(block)
    BY <1>1 DEF PairsEach
  <2> QED
    BY <2>1
<1>6. ~(p \subseteq all) => hits = {}
  <2> HIDE DEF all
  <2> QED
    BY <1>3
<1>7. p \subseteq all => hits = {1}
  <2> SUFFICES ASSUME p \subseteq all
               PROVE  hits = {1}
    OBVIOUS
  <2>1. Len(block) <= 1
    BY <1>1 DEF PairsAll
  <2>2. Range(block) # {}
    BY <1>1 DEF MeantIn
  <2>3. DOMAIN block = {1}
    BY <1>2, <2>1, <2>2 DEF Range
  <2>4. Range(block) = {block[1]}
    BY <2>3 DEF Range
  <2>5. UNION Range(block) = block[1]
    BY <2>4
  <2>6. MeantIn(block[1]) = all
    BY <2>5
  <2> HIDE DEF all
  <2> QED
    BY <2>3, <2>6
<1>8. Cardinality({}) = 0 /\ Cardinality({1}) = 1
  <2>1. Cardinality({}) = 0
    BY FS_EmptySet
  <2>2. Cardinality({1}) = 1
    BY FS_Singleton
  <2> QED
    BY <2>1, <2>2
<1> HIDE DEF hits
<1> QED
  BY <1>4, <1>5, <1>6, <1>7, <1>8

\* A block ahead: each of its pairs is meant as often as it is read, unless several
\* routines share the block.
WithBlock(meant, block) ==
  [p \in DOMAIN meant \cup PairsEach(block) |-> Counted(meant, p) + Mentioning(block, p)]
WithShared(but, block) == IF Len(block) <= 1 THEN but ELSE but \cup PairsAll(block)

LEMMA PairsWritten ==
  ASSUME NEW meant, NEW read, AreCounts(read), NEW block \in Seq(SUBSET Spellings),
         NEW but, PairsExact(meant, read, {}, but)
  PROVE  PairsExact(WithBlock(meant, block), read, MeantIn(UNION Range(block)),
                    WithShared(but, block))
<1> DEFINE all == MeantIn(UNION Range(block))
           W == WithBlock(meant, block)
<1>1. ASSUME NEW p \in PairsOf(Tables), p \notin WithShared(but, block)
      PROVE  Counted(W, p) = Counted(read, p) + (IF p \subseteq all THEN 1 ELSE 0)
  <2>1. p # {}
    BY PairIs
  <2>2. p \notin but /\ (Len(block) <= 1 \/ p \notin PairsAll(block))
    BY <1>1 DEF WithShared
  <2>3. /\ Mentioning(block, p) = IF p \subseteq all THEN 1 ELSE 0
        /\ p \notin PairsEach(block) => Mentioning(block, p) = 0
    BY <2>2, MentioningIs
  <2>4. Counted(read, p) \in Nat
    BY DEF Counted, AreCounts
  <2>5. Counted(meant, p) = Counted(read, p) + 0
    BY <2>1, <2>2 DEF PairsExact
  <2> HIDE DEF all
  <2>6. CASE p \in DOMAIN meant \cup PairsEach(block)
    <3>1. Counted(W, p) = Counted(meant, p) + Mentioning(block, p)
      BY <2>6 DEF WithBlock, Counted
    <3> QED
      BY <2>3, <2>4, <2>5, <3>1
  <2>7. CASE p \notin DOMAIN meant \cup PairsEach(block)
    <3>1. Counted(W, p) = 0 /\ Counted(meant, p) = 0 /\ Mentioning(block, p) = 0
      BY <2>3, <2>7 DEF WithBlock, Counted
    <3> QED
      BY <2>3, <2>4, <2>5, <3>1
  <2> QED
    BY <2>6, <2>7
<1> QED
  BY <1>1 DEF PairsExact
-----------------------------------------------------------------------------
(* The inductive invariant: what is read, what is ahead and what is meant. *)

DumpType ==
  /\ pending \in Seq(Line)
  /\ own \in Dbs \cup {NoDb} /\ current_db \in Dbs \cup {NoDb}
  /\ tables \in Seq(Tables) /\ IsInjective(tables)
  /\ foreign_keys \in Seq(Tables \X Tables)
  /\ mentioned \in SUBSET Tables /\ AreCounts(pairs)

\* No statement is ahead.
KeysRest   == KeysExact(keys, foreign_keys, << >>)
TablesRest == TablesExact(declared, tables, {})
PairsRest  == PairsExact(joined, pairs, {}, shared)

Idle ==
  /\ pending = << >> /\ mode \in {"outside", "done"} /\ current_db = own /\ mentioned = {}
  /\ KeysRest /\ TablesRest /\ PairsRest

UseAhead ==
  /\ own # NoDb /\ pending = <<UseLine(own)>> /\ mode = "outside" /\ mentioned = {}
  /\ KeysRest /\ TablesRest /\ PairsRest

\* A statement is ahead, and the reader is where the writer was.
Before == mode = "outside" /\ current_db = own /\ mentioned = {}

IsView(list) == \E S \in SUBSET Spellings : list = <<NonTableLine(S)>>
ViewAhead == Before /\ IsView(pending) /\ KeysRest /\ TablesRest /\ PairsRest

Altered(t, r) ==
  /\ pending = <<AlterLine(t, r)>>
  /\ KeysExact(keys, foreign_keys, <<<<<<own, t>>, <<own, r>>>>>>)
AlterAhead == Before /\ TablesRest /\ PairsRest /\ \E t, r \in Names : Altered(t, r)

ShortTable(t, refs) ==
  /\ OneLineKeys <= 1 => Len(refs) <= 1
  /\ pending = OneLine(t, refs)
  /\ KeysExact(keys, foreign_keys, MeantKeys(own, t, refs))
  /\ TablesExact(declared, tables, {<<own, t>>})
ShortTableAhead ==
  Before /\ PairsRest /\ \E t \in Names, refs \in Seq(Names) : ShortTable(t, refs)

LongTable(t) ==
  /\ pending # << >> /\ Head(pending) = CreateLine(t) /\ IsBody(Tail(pending))
  /\ KeysExact(keys, foreign_keys, KeysOn(own, <<own, t>>, Tail(pending)))
  /\ TablesExact(declared, tables, {<<own, t>>})
LongTableAhead == Before /\ PairsRest /\ \E t \in Names : LongTable(t)

InBody ==
  /\ mode = "table" /\ current_db = own /\ mentioned = {}
  /\ inTable \in Tables /\ IsBody(pending)
  /\ KeysExact(keys, foreign_keys, KeysOn(own, inTable, pending))
  /\ TablesRest /\ PairsRest

BlockAhead ==
  /\ Before /\ pending # << >> /\ Head(pending) = BeginLine /\ IsBlock(Tail(pending))
  /\ PairsExact(joined, pairs, MentionedOn(own, Tail(pending)), shared)
  /\ KeysRest /\ TablesRest

InBlock ==
  /\ mode = "routine" /\ current_db = own /\ IsBlock(pending)
  /\ PairsExact(joined, pairs, mentioned \cup MentionedOn(own, pending), shared)
  /\ KeysRest /\ TablesRest

Phase ==
  \/ Idle \/ UseAhead \/ ViewAhead \/ AlterAhead \/ ShortTableAhead \/ LongTableAhead
  \/ InBody \/ BlockAhead \/ InBlock

DumpInv == DumpType /\ Phase

\* The reader has read all that was written only between two statements.
LEMMA Waiting ==
  ASSUME Phase
  PROVE  /\ pending = << >> => Idle
         /\ mode = "done" => Idle
<1>1. UseAhead => pending # << >> /\ mode = "outside"
  BY DEF UseAhead
<1>2. ViewAhead => pending # << >> /\ mode = "outside"
  BY DEF ViewAhead, IsView, Before
<1>3. AlterAhead => pending # << >> /\ mode = "outside"
  BY DEF AlterAhead, Altered, Before
<1>4. ShortTableAhead => pending # << >> /\ mode = "outside"
  <2> SUFFICES ASSUME ShortTableAhead
               PROVE  pending # << >> /\ mode = "outside"
    OBVIOUS
  <2>1. PICK t \in Names, refs \in Seq(Names) : ShortTable(t, refs)
    BY DEF ShortTableAhead
  <2>2. pending = <<TheLine(t, refs)>>
    BY <2>1, TheLineIs DEF ShortTable
  <2> QED
    BY <2>2 DEF ShortTableAhead, Before
<1>5. LongTableAhead => pending # << >> /\ mode = "outside"
  BY DEF LongTableAhead, LongTable, Before
<1>6. InBody => pending # << >> /\ mode = "table"
  BY DEF InBody, IsBody
<1>7. BlockAhead => pending # << >> /\ mode = "outside"
  BY DEF BlockAhead, Before
<1>8. InBlock => pending # << >> /\ mode = "routine"
  BY DEF InBlock, IsBlock
<1> QED
  BY <1>1, <1>2, <1>3, <1>4, <1>5, <1>6, <1>7, <1>8 DEF Phase

LEMMA StartsIdle == Init => DumpInv
<1> SUFFICES ASSUME Init
             PROVE  DumpInv
  OBVIOUS
<1> USE DEF Init, DumpInit
<1> DEFINE none == << >>
<1>1. /\ none \in Seq(Line) /\ none \in Seq(Tables) /\ none \in Seq(Tables \X Tables)
      /\ IsInjective(none) /\ AreCounts(none) /\ Range(none) = {}
  BY DEF IsInjective, AreCounts, Range
<1>2. \A x : Counted(none, x) = 0
  BY DEF Counted
<1>3. \A x : Times(none, x) = 0
  BY TimesEmpty
<1>4. KeysExact(none, none, none)
  <2> HIDE DEF none
  <2> QED
    BY <1>2, <1>3 DEF KeysExact
<1>5. TablesExact({}, none, {})
  BY <1>1 DEF TablesExact
<1>6. \A p \in PairsOf(Tables) : ~(p \subseteq {})
  BY FS_EmptySet DEF PairsOf
<1>7. PairsExact(none, none, {}, {})
  <2> HIDE DEF none
  <2> QED
    BY <1>2, <1>6 DEF PairsExact
<1>8. Idle
  BY <1>4, <1>5, <1>7 DEF Idle, KeysRest, TablesRest, PairsRest
<1>9. DumpType
  BY <1>1 DEF DumpType
<1> QED
  BY <1>8, <1>9 DEF DumpInv, Phase

-----------------------------------------------------------------------------
(* Writing a statement.                                                    *)

\* What writing finds and leaves alone.
Resting == DumpType /\ Idle /\ mode = "outside" /\ UNCHANGED dumpVars

LEMMA WriteFinds ==
  ASSUME DumpInv, NEW lines, Write(lines)
  PROVE  Resting /\ pending' = lines
BY Waiting DEF DumpInv, Write, Resting, Idle

LEMMA WriteKeepsType ==
  ASSUME Resting, pending' \in Seq(Line), own' \in Dbs \cup {NoDb}
  PROVE  DumpType'
BY DEF Resting, DumpType, dumpVars

LEMMA WriteUseStep == DumpInv /\ WriteUse => DumpInv'
<1> SUFFICES ASSUME DumpInv, NEW db \in Dbs, Write(<<UseLine(db)>>), own' = db,
                    UNCHANGED <<declared, keys, joined, shared>>
             PROVE  DumpInv'
  BY DEF WriteUse
<1>1. Resting /\ pending' = <<UseLine(db)>>
  BY WriteFinds
<1>2. UseLine(db) \in Line /\ own' # NoDb
  BY UseLineIs, NamesAssumption
<1>3. pending' \in Seq(Line)
  BY <1>1, <1>2
<1>4. DumpType'
  BY <1>1, <1>3, WriteKeepsType
<1>5. UseAhead'
  BY <1>1, <1>2
     DEF UseAhead, Resting, Idle, KeysRest, TablesRest, PairsRest, dumpVars
<1> QED
  BY <1>4, <1>5 DEF DumpInv, Phase

LEMMA WriteViewStep == DumpInv /\ WriteView => DumpInv'
<1> DEFINE names == UNION {UNION Range(block) : block \in Blocks}
<1> SUFFICES ASSUME DumpInv, Write(<<NonTableLine(names)>>),
                    UNCHANGED <<own, declared, keys, joined, shared>>
             PROVE  DumpInv'
  BY DEF WriteView
<1>1. names \in SUBSET Spellings
  <2>1. \A block \in Blocks : Range(block) \subseteq SUBSET Spellings
    BY StatementsAssumption DEF Range
  <2> QED
    BY <2>1
<1> HIDE DEF names
<1>2. Resting /\ pending' = <<NonTableLine(names)>>
  BY WriteFinds
<1>3. NonTableLine(names) \in Line
  BY <1>1, NonTableLineIs
<1>4. pending' \in Seq(Line)
  BY <1>2, <1>3
<1>5. DumpType'
  BY <1>2, <1>4, WriteKeepsType DEF Resting, DumpType
<1>6. ViewAhead'
  BY <1>1, <1>2
     DEF ViewAhead, IsView, Before, Resting, Idle, KeysRest, TablesRest, PairsRest, dumpVars
<1> QED
  BY <1>5, <1>6 DEF DumpInv, Phase

LEMMA WriteAlterStep == DumpInv /\ WriteAlter => DumpInv'
<1> SUFFICES ASSUME DumpInv, NEW t \in Names, NEW r \in Names, Write(<<AlterLine(t, r)>>),
                    keys' = AddAll(keys, {<<<<own, t>>, <<own, r>>>>}),
                    UNCHANGED <<own, declared, joined, shared>>
             PROVE  DumpInv'
  BY DEF WriteAlter
<1> DEFINE key == <<<<own, t>>, <<own, r>>>>
<1>1. Resting /\ pending' = <<AlterLine(t, r)>>
  BY WriteFinds
<1>2. AlterLine(t, r) \in Line
  BY AlterLineIs
<1>3. pending' \in Seq(Line)
  BY <1>1, <1>2
<1>4. DumpType'
  BY <1>1, <1>3, WriteKeepsType DEF Resting, DumpType
<1>5. KeysExact(keys', foreign_keys', <<key>>)
  <2>1. foreign_keys \in Seq(Tables \X Tables) /\ KeysExact(keys, foreign_keys, << >>)
    BY <1>1 DEF Resting, DumpType, Idle, KeysRest
  <2>2. foreign_keys' = foreign_keys
    BY <1>1 DEF Resting, dumpVars
  <2> HIDE DEF key
  <2>3. KeysExact(AddAll(keys, {key}), foreign_keys, <<key>>)
    BY <2>1, KeyAltered
  <2> QED
    BY <2>2, <2>3 DEF key
<1>6. Altered(t, r)'
  BY <1>1, <1>5 DEF Altered
<1>7. AlterAhead'
  <2>1. Before' /\ TablesRest' /\ PairsRest'
    BY <1>1 DEF Before, Resting, Idle, TablesRest, PairsRest, dumpVars
  <2> QED
    BY <1>6, <2>1 DEF AlterAhead
<1> QED
  BY <1>4, <1>7 DEF DumpInv, Phase
\* The foreign keys of a CREATE TABLE are pairs of tables.
LEMMA MeantKeysAre ==
  ASSUME NEW db \in Dbs \cup {NoDb}, NEW t \in Names, NEW refs \in Seq(Names)
  PROVE  /\ MeantKeys(db, t, refs) \in Seq(Tables \X Tables)
         /\ Len(MeantKeys(db, t, refs)) = Len(refs)
         /\ \A i \in 1..Len(refs) :
              refs[i] \in Names /\ MeantKeys(db, t, refs)[i] = <<<<db, t>>, <<db, refs[i]>>>>
<1>1. Len(refs) \in Nat /\ DOMAIN refs = 1..Len(refs) /\ \A i \in 1..Len(refs) : refs[i] \in Names
  BY LenProperties
<1> DEFINE ks == MeantKeys(db, t, refs)
<1>2. ks = [i \in 1..Len(refs) |-> <<<<db, t>>, <<db, refs[i]>>>>]
  BY <1>1 DEF MeantKeys
<1>3. \A r \in Names : <<db, r>> \in Tables
  BY DEF Tables
<1>4. ks \in [1..Len(refs) -> Tables \X Tables]
  BY <1>1, <1>2, <1>3
<1>5. \A i \in 1..Len(refs) : ks[i] = <<<<db, t>>, <<db, refs[i]>>>>
  BY <1>2
<1> HIDE DEF ks
<1>6. ks \in Seq(Tables \X Tables)
  BY <1>1, <1>4, SeqDef
<1>7. Len(ks) = Len(refs)
  BY <1>1, <1>4, <1>6, LenProperties
<1> QED
  BY <1>1, <1>5, <1>6, <1>7 DEF ks

LEMMA WriteTableStep == DumpInv /\ WriteTable => DumpInv'
<1> SUFFICES ASSUME DumpInv, NEW t \in Names, NEW refs \in KeyLists, NEW short \in BOOLEAN,
                    <<own, t>> \notin declared, short => Len(refs) <= OneLineKeys,
                    Write(IF short THEN OneLine(t, refs) ELSE ManyLines(t, refs)),
                    declared' = declared \cup {<<own, t>>},
                    keys' = AddEach(keys, MeantKeys(own, t, refs)),
                    UNCHANGED <<own, joined, shared>>
             PROVE  DumpInv'
  BY DEF WriteTable, MeantKeys
<1>1. Resting /\ pending' = (IF short THEN OneLine(t, refs) ELSE ManyLines(t, refs))
  BY WriteFinds
<1>2. refs \in Seq(Names) /\ own \in Dbs \cup {NoDb} /\ own' = own
  BY <1>1, StatementsAssumption DEF Resting, DumpType
<1>3. OneLine(t, refs) \in Seq(Line)
  <2>1. OneLine(t, refs) = <<TheLine(t, refs)>> /\ TheLine(t, refs) \in Line
    BY <1>2, TheLineIs
  <2> QED
    BY <2>1, OneLineList
<1>4. /\ ManyLines(t, refs) \in Seq(Line) /\ ManyLines(t, refs) # << >>
      /\ Head(ManyLines(t, refs)) = CreateLine(t) /\ IsBody(Tail(ManyLines(t, refs)))
      /\ KeysOn(own, <<own, t>>, Tail(ManyLines(t, refs))) = MeantKeys(own, t, refs)
  BY <1>2, ManyLinesAre
<1>5. pending' \in Seq(Line)
  BY <1>1, <1>3, <1>4
<1>6. DumpType'
  BY <1>1, <1>2, <1>5, WriteKeepsType
<1>7. Before' /\ PairsRest'
  BY <1>1 DEF Before, Resting, Idle, PairsRest, dumpVars
<1>8. KeysExact(keys', foreign_keys', MeantKeys(own', t, refs))
  <2>1. foreign_keys \in Seq(Tables \X Tables) /\ KeysExact(keys, foreign_keys, << >>)
    BY <1>1 DEF Resting, DumpType, Idle, KeysRest
  <2>2. foreign_keys' = foreign_keys
    BY <1>1 DEF Resting, dumpVars
  <2>3. KeysExact(AddEach(keys, MeantKeys(own, t, refs)), foreign_keys, MeantKeys(own, t, refs))
    BY <1>2, <2>1, KeysWritten, MeantKeysAre
  <2> QED
    BY <1>2, <2>2, <2>3
<1>9. TablesExact(declared', tables', {<<own', t>>})
  <2>1. TablesExact(declared, tables, {}) /\ tables' = tables
    BY <1>1 DEF Resting, Idle, TablesRest, dumpVars
  <2> QED
    BY <1>2, <2>1 DEF TablesExact
<1>10. CASE short
  <2>1. OneLineKeys <= 1 => Len(refs) <= 1
    <3>1. Len(refs) \in Nat /\ OneLineKeys \in Nat
      BY <1>2, StatementsAssumption, LenProperties
    <3> QED
      BY <1>10, <3>1
  <2>2. ShortTable(t, refs)'
    BY <1>1, <1>8, <1>9, <1>10, <2>1 DEF ShortTable
  <2>3. ShortTableAhead'
    BY <1>2, <1>7, <2>2 DEF ShortTableAhead
  <2> QED
    BY <1>6, <2>3 DEF DumpInv, Phase
<1>11. CASE ~short
  <2>1. LongTable(t)'
    BY <1>1, <1>2, <1>4, <1>8, <1>9, <1>11 DEF LongTable
  <2>2. LongTableAhead'
    BY <1>7, <2>1 DEF LongTableAhead
  <2> QED
    BY <1>6, <2>2 DEF DumpInv, Phase
<1> QED
  BY <1>10, <1>11

LEMMA WriteRoutinesStep == DumpInv /\ WriteRoutines => DumpInv'
<1> SUFFICES ASSUME DumpInv, NEW block \in Blocks, NEW t \in Names,
                    Write(BlockLines(block, t)),
                    joined' = WithBlock(joined, block), shared' = WithShared(shared, block),
                    UNCHANGED <<own, declared, keys>>
             PROVE  DumpInv'
  BY DEF WriteRoutines, WithBlock, WithShared
<1> DEFINE lines == BlockLines(block, t)
           S == MentionedOn(own, Tail(lines))
<1>1. Resting /\ pending' = lines
  BY WriteFinds
<1>2. /\ lines \in Seq(Line) /\ lines # << >> /\ Head(lines) = BeginLine
      /\ IsBlock(Tail(lines)) /\ NamesOn(Tail(lines)) = UNION Range(block)
  BY StatementsAssumption, BlockLinesAre
<1> HIDE DEF lines
<1>3. DumpType'
  BY <1>1, <1>2, WriteKeepsType DEF Resting, DumpType
<1>4. MeantIn(UNION Range(block)) = S
  <2>1. \A n \in UNION Range(block) : Meant(n) = Qualify(own, n)
    <3>1. \A n \in UNION Range(block) : n \in Spellings
      BY StatementsAssumption DEF Range
    <3>2. \A n \in Spellings : Meant(n) = Qualify(own, n)
      BY DEF Meant, Qualify, Spellings
    <3> QED
      BY <3>1, <3>2
  <2>2. S = {Qualify(own, n) : n \in UNION Range(block)}
    BY <1>2 DEF MentionedOn, QualifyAll
  <2> HIDE DEF S
  <2> QED
    BY <2>1, <2>2 DEF MeantIn
<1>5. S \in SUBSET Tables
  <2>1. \A n \in UNION Range(block) : n \in Spellings
    BY StatementsAssumption DEF Range
  <2>2. own \in Dbs \cup {NoDb}
    BY <1>1 DEF Resting, DumpType
  <2>3. \A n \in NamesOn(Tail(lines)) : Qualify(own, n) \in Tables
    BY <1>2, <2>1, <2>2, SpellingIs
  <2> QED
    BY <2>3 DEF MentionedOn, QualifyAll
<1> HIDE DEF S
<1>6. PairsExact(joined', pairs', MentionedOn(own', Tail(pending')), shared')
  <2>1. AreCounts(pairs) /\ PairsExact(joined, pairs, {}, shared) /\ pairs' = pairs
    BY <1>1 DEF Resting, DumpType, Idle, PairsRest, dumpVars
  <2>2. block \in Seq(SUBSET Spellings)
    BY StatementsAssumption
  <2>3. PairsExact(WithBlock(joined, block), pairs, MeantIn(UNION Range(block)),
                   WithShared(shared, block))
    BY <2>1, <2>2, PairsWritten
  <2>4. MentionedOn(own', Tail(pending')) = S
    BY <1>1 DEF S
  <2> QED
    BY <1>4, <2>1, <2>3, <2>4
<1>7. BlockAhead'
  <2>1. Before' /\ KeysRest' /\ TablesRest'
    BY <1>1 DEF Before, Resting, Idle, KeysRest, TablesRest, dumpVars
  <2> QED
    BY <1>1, <1>2, <1>6, <2>1 DEF BlockAhead
<1> QED
  BY <1>3, <1>7 DEF DumpInv, Phase
-----------------------------------------------------------------------------
(* Reading a line.                                                         *)

\* A line that marks neither a database nor a delimiter, by where the reader is.
LEMMA ReadPlain ==
  ASSUME NEW line, Plain(line), Read(line)
  PROVE  /\ mode = "table" => ReadTable(line)
         /\ mode = "routine" => ReadRoutine(line)
         /\ mode = "outside" /\ (line.routine \/ line.create = NoName) => ReadOutside(line)
         /\ mode = "outside" /\ ~line.routine /\ line.create # NoName => ReadCreate(line)
<1>1. ~ReadUse(line) /\ ~ReadDelimiter(line)
  BY DEF Plain, ReadUse, ReadDelimiter
<1>2. ReadRoutine(line) => mode = "routine"
  BY DEF ReadRoutine
<1>3. ReadCreate(line) => mode = "outside" /\ ~(line.routine \/ line.create = NoName)
  BY DEF ReadCreate
<1>4. ReadOutside(line) => mode = "outside" /\ (line.routine \/ line.create = NoName)
  BY DEF ReadOutside
<1>5. ReadTable(line) => mode = "table"
  BY DEF ReadTable
<1>6. ReadRoutine(line) \/ ReadCreate(line) \/ ReadOutside(line) \/ ReadTable(line)
  BY <1>1 DEF Read
<1> QED
  BY <1>2, <1>3, <1>4, <1>5, <1>6

LEMMA ReadLineIs ==
  ASSUME DumpInv, ReadLine
  PROVE  /\ pending # << >> /\ Head(pending) \in Line /\ Read(Head(pending))
         /\ pending' = Tail(pending) /\ pending' \in Seq(Line)
         /\ UNCHANGED <<own, declared, keys, joined, shared>>
BY TailIs DEF DumpInv, DumpType, ReadLine

LEMMA ReadsUse == DumpInv /\ ReadLine /\ UseAhead => DumpInv'
<1> SUFFICES ASSUME DumpInv, ReadLine, UseAhead
             PROVE  DumpInv'
  OBVIOUS
<1>1. own \in Dbs /\ own # NoDb
  BY DEF DumpInv, DumpType, UseAhead
<1>2. Head(pending) = UseLine(own) /\ Tail(pending) = << >>
  BY SingleIs DEF UseAhead
<1>3. UseLine(own).use = own
  BY <1>1, UseLineIs
<1>4. ReadUse(UseLine(own)) /\ pending' = << >>
  BY <1>1, <1>2, <1>3, ReadLineIs
     DEF Read, ReadDelimiter, ReadRoutine, ReadCreate, ReadOutside, ReadTable, Plain
<1>5. current_db' = own /\ UNCHANGED <<mode, inTable, tables, foreign_keys, mentioned, pairs>>
  BY <1>3, <1>4 DEF ReadUse
<1>6. UNCHANGED <<own, declared, keys, joined, shared>>
  BY ReadLineIs
<1>7. DumpType'
  BY <1>1, <1>4, <1>5, <1>6 DEF DumpInv, DumpType
<1>8. Idle'
  BY <1>4, <1>5, <1>6 DEF UseAhead, Idle, KeysRest, TablesRest, PairsRest
<1> QED
  BY <1>7, <1>8 DEF DumpInv, Phase

LEMMA ReadsView == DumpInv /\ ReadLine /\ ViewAhead => DumpInv'
<1> SUFFICES ASSUME DumpInv, ReadLine, ViewAhead
             PROVE  DumpInv'
  OBVIOUS
<1>1. PICK S \in SUBSET Spellings : pending = <<NonTableLine(S)>>
  BY DEF ViewAhead, IsView
<1> DEFINE line == NonTableLine(S)
<1>2. Plain(line) /\ line.routine
  BY NonTableLineIs
<1> HIDE DEF line
<1>3. Head(pending) = line /\ Tail(pending) = << >>
  BY <1>1, SingleIs DEF line
<1>4. ReadOutside(line) /\ pending' = << >>
  BY <1>2, <1>3, ReadLineIs, ReadPlain DEF ViewAhead, Before
<1>5. UNCHANGED dumpVars
  BY <1>2, <1>4 DEF ReadOutside, dumpVars
<1>6. UNCHANGED <<own, declared, keys, joined, shared>>
  BY ReadLineIs
<1>7. DumpType'
  BY <1>4, <1>5, <1>6 DEF DumpInv, DumpType, dumpVars
<1>8. Idle'
  BY <1>4, <1>5, <1>6 DEF ViewAhead, Before, Idle, KeysRest, TablesRest, PairsRest, dumpVars
<1> QED
  BY <1>7, <1>8 DEF DumpInv, Phase

LEMMA ReadsAlter == DumpInv /\ ReadLine /\ AlterAhead => DumpInv'
<1> SUFFICES ASSUME DumpInv, ReadLine, AlterAhead
             PROVE  DumpInv'
  OBVIOUS
<1>1. PICK t \in Names, r \in Names : Altered(t, r)
  BY DEF AlterAhead
<1> DEFINE line == AlterLine(t, r)
           key == <<<<own, t>>, <<own, r>>>>
<1>2. /\ Plain(line) /\ ~line.routine /\ line.create = NoName /\ line.alter = Bare(t)
      /\ line.refs = <<Bare(r)>>
  BY AlterLineIs
<1>3. own \in Dbs \cup {NoDb} /\ foreign_keys \in Seq(Tables \X Tables)
  BY DEF DumpInv, DumpType
<1>4. key \in Tables \X Tables
  BY <1>3 DEF Tables
<1> HIDE DEF line
<1>5. Head(pending) = line /\ Tail(pending) = << >>
  BY <1>1, SingleIs DEF line, Altered
<1>6. ReadOutside(line) /\ pending' = << >>
  BY <1>2, <1>5, ReadLineIs, ReadPlain DEF AlterAhead, Before
<1>7. /\ Qualify(current_db, line.alter) = <<own, t>>
      /\ Qualify(current_db, Head(line.refs)) = <<own, r>>
      /\ line.alter # NoName /\ line.refs # << >>
  <2>1. Head(line.refs) = Bare(r) /\ line.refs # << >>
    BY <1>2, SingleIs
  <2>2. current_db = own
    BY DEF AlterAhead, Before
  <2> QED
    BY <1>2, <2>1, <2>2, BareIs
<1>8. foreign_keys' = Append(foreign_keys, key)
  BY <1>2, <1>6, <1>7 DEF ReadOutside
<1>9. UNCHANGED <<mode, current_db, inTable, tables, mentioned, pairs>>
  BY <1>6 DEF ReadOutside
<1>10. UNCHANGED <<own, declared, keys, joined, shared>>
  BY ReadLineIs
<1>11. KeysExact(keys, foreign_keys, <<key>>)
  BY <1>1 DEF Altered
<1> HIDE DEF key
<1>12. Append(foreign_keys, key) \in Seq(Tables \X Tables)
       /\ KeysExact(keys, Append(foreign_keys, key), << >>)
  <2> DEFINE ahead == <<key>>
  <2>1. ahead \in Seq(Tables \X Tables) /\ ahead # << >> /\ Head(ahead) = key /\ Tail(ahead) = << >>
    BY <1>4
  <2>2. KeysExact(keys, foreign_keys, ahead)
    BY <1>11
  <2> HIDE DEF ahead
  <2>3. Append(foreign_keys, Head(ahead)) \in Seq(Tables \X Tables)
        /\ KeysExact(keys, Append(foreign_keys, Head(ahead)), Tail(ahead))
    BY <1>3, <2>1, <2>2, KeysRead
  <2> QED
    BY <2>1, <2>3
<1>13. KeysRest'
  BY <1>8, <1>10, <1>12 DEF KeysRest
<1>14. DumpType'
  BY <1>6, <1>8, <1>9, <1>10, <1>12 DEF DumpInv, DumpType
<1>15. Idle'
  BY <1>6, <1>9, <1>10, <1>13 DEF AlterAhead, Before, Idle, TablesRest, PairsRest
<1> QED
  BY <1>14, <1>15 DEF DumpInv, Phase
LEMMA ReadsShortTable == DumpInv /\ ReadLine /\ ShortTableAhead => DumpInv'
<1> SUFFICES ASSUME DumpInv, ReadLine, ShortTableAhead
             PROVE  DumpInv'
  OBVIOUS
<1>1. PICK t \in Names, refs \in Seq(Names) : ShortTable(t, refs)
  BY DEF ShortTableAhead
<1> DEFINE line == TheLine(t, refs)
           table == <<own, t>>
           ahead == MeantKeys(own, t, refs)
<1>2. /\ OneLine(t, refs) = <<line>> /\ Plain(line) /\ ~line.routine /\ line.create = Bare(t)
      /\ line.closes /\ line.refs = Bares(refs)
  BY TheLineIs
<1>3. own \in Dbs \cup {NoDb} /\ current_db = own /\ foreign_keys \in Seq(Tables \X Tables)
  BY DEF DumpInv, DumpType, ShortTableAhead, Before
<1>4. table \in Tables
  BY <1>3 DEF Tables
<1> HIDE DEF line
<1>5. Head(pending) = line /\ Tail(pending) = << >>
  BY <1>1, <1>2, SingleIs DEF ShortTable
<1>6. Qualify(current_db, line.create) = table /\ line.create # NoName
  BY <1>2, <1>3, BareIs
<1>7. ReadCreate(line) /\ pending' = << >>
  BY <1>2, <1>5, <1>6, ReadLineIs, ReadPlain DEF ShortTableAhead, Before
<1>8. tables' = (IF table \in ToSet(tables) THEN tables ELSE Append(tables, table))
      /\ ReadBody(table, line) /\ UNCHANGED <<current_db, mentioned, pairs>>
  BY <1>6, <1>7 DEF ReadCreate
<1>9. UNCHANGED <<own, declared, keys, joined, shared>>
  BY ReadLineIs
<1>10. mode' = "outside"
  BY <1>2, <1>8 DEF ReadBody
<1>11. /\ table \notin ToSet(tables) /\ Append(tables, table) \in Seq(Tables)
       /\ IsInjective(Append(tables, table)) /\ TablesExact(declared, Append(tables, table), {})
  BY <1>1, <1>4, TablesRead DEF DumpInv, DumpType, ShortTable
<1>12. tables' = Append(tables, table)
  BY <1>8, <1>11
<1>13. /\ ahead \in Seq(Tables \X Tables) /\ Len(ahead) = Len(refs)
       /\ \A i \in 1..Len(refs) : refs[i] \in Names /\ ahead[i] = <<table, <<own, refs[i]>>>>
  BY <1>3, MeantKeysAre
<1>14. KeysExact(keys, foreign_keys, ahead) /\ (OneLineKeys <= 1 => Len(ahead) <= 1)
  BY <1>1, <1>13 DEF ShortTable
<1>15. foreign_keys' \in Seq(Tables \X Tables) /\ KeysExact(keys, foreign_keys', << >>)
  <2>1. Len(refs) \in Nat /\ Bares(refs) \in Seq(Spellings) /\ (Bares(refs) = << >> <=> refs = << >>)
        /\ (refs # << >> => Head(Bares(refs)) = Bare(refs[1]) /\ refs[1] \in Names)
    BY BaresAre, LenProperties
  <2> HIDE DEF ahead, table
  <2>2. CASE refs = << >>
    <3>1. foreign_keys' = foreign_keys
      BY <1>2, <1>8, <2>1, <2>2 DEF ReadBody
    <3>2. ahead = << >>
      BY <1>13, <2>2, EmptySeq
    <3> QED
      BY <1>3, <1>14, <3>1, <3>2
  <2>3. CASE refs # << >>
    <3>1. Qualify(current_db, Head(line.refs)) = <<own, refs[1]>>
      BY <1>2, <1>3, <2>1, <2>3, BareIs
    <3>2. foreign_keys' = Append(foreign_keys, <<table, <<own, refs[1]>>>>)
      BY <1>2, <1>8, <2>1, <2>3, <3>1 DEF ReadBody
    <3>3. 1 \in 1..Len(refs) /\ Len(refs) > 0
      BY <2>1, <2>3, EmptySeq
    <3>4. ahead # << >> /\ Head(ahead) = <<table, <<own, refs[1]>>>>
      BY <1>13, <3>3, EmptySeq
    <3>5. Append(foreign_keys, Head(ahead)) \in Seq(Tables \X Tables)
          /\ KeysExact(keys, Append(foreign_keys, Head(ahead)), Tail(ahead))
      BY <1>3, <1>13, <1>14, <3>4, KeysRead
    <3>6. OneLineKeys <= 1 => Tail(ahead) = << >>
      <4>1. Tail(ahead) = << >> <=> Len(ahead) = 1
        BY <1>13, <3>4, TailIs
      <4> QED
        BY <1>13, <1>14, <2>1, <3>3, <4>1
    <3> QED
      BY <3>2, <3>4, <3>5, <3>6 DEF KeysExact
  <2> QED
    BY <2>2, <2>3
<1>16. KeysRest' /\ TablesRest'
  BY <1>9, <1>11, <1>12, <1>15 DEF KeysRest, TablesRest
<1>17. DumpType'
  BY <1>3, <1>7, <1>8, <1>9, <1>11, <1>12, <1>15 DEF DumpInv, DumpType
<1>18. Idle'
  BY <1>3, <1>7, <1>8, <1>9, <1>10, <1>16 DEF ShortTableAhead, Before, Idle, PairsRest
<1> QED
  BY <1>17, <1>18 DEF DumpInv, Phase

LEMMA ReadsLongTable == DumpInv /\ ReadLine /\ LongTableAhead => DumpInv'
<1> SUFFICES ASSUME DumpInv, ReadLine, LongTableAhead
             PROVE  DumpInv'
  OBVIOUS
<1>1. PICK t \in Names : LongTable(t)
  BY DEF LongTableAhead
<1> DEFINE line == CreateLine(t)
           table == <<own, t>>
<1>2. /\ Plain(line) /\ ~line.routine /\ line.create = Bare(t)
      /\ ~line.closes /\ line.refs = << >>
  BY CreateLineIs
<1>3. own \in Dbs \cup {NoDb} /\ current_db = own
  BY DEF DumpInv, DumpType, LongTableAhead, Before
<1>4. table \in Tables
  BY <1>3 DEF Tables
<1> HIDE DEF line
<1>5. Head(pending) = line
  BY <1>1 DEF LongTable, line
<1>6. Qualify(current_db, line.create) = table /\ line.create # NoName
  BY <1>2, <1>3, BareIs
<1>7. ReadCreate(line) /\ pending' = Tail(pending) /\ pending' \in Seq(Line)
  BY <1>2, <1>5, <1>6, ReadLineIs, ReadPlain DEF LongTableAhead, Before
<1>8. tables' = (IF table \in ToSet(tables) THEN tables ELSE Append(tables, table))
      /\ ReadBody(table, line) /\ UNCHANGED <<current_db, mentioned, pairs>>
  BY <1>6, <1>7 DEF ReadCreate
<1>9. UNCHANGED <<own, declared, keys, joined, shared>>
  BY ReadLineIs
<1>10. mode' = "table" /\ inTable' = table /\ foreign_keys' = foreign_keys
  BY <1>2, <1>8 DEF ReadBody
<1>11. /\ table \notin ToSet(tables) /\ Append(tables, table) \in Seq(Tables)
       /\ IsInjective(Append(tables, table)) /\ TablesExact(declared, Append(tables, table), {})
  BY <1>1, <1>4, TablesRead DEF DumpInv, DumpType, LongTable
<1>12. tables' = Append(tables, table)
  BY <1>8, <1>11
<1>13. IsBody(pending') /\ KeysExact(keys', foreign_keys', KeysOn(own', inTable', pending'))
  BY <1>1, <1>7, <1>9, <1>10 DEF LongTable
<1>14. TablesRest' /\ PairsRest'
  BY <1>8, <1>9, <1>11, <1>12 DEF TablesRest, PairsRest, LongTableAhead
<1>15. DumpType'
  BY <1>7, <1>8, <1>9, <1>10, <1>11, <1>12 DEF DumpInv, DumpType
<1>16. InBody'
  BY <1>3, <1>4, <1>8, <1>9, <1>10, <1>13, <1>14 DEF LongTableAhead, Before, InBody
<1> QED
  BY <1>15, <1>16 DEF DumpInv, Phase
LEMMA ReadsBody == DumpInv /\ ReadLine /\ InBody => DumpInv'
<1> SUFFICES ASSUME DumpInv, ReadLine, InBody
             PROVE  DumpInv'
  OBVIOUS
<1> DEFINE line == Head(pending)
           ahead == KeysOn(own, inTable, pending)
<1>1. /\ own \in Dbs \cup {NoDb} /\ current_db = own /\ inTable \in Tables
      /\ pending \in Seq(Line) /\ IsBody(pending) /\ foreign_keys \in Seq(Tables \X Tables)
  BY DEF DumpInv, DumpType, InBody
<1>2. /\ pending # << >> /\ Read(line) /\ pending' = Tail(pending) /\ pending' \in Seq(Line)
      /\ UNCHANGED <<own, declared, keys, joined, shared>>
  BY ReadLineIs
<1>3. /\ Len(pending) \in Nat /\ (Tail(pending) = << >> <=> Len(pending) = 1)
  BY <1>1, <1>2, TailIs
<1>4. /\ ahead \in Seq(Tables \X Tables)
      /\ (Len(pending) = 1 => line = ClosingLine /\ ahead = << >>)
      /\ (Len(pending) # 1 =>
            /\ IsKeyLine(line) /\ IsBody(Tail(pending))
            /\ ahead # << >> /\ Head(ahead) = <<inTable, Qualify(own, line.refs[1])>>
            /\ Tail(ahead) = KeysOn(own, inTable, Tail(pending)))
  BY <1>1, BodyTail
<1>5. KeysExact(keys, foreign_keys, ahead)
  BY DEF InBody
<1> HIDE DEF line, ahead
<1>6. CASE Len(pending) = 1
  <2>1. Plain(line) /\ line.closes /\ line.refs = << >>
    BY <1>4, <1>6, ClosingLineIs
  <2>2. ReadTable(line)
    BY <1>2, <2>1, ReadPlain DEF InBody
  <2>3. /\ mode' = "outside" /\ foreign_keys' = foreign_keys
        /\ UNCHANGED <<current_db, tables, mentioned, pairs>>
    BY <2>1, <2>2 DEF ReadTable, ReadBody
  <2>4. KeysRest' /\ TablesRest' /\ PairsRest'
    BY <1>2, <1>4, <1>5, <1>6, <2>3 DEF KeysRest, TablesRest, PairsRest, InBody
  <2>5. DumpType'
    BY <1>2, <2>3 DEF DumpInv, DumpType
  <2>6. Idle'
    BY <1>2, <1>3, <1>6, <2>3, <2>4 DEF InBody, Idle
  <2> QED
    BY <2>5, <2>6 DEF DumpInv, Phase
<1>7. CASE Len(pending) # 1
  <2>1. PICK r \in Names : line = KeyLine(r)
    BY <1>4, <1>7 DEF IsKeyLine
  <2>2. Plain(line) /\ ~line.closes /\ line.refs = <<Bare(r)>>
    BY <2>1, KeyLineIs
  <2>3. line.refs # << >> /\ Head(line.refs) = line.refs[1]
    BY <2>2, SingleIs
  <2>4. ReadTable(line)
    BY <1>2, <2>2, ReadPlain DEF InBody
  <2>5. /\ mode' = "table" /\ inTable' = inTable
        /\ foreign_keys' = Append(foreign_keys, Head(ahead))
        /\ UNCHANGED <<current_db, tables, mentioned, pairs>>
    BY <1>1, <1>4, <1>7, <2>2, <2>3, <2>4 DEF ReadTable, ReadBody
  <2>6. Append(foreign_keys, Head(ahead)) \in Seq(Tables \X Tables)
        /\ KeysExact(keys, Append(foreign_keys, Head(ahead)), Tail(ahead))
    BY <1>1, <1>4, <1>5, <1>7, KeysRead
  <2>7. KeysExact(keys', foreign_keys', KeysOn(own', inTable', pending'))
    BY <1>2, <1>4, <1>7, <2>5, <2>6
  <2>8. TablesRest' /\ PairsRest'
    BY <1>2, <2>5 DEF TablesRest, PairsRest, InBody
  <2>9. DumpType'
    BY <1>2, <2>5, <2>6 DEF DumpInv, DumpType
  <2>10. InBody'
    BY <1>1, <1>2, <1>4, <1>7, <2>5, <2>7, <2>8 DEF InBody
  <2> QED
    BY <2>9, <2>10 DEF DumpInv, Phase
<1> QED
  BY <1>6, <1>7

LEMMA ReadsBlockStart == DumpInv /\ ReadLine /\ BlockAhead => DumpInv'
<1> SUFFICES ASSUME DumpInv, ReadLine, BlockAhead
             PROVE  DumpInv'
  OBVIOUS
<1>1. /\ Read(BeginLine) /\ pending' = Tail(pending) /\ pending' \in Seq(Line)
      /\ UNCHANGED <<own, declared, keys, joined, shared>>
  BY ReadLineIs DEF BlockAhead
<1>2. BeginLine.use = NoDb /\ BeginLine.delimiter = "begin"
  BY MarksAre
<1>3. ReadDelimiter(BeginLine)
  BY <1>1, <1>2
     DEF Read, ReadUse, ReadRoutine, ReadCreate, ReadOutside, ReadTable, Plain
<1>4. /\ mode' = "routine" /\ mentioned' = {}
      /\ UNCHANGED <<current_db, inTable, tables, foreign_keys, pairs>>
  BY <1>2, <1>3 DEF ReadDelimiter
<1>5. KeysRest' /\ TablesRest'
  BY <1>1, <1>4 DEF KeysRest, TablesRest, BlockAhead
<1>6. mentioned' \cup MentionedOn(own', pending') = MentionedOn(own, Tail(pending))
  BY <1>1, <1>4
<1>7. PairsExact(joined', pairs', mentioned' \cup MentionedOn(own', pending'), shared')
  BY <1>1, <1>4, <1>6 DEF BlockAhead
<1>8. DumpType'
  BY <1>1, <1>4 DEF DumpInv, DumpType
<1>9. InBlock'
  BY <1>1, <1>4, <1>5, <1>7 DEF BlockAhead, Before, InBlock
<1> QED
  BY <1>8, <1>9 DEF DumpInv, Phase

LEMMA ReadsBlock == DumpInv /\ ReadLine /\ InBlock => DumpInv'
<1> SUFFICES ASSUME DumpInv, ReadLine, InBlock
             PROVE  DumpInv'
  OBVIOUS
<1> DEFINE line == Head(pending)
           some == QualifyAll(own, line.mentions)
           rest == MentionedOn(own, Tail(pending))
<1>1. /\ own \in Dbs \cup {NoDb} /\ current_db = own /\ pending \in Seq(Line)
      /\ IsBlock(pending) /\ mentioned \in SUBSET Tables /\ AreCounts(pairs)
  BY DEF DumpInv, DumpType, InBlock
<1>2. /\ pending # << >> /\ line \in Line /\ Read(line) /\ pending' = Tail(pending)
      /\ pending' \in Seq(Line) /\ UNCHANGED <<own, declared, keys, joined, shared>>
  BY ReadLineIs
<1>3. Len(pending) \in Nat /\ (Tail(pending) = << >> <=> Len(pending) = 1)
  BY <1>1, <1>2, TailIs
<1>4. /\ Len(pending) = 1 => line = EndLine /\ NamesOn(pending) = {}
      /\ Len(pending) # 1 =>
           /\ Plain(line) /\ IsBlock(Tail(pending))
           /\ NamesOn(pending) = line.mentions \cup NamesOn(Tail(pending))
  BY <1>1, BlockTail
<1> HIDE DEF line
<1>5. CASE Len(pending) = 1
  <2>1. line.use = NoDb /\ line.delimiter = "end"
    BY <1>4, <1>5, MarksAre
  <2>2. ReadDelimiter(line)
    BY <1>2, <2>1 DEF Read, ReadUse, ReadRoutine, ReadCreate, ReadOutside, ReadTable, Plain
  <2>3. /\ mode' = "outside" /\ mentioned' = {} /\ pairs' = WithPairs(pairs, mentioned)
        /\ UNCHANGED <<current_db, inTable, tables, foreign_keys>>
    BY <2>1, <2>2 DEF ReadDelimiter, WithPairs
  <2>4. MentionedOn(own, pending) = {}
    BY <1>4, <1>5 DEF MentionedOn, QualifyAll
  <2>5. PairsExact(joined, pairs, mentioned, shared)
    BY <2>4 DEF InBlock
  <2>6. AreCounts(WithPairs(pairs, mentioned))
        /\ PairsExact(joined, WithPairs(pairs, mentioned), {}, shared)
    BY <1>1, <2>5, PairsRead
  <2>7. KeysRest' /\ TablesRest' /\ PairsRest'
    BY <1>2, <2>3, <2>6 DEF KeysRest, TablesRest, PairsRest, InBlock
  <2>8. DumpType'
    BY <1>2, <2>3, <2>6 DEF DumpInv, DumpType
  <2>9. Idle'
    BY <1>1, <1>2, <1>3, <1>5, <2>3, <2>7 DEF Idle
  <2> QED
    BY <2>8, <2>9 DEF DumpInv, Phase
<1>6. CASE Len(pending) # 1
  <2>1. ReadRoutine(line)
    BY <1>2, <1>4, <1>6, ReadPlain DEF InBlock
  <2>2. /\ mentioned' = mentioned \cup some
        /\ UNCHANGED <<mode, current_db, inTable, tables, foreign_keys, pairs>>
    BY <1>1, <2>1 DEF ReadRoutine, QualifyAll
  <2>3. some \subseteq Tables
    <3>1. line.mentions \subseteq Spellings
      BY <1>2 DEF Line
    <3>2. \A n \in line.mentions : Qualify(own, n) \in Tables
      BY <1>1, <3>1, SpellingIs
    <3> QED
      BY <3>2 DEF QualifyAll
  <2>4. MentionedOn(own, pending) = some \cup rest
    BY <1>4, <1>6 DEF MentionedOn, QualifyAll
  <2> HIDE DEF some, rest
  <2>5. PairsExact(joined, pairs, (mentioned \cup some) \cup rest, shared)
    <3>1. mentioned \cup MentionedOn(own, pending) = (mentioned \cup some) \cup rest
      BY <2>4
    <3> QED
      BY <3>1 DEF InBlock
  <2>6. PairsExact(joined', pairs', mentioned' \cup MentionedOn(own', pending'), shared')
    BY <1>2, <2>2, <2>5 DEF rest
  <2>7. KeysRest' /\ TablesRest'
    BY <1>2, <2>2 DEF KeysRest, TablesRest, InBlock
  <2>8. DumpType'
    BY <1>2, <2>2, <2>3 DEF DumpInv, DumpType
  <2>9. InBlock'
    BY <1>1, <1>2, <1>4, <1>6, <2>2, <2>6, <2>7 DEF InBlock
  <2> QED
    BY <2>8, <2>9 DEF DumpInv, Phase
<1> QED
  BY <1>5, <1>6

LEMMA Reads == DumpInv /\ ReadLine => DumpInv'
<1>1. DumpInv /\ ReadLine => ~Idle
  BY DEF ReadLine, Idle
<1> QED
  BY <1>1, ReadsUse, ReadsView, ReadsAlter, ReadsShortTable, ReadsLongTable, ReadsBody,
     ReadsBlockStart, ReadsBlock DEF DumpInv, Phase

LEMMA Ends == DumpInv /\ End => DumpInv'
<1> SUFFICES ASSUME DumpInv, End
             PROVE  DumpInv'
  OBVIOUS
<1>1. Idle
  BY Waiting DEF DumpInv, End
<1>2. mode' = "done" /\ UNCHANGED <<current_db, inTable, tables, foreign_keys, mentioned, pairs>>
      /\ UNCHANGED writerVars
  BY DEF End, Finish
<1>3. Idle'
  BY <1>1, <1>2 DEF Idle, KeysRest, TablesRest, PairsRest, writerVars
<1>4. DumpType'
  BY <1>2 DEF DumpInv, DumpType, writerVars
<1> QED
  BY <1>3, <1>4 DEF DumpInv, Phase

LEMMA DumpStep == DumpInv /\ [Next]_vars => DumpInv'
<1>1. DumpInv /\ UNCHANGED vars => DumpInv'
  <2> SUFFICES ASSUME DumpInv, UNCHANGED vars
               PROVE  DumpInv'
    OBVIOUS
  <2> USE DEF vars, dumpVars, writerVars
  <2>1. DumpType'
    BY DEF DumpInv, DumpType
  <2>2. KeysRest' = KeysRest /\ TablesRest' = TablesRest /\ PairsRest' = PairsRest
    BY DEF KeysRest, TablesRest, PairsRest
  <2>3. Before' = Before
    BY DEF Before
  <2>4. Idle => Idle'
    BY <2>2 DEF Idle
  <2>5. UseAhead => UseAhead'
    BY <2>2 DEF UseAhead
  <2>6. ViewAhead => ViewAhead'
    BY <2>2, <2>3 DEF ViewAhead
  <2>7. AlterAhead => AlterAhead'
    BY <2>2, <2>3 DEF AlterAhead, Altered
  <2>8. ShortTableAhead => ShortTableAhead'
    BY <2>2, <2>3 DEF ShortTableAhead, ShortTable
  <2>9. LongTableAhead => LongTableAhead'
    BY <2>2, <2>3 DEF LongTableAhead, LongTable
  <2>10. InBody => InBody'
    BY <2>2 DEF InBody
  <2>11. BlockAhead => BlockAhead'
    BY <2>2, <2>3 DEF BlockAhead
  <2>12. InBlock => InBlock'
    BY <2>2 DEF InBlock
  <2> QED
    BY <2>1, <2>4, <2>5, <2>6, <2>7, <2>8, <2>9, <2>10, <2>11, <2>12 DEF DumpInv, Phase
<1> QED
  BY <1>1, WriteUseStep, WriteTableStep, WriteAlterStep, WriteViewStep, WriteRoutinesStep,
     Reads, Ends DEF Next
-----------------------------------------------------------------------------
(* What the source has.                                                    *)

\* The ends of an edge between the two tables of a pair.
LEMMA PairListed ==
  ASSUME NEW p \in PairsOf(Tables)
  PROVE  /\ IsFiniteSet(p) /\ SetToSeq(p)[1] \in p /\ SetToSeq(p)[2] \in p
         /\ {SetToSeq(p)[1], SetToSeq(p)[2]} = p /\ SetToSeq(p) \in Seq(Tables)
<1>1. IsFiniteSet(p) /\ Cardinality(p) = 2 /\ p \in SUBSET Tables
  BY SpellingsFinite, FS_Subset DEF PairsOf
<1>2. SetToSeq(p) \in [1..2 -> p] /\ Range(SetToSeq(p)) = p
  BY <1>1, ListingIs
<1>3. SetToSeq(p) \in Seq(Tables)
  <2>1. SetToSeq(p) \in [1..2 -> Tables]
    BY <1>1, <1>2
  <2> QED
    <3> DEFINE g == SetToSeq(p)
    <3> HIDE DEF g
    <3>1. g \in [1..2 -> Tables] /\ 2 \in Nat
      BY <2>1 DEF g
    <3>2. g \in Seq(Tables)
      BY <3>1, SeqDef
    <3> QED
      BY <3>2 DEF g
<1> DEFINE f == SetToSeq(p)
<1> HIDE DEF f
<1>4. f[1] \in p /\ f[2] \in p /\ DOMAIN f = 1..2 /\ Range(f) = p
  BY <1>2 DEF f
<1>5. \A x \in p : x = f[1] \/ x = f[2]
  BY <1>4 DEF Range
<1>6. {f[1], f[2]} = p
  BY <1>4, <1>5
<1> QED
  BY <1>1, <1>3, <1>4, <1>6 DEF f

\* The pairs that become edges, and a slot for each edge.
KnownPairs == {p \in DOMAIN pairs : BothKnown(SetToSeq(p))}
PairSlots  == UNION {{p} \X (1..pairs[p]) : p \in KnownPairs}

LEMMA PairSlotsFinite == AreCounts(pairs) => IsFiniteSet(PairSlots)
<1> SUFFICES ASSUME AreCounts(pairs)
             PROVE  IsFiniteSet(PairSlots)
  OBVIOUS
<1> DEFINE SlotsFor == [p \in KnownPairs |-> {p} \X (1..pairs[p])]
           All == {SlotsFor[p] : p \in KnownPairs}
<1>1. IsFiniteSet(KnownPairs)
  <2>1. IsFiniteSet(SUBSET Tables)
    BY SpellingsFinite, FS_SUBSET
  <2>2. KnownPairs \in SUBSET (SUBSET Tables)
    BY DEF KnownPairs, AreCounts, PairsOf
  <2> QED
    BY <2>1, <2>2, FS_Subset
<1>2. \A p \in KnownPairs : IsFiniteSet(SlotsFor[p])
  <2> SUFFICES ASSUME NEW p \in KnownPairs
               PROVE  IsFiniteSet({p} \X (1..pairs[p]))
    OBVIOUS
  <2>1. pairs[p] \in Nat
    BY DEF KnownPairs, AreCounts
  <2>2. IsFiniteSet(1..pairs[p]) /\ IsFiniteSet({p})
    <3> DEFINE k == pairs[p]
    <3> HIDE DEF k
    <3>1. k \in Nat
      BY <2>1 DEF k
    <3>2. IsFiniteSet(1..k)
      BY <3>1, FS_Interval
    <3> QED
      BY <3>2, FS_Singleton DEF k
  <2> QED
    BY <2>2, FS_Product
<1>3. IsFiniteSet(All)
  <2> DEFINE S == SlotsFor
  <2>1. DOMAIN S = KnownPairs /\ All = {S[p] : p \in KnownPairs}
    OBVIOUS
  <2>2. S = [p \in KnownPairs |-> S[p]]
    OBVIOUS
  <2> HIDE DEF S, SlotsFor, All
  <2>3. S \in Surjection(KnownPairs, All)
    BY <2>1, <2>2 DEF Surjection
  <2> QED
    BY <1>1, <2>3, FS_Surjection
<1>4. PairSlots = UNION All
  BY DEF PairSlots
<1>5. \A T \in All : IsFiniteSet(T)
  BY <1>2
<1> HIDE DEF All
<1> QED
  BY <1>3, <1>4, <1>5, FS_UNION

LEMMA PairSlotIs ==
  ASSUME NEW s
  PROVE  s \in PairSlots <=> \E p \in KnownPairs : \E k \in 1..pairs[p] : s = <<p, k>>
BY DEF PairSlots

\* Every edge between tables that routines mention has a slot of its own.
LEMMA PairEdgesAre ==
  AreCounts(pairs) =>
    \E n \in Nat : \E slots \in [1..n -> PairSlots] :
      /\ IsInjective(slots) /\ Range(slots) = PairSlots
      /\ PairEdges = [k \in 1..n |-> SetToSeq(slots[k][1])]
<1> SUFFICES ASSUME AreCounts(pairs)
             PROVE  \E n \in Nat : \E slots \in [1..n -> PairSlots] :
                      /\ IsInjective(slots) /\ Range(slots) = PairSlots
                      /\ PairEdges = [k \in 1..n |-> SetToSeq(slots[k][1])]
  OBVIOUS
<1> DEFINE listing == SetToSeq(PairSlots)
           size == Cardinality(PairSlots)
<1>1. /\ size \in Nat /\ listing \in [1..size -> PairSlots]
      /\ IsInjective(listing) /\ Range(listing) = PairSlots
  BY PairSlotsFinite, ListingIs
<1>2. PairEdges = [k \in DOMAIN listing |-> SetToSeq(listing[k][1])]
  BY DEF PairEdges, PairSlots, KnownPairs
<1> HIDE DEF listing, size
<1>3. PairEdges = [k \in 1..size |-> SetToSeq(listing[k][1])]
  BY <1>1, <1>2
<1> QED
  BY <1>1, <1>3

LEMMA FkEdgesAre ==
  ASSUME foreign_keys \in Seq(Tables \X Tables)
  PROVE  /\ FkEdges \in Seq(Tables \X Tables)
         /\ \A e \in Range(FkEdges) : BothKnown(e)
         /\ \A t, r \in Range(tables) : Times(FkEdges, <<t, r>>) = Times(foreign_keys, <<t, r>>)
<1> DEFINE P == {i \in DOMAIN foreign_keys : BothKnown(foreign_keys[i])}
<1>1. FkEdges = Chosen(foreign_keys, P) /\ P \in SUBSET DOMAIN foreign_keys
  BY DEF FkEdges
<1>2. \A i \in P : BothKnown(foreign_keys[i])
  OBVIOUS
<1>3. ASSUME NEW t \in Range(tables), NEW r \in Range(tables)
      PROVE  {i \in P : foreign_keys[i] = <<t, r>>}
               = {i \in DOMAIN foreign_keys : foreign_keys[i] = <<t, r>>}
  <2>1. ASSUME NEW e, e = <<t, r>>
        PROVE  BothKnown(e)
    BY <2>1 DEF BothKnown, ToSet, Range
  <2> QED
    BY <2>1
<1> HIDE DEF P
<1>4. FkEdges \in Seq(Tables \X Tables) /\ Range(FkEdges) = {foreign_keys[i] : i \in P}
  BY <1>1, ChosenIs
<1>5. \A e \in Range(FkEdges) : BothKnown(e)
  BY <1>2, <1>4
<1>6. ASSUME NEW t \in Range(tables), NEW r \in Range(tables)
      PROVE  Times(FkEdges, <<t, r>>) = Times(foreign_keys, <<t, r>>)
  <2> DEFINE x == <<t, r>>
  <2>1. {i \in P : foreign_keys[i] = x} = {i \in DOMAIN foreign_keys : foreign_keys[i] = x}
    BY <1>3
  <2> HIDE DEF x
  <2>2. Times(FkEdges, x) = Cardinality({i \in P : foreign_keys[i] = x})
    BY <1>1, TimesChosen
  <2>3. Times(foreign_keys, x) = Cardinality({i \in DOMAIN foreign_keys : foreign_keys[i] = x})
    BY DEF Times
  <2> QED
    BY <2>1, <2>2, <2>3 DEF x
<1> QED
  BY <1>4, <1>5, <1>6

\* What is read and what is ahead is always what the writer meant, in whichever
\* phase the reading is.
THEOREM DumpInvariant == Spec => []DumpInv
<1>1. Init => DumpInv
  BY StartsIdle
<1>2. DumpInv /\ [Next]_vars => DumpInv'
  BY DumpStep
<1> QED
  BY <1>1, <1>2, PTL DEF Spec

\* Between two statements the reader is where the writer is: read_dump's modes come
\* back to the outside, and no mention is left over.
THEOREM StaysInStep == Spec => []InStep
<1>1. DumpInv => InStep
  <2> SUFFICES ASSUME DumpInv, pending = << >>, mode # "done"
               PROVE  mode = "outside" /\ current_db = own /\ mentioned = {}
    BY DEF InStep
  <2>1. Idle
    BY Waiting DEF DumpInv
  <2> QED
    BY <2>1 DEF Idle
<1> QED
  BY <1>1, DumpInvariant, PTL

\* At the end, what has been read is what was meant.
LEMMA DoneIs ==
  ASSUME DumpInv, mode = "done"
  PROVE  /\ Idle /\ declared = Range(tables) /\ declared \subseteq Tables
         /\ ToSet(tables) = Range(tables)
<1>1. Idle
  BY Waiting DEF DumpInv
<1>2. declared = Range(tables)
  BY <1>1 DEF Idle, TablesRest, TablesExact
<1>3. Range(tables) \subseteq Tables
  <2>1. tables \in Seq(Tables)
    BY DEF DumpInv, DumpType
  <2>2. tables \in [1..Len(tables) -> Tables]
    BY <2>1, LenProperties
  <2> QED
    BY <2>2 DEF Range
<1> QED
  BY <1>1, <1>2, <1>3 DEF ToSet, Range

\* Every table that a CREATE TABLE of the schema declares is a node, once, and
\* nothing else is.
THEOREM TablesAreFaithful == Spec => []TablesFaithful
<1>1. DumpInv => TablesFaithful
  <2> SUFFICES ASSUME DumpInv, mode = "done"
               PROVE  ToSet(tables) = declared /\ Len(tables) = Cardinality(declared)
    BY DEF TablesFaithful
  <2>1. declared = Range(tables) /\ ToSet(tables) = Range(tables)
    BY DoneIs
  <2>2. tables \in Seq(Tables) /\ IsInjective(tables)
    BY DEF DumpInv, DumpType
  <2> DEFINE f == tables
             n == Len(tables)
  <2>3. n \in Nat /\ DOMAIN f = 1..n /\ f \in [1..n -> Tables] /\ IsInjective(f)
    BY <2>2, LenProperties
  <2>4. Range(f) = declared
    BY <2>1
  <2> HIDE DEF f, n
  <2>5. f \in Bijection(1..n, Range(f))
    BY <2>3 DEF Bijection, Injection, Surjection, IsInjective, Range
  <2>6. IsFiniteSet(1..n) /\ Cardinality(1..n) = n
    BY <2>3, FS_Interval
  <2>7. Cardinality(declared) = n
    BY <2>4, <2>5, <2>6, FS_Bijection DEF ExistsBijection
  <2> QED
    BY <2>1, <2>7 DEF n
<1> QED
  BY <1>1, DumpInvariant, PTL

\* One edge for each foreign key between two tables of the schema, whatever else the
\* schema holds, as long as a CREATE TABLE on one line has one foreign key at most.
THEOREM ForeignKeysAreFaithful ==
  ASSUME OneLineKeys <= 1
  PROVE  Spec => []OneEdgePerForeignKey
<1>1. DumpInv => OneEdgePerForeignKey
  <2> SUFFICES ASSUME DumpInv, mode = "done", NEW t \in declared, NEW r \in declared
               PROVE  EdgesFrom(FkEdges, <<t, r>>) = Counted(keys, <<t, r>>)
    BY DEF OneEdgePerForeignKey
  <2>1. Idle /\ declared = Range(tables) /\ declared \subseteq Tables
    BY DoneIs
  <2>2. foreign_keys \in Seq(Tables \X Tables)
    BY DEF DumpInv, DumpType
  <2> DEFINE x == <<t, r>>
  <2>3. x \in Tables \X Tables
    BY <2>1
  <2>4. Times(FkEdges, x) = Times(foreign_keys, x)
    BY <2>1, <2>2, FkEdgesAre
  <2> HIDE DEF x
  <2>5. Counted(keys, x) = Times(foreign_keys, x) + Times(<< >>, x)
    BY <2>1, <2>3 DEF Idle, KeysRest, KeysExact
  <2>6. Times(foreign_keys, x) \in Nat
    BY <2>2, TimesType
  <2>7. Times(FkEdges, x) = Counted(keys, x)
    BY <2>4, <2>5, <2>6, TimesEmpty
  <2> QED
    BY <2>7 DEF x, EdgesFrom
<1> QED
  BY <1>1, DumpInvariant, PTL

\* Two tables of the schema are joined by an edge for each routine that mentions both,
\* and by no other, unless a block of several routines mentions them.
THEOREM RoutinesAreFaithful == Spec => []OneEdgePerRoutine
<1>1. DumpInv => OneEdgePerRoutine
  <2> SUFFICES ASSUME DumpInv, mode = "done",
                      NEW S \in PairsOf(declared) \ shared
               PROVE  EdgesOf(PairEdges, S) = Counted(joined, S)
    BY DEF OneEdgePerRoutine
  <2>1. Idle /\ declared = ToSet(tables) /\ declared \subseteq Tables
    BY DoneIs
  <2>2. AreCounts(pairs)
    BY DEF DumpInv, DumpType
  <2>3. S \in PairsOf(Tables) /\ S \subseteq declared
    BY <2>1 DEF PairsOf
  <2>4. \A p \in KnownPairs : p \in PairsOf(Tables) /\ pairs[p] \in Nat
    BY <2>2 DEF KnownPairs, AreCounts
  <2>5. Counted(joined, S) = Counted(pairs, S)
    <3>1. S # {}
      BY <2>3, FS_EmptySet DEF PairsOf
    <3>2. Counted(pairs, S) \in Nat
      BY <2>2 DEF AreCounts, Counted
    <3>3. Counted(joined, S) = Counted(pairs, S) + 0
      BY <2>1, <2>3, <3>1 DEF Idle, PairsRest, PairsExact
    <3> QED
      BY <3>2, <3>3
  <2>6. S \in KnownPairs <=> S \in DOMAIN pairs
    <3>1. BothKnown(SetToSeq(S))
      BY <2>1, <2>3, PairListed DEF BothKnown
    <3> QED
      BY <3>1 DEF KnownPairs
  <2>7. PICK n \in Nat : \E slots \in [1..n -> PairSlots] :
           /\ IsInjective(slots) /\ Range(slots) = PairSlots
           /\ PairEdges = [k \in 1..n |-> SetToSeq(slots[k][1])]
    BY <2>2, PairEdgesAre
  <2>8. PICK slots \in [1..n -> PairSlots] :
           /\ IsInjective(slots) /\ Range(slots) = PairSlots
           /\ PairEdges = [k \in 1..n |-> SetToSeq(slots[k][1])]
    BY <2>7
  <2> DEFINE K == {k \in 1..n : slots[k][1] = S}
             Own == {s \in PairSlots : s[1] = S}
             f == [k \in K |-> slots[k]]
  <2>9. \A k \in 1..n : slots[k][1] \in KnownPairs
    <3>1. \A s \in PairSlots : s[1] \in KnownPairs
      BY PairSlotIs
    <3> QED
      BY <3>1
  <2>10. EdgesOf(PairEdges, S) = Cardinality(K)
    <3>1. \A k \in 1..n : {PairEdges[k][1], PairEdges[k][2]} = slots[k][1]
      <4> SUFFICES ASSUME NEW k \in 1..n
                   PROVE  {PairEdges[k][1], PairEdges[k][2]} = slots[k][1]
        OBVIOUS
      <4>1. PairEdges[k] = SetToSeq(slots[k][1])
        BY <2>8
      <4>2. slots[k][1] \in PairsOf(Tables)
        BY <2>4, <2>9
      <4> QED
        BY <4>1, <4>2, PairListed
    <3>2. DOMAIN PairEdges = 1..n
      BY <2>8
    <3>3. {k \in DOMAIN PairEdges : {PairEdges[k][1], PairEdges[k][2]} = S} = K
      BY <3>1, <3>2
    <3> QED
      BY <3>3 DEF EdgesOf
  <2>11. f \in Bijection(K, Own)
    <3>1. \A k \in K : slots[k] \in Own
      BY <2>8
    <3>2. \A j, k \in K : slots[j] = slots[k] => j = k
      BY <2>8 DEF IsInjective
    <3>3. \A s \in Own : \E k \in K : slots[k] = s
      BY <2>8 DEF Range
    <3>4. f \in [K -> Own] /\ \A k \in K : f[k] = slots[k]
      BY <3>1
    <3> HIDE DEF f, K, Own
    <3> QED
      BY <3>2, <3>3, <3>4 DEF Bijection, Injection, Surjection, IsInjective
  <2>12. IsFiniteSet(K)
    <3>1. IsFiniteSet(1..n) /\ K \in SUBSET (1..n)
      BY FS_Interval
    <3> QED
      BY <3>1, FS_Subset
  <2>13. Cardinality(Own) = Cardinality(K)
    <3> HIDE DEF K, Own, f
    <3> QED
      BY <2>11, <2>12, FS_Bijection DEF ExistsBijection
  <2>14. Cardinality(Own) = Counted(pairs, S)
    <3>1. CASE S \in KnownPairs
      <4> DEFINE count == pairs[S]
      <4>1. Own = {S} \X (1..count)
        BY <3>1, PairSlotIs
      <4>2. count \in Nat /\ Counted(pairs, S) = count
        BY <2>4, <2>6, <3>1 DEF Counted
      <4> HIDE DEF count, Own
      <4>3. IsFiniteSet(1..count) /\ Cardinality(1..count) = count
        BY <4>2, FS_Interval
      <4>4. IsFiniteSet({S}) /\ Cardinality({S}) = 1
        BY FS_Singleton
      <4>5. Cardinality({S} \X (1..count)) = 1 * count
        BY ZenonT(30), <4>3, <4>4, FS_Product
      <4> QED
        BY <4>1, <4>2, <4>5
    <3>2. CASE S \notin KnownPairs
      <4>1. Own = {}
        BY <3>2, PairSlotIs
      <4>2. Counted(pairs, S) = 0
        BY <2>6, <3>2 DEF Counted
      <4> HIDE DEF Own
      <4> QED
        BY <4>1, <4>2, FS_EmptySet
    <3> QED
      BY <3>1, <3>2
  <2> QED
    BY <2>5, <2>10, <2>13, <2>14
<1> QED
  BY <1>1, DumpInvariant, PTL

\* from_source accepts the source of every dump: no edge has an end that is no node.
THEOREM SourcesAreAccepted == Spec => []SourceAccepted
<1>1. DumpInv => SourceAccepted
  <2> SUFFICES ASSUME DumpInv, mode = "done"
               PROVE  ~Dangling(SourceOf)
    BY DEF SourceAccepted
  <2>1. foreign_keys \in Seq(Tables \X Tables) /\ AreCounts(pairs)
    BY DEF DumpInv, DumpType
  <2>2. FkEdges \in Seq(Tables \X Tables) /\ \A e \in Range(FkEdges) : BothKnown(e)
    BY <2>1, FkEdgesAre
  <2>3. PICK n \in Nat : \E slots \in [1..n -> PairSlots] :
           /\ IsInjective(slots) /\ Range(slots) = PairSlots
           /\ PairEdges = [k \in 1..n |-> SetToSeq(slots[k][1])]
    BY <2>1, PairEdgesAre
  <2>4. PICK slots \in [1..n -> PairSlots] :
           PairEdges = [k \in 1..n |-> SetToSeq(slots[k][1])]
    BY <2>3
  <2>5. \A k \in 1..n : slots[k][1] \in KnownPairs
    <3>1. \A s \in PairSlots : s[1] \in KnownPairs
      BY PairSlotIs
    <3> QED
      BY <3>1
  <2>6. \A e \in Range(PairEdges) : BothKnown(e)
    <3>1. \A k \in 1..n : BothKnown(PairEdges[k])
      BY <2>4, <2>5 DEF KnownPairs
    <3> QED
      BY <2>4, <3>1 DEF Range
  <2> DEFINE E == Range(FkEdges) \cup Range(PairEdges)
             all == FkEdges \o PairEdges
  <2>7. FkEdges \in Seq(E) /\ PairEdges \in Seq(E)
    <3>1. DOMAIN FkEdges = 1..Len(FkEdges) /\ Len(FkEdges) \in Nat
          /\ FkEdges = [i \in 1..Len(FkEdges) |-> FkEdges[i]]
      BY <2>2, LenProperties
    <3>2. FkEdges \in [1..Len(FkEdges) -> E]
      BY <3>1 DEF Range
    <3>3. PairEdges \in [1..n -> E]
      BY <2>4 DEF Range
    <3> HIDE DEF E
    <3>4. FkEdges \in Seq(E)
      BY <3>1, <3>2, SeqDef
    <3>5. PairEdges \in Seq(E)
      BY <3>3, SeqDef
    <3> QED
      BY <3>4, <3>5
  <2>8. Range(all) = E
    <3> HIDE DEF E
    <3>1. Range(FkEdges \o PairEdges) = Range(FkEdges) \cup Range(PairEdges)
      BY <2>7, RangeConcatenation
    <3> QED
      BY <3>1 DEF E
  <2>9. SourceOf.edges = all /\ SourceOf.nodes = tables
    BY DEF SourceOf
  <2> HIDE DEF all
  <2>10. \A e \in ToSet(all) : {e[1], e[2]} \subseteq ToSet(tables)
    <3>1. ToSet(all) = Range(all)
      BY DEF ToSet, Range
    <3>2. \A e \in E : BothKnown(e)
      BY <2>2, <2>6
    <3> QED
      BY <2>8, <3>1, <3>2 DEF BothKnown
  <2> QED
    BY <2>9, <2>10 DEF Dangling
<1> QED
  BY <1>1, DumpInvariant, PTL
=============================================================================
