---------------------------- MODULE SortedLists ----------------------------
(***************************************************************************)
(* Ascending lists of numbers, as the index stores them: every             *)
(* cluster_members entry and every hub or cluster adjacency list.          *)
(***************************************************************************)
EXTENDS Integers, Sequences, FiniteSets, Functions

\* How many members of S are at most x: the place of x in a sorted listing.
Place(S, x) == Cardinality({y \in S : y <= x})

\* The members of the finite set S in ascending order (Vec::sort_unstable on
\* a vector without duplicates, iteration of a BTreeSet or a BTreeMap).
Ascending(S) ==
  [i \in 1..Cardinality(S) |-> CHOOSE x \in S : Place(S, x) = i]

IsAscending(s) == \A i, j \in DOMAIN s : i < j => s[i] < s[j]

\* Mutant: a push instead of the sorted insert.
AppendsInstead(s, x) == {Len(s) + 1}

\* The positions <[T]>::binary_search may report for an absent element.  On a
\* sorted slice there is one; on any other the standard library leaves the
\* answer unspecified.
SearchMisses(s, x) ==
  IF IsAscending(s) THEN {1 + Cardinality({i \in DOMAIN s : s[i] < x})}
                    ELSE 1..(Len(s) + 1)

\* Vec::insert: everything from position pos on moves up by one.
InsertAtPos(s, pos, x) ==
  [i \in 1..(Len(s) + 1) |->
     IF i < pos THEN s[i] ELSE IF i = pos THEN x ELSE s[i - 1]]

\* The items of list at the places in P, in their order.
Chosen(list, P) == [i \in 1..Cardinality(P) |-> list[Ascending(P)[i]]]
=============================================================================
