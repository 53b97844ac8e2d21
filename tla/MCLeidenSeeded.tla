-------------------------- MODULE MCLeidenSeeded --------------------------
(***************************************************************************)
(* Larger graphs clustered in the one order that seed 42, which the build  *)
(* pipeline passes, gives.                                                 *)
(***************************************************************************)
EXTENDS Leiden, XorShift, TLC

\* Bounds: generators a run may use, and numbers drawn from each.
MaxGenerators == 64
MaxNumbers    == 36

Stream == [s \in 0..(MaxGenerators - 1) |->
             Numbers(Word(<<2, 10>>), s, MaxNumbers)]

MCDraw(s, k, m) == {Remainder(Stream[s][k], m)}

\* An unweighted graph of n nodes, numbered from 0 in the list of its edges.
Plain(n, edges) ==
  Weighed([u, v \in 1..n |-> IF {<<u - 1, v - 1>>, <<v - 1, u - 1>>} \cap edges = {}
                             THEN 0 ELSE 1])

\* Its first local moving leaves a node where it is at a loss.
Reluctant == Plain(7, {<<3, 5>>, <<0, 1>>, <<0, 3>>, <<3, 6>>, <<2, 6>>, <<3, 4>>,
                       <<1, 2>>, <<2, 4>>})

\* One community of its answer falls apart.
Torn == Plain(13, {<<1, 10>>, <<9, 11>>, <<1, 2>>, <<1, 3>>, <<6, 8>>, <<2, 6>>,
                   <<5, 12>>, <<0, 2>>, <<0, 8>>, <<7, 12>>, <<3, 5>>, <<4, 6>>,
                   <<3, 9>>, <<5, 10>>})

JustReluctant == {Reluctant}
JustTorn      == {Torn}
=============================================================================
