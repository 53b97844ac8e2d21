------------------------------ MODULE MCLeiden ------------------------------
(***************************************************************************)
(* Small graphs clustered in every order a shuffle can give.               *)
(***************************************************************************)
EXTENDS Leiden, TLC

\* Any remainder: the caller may pass any seed.
MCDraw(s, k, m) == 0..(m - 1)

\* A weighted graph of n nodes: loops and edges with their weights.
Weighted(n, edges) ==
  Weighed([u, v \in 1..n |->
     MapThenSumSet(LAMBDA e : e[3], {e \in edges : {e[1], e[2]} = {u, v}})])

Path(n)  == {<<i, i + 1, 1>> : i \in 1..(n - 1)}
Square   == Weighted(4, {<<1, 2, 1>>, <<2, 3, 1>>, <<3, 4, 1>>, <<4, 1, 1>>})
Bowtie   == Weighted(5, {<<1, 2, 1>>, <<1, 3, 1>>, <<2, 3, 1>>, <<3, 4, 1>>,
                         <<3, 5, 1>>, <<4, 5, 1>>})
Heavy    == Weighted(4, {<<1, 2, 3>>, <<2, 3, 1>>, <<3, 4, 2>>, <<2, 2, 4>>, <<4, 4, 1>>})
\* Its second level still moves nodes.
Chain    == Weighted(4, {<<3, 4, 1>>, <<1, 4, 3>>, <<1, 2, 2>>})
\* Its refinement never merges what its local moving merges.
Lasso    == Weighted(3, {<<1, 2, 1>>, <<1, 3, 1>>, <<3, 3, 1>>})
Parted   == Weighted(5, {<<1, 2, 1>>, <<1, 3, 1>>, <<3, 3, 1>>, <<4, 5, 2>>})
\* Its refinement is finer than its local moving, beside a node of its own.
Skewed   == Weighted(4, {<<1, 1, 4>>, <<4, 4, 1>>, <<2, 3, 4>>, <<1, 2, 3>>})
Loose    == Weighted(3, {})
Nothing  == Weighted(0, {})

MCGraphs == {Weighted(5, Path(5)), Square, Parted, Bowtie, Heavy, Chain, Lasso,
             Skewed, Loose, Nothing}
JustLasso == {Lasso}
=============================================================================
