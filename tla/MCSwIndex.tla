----------------------------- MODULE MCSwIndex -----------------------------
(***************************************************************************)
(* Small instances of SwIndex: sources with repeated nodes, nodes listed   *)
(* out of uuid order, a self-loop, parallel edges, labels shared by two    *)
(* nodes, no node at all, and a dangling edge.                             *)
(***************************************************************************)
EXTENDS SwIndex, TLC

CONSTANTS Red, Blue

P == INSTANCE Pipeline

Src(nodes, edges, label) == [nodes |-> nodes, edges |-> edges, label |-> label]

Nothing  == Src(<< >>, << >>, << >>)
Pair     == Src(<<4, 3>>, << <<4, 3>>, <<3, 4>> >>, (4 :> Blue @@ 3 :> Blue))
Chain    == Src(<<2, 1, 2, 3>>, << <<2, 1>>, <<1, 3>>, <<3, 3>> >>, (2 :> Blue @@ 3 :> Red))
Broken   == Src(<<1>>, << <<1, 4>> >>, << >>)
Crowd    == Src(<<1, 2, 3, 4>>, << <<1, 2>> >>, << >>)

MCSources   == {Nothing, Pair, Chain, Broken, Crowd}
MCResults(s) == P!Results(s, {"union"}, 2, 40, 2)
\* Of Chain the results with its edge 1-3 inside a cluster.  Of Crowd only those
\* that are too large for MaxU32: four nodes that fit would multiply the states
\* and add nothing to three.
MCBuilds ==
  [s \in MCSources |->
     IF s = Chain      THEN {p \in MCResults(s) : p.cluster[1] = p.cluster[3]}
     ELSE IF s = Crowd THEN {p \in MCResults(s) : ~FitsU32(p)}
     ELSE MCResults(s)]
MCPipeline(s) == MCBuilds[s]
\* With one node twice, and with a tie when 2 and 4 share a cluster.
MCSeedLists == {<< >>, <<2, 3, 3, 4>>}

\* Enough for the generations: two small sources, one hub strategy.
FewSources == {Nothing, Pair}
FewBuilds  == [s \in FewSources |-> P!Results(s, {"degree"}, 0, 40, 2)]
FewPipeline(s) == FewBuilds[s]
FewSeedLists == {<< >>, <<3>>, <<1, 4>>}
=============================================================================
