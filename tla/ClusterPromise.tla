--------------------------- MODULE ClusterPromise ---------------------------
(***************************************************************************)
(* What a SwIndex promises its caller, without partitions, batches or      *)
(* journals: a set of nodes split into clusters, replaced whole by a       *)
(* rebuild, grown one node at a time by an insert, and never older after   *)
(* a restart than the last operation that returned Ok.                     *)
(***************************************************************************)
EXTENDS Integers, Sequences, Functions

CONSTANTS
  Uuid,       \* node identifiers
  NodeSets,   \* the node sets of the graphs the caller builds from
  SeedLists   \* the seed lists the caller passes to an insert

VARIABLES
  clusters,   \* the clusters a reader sees, as a set of node sets
  safe,       \* the clusters on disk, which no restart can lose
  unsafe,     \* newer ones a restart may or may not find
  phase,      \* "closed", "open" or "committed"
  result      \* what the last operation returned

vars == <<clusters, safe, unsafe, phase, result>>

Splits(C, N) ==
  /\ UNION C = N
  /\ {} \notin C
  /\ \A a, b \in C : a # b => a \cap b = {}

Init ==
  /\ clusters = {} /\ safe = {} /\ unsafe = {}
  /\ phase = "closed" /\ result = "none"

Open ==
  /\ phase = "closed" /\ phase' = "open" /\ result' = "none"
  /\ UNCHANGED <<clusters, safe, unsafe>>

Apply ==
  /\ phase = "open" /\ phase' = "committed" /\ result' = "none"
  /\ unsafe' = unsafe \cup {clusters'}
  /\ UNCHANGED safe

\* A rebuild: the nodes are those of the source and nothing else is left.
Replace(N) == Splits(clusters', N) /\ Apply

\* An insert: a node that is not there yet joins a cluster of one of its
\* seeds, or starts a cluster when it has no seed in the index.  No other
\* node moves.
Add(u, seeds) ==
  /\ u \notin UNION clusters
  /\ \/ \E c \in clusters : /\ c \cap Range(seeds) # {}
                            /\ clusters' = (clusters \ {c}) \cup {c \cup {u}}
     \/ /\ Range(seeds) \cap UNION clusters = {}
        /\ clusters' = clusters \cup {{u}}
  /\ Apply

\* Ok is returned only for what a restart is bound to find.
Succeed ==
  /\ phase = "committed" /\ phase' = "open" /\ result' = "ok"
  /\ safe' = clusters /\ unsafe' = {}
  /\ UNCHANGED clusters

\* An operation that changes nothing reports Ok, a rejected one an error.
Report ==
  /\ phase = "open" /\ phase' = "open" /\ result' \in {"ok", "error"}
  /\ UNCHANGED <<clusters, safe, unsafe>>

\* The fsync failed: readers see the change, a restart may not.
Doubt ==
  /\ phase = "committed" /\ phase' = "open" /\ result' = "error"
  /\ UNCHANGED <<clusters, safe, unsafe>>

Restart ==
  /\ phase # "closed" /\ phase' = "closed" /\ result' = "none"
  /\ unsafe' \subseteq unsafe
  /\ clusters' \in unsafe' \cup {safe}
  /\ UNCHANGED safe

Next ==
  \/ Open
  \/ \E N \in NodeSets : Replace(N)
  \/ \E u \in Uuid, seeds \in SeedLists : Add(u, seeds)
  \/ Succeed
  \/ Report
  \/ Doubt
  \/ Restart

Spec == Init /\ [][Next]_vars
=============================================================================
