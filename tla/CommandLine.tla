---------------------------- MODULE CommandLine ----------------------------
(***************************************************************************)
(* What the swindex program prints about an index: the cluster list, the   *)
(* table list, the drift report and the answers to a name.  Every command  *)
(* opens the index, reads it and ends, so each is an operator on an image. *)
(*                                                                         *)
(* The lists walk 0..stats.clusters.  stats() takes its counts from        *)
(* Fjall's approximate_len, which counts overwritten and removed keys too  *)
(* until they are compacted away: count is any number that is not below    *)
(* the number of keys.  Labels are numbered in the order of their texts.   *)
(***************************************************************************)
EXTENDS ImageSafety

ASSUME LabelAssumption == Label \subseteq Nat

First(seq, limit) == SubSeq(seq, 1, IF limit < Len(seq) THEN limit ELSE Len(seq))

\* Mutant: ids are taken to start at 1.
WalkFromOne(count) == 1..count

\* The ids a list asks for, in ascending order.
Walk(count) == 0..(count - 1)

\* label_of, with the uuid in place of a label that is not there.
ShownAs(img, u) ==
  IF u \in DOMAIN img.labels THEN <<"label", img.labels[u]>> ELSE <<"uuid", u>>

\* What came before the walk broke off at the element after the limit-th one.
ReachedBefore(matching, limit, x) == Len(matching) > limit => x < matching[limit + 1]

-----------------------------------------------------------------------------

\* cmd_clusters.  The code sorts the names of a line by text.
CmdClusters(img, count, minSize, limit) ==
  LET found == Walk(count) \cap DOMAIN img.cluster_meta
      large == Ascending({c \in found : img.cluster_meta[c].size >= minSize})
      shown == First(large, limit)
      small == {c \in found \ Range(large) : ReachedBefore(large, limit, c)}
      Line(c) ==
        [cluster |-> c, size |-> img.cluster_meta[c].size,
         hub_count |-> img.cluster_meta[c].hub_count,
         names |-> [i \in DOMAIN MembersOf(img, c) |-> ShownAs(img, MembersOf(img, c)[i])]]
  IN  [lines |-> [i \in DOMAIN shown |-> Line(shown[i])],
       below |-> IF minSize > 1 THEN Cardinality(small) ELSE 0]

\* cmd_tables, with the labels that contain the pattern.
CmdTables(img, count, matches, limit) ==
  LET nodes    == UNION {Range(MembersOf(img, c)) : c \in Walk(count)}
      labels   == {img.labels[u] : u \in nodes \cap DOMAIN img.labels}
      matching == Ascending(labels \cap matches)
  IN  [lines    |-> First(matching, limit),
       filtered |-> Cardinality({l \in labels \ matches : ReachedBefore(matching, limit, l)})]

-----------------------------------------------------------------------------
(* drift_report and cmd_drift.                                             *)

\* DriftReport::total_inserts.
TotalInserts(img) ==
  LET inserts == [c \in DOMAIN img.cluster_drift |-> img.cluster_drift[c].delta_inserts]
  IN  SumFunctionOnSet(inserts, DOMAIN inserts)

\* The clusters by descending inserts, lower ids first among equals; of the
\* first top those with inserts are printed.
CmdDrift(img, top) ==
  LET report == img.cluster_drift
      Rank(c) == Cardinality({d \in DOMAIN report :
                   \/ report[d].delta_inserts > report[c].delta_inserts
                   \/ report[d].delta_inserts = report[c].delta_inserts /\ d <= c})
  IN  [lines |-> {<<c, report[c].delta_inserts>> :
                    c \in {d \in DOMAIN report :
                             Rank(d) <= top /\ report[d].delta_inserts > 0}},
       tracked |-> Cardinality(DOMAIN report),
       total   |-> TotalInserts(img)]

\* cmd_similar and cmd_same_cluster: what is said when the answer is empty.
EmptyAnswer(img, name) ==
  IF name \in DOMAIN img.label_to_uuid THEN "nothing found" ELSE "no such table"
=============================================================================
