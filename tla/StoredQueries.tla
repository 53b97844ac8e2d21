--------------------------- MODULE StoredQueries ---------------------------
(***************************************************************************)
(* The queries together with the bytes they read: a query meets an index   *)
(* that the encoders wrote.                                                *)
(***************************************************************************)
EXTENDS SimilarQuery, StoredImage

ASSUME EncodableAssumption == \A i \in Images : Encodable(i)

\* What the queries read is what the writes stored, and a value that is cut
\* short, run together or of another format is refused rather than read as
\* something else.  One request per index is enough to ask it of every index.
StoreReadsBack ==
  pc = "begin" /\ kind = "same_cluster" /\ start = 1 =>
    ReadsBack(img) /\ RefusesDamage(img)
=============================================================================
