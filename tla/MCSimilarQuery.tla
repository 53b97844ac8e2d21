--------------------------- MODULE MCSimilarQuery ---------------------------
(***************************************************************************)
(* Queries over every image a small source can build, and over those an    *)
(* insert makes of them.  Two nodes share a label, one has its own, one of *)
(* the source and the inserted one have none, and one label is unknown.    *)
(***************************************************************************)
EXTENDS StoredQueries, TLC

CONSTANTS Red, Blue, Green

P == INSTANCE Pipeline

Path == [nodes |-> <<3, 1, 2, 4>>,
         edges |-> << <<3, 1>>, <<1, 2>>, <<2, 4>> >>,
         label |-> (3 :> Red @@ 4 :> Red @@ 1 :> Blue)]

MCStrategies == {"degree", "betweenness", "union"}
Built == UNION {{BuildImage(EmptyImage, p) : p \in P!Results(Path, MCStrategies, 1, percent, 2)} :
                  percent \in {25, 75}}
Grown == UNION {{InsertImage(i, 5, c, Len(MembersOf(i, c)) + 1) :
                   c \in {0, NextClusterId(i)}} : i \in Built}
MCImages == Built \cup Grown

-----------------------------------------------------------------------------
(* The bytes of the instance.                                              *)

MCUuidBytes(u)   == [i \in 1..16 |-> CASE i = 7 -> 112 [] i = 16 -> u [] OTHER -> 0]
MCTextBytes(l)   == IF l = Red THEN <<100, 46, 114>> ELSE <<100>>
MCWeightBytes(w) == <<0, 0, 128, 63 - w>>
=============================================================================
