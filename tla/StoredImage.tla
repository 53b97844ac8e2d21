---------------------------- MODULE StoredImage ----------------------------
(***************************************************************************)
(* An index image as the bytes Fjall keeps: for every partition the bytes  *)
(* of a key and of a value, and what the accessors read from them.         *)
(***************************************************************************)
EXTENDS ImageSafety, Payloads

CONSTANTS
  UuidBytes(_),    \* the 16 bytes of a uuid
  TextBytes(_),    \* the UTF-8 of a label
  WeightBytes(_)   \* the 4 bytes of the f32 a weight is narrowed to

ASSUME UuidBytesAssumption ==
  \A u \in Uuid : UuidBytes(u) \in [1..16 -> Byte] /\ IsV7(UuidBytes(u))
ASSUME TextBytesAssumption ==
  \A l \in Label : TextBytes(l) \in Seq(Byte) /\ IsText(TextBytes(l))
ASSUME WidthAssumption == IsU32(MaxU32)

-----------------------------------------------------------------------------

\* A value as the code holds it before it is encoded.
Raw(name, v) ==
  CASE name = "hub_neighbors" ->
         [i \in DOMAIN v |-> <<UuidBytes(v[i][1]), WeightBytes(v[i][2])>>]
    [] name = "cluster_neighbors" -> [i \in DOMAIN v |-> <<v[i][1], WeightBytes(v[i][2])>>]
    [] name = "cluster_members"   -> [i \in DOMAIN v |-> UuidBytes(v[i])]
    [] name = "labels"            -> TextBytes(v)
    [] name = "label_to_uuid"     -> UuidBytes(v)
    [] OTHER                      -> v

Write(name, raw) ==
  CASE name \in {"uuid_to_cluster", "uuid_to_region"} -> Le32(raw)
    [] name = "uuid_is_hub"       -> EncodeFlag(raw)
    [] name = "hub_neighbors"     -> EncodeHubNeighbors(raw)
    [] name = "cluster_neighbors" -> EncodeClusterNeighbors(raw)
    [] name = "cluster_members"   -> EncodeUuidVec(raw)
    [] name = "cluster_meta"      -> EncodeClusterMeta(raw.size, raw.hub_count)
    [] name = "cluster_drift"     -> EncodeClusterDrift(raw.generation, raw.delta_inserts)
    [] name = "labels"            -> EncodeLabel(raw)
    [] name = "label_to_uuid"     -> raw

Read(name, bytes) ==
  CASE name \in {"uuid_to_cluster", "uuid_to_region"} -> DecodeU32(bytes)
    [] name = "uuid_is_hub"       -> Accept(DecodeFlag(bytes))
    [] name = "hub_neighbors"     -> DecodeHubNeighbors(bytes)
    [] name = "cluster_neighbors" -> DecodeClusterNeighbors(bytes)
    [] name = "cluster_members"   -> DecodeUuidVec(bytes)
    [] name = "cluster_meta"      -> DecodeClusterMeta(bytes)
    [] name = "cluster_drift"     -> DecodeClusterDrift(bytes)
    [] name = "labels"            -> DecodeLabel(bytes)
    [] name = "label_to_uuid"     -> DecodeUuid(bytes)

-----------------------------------------------------------------------------

\* The widths an image does not say itself: a weight is the four bytes of an
\* f32, and a generation is a u64.
Encodable(img) ==
  /\ \A list \in Range(img.hub_neighbors) \cup Range(img.cluster_neighbors) :
       \A i \in DOMAIN list : WeightBytes(list[i][2]) \in [1..4 -> Byte]
  /\ \A c \in DOMAIN img.cluster_drift : IsU64(img.cluster_drift[c].generation)

Versioned == {"hub_neighbors", "cluster_neighbors", "cluster_members", "cluster_meta",
              "cluster_drift", "labels"}

\* Every stored value is read back as it was written, and so is the cluster id
\* that allocate_next_cluster_id and drift_report take from a key.
ReadsBack(img) ==
  /\ \A name \in DOMAIN EmptyImage : \A k \in DOMAIN img[name] :
       LET raw == Raw(name, img[name][k])
       IN  Read(name, Write(name, raw)) = Accept(raw)
  /\ \A c \in DOMAIN img.cluster_meta \cup DOMAIN img.cluster_drift : Of32(Le32(c)) = c

\* A payload that lost its end, or has bytes behind it.
Damaged(bytes) ==
  {SubSeq(bytes, 1, n) : n \in 1..(Len(bytes) - 1)} \cup {Append(bytes, b) : b \in {0, 1}}

\* A value that was cut short or run together is refused, and so is a value of
\* another format, which is told apart from the damaged ones.
RefusesDamage(img) ==
  \A name \in Versioned : \A k \in DOMAIN img[name] :
    LET bytes == Write(name, Raw(name, img[name][k]))
    IN  /\ name # "labels" => \A d \in Damaged(bytes) : Read(name, d) = Corrupt
        /\ \A v \in {0, 2} : Read(name, [bytes EXCEPT ![1] = v]) = Newer
        /\ Read(name, << >>) = Corrupt
=============================================================================
