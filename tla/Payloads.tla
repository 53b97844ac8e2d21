------------------------------ MODULE Payloads ------------------------------
(***************************************************************************)
(* The bytes of the stored values: what the encoders of index.rs write,    *)
(* and what its decoders accept and refuse.                                *)
(*                                                                         *)
(* A payload is a sequence of bytes.  A uuid is its 16 bytes, a weight the *)
(* 4 bytes of its f32, a label the bytes of its text.                      *)
(***************************************************************************)
EXTENDS Integers, Sequences

Byte == 0..255

FormatV1 == 1

Accept(v) == [verdict |-> "ok", value |-> v]
Corrupt   == [verdict |-> "Corruption"]
Newer     == [verdict |-> "UnsupportedFormat"]

-----------------------------------------------------------------------------
(* Numbers, least significant byte first.                                  *)

\* What fits a u32, and a u64.
IsU32(n) == n \in Nat /\ n \div 65536 < 65536
IsU64(n) == n \in Nat /\ IsU32((n \div 65536) \div 65536)

Le32(n) ==
  <<n % 256, (n \div 256) % 256, (n \div 65536) % 256, (n \div 16777216) % 256>>
Of32(b) == b[1] + 256 * b[2] + 65536 * b[3] + 16777216 * b[4]

\* A u64 is two u32, the lower first.
Le64(n) == Le32(n) \o Le32((n \div 65536) \div 65536)
Of64(b) == Of32(SubSeq(b, 1, 4)) + 65536 * (65536 * Of32(SubSeq(b, 5, 8)))

DecodeU32(bytes) == IF Len(bytes) # 4 THEN Corrupt ELSE Accept(Of32(bytes))

-----------------------------------------------------------------------------
(* The version byte in front of every structured payload.                  *)

ReadFormatByte(bytes) ==
  IF bytes = << >> THEN Corrupt
  ELSE IF bytes[1] # FormatV1 THEN Newer
  ELSE Accept(Tail(bytes))

\* A body of fixed length.
BodyOf(bytes, length) ==
  LET read == ReadFormatByte(bytes)
  IN  IF read.verdict = "ok" /\ Len(read.value) # length THEN Corrupt ELSE read

EncodeClusterMeta(size, hubs) == <<FormatV1>> \o Le32(size) \o Le32(hubs)
DecodeClusterMeta(bytes) ==
  LET body == BodyOf(bytes, 8)
  IN  IF body.verdict # "ok" THEN body
      ELSE Accept([size      |-> Of32(SubSeq(body.value, 1, 4)),
                   hub_count |-> Of32(SubSeq(body.value, 5, 8))])

EncodeClusterDrift(generation, inserts) ==
  <<FormatV1>> \o Le64(generation) \o Le32(inserts)
DecodeClusterDrift(bytes) ==
  LET body == BodyOf(bytes, 12)
  IN  IF body.verdict # "ok" THEN body
      ELSE Accept([generation    |-> Of64(SubSeq(body.value, 1, 8)),
                   delta_inserts |-> Of32(SubSeq(body.value, 9, 12))])

\* The length of a label is the length of its value.  Texts are of one-byte
\* characters here: of those, the valid UTF-8 is below 128.
IsText(b) == \A i \in DOMAIN b : b[i] < 128
EncodeLabel(text) == <<FormatV1>> \o text
DecodeLabel(bytes) ==
  LET read == ReadFormatByte(bytes)
  IN  IF read.verdict = "ok" /\ ~IsText(read.value) THEN Corrupt ELSE read

-----------------------------------------------------------------------------
(* Lists: a count, and items of one width after the other.                 *)

Flat(items, width) ==
  [k \in 1..(width * Len(items)) |->
     items[((k - 1) \div width) + 1][((k - 1) % width) + 1]]

Item(body, i, width) == [k \in 1..width |-> body[4 + (i - 1) * width + k]]

\* Mutant: bytes behind the counted items are not noticed.
HasRoomFor(body, count, width) == Len(body) >= 4 + count * width

HasExactly(body, count, width) == Len(body) = 4 + count * width

Counted(items, width) == <<FormatV1>> \o Le32(Len(items)) \o Flat(items, width)

\* The items of a counted body.
ItemsOf(bytes, width) ==
  LET read == ReadFormatByte(bytes)
      body == read.value
  IN  IF read.verdict # "ok" THEN read
      ELSE IF Len(body) < 4 \/ ~HasExactly(body, Of32(body), width) THEN Corrupt
      ELSE Accept([i \in 1..Of32(body) |-> Item(body, i, width)])

\* Uuid7::from_uuid: the version is the upper half of the seventh byte.
IsV7(b) == b[7] \div 16 = 7

AllV7(items) == \A i \in DOMAIN items : IsV7(items[i])

EncodeUuidVec(uuids) == Counted(uuids, 16)
DecodeUuidVec(bytes) ==
  LET items == ItemsOf(bytes, 16)
  IN  IF items.verdict = "ok" /\ ~AllV7(items.value) THEN Corrupt ELSE items

\* Pairs of a uuid and a weight, and of a cluster id and a weight.
EncodeHubNeighbors(pairs) == Counted([i \in DOMAIN pairs |-> pairs[i][1] \o pairs[i][2]], 20)
DecodeHubNeighbors(bytes) ==
  LET items == ItemsOf(bytes, 20)
  IN  IF items.verdict # "ok" THEN items
      ELSE IF ~AllV7(items.value) THEN Corrupt
      ELSE Accept([i \in DOMAIN items.value |->
                     <<SubSeq(items.value[i], 1, 16), SubSeq(items.value[i], 17, 20)>>])

EncodeClusterNeighbors(pairs) ==
  Counted([i \in DOMAIN pairs |-> Le32(pairs[i][1]) \o pairs[i][2]], 8)
DecodeClusterNeighbors(bytes) ==
  LET items == ItemsOf(bytes, 8)
  IN  IF items.verdict # "ok" THEN items
      ELSE Accept([i \in DOMAIN items.value |->
                     <<Of32(SubSeq(items.value[i], 1, 4)), SubSeq(items.value[i], 5, 8)>>])

\* A uuid that is a value by itself, behind a label.
DecodeUuid(bytes) ==
  IF Len(bytes) # 16 \/ ~IsV7(bytes) THEN Corrupt ELSE Accept(bytes)

\* is_hub reads the first byte and refuses nothing.
EncodeFlag(flag) == <<IF flag THEN 1 ELSE 0>>
DecodeFlag(bytes) == bytes # << >> /\ bytes[1] = 1
=============================================================================
