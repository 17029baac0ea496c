-------------------------------- MODULE CborTree --------------------------------
\* A CBOR document as decoder.rs gives it: a tree of nodes with their positions, and the
\* deviations from deterministic encoding noted on them.
\*
\* A node is [type, start, end, value, odd] for a scalar, or [type, start, head, end,
\* items, odd, whole] (and tag), head being where the header ends; type is the kind of item, the
\* name of its width left out. An argument is its bytes, leading zeroes dropped.
EXTENDS Integers, SequencesExt

RECURSIVE Trimmed(_)
Trimmed(b) == IF b # <<>> /\ b[1] = 0 THEN Trimmed(Tail(b)) ELSE b
Number(b) == FoldLeft(LAMBDA n, x : n * 256 + x, 0, b)

\* ---- nodes ----

Scalar(type, start, end, value, odd) ==
  [type |-> type, start |-> start, end |-> end, value |-> value, odd |-> odd]
Node(type, start, head, end, items, odd, whole) ==
  [type |-> type, start |-> start, head |-> head, end |-> end, items |-> items, odd |-> odd, whole |-> whole]
TagNode(tag, start, head, end, items, odd, whole) ==
  [tag |-> tag] @@ Node("tag", start, head, end, items, odd, whole)
ChunkedType(type) == IF type = "bytes" THEN "chunkedBytes" ELSE "chunkedText"
BreakAt(at) == Scalar("break", at, at + 1, <<>>, {})
Entry(key, value) == [key |-> key, value |-> value]
IsEntry(x) == "key" \in DOMAIN x
\* partial_map_entry: a key, and what there is of its value; or what there is of a key.
OpenEntry(key, value, at) == [key |-> key, value |-> value, at |-> at]

\* ---- oddities ----

ShortestWidth(arg) ==
  CASE Len(arg) = 0 \/ (Len(arg) = 1 /\ arg[1] < 24) -> 0
    [] Len(arg) = 1 /\ arg[1] >= 24 -> 1
    [] Len(arg) = 2 -> 2
    [] Len(arg) \in 3..4 -> 4
    [] OTHER -> 8
IntOdd(head) == IF head.width > ShortestWidth(head.arg) THEN {"IntNotShortest"} ELSE {}
\* Whether a negative number -1 - arg fits a two's complement integer of that many bytes.
FitsSigned(arg, n) == Len(arg) < n \/ (Len(arg) = n /\ arg[1] < 128)

\* A float by its bits: exponent and mantissa of binary32, or of a binary64 that is one.
Float32(raw) ==
  [biased |-> (raw[1] % 128) * 2 + raw[2] \div 128, mant |-> (raw[2] % 128) * 65536 + raw[3] * 256 + raw[4]]
AsFloat32(raw) ==
  [biased |-> (raw[1] % 128) * 16 + raw[2] \div 16 - 1023 + 127,
   mant |-> (raw[2] % 16) * 524288 + raw[3] * 2048 + raw[4] * 8 + raw[5] \div 32]
IsZero(raw) == raw[1] % 128 = 0 /\ \A i \in 2..Len(raw) : raw[i] = 0
Finite(raw) ==
  CASE Len(raw) = 2 -> (raw[1] % 128) \div 4 # 31
    [] Len(raw) = 4 -> Float32(raw).biased # 255
    [] Len(raw) = 8 -> (raw[1] % 128) * 16 + raw[2] \div 16 # 2047
\* (v as f32) as f64 == v: no bit of the mantissa is lost, subnormals having fewer.
LossTo32(raw) ==
  /\ ~IsZero(raw)
  /\ LET f == AsFloat32(raw) IN
     \/ raw[5] % 32 # 0 \/ raw[6] # 0 \/ raw[7] # 0 \/ raw[8] # 0
     \/ f.biased > 254 \/ f.biased < -22
     \/ f.biased \in -22..0 /\ f.mant % (2 ^ (1 - f.biased)) # 0
\* f64_fits_f16_exactly, of a value that binary32 holds.
FitsF16(f) ==
  LET e == f.biased - 127 IN
  \/ f.biased <= 0 /\ f.mant = 0 /\ e = -127
  \/ e \in -14..15 /\ f.mant % (2 ^ 13) = 0
  \/ e \in -24..(-15) /\ (2 ^ 23 + f.mant) % (2 ^ (13 - 14 - e)) = 0
ShortestFloat(raw) ==
  IF IsZero(raw) THEN 2
  ELSE IF Len(raw) = 8 /\ LossTo32(raw) THEN 8
  ELSE IF FitsF16(IF Len(raw) = 8 THEN AsFloat32(raw) ELSE Float32(raw)) THEN 2 ELSE 4
FloatOdd(raw) == IF Len(raw) > 2 /\ Len(raw) > ShortestFloat(raw) THEN {"FloatNotShortest"} ELSE {}

\* Bytewise order; a prefix comes first.
RECURSIVE SortsAfter(_, _)
SortsAfter(a, b) ==
  a # <<>> /\ (b = <<>> \/ a[1] > b[1] \/ (a[1] = b[1] /\ SortsAfter(Tail(a), Tail(b))))
\* map_keys_not_sorted_detail, duplicate_map_keys_detail: over the keys as they are encoded.
KeyOdd(keys) ==
  (IF \E i \in 1..(Len(keys) - 1) : SortsAfter(keys[i], keys[i + 1]) THEN {"MapKeysNotSorted"} ELSE {})
  \cup IF \E i, j \in DOMAIN keys : i < j /\ keys[i] = keys[j] THEN {"DuplicateMapKeys"} ELSE {}
OpenOdd(len) == IF len = <<>> THEN {"IndefiniteLength"} ELSE {}
\* bignum_oddities. The last negative number of a head, -2^64, counts as too large for one.
FitsHead(tag, data) ==
  LET m == Trimmed(data) IN Len(m) <= 8 /\ (tag = 3 => m # [i \in 1..8 |-> 255])
BignumOdd(tag, inner) ==
  IF tag \notin {2, 3} \/ inner.type # "bytes" THEN {}
  ELSE (IF inner.value # <<>> /\ inner.value[1] = 0 THEN {"BignumLeadingZeroes"} ELSE {})
       \cup (IF FitsHead(tag, inner.value) THEN {"BignumForSmallInt"} ELSE {})
=================================================================================
