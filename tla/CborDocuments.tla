------------------------------ MODULE CborDocuments ------------------------------
\* CBOR documents by RFC 8949, as they may be written: what the decoder of CborDecoder is
\* held to. Not code of this repository.
\*
\* An item has a kind and how it is written: "uint", "nint" (arg, width), "simple" (arg,
\* width), "float" (raw), "bytes", "text" (data, width), "chunks" (of, chunks), "array"
\* (items, width), "map" (entries, width), "tag" (arg, width, item). An argument is bytes,
\* the width how many it is written in, 0 in the title byte itself, Indefinite of an open
\* container.
EXTENDS CborTree

Indefinite == -1
Minor == <<24, 25, 25, 26, 26, 26, 26, 27>>
Title(major, arg, width) ==
  IF width = Indefinite THEN <<major * 32 + 31>>
  ELSE IF width = 0 THEN <<major * 32 + Number(arg)>>
  ELSE <<major * 32 + Minor[width]>> \o [i \in 1..(width - Len(arg)) |-> 0] \o arg
Counted(n) == IF n = 0 THEN <<>> ELSE <<n>>
Major == [uint |-> 0, nint |-> 1, bytes |-> 2, text |-> 3, array |-> 4, map |-> 5, tag |-> 6, simple |-> 7]
HeaderOf(item) ==
  CASE item.kind \in {"uint", "nint", "simple", "tag"} -> Title(Major[item.kind], item.arg, item.width)
    [] item.kind \in {"bytes", "text"} -> Title(Major[item.kind], Counted(Len(item.data)), item.width)
    [] item.kind = "chunks" -> Title(Major[item.of], <<>>, Indefinite)
    [] item.kind = "array" -> Title(4, Counted(Len(item.items)), item.width)
    [] item.kind = "map" -> Title(5, Counted(Len(item.entries)), item.width)
    [] item.kind = "float" -> Title(7, item.raw, Len(item.raw))
Broken(item) == item.kind = "chunks" \/ (item.kind \in {"array", "map"} /\ item.width = Indefinite)
\* What follows the header: the items inside, in order.
Inside(item) ==
  CASE item.kind = "chunks" -> item.chunks
    [] item.kind = "array" -> item.items
    [] item.kind = "map" -> FlattenSeq(item.entries)
    [] item.kind = "tag" -> <<item.item>>
    [] OTHER -> <<>>
RECURSIVE Encoded(_)
Encoded(item) ==
  HeaderOf(item) \o FlattenSeq([i \in DOMAIN Inside(item) |-> Encoded(Inside(item)[i])])
  \o (IF item.kind \in {"bytes", "text"} THEN item.data ELSE <<>>)
  \o (IF Broken(item) THEN <<255>> ELSE <<>>)

\* ---- items ----

Uint(arg, width) == [kind |-> "uint", arg |-> arg, width |-> width]
Negative(arg, width) == [kind |-> "nint", arg |-> arg, width |-> width]
Simple(n) == [kind |-> "simple", arg |-> <<n>>, width |-> 0]
Float(raw) == [kind |-> "float", raw |-> raw]
Bytes(data, width) == [kind |-> "bytes", data |-> data, width |-> width]
Text(data, width) == [kind |-> "text", data |-> data, width |-> width]
Chunked(of, chunks) == [kind |-> "chunks", of |-> of, chunks |-> chunks]
Array(items, width) == [kind |-> "array", items |-> items, width |-> width]
Map(entries, width) == [kind |-> "map", entries |-> entries, width |-> width]
\* A number as it is written at its shortest.
ArgBytes(n) == IF n = 0 THEN <<>> ELSE IF n < 256 THEN <<n>> ELSE <<n \div 256, n % 256>>
ArgLength(n) == IF n < 24 THEN 0 ELSE IF n < 256 THEN 1 ELSE 2
Natural(n) == Uint(ArgBytes(n), ArgLength(n))
Tag(number, item) == [kind |-> "tag", arg |-> ArgBytes(number), width |-> ArgLength(number), item |-> item]

\* ---- deterministic encoding, RFC 8949 section 4.2 ----

\* The numbers a width holds; a float by its value, an odd whole number times a power of 2.
WidthHolds(width, arg) ==
  CASE width = 0 -> Len(arg) = 0 \/ (Len(arg) = 1 /\ arg[1] < 24)
    [] OTHER -> Len(arg) <= width
Shortest(arg, width) == \A w \in {0, 1, 2, 4, 8} : w < width => ~WidthHolds(w, arg)
RECURSIVE OddPart(_, _)
OddPart(m, e) == IF m % 2 = 0 THEN OddPart(m \div 2, e + 1) ELSE [m |-> m, e |-> e]
\* Of a binary32, or of a binary64 whose last three bytes are zero.
FloatValue(raw) ==
  LET exponent == IF Len(raw) = 4 THEN (raw[1] % 128) * 2 + raw[2] \div 128 ELSE (raw[1] % 128) * 16 + raw[2] \div 16
      fraction == IF Len(raw) = 4 THEN (raw[2] % 128) * 65536 + raw[3] * 256 + raw[4]
                  ELSE (raw[2] % 16) * 16777216 + raw[3] * 65536 + raw[4] * 256 + raw[5]
      bits == IF Len(raw) = 4 THEN 23 ELSE 28
      bias == IF Len(raw) = 4 THEN 127 ELSE 1023
  IN IF exponent = 0 THEN OddPart(fraction, 1 - bias - bits) ELSE OddPart(2 ^ bits + fraction, exponent - bias - bits)
\* A format of that many bits of precision, least exponent and first power of 2 too large.
InFormat(v, precision, least, bound) ==
  /\ v.m < 2 ^ precision /\ v.e >= least
  /\ \A k \in 0..precision : v.m >= 2 ^ k => v.e + k < bound
ShortestForm(raw) ==
  CASE Len(raw) = 2 -> TRUE
    [] IsZero(raw) -> FALSE
    [] Len(raw) = 4 -> ~InFormat(FloatValue(raw), 11, -24, 16)
    [] Len(raw) = 8 -> ~InFormat(FloatValue(raw), 24, -149, 128)
\* A tagged number that an integer could be: but for the last one, which is allowed.
IsBignum(item) == item.arg \in {<<2>>, <<3>>} /\ item.item.kind = "bytes"
FitsInteger(number, data) ==
  LET m == Trimmed(data) IN Len(m) < 8 \/ (Len(m) = 8 /\ ~(number = <<3>> /\ m = [i \in 1..8 |-> 255]))
Flagged(kind, deviates) == IF deviates THEN {kind} ELSE {}
OwnDeviations(item) ==
  LET keys == IF item.kind = "map" THEN [i \in DOMAIN item.entries |-> Encoded(item.entries[i][1])] ELSE <<>>
      bignum == item.kind = "tag" /\ IsBignum(item)
  IN UNION {
       Flagged("IntNotShortest", item.kind \in {"uint", "nint"} /\ ~Shortest(item.arg, item.width)),
       Flagged("FloatNotShortest", item.kind = "float" /\ ~ShortestForm(item.raw)),
       Flagged("IndefiniteLength", Broken(item)),
       Flagged("MapKeysNotSorted", \E i, j \in DOMAIN keys : i < j /\ SortsAfter(keys[i], keys[j])),
       Flagged("DuplicateMapKeys", Cardinality({keys[i] : i \in DOMAIN keys}) < Len(keys)),
       Flagged("BignumLeadingZeroes", bignum /\ item.item.data # <<>> /\ item.item.data[1] = 0),
       Flagged("BignumForSmallInt", bignum /\ FitsInteger(item.arg, item.item.data))}
RECURSIVE Deviations(_)
Deviations(item) == OwnDeviations(item) \cup UNION {Deviations(i) : i \in Range(Inside(item))}

\* ---- the tree of a document: every node at its place ----

\* Where each of the items that follow one another starts.
StartsFrom(items, at) ==
  LET start[i \in 1..(Len(items) + 1)] == IF i = 1 THEN at ELSE start[i - 1] + Len(Encoded(items[i - 1]))
  IN start
RECURSIVE ItemTree(_, _)
Arranged(item, inner, start) ==
  (IF item.kind = "map" THEN [i \in DOMAIN item.entries |-> Entry(inner[2 * i - 1], inner[2 * i])] ELSE inner)
  \o IF Broken(item) THEN <<BreakAt(start[Len(inner) + 1])>> ELSE <<>>
Nodes(item, start) ==
  Arranged(item, [i \in DOMAIN Inside(item) |-> ItemTree(Inside(item)[i], start[i])], start)
Value(item) ==
  CASE item.kind \in {"bytes", "text"} -> item.data
    [] item.kind = "float" -> item.raw
    [] OTHER -> item.arg
\* Whether -1 - arg is in the range of a signed integer of the bytes it is written in, or of one byte.
SignedRange(item) ==
  LET size == IF item.width = 0 THEN 1 ELSE item.width IN
  Len(item.arg) <= size /\ ~(Len(item.arg) = size /\ item.arg[1] >= 128)
TypeOf(item) == IF item.kind = "nint" /\ ~SignedRange(item) THEN "wide" ELSE item.kind
\* Deviations are not part of it: they are left empty.
Built(item, at, head, end, nodes) ==
  CASE item.kind = "tag" -> TagNode(item.arg, at, head, end, nodes, {}, TRUE)
    [] item.kind = "chunks" -> Node(ChunkedType(item.of), at, head, end, nodes, {}, TRUE)
    [] item.kind \in {"array", "map"} -> Node(item.kind, at, head, end, nodes, {}, TRUE)
    [] OTHER -> Scalar(TypeOf(item), at, end, Value(item), {})
ItemTree(item, at) ==
  LET head == at + Len(HeaderOf(item))
  IN Built(item, at, head, at + Len(Encoded(item)), Nodes(item, StartsFrom(Inside(item), head)))

Inner(node) == IF "items" \in DOMAIN node THEN node.items ELSE <<>>
\* The nodes of a list of items, an entry's key and value among them.
Listed(items) == FlattenSeq([i \in DOMAIN items |->
  IF ~IsEntry(items[i]) THEN <<items[i]>>
  ELSE IF "at" \in DOMAIN items[i] THEN items[i].key \o items[i].value ELSE <<items[i].key, items[i].value>>])
RECURSIVE AllNodes(_)
AllNodes(node) == {node} \cup UNION {AllNodes(n) : n \in Range(Listed(Inner(node)))}
WholeItem(node) == "whole" \notin DOMAIN node \/ node.whole
OddOf(node) == UNION {n.odd : n \in AllNodes(node)}
\* Without the deviations.
RECURSIVE Plainly(_)
Plainly(node) ==
  IF IsEntry(node) THEN Entry(Plainly(node.key), Plainly(node.value))
  ELSE IF "items" \in DOMAIN node
  THEN [node EXCEPT !.odd = {}, !.items = [i \in DOMAIN @ |-> Plainly(@[i])]]
  ELSE [node EXCEPT !.odd = {}]
\* The node a path leads to, as a sequence of one or none.
At(items, i) == IF i < Len(items) THEN <<items[i + 1]>> ELSE <<>>
Followed(node, seg) ==
  LET there == IF seg[1] = "inner" THEN At(node.items, 0) ELSE At(node.items, seg[2]) IN
  CASE seg[1] \in {"item", "chunk", "inner"} \/ there = <<>> -> there
    [] seg[1] = "key" /\ there # <<>> -> IF "at" \in DOMAIN there[1] THEN there[1].key ELSE <<there[1].key>>
    [] seg[1] = "value" /\ there # <<>> -> IF "at" \in DOMAIN there[1] THEN there[1].value ELSE <<there[1].value>>
PathTo(root, segs) ==
  FoldLeft(LAMBDA found, seg : IF found = <<>> \/ "items" \notin DOMAIN found[1] THEN <<>> ELSE Followed(found[1], seg),
           root, segs)
==================================================================================
