-------------------------------- MODULE MCReports --------------------------------
\* The places in a document an error may be about, and how the validator names them: a
\* map's entry by its key, or by its position when the key renders past a bound, or by
\* nothing when that position would read as a key. Not code of this repository: what the
\* lookups of ErrorReports are held to. With the documents they are held to it on, and
\* reports of a few errors.
EXTENDS ErrorReports, CborDocuments

CONSTANT Payloads  \* the sequences of items that byte strings hold, by their bytes

Run(items) == FlattenSeq([i \in DOMAIN items |-> Encoded(items[i])])
Holding(data) == IF data \in DOMAIN Payloads THEN {Payloads[data]} ELSE {}

\* ---- names ----

Spelt(item) == IF item.kind = "chunks" THEN FlattenSeq([i \in DOMAIN item.chunks |-> item.chunks[i].data]) ELSE item.data
RECURSIVE Meant(_)
Meant(item) ==
  CASE item.kind \in {"uint", "nint"} -> <<item.kind, item.arg>>
    [] item.kind = "float" -> <<"float", item.raw>>
    [] item.kind \in {"text", "bytes"} -> <<item.kind, item.data>>
    [] item.kind = "chunks" -> <<item.of, Spelt(item)>>
    [] item.kind = "simple" ->
         IF item.arg \in {<<22>>, <<23>>} THEN <<"null">>
         ELSE <<IF item.arg \in {<<20>>, <<21>>} THEN "bool" ELSE "simple", item.arg>>
    [] item.kind = "tag" -> <<"tag", item.arg, Meant(item.item)>>
    [] item.kind = "array" -> <<"array", [i \in DOMAIN item.items |-> Meant(item.items[i])]>>
    [] item.kind = "map" ->
         <<"map", [i \in DOMAIN item.entries |-> <<Meant(item.entries[i][1]), Meant(item.entries[i][2])>>]>>
RECURSIVE Rendering(_)
Rendering(item) ==
  LET v == Meant(item) IN
  CASE v[1] = "text" -> 2 + Len(v[2])
    [] v[1] = "bytes" -> 3 + 2 * Len(v[2])
    [] v[1] \in {"array", "map", "tag"} -> 2 + FoldLeft(LAMBDA n, x : n + Rendering(x), 0, Inside(item))
    [] OTHER -> 1
SameMeaning(x, y) == Meant(x)[1] = Meant(y)[1] /\ Meant(x) = Meant(y)
KeyIsNamed(key) == Rendering(key) <= RenderBound
IsNumber(key, n) == key.kind = "uint" /\ Number(key.arg) = n
NameOf(entries, i) ==
  LET key == entries[i][1] IN
  IF KeyIsNamed(key) THEN IF key.kind = "uint" THEN Segment("index", Number(key.arg)) ELSE Segment("key", Meant(key))
  ELSE IF \E j \in DOMAIN entries : IsNumber(entries[j][1], i - 1) THEN Segment("unnamed", 0)
  ELSE Segment("index", i - 1)
\* What a name settles: the entry itself, no more than the map it is in, or another entry,
\* the first of that key.
Plainkey(key) == key.kind \notin {"array", "map", "tag"} /\ Meant(key)[1] # "simple"
Settles(entries, i) ==
  CASE NameOf(entries, i).kind = "unnamed" ->
         IF \A j \in DOMAIN entries : Plainkey(entries[j][1]) /\ (j # i => KeyIsNamed(entries[j][1])) THEN "entry" ELSE "map"
    [] KeyIsNamed(entries[i][1]) ->
         IF \E j \in 1..(i - 1) : SameMeaning(entries[j][1], entries[i][1]) THEN "other" ELSE "entry"
    [] OTHER -> "entry"
\* A key that is not named is written into the path where it can be.
PathOf(entries, i) ==
  LET key == entries[i][1]
      meant == Meant(key)
  IN IF ~KeyIsNamed(key) /\ meant[1] \in {"text", "bytes"} /\ WrittenLength(meant[1], meant[2]) <= MaxPathKey
     THEN Segment("key", meant) ELSE NameOf(entries, i)

\* ---- places ----

\* An item at an offset of the document, the segments of its location and of its path, the
\* entry's key, how many payloads it is inside of and the longest sequence among them.
Place(item, at) ==
  [item |-> item, at |-> at, segs |-> <<>>, path |-> <<>>, key |-> <<>>, settles |-> "entry", holder |-> <<>>, embeds |-> 0, longest |-> 0]
Go(from, item, at, seg, written) ==
  [from EXCEPT !.item = item, !.at = at, !.segs = Append(@, seg), !.path = Append(@, IF from.embeds = 0 THEN written ELSE seg),
               !.key = <<>>, !.holder = <<>>]
RECURSIVE Bare(_)
Bare(place) ==
  IF place.item.kind = "tag" THEN Bare([place EXCEPT !.item = @.item, !.at = @ + Len(HeaderOf(place.item))]) ELSE place
RECURSIVE Below(_)
\* A map's entry, an item of a payload that holds several.
AtEntry(p, i, start) ==
  [Go(p, p.item.entries[i][2], start[2 * i], NameOf(p.item.entries, i), PathOf(p.item.entries, i))
     EXCEPT !.key = <<[item |-> p.item.entries[i][1], at |-> start[2 * i - 1]]>>,
            !.settles = Settles(p.item.entries, i), !.holder = <<[item |-> p.item, at |-> p.at]>>]
InSequence(p, items, start) ==
  LET inner == [p EXCEPT !.embeds = @ + 1, !.longest = IF Len(items) > @ THEN Len(items) ELSE @]
  IN {Go(inner, items[i], start[i], Segment("index", i - 1), Segment("index", i - 1)) : i \in DOMAIN items}
InItem(p, content, start) ==
  CASE p.item.kind = "array" ->
         {Go(p, p.item.items[i], start[i], Segment("index", i - 1), Segment("index", i - 1)) : i \in DOMAIN p.item.items}
    [] p.item.kind = "map" -> {AtEntry(p, i, start) : i \in DOMAIN p.item.entries}
    [] p.item.kind = "bytes" ->
         UNION {IF Len(items) = 1 THEN Below([p EXCEPT !.item = items[1], !.at = content, !.embeds = @ + 1])
                ELSE InSequence(p, items, StartsFrom(items, content)) : items \in Holding(p.item.data)}
    [] OTHER -> {}
ContentOf(p) == p.at + Len(HeaderOf(p.item))
Below(place) ==
  LET p == Bare(place) IN InItem(p, ContentOf(p), StartsFrom(Inside(p.item), ContentOf(p)))
\* Every place down to a depth, no further than a name settles.
Places(doc, depth) ==
  LET reached[n \in 0..depth] ==
        IF n = 0 THEN {Place(doc, 0)} ELSE UNION {Below(p) : p \in {q \in reached[n - 1] : q.settles = "entry"}}
  IN UNION {reached[n] : n \in 0..depth}

WithinBounds(place) == place.embeds <= MaxEmbedded /\ place.longest <= MaxItems
\* What an error at the place is to show: the views of its item, tagged and bare, and key.
Shown(place) ==
  LET bare == Bare(place) IN
  [tagged |-> View(ItemTree(place.item, place.at), 0),
   untagged |-> IF bare.item = place.item THEN <<>> ELSE <<View(ItemTree(bare.item, bare.at), 0)>>,
   key |-> [i \in DOMAIN place.key |-> View(ItemTree(place.key[i].item, place.key[i].at), 0)], embedded |-> place.embeds > 0]
ShownHolder(place) ==
  [tagged |-> View(ItemTree(place.holder[1].item, place.holder[1].at), 0), untagged |-> <<>>, key |-> <<>>,
   embedded |-> place.embeds > 0]

\* ---- documents ----

U(n) == [kind |-> "uint", arg |-> Counted(n), width |-> 0]
N(n) == [kind |-> "nint", arg |-> Counted(n), width |-> 0]
Constant_(n) == [kind |-> "simple", arg |-> <<n>>, width |-> 0]
F == [kind |-> "float", raw |-> <<60, 0>>]
B(data) == [kind |-> "bytes", data |-> data, width |-> IF Len(data) < 24 THEN 0 ELSE 1]
T(data) == [kind |-> "text", data |-> data, width |-> 0]
Pieces(of, chunks) == [kind |-> "chunks", of |-> of, chunks |-> chunks]
Arr(items, width) == [kind |-> "array", items |-> items, width |-> width]
MapOf(entries, width) == [kind |-> "map", entries |-> entries, width |-> width]
TaggedItem(item) == [kind |-> "tag", arg |-> <<5>>, width |-> 0, item |-> item]
a == T(<<97>>)
Long == T(<<97, 97, 97, 97, 97, 97, 98>>)
Longer == T(<<97, 97, 97, 97, 97, 97, 97, 97, 97, 97, 97, 97, 97>>)
LongBytes == B(<<1, 2, 3, 4>>)

\* Payloads: one item, a sequence, an item that holds another payload, past the bound too.
Nest == <<Arr(<<U(1), TaggedItem(MapOf(<<<<a, U(2)>>, <<Long, U(3)>>>>, 0))>>, 0)>>
ItemsWith(nested) == {Nest, <<U(1), Arr(<<U(2), a>>, Indefinite)>>, <<B(nested)>>, <<MapOf(<<<<Long, B(nested)>>>>, 0)>>,
  <<B(Run(<<B(nested)>>))>>, <<U(1), B(Run(<<B(nested)>>))>>, <<>>, <<U(1), U(2), U(3), U(4)>>}
PayloadItems == ItemsWith(Run(Nest))
ByBytes(written) == [data \in {w[1] : w \in written} |-> (CHOOSE w \in written : w[1] = data)[2]]
MCPayloads == ByBytes({<<Run(items), items>> : items \in PayloadItems})
InPayload(items) == [i \in DOMAIN items |-> [at |-> StartsFrom(items, 0)[i], node |-> ItemTree(items[i], 0)]]
Decoded(payloads) == [data \in DOMAIN payloads |-> InPayload(payloads[data])]
MCSequences == Decoded(MCPayloads)

FewKeys == {U(0), U(1), a, Pieces("text", <<a>>), Long, Longer, LongBytes, Pieces("text", <<Long, a>>), Arr(<<Long>>, 0),
        Arr(<<U(1), a>>, Indefinite), Constant_(19)}
KeyItems == FewKeys \cup {N(0), T(<<97, 32>>), B(<<7>>), F, Constant_(20), Constant_(22), Constant_(23), TaggedItem(U(0)),
                  MapOf(<<<<a, U(0)>>>>, 0)}
Held == {<<Arr(<<U(3), TaggedItem(U(4))>>, Indefinite), 0>>, <<B(Run(Nest)), Indefinite>>}
MCDocuments ==
  {MapOf(<<<<k, U(1)>>, <<l, h[1]>>>>, h[2]) : k, l \in KeyItems, h \in Held}
  \cup {TaggedItem(MapOf(<<<<k, U(1)>>, <<l, TaggedItem(Arr(<<U(5)>>, 0))>>, <<m, U(2)>>>>, 0)) :
          k \in {U(0), a, Long, LongBytes, Arr(<<Long>>, 0)}, l, m \in FewKeys}
  \cup {Arr(<<U(0), B(Run(p))>>, 0) : p \in PayloadItems}

Error(depth, limit, path, span, expected) ==
  [depth |-> depth, limit |-> limit, path |-> path, span |-> span, kind |-> "mismatch", expected |-> expected]
SampleErrors == {Error(0, FALSE, "root", 1, "x"), Error(1, FALSE, "a", 1, "x"), Error(1, FALSE, "a", 1, "y"), Error(1, FALSE, "a", 2, ""),
  Error(1, TRUE, "b", 1, ""), Error(2, FALSE, "c", 1, "x"), Error(2, FALSE, "c", 1, "z"), Error(2, TRUE, "d", 2, "x")}
MCErrorLists == UNION {[1..n -> SampleErrors] : n \in 1..4}

VARIABLES doubt, found
NoDoubt == [doc |-> a, place |-> Place(a, 0), errors |-> <<>>]
ReportInit ==
  /\ found = <<>>
  /\ \/ \E doc \in MCDocuments : \E place \in Places(doc, 4) : doubt = [NoDoubt EXCEPT !.doc = doc, !.place = place]
     \/ \E errors \in MCErrorLists : doubt = [NoDoubt EXCEPT !.errors = errors]
LocateIt ==
  /\ found = <<>> /\ doubt.errors = <<>>
  /\ LET tree == ItemTree(doubt.doc, 0) IN
     found' = <<[located |-> Locate(tree, doubt.place.segs), path |-> JsonPath(tree, doubt.place.segs)]>>
  /\ UNCHANGED doubt
ReportThem == found = <<>> /\ doubt.errors # <<>> /\ found' = <<Report(doubt.errors)>> /\ UNCHANGED doubt
ReportNext == LocateIt \/ ReportThem
ReportSpec == ReportInit /\ [][ReportNext]_<<doubt, found>>

AtPlace == found # <<>> /\ doubt.errors = <<>>
\* What is shown for a location is the item it stands for, its tag, key and payload with it
\* (validation.rs, locate_cbor_node): keys that are no text, entries past the indexed ones,
\* tags, embedded payloads and sequences included. What no key can settle is shown as the
\* map that holds it, and nothing past the bounds. The JSON path leads to the same entry.
LocatedItemIsNamed ==
  AtPlace =>
    LET located == found[1].located IN
    CASE ~WithinBounds(doubt.place) -> located = <<>>
      [] WithinBounds(doubt.place) /\ doubt.place.settles = "entry" ->
           located = <<Shown(doubt.place)>> /\ found[1].path = doubt.place.path
      [] WithinBounds(doubt.place) /\ doubt.place.settles = "map" -> located = <<ShownHolder(doubt.place)>>
      [] OTHER -> located # <<>>
Occurrences(report) == FoldLeft(LAMBDA n, g : n + g.occurrences, 0, report.listed)
\* The error that leads a report is outranked by none, and no error is lost uncounted: each
\* is listed, folded into one that is, or dropped with its group (validation.rs, fold_errors).
ReportAccountsForErrors ==
  found # <<>> /\ doubt.errors # <<>> =>
    LET report == found[1] IN
    /\ \A i \in DOMAIN doubt.errors : ~Outranks(doubt.errors[i], report.listed[1].error)
    /\ report.dropped = 0 <=> Occurrences(report) = Len(doubt.errors)
    /\ report.dropped = 0 => \A i \in DOMAIN doubt.errors :
         \E g \in Range(report.listed) : SameError(g.error, doubt.errors[i])
==================================================================================
