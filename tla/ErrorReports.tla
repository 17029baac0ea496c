------------------------------- MODULE ErrorReports -------------------------------
\* What validate_cbor_against_cddl says of the errors the validator found: which comes
\* first and which are told apart, the place in the document each is about, and the path
\* that names it (validation.rs, diagnostic.rs).
\*
\* A location is a sequence of segments: "index" (value a number: an array's item, a map's
\* integer key, or a map's entry by position), "key" (value a key's value), "unnamed" and
\* "opaque". A value is a tuple of its kind and what it is made of, integers and strings
\* of bytes by their bytes.
EXTENDS CborTree

CONSTANTS
  Sequences,       \* decode_cbor_sequence: the items of the payloads there are, with their offsets
  IndexedEntries,  \* INDEXED_MAP_ENTRIES
  MaxEmbedded,     \* MAX_EMBEDDED_DEPTH
  MaxItems,        \* MAX_SEQUENCE_ITEMS
  RenderBound,     \* MAX_RENDERED_DATA_LENGTH of the validator
  MaxPathKey,      \* MAX_PATH_KEY_LEN
  MaxSegments,     \* MAX_MAPPED_LOCATION_SEGMENTS
  MaxAdditional,
  MaxAlternatives

Segment(kind, value) == [kind |-> kind, value |-> value]

\* ---- keys: node_matches, string_payload, int_node_is ----

IsInteger(node) == node.type \in {"uint", "nint", "wide"}
WithoutBreak(items) == SelectSeq(items, LAMBDA n : IsEntry(n) \/ n.type # "break")
\* string_payload: the text of a node of that type, its chunks spliced; none of another.
Payload(node, type) ==
  CASE node.type = type -> <<node.value>>
    [] node.type = ChunkedType(type) -> <<FlattenSeq([i \in DOMAIN WithoutBreak(node.items) |-> node.items[i].value])>>
    [] OTHER -> <<>>
Simply(node, values) == node.type = "simple" /\ node.value \in values
RECURSIVE NodeIs(_, _)
NodeIs(node, v) ==
  CASE v[1] = "uint" -> node.type = "uint" /\ node.value = v[2]
    [] v[1] = "nint" -> node.type \in {"nint", "wide"} /\ node.value = v[2]
    [] v[1] \in {"bytes", "text"} -> Payload(node, v[1]) = <<v[2]>>
    [] v[1] = "float" -> node.type = "float" /\ node.value = v[2]
    [] v[1] = "null" -> Simply(node, {<<22>>, <<23>>})
    [] v[1] \in {"bool", "simple"} -> Simply(node, {v[2]})
    [] v[1] = "tag" -> node.type = "tag" /\ node.tag = v[2] /\ NodeIs(node.items[1], v[3])
    [] v[1] = "array" ->
         /\ node.type = "array"
         /\ LET items == WithoutBreak(node.items)
            IN Len(items) = Len(v[2]) /\ \A i \in DOMAIN items : NodeIs(items[i], v[2][i])
    [] v[1] = "map" ->
         /\ node.type = "map"
         /\ LET entries == WithoutBreak(node.items)
            IN /\ Len(entries) = Len(v[2])
               /\ \A i \in DOMAIN entries : NodeIs(entries[i].key, v[2][i][1]) /\ NodeIs(entries[i].value, v[2][i][2])

\* ---- step_into ----

Step(value, key) == <<[value |-> value, key |-> key]>>
EntryAt(items, i) == IF i \in DOMAIN items /\ IsEntry(items[i]) THEN Step(items[i].value, <<items[i].key>>) ELSE <<>>
EntriesOf(node) == {i \in DOMAIN node.items : IsEntry(node.items[i])}
FirstOf(indices) == CHOOSE i \in indices : \A j \in indices : i <= j
EntryOf(node, indices) == IF indices = {} THEN <<>> ELSE EntryAt(node.items, FirstOf(indices))
\* unnamed_entry: the one key that renders past the bound, when no other may.
RendersPast(key) ==
  \E p \in {<<"text", 2>>, <<"bytes", 3>>} :
    LET spelt == Payload(key, p[1])
    IN spelt # <<>> /\ p[2] + (IF p[1] = "bytes" THEN 2 * Len(spelt[1]) ELSE Len(spelt[1])) > RenderBound
Measured(key) ==
  \/ Payload(key, "text") # <<>> \/ Payload(key, "bytes") # <<>>
  \/ IsInteger(key) \/ key.type = "float" \/ Simply(key, {<<20>>, <<21>>, <<22>>, <<23>>})
UnnamedEntry(node) ==
  LET past == {i \in EntriesOf(node) : RendersPast(node.items[i].key)}
  IN IF Cardinality(past) = 1 /\ \A i \in EntriesOf(node) : Measured(node.items[i].key) THEN EntryOf(node, past) ELSE <<>>
\* Slip: an integer key is not looked for, an index being a position.
IndexedEntry_ByPosition(node, n) == EntryAt(node.items, n + 1)
\* A bare integer is an integer key when the map has one, else a position.
Bytes1(n) == IF n = 0 THEN <<>> ELSE <<n>>
IndexedEntry(node, n) ==
  LET keyed == {i \in EntriesOf(node) : NodeIs(node.items[i].key, <<"uint", Bytes1(n)>>)}
  IN IF keyed = {} THEN EntryAt(node.items, n + 1) ELSE EntryOf(node, keyed)
StepInto(node, seg) ==
  CASE node.type = "array" /\ seg.kind = "index" ->
         IF seg.value + 1 \in DOMAIN node.items THEN Step(node.items[seg.value + 1], <<>>) ELSE <<>>
    [] node.type = "map" /\ seg.kind = "index" -> IndexedEntry(node, seg.value)
    [] node.type = "map" /\ seg.kind = "key" ->
         EntryOf(node, {i \in EntriesOf(node) : NodeIs(node.items[i].key, seg.value)})
    [] node.type = "map" /\ seg.kind = "unnamed" -> UnnamedEntry(node)
    [] OTHER -> <<>>
\* MapKeys, MapKeyIndex::step_into: the first entry of each key of a large map, by text
\* when all its texts are in one piece, and by integer.
KeyIndex(node) ==
  LET typed(types) == {i \in EntriesOf(node) : node.items[i].key.type \in types}
      first(indices) ==
        [v \in {node.items[i].key.value : i \in indices} |-> FirstOf({i \in indices : node.items[i].key.value = v})]
  IN [text |-> IF typed({"chunkedText"}) = {} THEN <<first(typed({"text"}))>> ELSE <<>>, ints |-> first(typed({"uint"}))]
StepKeyed(node, seg, index) ==
  CASE seg.kind = "index" ->
         EntryAt(node.items, IF Bytes1(seg.value) \in DOMAIN index.ints THEN index.ints[Bytes1(seg.value)] ELSE seg.value + 1)
    [] seg.kind = "key" /\ seg.value[2] \in DOMAIN index.text[1] -> EntryAt(node.items, index.text[1][seg.value[2]])
    [] OTHER -> <<>>
ByKey(node, seg) ==
  seg.kind = "index" \/ (seg.kind = "key" /\ seg.value[1] = "text" /\ KeyIndex(node).text # <<>>)
StepIndexed(node, seg) ==
  IF node.type # "map" \/ Len(node.items) < IndexedEntries \/ ~ByKey(node, seg) THEN StepInto(node, seg)
  ELSE StepKeyed(node, seg, KeyIndex(node))

\* ---- locate_cbor_node ----

RECURSIVE Untagged(_)
Untagged(node) == IF node.type = "tag" THEN Untagged(node.items[1]) ELSE node
\* node_view: the header, or the whole of a scalar; and the whole, in the outer document.
View(node, rebase) ==
  LET head == IF "head" \in DOMAIN node THEN node.head ELSE node.end
  IN [span |-> <<node.start + rebase, head - node.start>>, anchor |-> <<node.start + rebase, node.end - node.start>>]
\* The lookup is over with what it found, or goes on in a byte string's content.
Over(located) == [located |-> located]
Located(tagged, untagged, key, embedded) ==
  Over(<<[tagged |-> tagged, untagged |-> untagged, key |-> key, embedded |-> embedded]>>)
\* Where the content of a byte string starts in the outer document.
Within(node, rebase) == rebase + node.start + (node.end - node.start) - Len(node.value)
\* Of a payload of several items a segment chooses one.
LookAmong(items, segs, content) ==
  LET chosen == IF Len(items) = 1 THEN 1 ELSE segs[1].value + 1 IN
  IF Len(items) = 1 \/ (segs[1].kind = "index" /\ chosen \in DOMAIN items /\ Len(items) <= MaxItems)
  THEN [tree |-> items[chosen].node, segs |-> IF Len(items) = 1 THEN segs ELSE Tail(segs), rebase |-> content + items[chosen].at]
  ELSE Over(<<>>)
LookInside(node, segs, rebase, depth) ==
  IF depth >= MaxEmbedded \/ node.type # "bytes" \/ node.value \notin DOMAIN Sequences THEN Over(<<>>)
  ELSE LookAmong(Sequences[node.value], segs, Within(node, rebase))
\* locate_in: tags are passed through on the way in, and kept on the item itself. A walk
\* stops at the item that has no such step, before segment `at`.
Stepped(item, i, step) ==
  IF step = <<>> THEN [item |-> item, at |-> i] ELSE [node |-> step[1].value, key |-> step[1].key]
WalkInto(tree, segs, keyed) ==
  FoldLeft(LAMBDA w, i :
             IF "at" \in DOMAIN w THEN w
             ELSE LET item == Untagged(w.node)
                  IN Stepped(item, i, IF keyed THEN StepIndexed(item, segs[i]) ELSE StepInto(item, segs[i])),
           [node |-> tree, key |-> <<>>], [i \in DOMAIN segs |-> i])
Landed(walk, segs, rebase, depth) ==
  IF "at" \in DOMAIN walk
  THEN IF walk.item.type = "map" THEN Located(View(walk.item, rebase), <<>>, <<>>, rebase > 0)
       ELSE LookInside(walk.item, SubSeq(segs, walk.at, Len(segs)), rebase, depth)
  ELSE LET inner == Untagged(walk.node) IN
       Located(View(walk.node, rebase), IF inner = walk.node THEN <<>> ELSE <<View(inner, rebase)>>,
               [i \in DOMAIN walk.key |-> View(walk.key[i], rebase)], rebase > 0)
\* Only the outer document's maps are indexed.
LocateIn(look, depth) ==
  IF "located" \in DOMAIN look THEN look
  ELSE Landed(WalkInto(look.tree, look.segs, depth = 0), look.segs, look.rebase, depth)
Locate(tree, segs) ==
  FoldLeft(LocateIn, [tree |-> tree, segs |-> segs, rebase |-> 0], [i \in 1..(MaxEmbedded + 1) |-> i - 1]).located
\* The views an error reports: the entry's for an unexpected key, the tag's when the
\* reason is about one.
Reported(located, aboutEntry, namesTag) ==
  IF aboutEntry /\ located.key # <<>> THEN <<located.key[1], located.tagged>>
  ELSE IF located.untagged # <<>> /\ ~namesTag THEN located.untagged ELSE <<located.tagged>>

\* ---- json_path_in_tree ----

\* push_text_key: an identifier after a dot, any other text in brackets and quotes, those
\* and backslashes escaped.
Identifier(text) == text # <<>> /\ Range(text) \subseteq (65..90 \cup 97..122 \cup {95})
WrittenLength(type, data) ==
  CASE type = "bytes" -> 4 + 2 * Len(data)
    [] type = "text" /\ Identifier(data) -> 1 + Len(data)
    [] OTHER -> 4 + Len(data) + Len(SelectSeq(data, LAMBDA c : c \in {34, 92}))
\* written_key_segment.
Written(key) ==
  LET spelt == {<<type, Payload(key, type)[1]>> : type \in {t \in {"text", "bytes"} : Payload(key, t) # <<>>}}
  IN {Segment("key", s) : s \in {s \in spelt : WrittenLength(s[1], s[2]) <= MaxPathKey}}
PathStep(path, seg, item, step) ==
  LET written == IF item.type = "map" /\ seg.kind \in {"index", "unnamed"} /\ step # <<>> /\ step[1].key # <<>>
                 THEN Written(step[1].key[1]) ELSE {}
  IN [node |-> [i \in DOMAIN step |-> step[i].value],
      path |-> Append(path, IF written = {} THEN seg ELSE CHOOSE s \in written : TRUE)]
JsonPath(tree, segs) ==
  FoldLeft(LAMBDA w, seg :
    IF w.node = <<>> THEN [w EXCEPT !.path = Append(@, seg)]
    ELSE LET item == Untagged(w.node[1]) IN PathStep(w.path, seg, item, StepIndexed(item, seg)),
    [node |-> <<tree>>, path |-> <<>>], segs).path

\* ---- the report: rank_errors, map_cbor_error, fold_errors ----

\* An error is [depth, limit, path, span, kind, expected]. Limits come first, then the
\* deepest, then the first.
Outranks(e, f) == IF e.limit # f.limit THEN e.limit ELSE e.depth > f.depth
Ranked(errors) ==
  LET head == FoldLeft(LAMBDA h, i : IF Outranks(errors[i], errors[h]) THEN i ELSE h, 1, [i \in DOMAIN errors |-> i])
  IN <<errors[head]>> \o RemoveAt(errors, head)
\* Errors are mapped until their locations are too long together, the first always.
Mapped(ranked) ==
  LET walked[i \in 0..Len(ranked)] ==
        IF i = 0 THEN 0 ELSE walked[i - 1] + (IF ranked[i].depth = 0 THEN 1 ELSE ranked[i].depth)
      fits == {n \in 1..Len(ranked) : n = 1 \/ walked[n] <= MaxSegments}
  IN SubSeq(ranked, 1, CHOOSE n \in fits : \A m \in fits : m <= n)
SameError(e, f) == e.path = f.path /\ e.span = f.span /\ e.kind = f.kind
\* An error that is there already adds to its occurrences, and to the alternatives.
Fold(groups, e) ==
  LET same == {i \in DOMAIN groups : SameError(groups[i].error, e)}
      known(g) == e.expected = "" \/ e.expected \in Range(g.alternatives)
      joined(g) == [g EXCEPT !.occurrences = @ + 1, !.alternatives = IF known(g) THEN @ ELSE Append(@, e.expected)]
  IN IF same = {}
     THEN Append(groups, [error |-> e, occurrences |-> 1, alternatives |-> IF e.expected = "" THEN <<>> ELSE <<e.expected>>])
     ELSE [i \in DOMAIN groups |-> IF i \in same THEN joined(groups[i]) ELSE groups[i]]
Upto(s, n) == SubSeq(s, 1, IF Len(s) < n THEN Len(s) ELSE n)
\* Slip: what was never mapped is not counted as dropped.
Report_MappedOnly(errors) ==
  LET groups == FoldLeft(Fold, <<>>, Mapped(Ranked(errors)))
      listed == Upto(groups, 1 + MaxAdditional)
  IN [listed |-> listed, dropped |-> Len(groups) - Len(listed)]
Report(errors) ==
  LET mapped == Mapped(Ranked(errors))
      groups == FoldLeft(Fold, <<>>, mapped)
      listed == Upto(groups, 1 + MaxAdditional)
  IN [listed |-> [i \in DOMAIN listed |-> [listed[i] EXCEPT !.alternatives = Upto(@, MaxAlternatives)]],
      dropped |-> Len(groups) - Len(listed) + Len(errors) - Len(mapped)]
===================================================================================
