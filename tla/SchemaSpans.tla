------------------------------- MODULE SchemaSpans -------------------------------
\* Where in the schema an error is: the walk from the root rule along the location the
\* validator gives, which finds the node of the schema that describes the item there
\* (validation.rs, walk_span and what it calls).
\*
\* A location is a sequence of segments [kind, value]: "index", "text", "int" (a negative
\* or wrapped integer key), "other" (a key of another type), "unnamed" and "opaque". A
\* member key is <<>> or <<[kind, value, long]>>: "text", "uint", "int", or "type"; long
\* when it renders past the validator's bound. The budget of steps a report has is not
\* counted: a walk that exhausts it gives no span.
EXTENDS Cddl

CONSTANTS
  MaxHops,     \* MAX_SPAN_RULE_HOPS: references followed at one position
  MaxReadings  \* MAX_SPAN_READINGS_OPEN: readings of a path held open

TypeCursor(alts, scope, hops) == [at |-> "type", alts |-> alts, scope |-> scope, hops |-> hops]
Container(t, scope) == [at |-> "container", type |-> t, scope |-> scope]
Dead == [at |-> "dead"]
One(t) == [span |-> t.span, choices |-> <<t>>]

\* resolve_type2: references and parameters are followed, which consume no segment.
RECURSIVE Resolve(_, _, _, _)
Resolve(rules, t, scope, hops) ==
  CASE t.kind = "name" /\ hops >= MaxHops -> Dead
    [] t.kind = "name" /\ hops < MaxHops /\ Substituted(scope, t) ->
         LET bound == scope[t.name[2]] IN Resolve(rules, bound.arg, bound.scope, hops + 1)
    [] t.kind = "name" /\ hops < MaxHops /\ ~Substituted(scope, t) ->
         IF DefinesType(rules, t.name)
         THEN TypeCursor(TypeAlts(rules, t.name, t.span), EnterRule(rules, scope, t.name, t.args), hops + 1)
         ELSE Dead
    [] t.kind \in {"paren", "tag"} -> TypeCursor(t.type, scope, hops)
    [] t.kind \in {"map", "array"} -> Container(t, scope)
    [] OTHER -> Dead
Descending(rules, cursor) ==
  SelectSeq([i \in DOMAIN cursor.alts.choices |-> Resolve(rules, cursor.alts.choices[i], cursor.scope, cursor.hops)],
            LAMBDA into : into # Dead)

\* ---- maps ----

KeyMatches(key, seg) ==
  \/ key.kind = "text" /\ seg.kind = "text" /\ key.value = seg.value
  \/ key.kind = "uint" /\ seg.kind \in {"index", "int"} /\ key.value = seg.value
  \/ key.kind = "int" /\ seg.kind = "int" /\ key.value = seg.value
\* member_key_fit: 2 holds the segment, 1 may, 0 does not.
KeyFit(key, seg) ==
  CASE KeyMatches(key, seg) -> 2
    [] ~KeyMatches(key, seg) /\ key.kind = "text" ->
         IF seg.kind = "opaque" \/ (seg.kind \in {"index", "unnamed"} /\ key.long) THEN 1 ELSE 0
    [] ~KeyMatches(key, seg) /\ key.kind \in {"uint", "int"} -> IF seg.kind = "opaque" THEN 1 ELSE 0
    [] OTHER -> 1
MaxOf(fits) == CHOOSE f \in fits \cup {0} : \A g \in fits : f >= g

\* map_group_fit, map_entry_fit.
RECURSIVE EntryFit(_, _, _, _)
GroupFit(rules, group, seg, visited) ==
  MaxOf({EntryFit(rules, e, seg, visited) : e \in UNION {Range(c) : c \in Range(group)}})
EntryFit(rules, e, seg, visited) ==
  CASE e.kind = "member" -> IF e.key = <<>> THEN 1 ELSE KeyFit(e.key[1], seg)
    [] e.kind = "inline" -> GroupFit(rules, e.group, seg, visited)
    [] e.kind = "name" ->
         IF ~DefinesGroup(rules, e.name) \/ e.name \in visited \/ Cardinality(visited) >= MaxHops THEN 1
         ELSE EntryFit(rules, GroupRule(rules, e.name), seg, visited \cup {e.name})

\* map_entry_target, map_one_entry: the first entry of that key, spliced groups included.
Nonempty(found) == SelectSeq(found, LAMBDA f : f # <<>>)
RECURSIVE EntryTarget(_, _, _, _, _)
GroupTarget(rules, group, seg, scope, visited) ==
  LET entries == FlattenSeq(group)
      found == Nonempty([i \in DOMAIN entries |-> EntryTarget(rules, entries[i], seg, scope, visited)])
  IN IF found = <<>> THEN <<>> ELSE found[1]
EntryTarget(rules, e, seg, scope, visited) ==
  CASE e.kind = "member" ->
         IF e.key # <<>> /\ KeyMatches(e.key[1], seg) THEN <<TypeCursor(e.type, scope, 0)>> ELSE <<>>
    [] e.kind = "inline" -> GroupTarget(rules, e.group, seg, scope, visited)
    [] e.kind = "name" ->
         IF ~DefinesGroup(rules, e.name) \/ e.name \in visited \/ Cardinality(visited) >= MaxHops THEN <<>>
         ELSE EntryTarget(rules, GroupRule(rules, e.name), seg,
                          EnterRule(rules, scope, e.name, e.args), visited \cup {e.name})

\* ---- arrays: ArrayCursor ----

\* The slots an entry that starts at one of the positions may take, and may end before.
Covers(positions, max, idx) ==
  /\ max # 0
  /\ \E p \in positions : p <= idx /\ (max # Unbounded => p + max > idx)
Advance(positions, min, max, idx) ==
  {q \in 0..idx : \E p \in positions : p + min <= q /\ (max # Unbounded => q <= p + max)}
\* groupname_candidate: where the walk goes on from a name that takes the slot; the end of
\* the path is the name itself, or the argument it stands for.
NameCandidate(rules, e, scope, ends) ==
  LET bound == scope[e.name[2]] IN
  IF Substituted(scope, e)
  THEN IF ends THEN [span |-> bound.arg.span] ELSE [into |-> Resolve(rules, bound.arg, bound.scope, 1)]
  ELSE IF ends \/ ~DefinesType(rules, e.name) THEN [span |-> e.span]
  ELSE [into |-> TypeCursor(TypeAlts(rules, e.name, e.span), EnterRule(rules, scope, e.name, e.args), 1)]

Slots(positions, candidates, bail) == [positions |-> positions, candidates |-> candidates, bail |-> bail]
Takes(slots, occur, candidate, idx) ==
  LET b == Bounds(occur) IN
  Slots(Advance(slots.positions, b[1], b[2], idx),
        IF Covers(slots.positions, b[2], idx) THEN Append(slots.candidates, candidate) ELSE slots.candidates,
        slots.bail)
Bails(slots) == [slots EXCEPT !.bail = TRUE]
\* walk_entries, walk_entry, walk_choices. A repeated group, or one within itself, has no
\* settled slots.
RECURSIVE WalkEntry(_, _, _, _, _, _, _)
WalkEntries(rules, entries, slots, scope, visited, idx, ends) ==
  FoldLeft(LAMBDA s, e : IF s.positions = {} \/ s.bail THEN s ELSE WalkEntry(rules, e, s, scope, visited, idx, ends),
           slots, entries)
WalkEntry(rules, e, slots, scope, visited, idx, ends) ==
  CASE e.kind = "member" -> Takes(slots, e.occur, [into |-> TypeCursor(e.type, scope, 0)], idx)
    [] e.kind = "inline" /\ e.occur # <<>> -> Bails(slots)
    [] e.kind = "inline" /\ e.occur = <<>> ->
         LET walked == FoldLeft(LAMBDA s, c :
                LET after == WalkEntries(rules, c, [s EXCEPT !.positions = slots.positions], scope, visited, idx, ends)
                IN [after EXCEPT !.positions = @ \cup s.positions],
              [slots EXCEPT !.positions = {}], e.group)
         IN walked
    [] e.kind = "name" /\ DefinesGroup(rules, e.name) ->
         IF e.occur # <<>> \/ e.name \in visited \/ Cardinality(visited) >= MaxHops THEN Bails(slots)
         ELSE WalkEntry(rules, GroupRule(rules, e.name), slots, EnterRule(rules, scope, e.name, e.args),
                        visited \cup {e.name}, idx, ends)
    [] OTHER -> Takes(slots, e.occur, NameCandidate(rules, e, scope, ends), idx)
Readings(rules, entries, scope, idx, ends) ==
  WalkEntries(rules, entries, Slots({0}, <<>>, FALSE), scope, {}, idx, ends)

\* ---- choices ----

\* cursor_fit.
RECURSIVE Fit(_, _, _, _)
ArrayFit(rules, cursor, seg) ==
  LET readings == {Readings(rules, c, cursor.scope, seg.value, FALSE) : c \in Range(cursor.type.group)}
  IN IF \E r \in readings : ~r.bail /\ r.candidates # <<>> THEN 2
     ELSE IF \E r \in readings : r.bail THEN 1 ELSE 0
Fit(rules, cursor, seg, depth) ==
  CASE cursor.at = "container" ->
         IF cursor.type.kind = "map" THEN GroupFit(rules, cursor.type.group, seg, {})
         ELSE IF seg.kind = "index" THEN ArrayFit(rules, cursor, seg) ELSE 0
    [] cursor.at = "type" ->
         IF depth >= MaxHops THEN 1
         ELSE MaxOf({Fit(rules, into, seg, depth + 1) : into \in Range(Descending(rules, cursor))})
\* The first alternative of the greatest fit.
Chosen(rules, descending, seg) ==
  LET fits == [i \in DOMAIN descending |-> Fit(rules, descending[i], seg, 0)]
      first == CHOOSE i \in DOMAIN fits : \A j \in DOMAIN fits : fits[i] >= fits[j] /\ (fits[i] = fits[j] => i <= j)
  IN descending[first]

\* ---- map_holding_span, single_path_to_map ----

IsMap(cursor) == cursor.at = "container" /\ cursor.type.kind = "map"
RECURSIVE SinglePath(_, _)
SinglePath(rules, cursor) ==
  IF Len(cursor.alts.choices) # 1 THEN [end |-> "choice", cursor |-> cursor]
  ELSE LET into == Resolve(rules, cursor.alts.choices[1], cursor.scope, cursor.hops)
       IN IF IsMap(into) THEN [end |-> "map", span |-> into.type.span]
          ELSE IF into.at = "type" THEN SinglePath(rules, into) ELSE [end |-> "none"]
MapHolding(rules, cursor) ==
  LET path == SinglePath(rules, cursor)
      mapOf(into) ==
        IF IsMap(into) THEN into.type.span
        ELSE IF into.at = "container" THEN NoSpan
        ELSE LET inner == SinglePath(rules, into) IN IF inner.end = "map" THEN inner.span ELSE NoSpan
      found == LET into == Descending(rules, path.cursor)
               IN SelectSeq([i \in DOMAIN into |-> mapOf(into[i])], LAMBDA s : s # NoSpan)
  IN CASE path.end = "none" -> cursor.alts.span
       [] path.end = "map" -> path.span
       [] path.end = "choice" -> IF Len(found) = 1 THEN found[1] ELSE path.cursor.alts.span

\* ---- walk_span ----

RECURSIVE WalkFrom(_, _, _, _, _)
\* One reading of an array's slot is followed; several must come to the same span.
WalkReadings(rules, candidates, segs, open, end, otherwise) ==
  LET ahead(c, o) == IF "span" \in DOMAIN c THEN c.span
                     ELSE IF c.into = Dead THEN NoSpan ELSE WalkFrom(rules, c.into, Tail(segs), o, end)
      found == {ahead(candidates[i], open + 1) : i \in DOMAIN candidates}
  IN IF Len(candidates) = 1
     THEN IF "into" \in DOMAIN candidates[1] /\ candidates[1].into = Dead THEN otherwise ELSE ahead(candidates[1], open)
     ELSE IF NoSpan \notin found /\ Cardinality(found) = 1 THEN CHOOSE s \in found : TRUE ELSE otherwise
WalkArray(rules, cursor, segs, open, end) ==
  LET ends == Len(segs) = 1 /\ end = "item"
      group == cursor.type.group
      readings == SelectSeq([i \in DOMAIN group |-> Readings(rules, group[i], cursor.scope, Head(segs).value, ends)],
                            LAMBDA r : r.candidates # <<>>)
  IN IF Head(segs).kind # "index" \/ readings = <<>> \/ readings[1].bail THEN cursor.type.span
     ELSE WalkReadings(rules, readings[1].candidates, segs, open, end, cursor.type.span)
WalkFrom(rules, cursor, segs, open, end) ==
  IF open > MaxReadings THEN NoSpan
  ELSE IF cursor.at = "type"
  THEN LET descending == Descending(rules, cursor) IN
       IF segs = <<>> THEN IF end = "item" THEN cursor.alts.span ELSE MapHolding(rules, cursor)
       ELSE IF descending = <<>> THEN cursor.alts.span
       ELSE WalkFrom(rules, Chosen(rules, descending, Head(segs)), segs, open, end)
  ELSE IF segs = <<>> THEN cursor.type.span
  ELSE IF cursor.type.kind = "array" THEN WalkArray(rules, cursor, segs, open, end)
  ELSE LET target == GroupTarget(rules, cursor.type.group, Head(segs), cursor.scope, {})
       IN IF target = <<>> THEN cursor.type.span
          ELSE WalkFrom(rules, target[1], Tail(segs), open, end)
\* The root rule is referred to by nothing: an extended one is written where it is named.
RootCursor(rules, written) ==
  LET name == RootRule(rules, written).name
  IN TypeCursor(TypeAlts(rules, name, NamedAt(rules, name)), EmptyScope, 0)
SchemaSpan(rules, written, segs, end) == WalkFrom(rules, RootCursor(rules, written), segs, 0, end)
=============================================================================
