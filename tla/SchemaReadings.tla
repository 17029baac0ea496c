------------------------------ MODULE SchemaReadings ------------------------------
\* What a location may be in a schema: every reading of the rules that ignores the data,
\* by RFC 8610. Not code of this repository: what the walk of SchemaSpans is held to.
\*
\* A place is a type with the scope it is read in. The places of a location are all
\* those its item may be described by; a place stands for containers, through names,
\* parentheses, tags and arguments, and touches the spans on the way to them. A place is
\* sure when its key is written out and no group is repeated before it.
EXTENDS SchemaSpans

Spot(type, scope) == [type |-> type, scope |-> scope, sure |-> TRUE]
\* What the parameters of a rule stand for where it is named: an argument is read in the
\* scope it is written in.
Cut(s, n) == SubSeq(s, 1, IF Len(s) < n THEN Len(s) ELSE n)
InScope(rules, caller, name, args) ==
  LET params == Cut(ParamsOf(rules, name), Len(args))
  IN [p \in Range(params) |-> [arg |-> args[CHOOSE i \in DOMAIN params : params[i] = p], scope |-> caller]]
Unsure(place) == [place EXCEPT !.sure = FALSE]
\* The places a place is another name for, itself included.
RECURSIVE NamedSpots(_, _, _)
NamedSpots(rules, place, depth) ==
  {place} \cup
  IF depth = 0 THEN {}
  ELSE UNION {CASE t.kind = "name" /\ Substituted(place.scope, t) ->
                     LET bound == place.scope[t.name[2]]
                     IN NamedSpots(rules, Spot(One(bound.arg), bound.scope), depth - 1)
                [] t.kind = "name" /\ ~Substituted(place.scope, t) /\ DefinesType(rules, t.name) ->
                     NamedSpots(rules, Spot(TypeAlts(rules, t.name, t.span),
                                        InScope(rules, place.scope, t.name, t.args)), depth - 1)
                [] t.kind \in {"paren", "tag"} -> NamedSpots(rules, Spot(t.type, place.scope), depth)
                [] OTHER -> {} : t \in Range(place.type.choices)}
Containers(rules, place) ==
  UNION {{Container(t, p.scope) : t \in {x \in Range(p.type.choices) : x.kind \in {"map", "array"}}} :
           p \in NamedSpots(rules, place, MaxHops)}
Touched(rules, place) ==
  {p.type.span : p \in NamedSpots(rules, place, MaxHops)} \cup {c.type.span : c \in Containers(rules, place)}

\* ---- the entries of a map, the slots of an array ----

RECURSIVE Members(_, _, _, _)
Members(rules, e, scope, depth) ==
  CASE e.kind = "member" -> IF e.key = <<>> THEN {} ELSE {[key |-> e.key[1], place |-> Spot(e.type, scope)]}
    [] e.kind = "inline" -> UNION {Members(rules, f, scope, depth) : f \in UNION {Range(c) : c \in Range(e.group)}}
    [] e.kind = "name" ->
         IF depth = 0 \/ ~DefinesGroup(rules, e.name) THEN {}
         ELSE Members(rules, GroupRule(rules, e.name), InScope(rules, scope, e.name, e.args), depth - 1)
\* A key type may be any key; a key written out past the validator's bound may be the
\* entry it names by position.
MayBe(key, seg) ==
  KeyMatches(key, seg) \/ key.kind = "type" \/ seg.kind = "opaque" \/ (key.long /\ seg.kind \in {"index", "unnamed"})
MapPlaces(rules, t, scope, seg) ==
  LET members == UNION {Members(rules, e, scope, MaxHops) : e \in UNION {Range(c) : c \in Range(t.group)}}
  IN {IF KeyMatches(m.key, seg) THEN m.place ELSE Unsure(m.place) : m \in {x \in members : MayBe(x.key, seg)}}

\* The sequences of places a group stands for, cut at n.
Then(A, B, n) == {Cut(a \o b, n) : a \in A, b \in B}
Times(A, k, n) == LET power[i \in 0..k] == IF i = 0 THEN {<<>>} ELSE Then(power[i - 1], A, n) IN power[k]
Repeating(A, occur) == IF occur = <<>> THEN A ELSE {[i \in DOMAIN s |-> Unsure(s[i])] : s \in A}
Occurring(A, occur, n) ==
  LET b == Bounds(occur)
      most == IF b[2] = Unbounded THEN (IF b[1] > n THEN b[1] ELSE n) ELSE b[2]
  IN UNION {Times(A, k, n) : k \in b[1]..most}
RECURSIVE ItemRuns(_, _, _, _, _)
InTurn(rules, entries, scope, depth, n) ==
  FoldLeft(LAMBDA A, e : Then(A, Occurring(ItemRuns(rules, e, scope, depth, n), e.occur, n), n), {<<>>}, entries)
ItemRuns(rules, e, scope, depth, n) ==
  CASE e.kind = "member" -> {<<Spot(e.type, scope)>>}
    [] e.kind = "inline" -> Repeating(UNION {InTurn(rules, c, scope, depth, n) : c \in Range(e.group)}, e.occur)
    [] e.kind = "name" /\ DefinesGroup(rules, e.name) ->
         IF depth = 0 THEN {}
         ELSE LET body == GroupRule(rules, e.name) IN
              Repeating(Occurring(ItemRuns(rules, body, InScope(rules, scope, e.name, e.args), depth - 1, n),
                                  body.occur, n), e.occur)
    [] OTHER ->
         {<<IF Substituted(scope, e) THEN Spot(One(scope[e.name[2]].arg), scope[e.name[2]].scope)
            ELSE Spot(One([kind |-> "name", span |-> e.span, name |-> e.name, args |-> e.args]), scope)>>}
ArrayPlaces(rules, t, scope, index) ==
  {s[index + 1] : s \in {x \in UNION {InTurn(rules, c, scope, MaxHops, index + 1) : c \in Range(t.group)} :
                           Len(x) > index}}

\* ---- locations ----

Beneath(rules, place, seg) ==
  UNION {CASE c.type.kind = "map" -> MapPlaces(rules, c.type, c.scope, seg)
           [] c.type.kind = "array" -> IF seg.kind = "index" THEN ArrayPlaces(rules, c.type, c.scope, seg.value) ELSE {} :
         c \in Containers(rules, place)}
PlacesAt(rules, root, segs) ==
  FoldLeft(LAMBDA places, seg : UNION {Beneath(rules, p, seg) : p \in places}, {root}, segs)
RootPlace(rules, written) ==
  LET cursor == RootCursor(rules, written) IN Spot(cursor.alts, cursor.scope)

\* The node found describes the item at the location, in one reading at least, or one
\* that the item is in; asked for the map that holds an entry, it may go on to it.
Describes(rules, written, segs, end, span) ==
  LET root == RootPlace(rules, written) IN
  \/ \E p \in PlacesAt(rules, root, segs) :
       IF end = "item" THEN span = p.type.span ELSE span \in Touched(rules, p)
  \/ \E prefix \in Prefixes(segs) \ {segs} : \E p \in PlacesAt(rules, root, prefix) : span \in Touched(rules, p)
\* Every item down to that of the location has one place, and surely that one.
OneReading(rules, written, segs) ==
  LET root == RootPlace(rules, written) IN
  \A prefix \in Prefixes(segs) :
    LET places == PlacesAt(rules, root, prefix) IN Cardinality(places) = 1 /\ \A p \in places : p.sure
TheSpan(rules, written, segs) ==
  (CHOOSE p \in PlacesAt(rules, RootPlace(rules, written), segs) : TRUE).type.span
===================================================================================
