------------------------------ MODULE SchemaMapper ------------------------------
\* decode_cbor_against_cddl: a decoded item named by the schema that describes it
\* (schema_mapper.rs). A schema reads an item strictly, or leniently, or not at all, and
\* then the item is shown raw; what a walk decides is kept for the position map.
\*
\* An item is [at, kind, ...]: "int", "text", "bytes", "null" and "bool" (value), "simple",
\* "array" (items), "map" (entries, pairs of a key and a value), "tag" (tag, item). `at` is
\* the item's own. Bytes have the lengths of their chunks and, `holds`, the item they are
\* the bytes of, if they are; `number`, what they come to as a number, if it fits 128 bits.
\* Beside the nodes of Cddl: "literal" (of, value), "any", "enum" (name), and a type with an
\* operator: "cbor" (target, inner), "range" (low, high), "control" (op, target, by). A tag
\* has `tag`, the number or none; a key is of kind "text", "uint" or "type" (type). A rule's
\* definition comes before its alternatives. The work a walk may do, the rules it may
\* follow and the declines it remembers are left out.
EXTENDS Cddl, TLC

LeafAt(at) == [leaf |-> at]
NoValue == LeafAt(<<>>)
ListOf(values) == [list |-> values]
Object(fields) == [fields |-> fields]
ReadAs(json, trace) == <<[json |-> json, trace |-> trace]>>
Declined == <<>>

\* ---- RuleIndex, the scope of a rule's body ----

Bodies(rules, name) ==
  LET named(n) == SelectSeq(rules, LAMBDA r : r.name = n) IN
  CASE named(name) # <<>> \/ name[1] # "" -> named(name)
    [] named(name) = <<>> /\ name[1] = "" /\ named(<<"$", name[2]>>) # <<>> -> named(<<"$", name[2]>>)
    [] OTHER -> named(<<"$$", name[2]>>)
OfKind(bodies, kind) == IF bodies = <<>> \/ bodies[1].kind # kind THEN <<>> ELSE SelectSeq(bodies, LAMBDA r : r.kind = kind)
IsParameter(scope, t) == t.args = <<>> /\ t.name[1] = "" /\ t.name[2] \in DOMAIN scope
\* A parameter handed on is what it is bound to already, socket or not.
ScopeOf(caller, params, args) ==
  LET own == EnterScope(caller, params, args)
      passed(arg) == arg.kind = "name" /\ arg.args = <<>> /\ arg.name[2] \in DOMAIN caller
  IN [p \in DOMAIN own |-> IF passed(own[p].arg) THEN caller[own[p].arg.name[2]] ELSE own[p]]
Entered(w, rule, args, at) ==
  [w EXCEPT !.scope = ScopeOf(w.scope, rule.params, args), !.open = @ \cup {<<rule.name, at>>}]
IsOpen(w, rule, at) == <<rule.name, at>> \in w.open

\* ---- raw, json_key, map_needs_entries ----

JsonKey(key) ==
  CASE key.kind \in {"text", "bytes"} -> key.value
    [] key.kind \in {"int", "bool"} -> ToString(key.value)
    [] key.kind = "null" -> "null"
    [] OTHER -> "@" \o key.kind
NeedsEntries(entries) ==
  \E i \in DOMAIN entries :
    \/ entries[i][1].kind \notin {"text", "int", "bytes", "bool", "null"}
    \/ \E j \in 1..(i - 1) : JsonKey(entries[j][1]) = JsonKey(entries[i][1])
PairOf(key, value) == Object("key" :> key @@ "value" :> value)
TagOf(item, value) == Object("@tag" :> LeafAt(item.at) @@ "@value" :> value)
EntriesList(pairs) == Object("@entries" :> ListOf(pairs))
Keyed(keys, values) == [n \in Range(keys) |-> values[CHOOSE i \in DOMAIN keys : keys[i] = n]]
RECURSIVE Raw(_)
Raw(item) ==
  CASE item.kind = "array" -> ListOf([i \in DOMAIN item.items |-> Raw(item.items[i])])
    [] item.kind = "map" ->
         IF NeedsEntries(item.entries)
         THEN EntriesList([i \in DOMAIN item.entries |-> PairOf(Raw(item.entries[i][1]), Raw(item.entries[i][2]))])
         ELSE Object(Keyed([i \in DOMAIN item.entries |-> JsonKey(item.entries[i][1])],
                            [i \in DOMAIN item.entries |-> Raw(item.entries[i][2])]))
    [] item.kind = "tag" -> TagOf(item, Raw(item.item))
    [] item.kind = "simple" -> Object("@simple" :> LeafAt(item.at))
    [] OTHER -> LeafAt(item.at)

\* ---- what a prelude name, a literal, a tag fits ----

NumberNames == {"uint", "nint", "int"}
PreludeNames == NumberNames \cup {"bytes", "text", "bool", "null", "undefined", "any"}
\* try_prelude, which takes no bignum, and prelude_accepts, which does.
Fits(name, item) == (name \in NumberNames /\ item.kind = "int") \/ name = item.kind \/ (name = "undefined" /\ item.kind = "simple")
PreludeAccepts(name, item) ==
  \/ name = "any" \/ Fits(name, item)
  \/ item.kind = "tag" /\ <<name, item.tag>> \in {<<"uint", 2>>, <<"nint", 3>>, <<"int", 2>>, <<"int", 3>>}
IsLiteral(t, item) == item.kind = t.of /\ item.value = t.value
TagMatches(t, item) == item.kind = "tag" /\ (t.tag = <<>> \/ t.tag[1] = item.tag)
\* specialise_known_tag: a bignum is its number, one that fits no integer its bytes under
\* the tag; a date is its text.
IsKnownTag(item) ==
  (item.tag \in {2, 3} /\ item.item.kind = "bytes") \/ (item.tag = 0 /\ item.item.kind = "text")
Specialised(item) ==
  IF item.tag # 0 /\ item.item.number = <<>> THEN TagOf(item, LeafAt(item.item.at)) ELSE LeafAt(item.item.at)
\* try_enum_from_group: a literal member of the group, directly in it.
EnumHas(rules, name, item) ==
  \E r \in Range(OfKind(Bodies(rules, name), "group")) :
    r.body.kind = "inline" /\ \E c \in Range(r.body.group) : \E e \in Range(c) :
      e.kind = "member" /\ e.key # <<>> /\ e.key[1].kind = "uint" /\ item.kind = "int" /\ item.value = e.key[1].value

\* ---- the accept tests ----

\* literal_bound, size_bounds: the number an operand comes to, if it does.
RECURSIVE LiteralBound(_, _, _)
LiteralBound(w, t, depth) ==
  LET alone(type) == IF Len(type.choices) = 1 THEN LiteralBound(w, type.choices[1], depth + 1) ELSE <<>> IN
  CASE depth > 2 -> <<>>
    [] depth <= 2 /\ t.kind = "literal" /\ t.of = "int" -> <<t.value>>
    [] depth <= 2 /\ t.kind = "paren" -> alone(t.type)
    [] depth <= 2 /\ t.kind = "name" ->
         IF t.args = <<>> /\ t.name[2] \in DOMAIN w.scope
         THEN LiteralBound([w EXCEPT !.scope = w.scope[t.name[2]].scope], w.scope[t.name[2]].arg, depth + 1)
         ELSE LET bodies == Bodies(w.rules, t.name)
              IN IF Len(bodies) = 1 /\ bodies[1].kind = "type" THEN alone(bodies[1].body) ELSE <<>>
    [] OTHER -> <<>>
\* numeric_value: an integer, or a bignum by its number (a float is compared too: items have none).
NumberOf(item) ==
  CASE item.kind = "int" -> <<item.value>>
    [] item.kind = "tag" /\ item.tag \in {2, 3} /\ item.item.kind = "bytes" ->
         IF item.tag = 2 THEN item.item.number ELSE [i \in DOMAIN item.item.number |-> -1 - item.item.number[i]]
    [] OTHER -> <<>>
PerChunk(w, item) == \E name \in {<<"", "bounded_bytes">>} : <<name, item.at>> \in w.open \cup w.accepting
TotalLength(chunks) == FoldLeft(+, 0, chunks)
\* A string is sized as a whole, or to a range's upper bound by the chunk.
SizeFits(w, by, item) ==
  LET bounds == IF by.kind = "range" THEN <<LiteralBound(w, by.low, 0), LiteralBound(w, by.high, 0)>>
                ELSE <<LiteralBound(w, by, 0), LiteralBound(w, by, 0)>>
  IN \/ <<>> \in Range(bounds)
     \/ /\ item.kind \in {"bytes", "text"} /\ TotalLength(item.chunks) >= bounds[1][1]
        /\ IF by.kind = "range" /\ PerChunk(w, item) THEN \A c \in Range(item.chunks) : c <= bounds[2][1]
           ELSE TotalLength(item.chunks) <= bounds[2][1]
     \/ NumberOf(item) # <<>> /\ NumberOf(item)[1] \in 0..(256 ^ bounds[2][1] - 1)
InRange(w, t, item) ==
  LET low == LiteralBound(w, t.low, 0) high == LiteralBound(w, t.high, 0) IN
  NumberOf(item) # <<>> /\ (low = <<>> \/ high = <<>> \/ NumberOf(item)[1] \in low[1]..high[1])
RECURSIVE AcceptsType(_, _, _), AcceptsOne(_, _, _)
AcceptsType(w, type, item) == \E i \in DOMAIN type.choices : AcceptsOne(w, type.choices[i], item)
ControlHolds(w, t, item) ==
  CASE t.op = "size" -> SizeFits(w, t.by, item)
    [] t.op = "le" -> LET bound == LiteralBound(w, t.by, 0)
                      IN NumberOf(item) = <<>> \/ bound = <<>> \/ NumberOf(item)[1] <= bound[1]
    [] t.op = "within" -> AcceptsOne(w, t.by, item)
    [] t.op = "ne" -> ~AcceptsOne(w, t.by, item)
    [] OTHER -> TRUE
AcceptsName(w, t, item) ==
  LET bodies == Bodies(w.rules, t.name)
      bound == w.scope[t.name[2]]
  IN CASE IsParameter(w.scope, t) -> AcceptsOne([w EXCEPT !.scope = bound.scope], bound.arg, item)
       [] ~IsParameter(w.scope, t) /\ t.name[1] = "" /\ t.name[2] \in PreludeNames -> PreludeAccepts(t.name[2], item)
       [] OTHER ->
            /\ OfKind(bodies, "type") # <<>> /\ <<bodies[1].name, item.at>> \notin w.accepting
            /\ \E r \in Range(OfKind(bodies, "type")) :
                 AcceptsType([w EXCEPT !.scope = ScopeOf(w.scope, r.params, t.args),
                                   !.accepting = @ \cup {<<r.name, item.at>>}], r.body, item)
AcceptsOne(w, t, item) ==
  CASE t.kind = "name" -> AcceptsName(w, t, item)
    [] t.kind = "range" -> InRange(w, t, item)
    [] t.kind = "cbor" -> AcceptsOne(w, t.target, item)
    [] t.kind = "control" -> AcceptsOne(w, t.target, item) /\ ControlHolds(w, t, item)
    [] t.kind = "paren" -> AcceptsType(w, t.type, item)
    [] t.kind \in {"map", "array"} -> item.kind = t.kind
    [] t.kind = "tag" -> TagMatches(t, item)
    [] t.kind = "literal" -> IsLiteral(t, item)
    [] t.kind = "enum" -> EnumHas(w.rules, t.name, item)
    [] OTHER -> t.kind = "any"

\* ---- try_map_type and what a type is made of ----

\* flatten_entry: an array's inline groups are read in place, all their choices in turn;
\* flatten_map_entry: a map's, when there is one choice, once.
RECURSIVE InArray(_), InMap(_)
InArray(e) ==
  IF e.kind # "inline" THEN <<e>>
  ELSE FlattenSeq([i \in DOMAIN FlattenSeq(e.group) |-> InArray(FlattenSeq(e.group)[i])])
InMap(e) ==
  IF e.kind = "inline" /\ e.occur = <<>> /\ Len(e.group) = 1
  THEN FlattenSeq([i \in DOMAIN e.group[1] |-> InMap(e.group[1][i])]) ELSE <<e>>
ArrayEntries(choice) == FlattenSeq([i \in DOMAIN choice |-> InArray(choice[i])])
MapEntries(choice) == FlattenSeq([i \in DOMAIN choice |-> InMap(choice[i])])
AtMost(n, max) == max = Unbounded \/ n <= max
Wrapped(of, read) == IF read = Declined THEN Declined ELSE ReadAs(read[1].json, [of EXCEPT !.inner = read[1].trace])
OrElse(read, otherwise) == IF read # Declined THEN read ELSE otherwise
AsScalar(item) == ReadAs(LeafAt(item.at), [is |-> "leaf"])
AsWhole(item, is) == ReadAs(Raw(item), [is |-> is])
ModesUpTo(mode) == IF mode = "strict" THEN <<"strict">> ELSE <<"strict", "lenient">>
Leniently(w) == [w EXCEPT !.mode = "lenient"]

RECURSIVE TryType(_, _, _), TryType1(_, _, _), MapChoice(_, _, _), ArrayChoice(_, _, _)
\* map_type, and the walk of an item inside another: strictly; or, in a lenient walk, strictly
\* if that can be done, else leniently, else raw.
OrRaw(w, read, item) == IF read = Declined /\ w.mode = "lenient" THEN AsWhole(item, "raw") ELSE read
Under(w, item, type) ==
  OrRaw(w, FoldLeft(LAMBDA r, mode : IF r # Declined THEN r ELSE TryType([w EXCEPT !.mode = mode], item, type),
                    Declined, ModesUpTo(w.mode)), item)
MapType(w, item, type) == Under(Leniently(w), item, type)[1]
TryType(w, item, type) ==
  FoldLeft(LAMBDA r, i : IF r # Declined THEN r
                         ELSE Wrapped([is |-> "alt", index |-> i, inner |-> 0], TryType1(w, item, type.choices[i])),
           Declined, [i \in DOMAIN type.choices |-> i])
\* try_map_typename: a parameter, a prelude name, a rule and its bodies.
TryRule(w, item, t, bodies) ==
  IF bodies = <<>> \/ IsOpen(w, bodies[1], item.at) THEN Declined
  ELSE FoldLeft(LAMBDA r, body : IF r # Declined THEN r
                                 ELSE Wrapped([is |-> "rule", inner |-> 0],
                                              TryType(Entered(w, body, t.args, item.at), item, body.body)),
                Declined, bodies)
TryName(w, item, t) ==
  LET plain == t.args = <<>> /\ t.name[1] = "" IN
  CASE IsParameter(w.scope, t) ->
         Wrapped([is |-> "binding", inner |-> 0],
                 TryType1([w EXCEPT !.scope = w.scope[t.name[2]].scope], item, w.scope[t.name[2]].arg))
    [] ~IsParameter(w.scope, t) /\ plain /\ t.name[2] = "any" -> AsWhole(item, "whole")
    [] ~IsParameter(w.scope, t) /\ plain /\ t.name[2] # "any" /\ Fits(t.name[2], item) -> AsScalar(item)
    [] OTHER -> TryRule(w, item, t, OfKind(Bodies(w.rules, t.name), "type"))
\* try_map_tagged.
UnderTag(item, held) ==
  IF held = Declined THEN Declined
  ELSE ReadAs(TagOf(item, held[1].json), [is |-> "tagged", inner |-> <<held[1].trace>>])
TryTagged(w, item, t) ==
  CASE ~TagMatches(t, item) -> Declined
    [] TagMatches(t, item) /\ IsKnownTag(item) -> ReadAs(Specialised(item), [is |-> "tagged", inner |-> <<>>])
    [] OTHER -> UnderTag(item, Under(w, item.item, t.type))
\* A byte string's content is read where it can be, and the byte string where it cannot.
TryEmbedded(w, item, t) ==
  IF item.kind # "bytes" \/ item.holds = <<>> THEN TryType1(w, item, t.target)
  ELSE OrElse(Wrapped([is |-> "embedded", inner |-> 0], TryType1(w, item.holds[1], t.inner)), TryType1(w, item, t.target))
FirstChoice(w, item, group) ==
  FoldLeft(LAMBDA r, choice : IF r # Declined THEN r
                              ELSE IF item.kind = "map" THEN MapChoice(w, item, choice) ELSE ArrayChoice(w, item, choice),
           Declined, group)
RECURSIVE EntriesForm(_, _, _)
TryType1(w, item, t) ==
  CASE t.kind = "name" -> TryName(w, item, t)
    [] t.kind = "range" -> IF AcceptsOne(w, t, item) THEN AsWhole(item, "range") ELSE Declined
    [] t.kind = "cbor" -> TryEmbedded(w, item, t)
    [] t.kind = "control" -> IF AcceptsOne(w, t, item) THEN TryType1(w, item, t.target) ELSE Declined
    [] t.kind = "paren" -> Wrapped([is |-> "paren", inner |-> 0], TryType(w, item, t.type))
    [] t.kind \in {"map", "array"} ->
         IF item.kind # t.kind THEN Declined
         ELSE IF t.kind = "map" /\ NeedsEntries(item.entries) THEN EntriesForm(w, item, t.group)
         ELSE FirstChoice(w, item, t.group)
    [] t.kind = "tag" -> TryTagged(w, item, t)
    [] t.kind = "literal" -> IF IsLiteral(t, item) THEN AsScalar(item) ELSE Declined
    [] t.kind = "enum" -> IF EnumHas(w.rules, t.name, item) THEN AsScalar(item) ELSE Declined
    [] t.kind = "any" -> AsWhole(item, "any")
    [] OTHER -> Declined

\* ---- maps ----

\* What a choice has taken of a map: the entries used, and the fields they fill,
\* [wire, name, read, member]; wire is 0, and read <<>>, for a member that is absent.
NothingTaken == [used |-> {}, slots |-> <<>>]
\* A parameter of a body gives its members their scope.
BodyOf(scope, members) == [scope |-> scope, members |-> members]
IsLiteralKey(key) == key.kind # "type"
\* try_match_member_key.
KeyTakes(w, key, k) ==
  CASE key.kind = "text" -> k.kind = "text" /\ k.value = key.value
    [] key.kind = "uint" -> k.kind = "int" /\ k.value = key.value
    [] key.kind = "type" -> AcceptsOne(w, key.type, k)
KeyLabel(key) == IF key.kind = "type" THEN "type" ELSE ToString(key.value)
TextOf(key) == IF key.kind = "text" THEN key.value ELSE KeyLabel(key)
SlotFor(e, item, i, read) ==
  IF read = Declined THEN <<>> ELSE <<[wire |-> i, name |-> JsonKey(item.entries[i][1]), read |-> read, member |-> e]>>
\* consume_map_entry, of a member: every entry its key and, strictly, its type take.
Taking(w, e, item, ctx, wires) ==
  LET bounds == Bounds(e.occur) IN
  CASE w.mode = "strict" /\ ~IsLiteralKey(e.key[1]) /\ ~AtMost(Len(wires), bounds[2]) -> Declined
    [] wires = <<>> /\ bounds[1] > 0 /\ w.mode = "strict" -> Declined
    [] wires = <<>> /\ bounds[1] > 0 /\ w.mode = "lenient" ->
         <<[ctx EXCEPT !.slots = Append(@, [wire |-> 0, name |-> TextOf(e.key[1]), read |-> <<>>, member |-> e])]>>
    [] OTHER -> <<[used |-> ctx.used \cup {wires[j].wire : j \in DOMAIN wires}, slots |-> ctx.slots \o wires]>>
ConsumeMember(w, e, item, ctx) ==
  Taking(w, e, item, ctx,
    FoldLeft(LAMBDA slots, i : IF KeyTakes(w, e.key[1], item.entries[i][1])
                               THEN slots \o SlotFor(e, item, i, Under(w, item.entries[i][2], e.type)) ELSE slots,
             <<>>, SetToSortSeq(DOMAIN item.entries \ ctx.used, <)))
RECURSIVE ConsumeEntry(_, _, _, _)
ConsumeAll(w, members, item, ctx) ==
  FoldLeft(LAMBDA c, e : IF c = Declined THEN Declined ELSE ConsumeEntry(w, e, item, c[1]), <<ctx>>, members)
ConsumeBody(w, body, item, ctx) == ConsumeAll([w EXCEPT !.scope = body.scope], body.members, item, ctx)
\* consume_alternatives, once: the body that takes most, the earliest of those.
Better(best, held) ==
  IF held # Declined /\ (best = Declined \/ Cardinality(held[1].used) > Cardinality(best[1].used)) THEN held ELSE best
MostTaken(w, bodies, item, ctx) ==
  FoldLeft(LAMBDA best, body : Better(best, ConsumeBody(w, body, item, ctx)), Declined, bodies)
\* and repeated: in each round the first that takes a further entry.
Further(ctx, held) == IF held # Declined /\ held[1].used # ctx.used THEN held ELSE Declined
\* Slip: what a body took before it declined stays used.
Round_Kept(w, bodies, item, ctx) ==
  FoldLeft(LAMBDA r, body :
             LET first == ConsumeBody(w, [body EXCEPT !.members = SubSeq(@, 1, 1)], item, ctx) IN
             IF r # Declined THEN r
             ELSE OrElse(Further(ctx, ConsumeBody(w, body, item, ctx)),
                         IF Further(ctx, first) = Declined THEN Declined ELSE <<[ctx EXCEPT !.used = first[1].used]>>),
           Declined, bodies)
Round(w, bodies, item, ctx) ==
  FoldLeft(LAMBDA r, body : IF r # Declined THEN r ELSE Further(ctx, ConsumeBody(w, body, item, ctx)), Declined, bodies)
AfterRound(r, held) == IF held = Declined THEN [r EXCEPT !.over = TRUE] ELSE [r EXCEPT !.ctx = held[1], !.rounds = @ + 1]
Rounds(w, bodies, item, ctx, max) ==
  FoldLeft(LAMBDA r, n : IF r.over \/ ~AtMost(n, max) THEN r ELSE AfterRound(r, Round(w, bodies, item, r.ctx)),
           [ctx |-> ctx, rounds |-> 0, over |-> FALSE], [n \in 1..(Len(item.entries) + 1) |-> n])
Repeatedly(w, first, item, min, taken) ==
  CASE taken.rounds >= min -> <<taken.ctx>>
    [] taken.rounds < min /\ w.mode = "lenient" -> ConsumeBody(w, first, item, taken.ctx)
    [] OTHER -> Declined
ConsumeAlternatives(w, bodies, occur, item, ctx) ==
  LET bounds == Bounds(occur) IN
  IF bounds[2] \in {0, 1} THEN OrElse(MostTaken(w, bodies, item, ctx), IF bounds[1] = 0 THEN <<ctx>> ELSE Declined)
  ELSE Repeatedly(w, bodies[1], item, bounds[1], Rounds(w, bodies, item, ctx, bounds[2]))
\* flatten_group_name_into_map: a group's bodies are alternatives; of a type rule the maps
\* are read in place, whatever its indicator; nothing fills a group socket without a plug.
MapsIn(type) ==
  FlattenSeq([i \in DOMAIN type.choices |->
    LET t == type.choices[i] IN
    CASE t.kind = "map" -> FlattenSeq([j \in DOMAIN t.group |-> ArrayEntries(t.group[j])])
      [] t.kind = "paren" ->
           FlattenSeq([j \in DOMAIN t.type.choices |->
             LET u == t.type.choices[j]
             IN IF u.kind = "map" THEN FlattenSeq([k \in DOMAIN u.group |-> ArrayEntries(u.group[k])]) ELSE <<>>])
      [] OTHER -> <<>>])
ConsumeName(w, e, item, ctx) ==
  LET bodies == Bodies(w.rules, e.name)
      inside(r) == Entered(w, r, e.args, item.at)
      groups == OfKind(bodies, "group")
      types == OfKind(bodies, "type")
  IN CASE bodies = <<>> ->
            IF w.mode = "strict" /\ e.name[1] = "$$" /\ Bounds(e.occur)[1] > 0 THEN Declined ELSE <<ctx>>
       [] bodies # <<>> /\ IsOpen(w, bodies[1], item.at) -> Declined
       [] bodies # <<>> /\ ~IsOpen(w, bodies[1], item.at) /\ groups # <<>> ->
            ConsumeAlternatives([w EXCEPT !.open = inside(groups[1]).open],
              [i \in DOMAIN groups |-> BodyOf(inside(groups[i]).scope, InMap(groups[i].body))], e.occur, item, ctx)
       [] OTHER -> ConsumeAll(inside(types[1]), FlattenSeq([i \in DOMAIN types |-> MapsIn(types[i].body)]), item, ctx)
ConsumeEntry(w, e, item, ctx) ==
  CASE e.kind = "member" -> IF e.key = <<>> THEN <<ctx>> ELSE ConsumeMember(w, e, item, ctx)
    [] e.kind = "name" -> ConsumeName(w, e, item, ctx)
    [] e.kind = "inline" ->
         ConsumeAlternatives(w, [i \in DOMAIN e.group |-> BodyOf(w.scope, MapEntries(e.group[i]))], e.occur, item, ctx)
\* claim_with_choice, and the entries it leaves.
Claims(w, item, choice) == ConsumeAll(w, MapEntries(choice), item, NothingTaken)
Leftover(item, ctx) == SetToSortSeq(DOMAIN item.entries \ ctx.used, <)
\* try_map_with_choice: fields in the order of the entries, a name taken twice a list, what
\* is absent null, and the entries no member takes kept raw.
FieldOf(slots, name) ==
  LET of == SelectSeq(slots, LAMBDA s : s.name = name /\ s.wire > 0) IN
  CASE of = <<>> -> NoValue
    [] Len(of) = 1 -> of[1].read[1].json
    [] OTHER -> ListOf([i \in DOMAIN of |-> of[i].read[1].json])
InOrder(slots) == SortSeq(slots, LAMBDA s, t : s.wire < t.wire)
MapObject(item, slots, leftover) ==
  LET fields == [n \in {s.name : s \in Range(slots)} |-> FieldOf(InOrder(slots), n)]
      extra == Object(Keyed([i \in DOMAIN leftover |-> JsonKey(item.entries[leftover[i]][1])],
                             [i \in DOMAIN leftover |-> Raw(item.entries[leftover[i]][2])]))
  IN Object(IF leftover = <<>> THEN fields ELSE "@extra" :> extra @@ fields)
MapReading(w, item, claims) ==
  IF claims = Declined \/ (w.mode = "strict" /\ Leftover(item, claims[1]) # <<>>) THEN Declined
  ELSE ReadAs(MapObject(item, claims[1].slots, Leftover(item, claims[1])),
              [is |-> "map", slots |-> claims[1].slots, leftover |-> Leftover(item, claims[1])])
MapChoice(w, item, choice) == MapReading(w, item, Claims(w, item, choice))
\* match_entry_member: the first member of the group, written in it, that takes the key.
EntryMember(w, group, key) ==
  SelectSeq(FlattenSeq(group), LAMBDA e : e.kind = "member" /\ e.key # <<>> /\ KeyTakes(w, e.key[1], key))
\* match_one_entry: what the choice read already is not read again.
EntryRead(w, entry, member, already) ==
  IF already # <<>> THEN <<already[1].read[1]>> ELSE <<MapType(w, entry[2], member.type)>>
EntryTrace(w, entry, members, slots) ==
  IF members = <<>> THEN <<>> ELSE EntryRead(w, entry, members[1], SelectSeq(slots, LAMBDA s : s.member = members[1]))
\* first_choice_accounting_for, try_map_to_entries.
IfWhole(item, claims) == IF claims # Declined /\ Leftover(item, claims[1]) = <<>> THEN claims ELSE Declined
Accounting(w, item, group) ==
  FoldLeft(LAMBDA r, choice : IF r # Declined THEN r ELSE IfWhole(item, Claims(w, item, choice)), Declined, group)
EntriesReading(item, reads) ==
  LET value(i) == IF reads[i] = <<>> THEN Raw(item.entries[i][2]) ELSE reads[i][1].json
  IN ReadAs(EntriesList([i \in DOMAIN item.entries |-> PairOf(Raw(item.entries[i][1]), value(i))]),
            [is |-> "entries", reads |-> reads])
EntriesWith(w, item, group, accounted) ==
  IF accounted = Declined THEN Declined
  ELSE EntriesReading(item, [i \in DOMAIN item.entries |->
         EntryTrace(w, item.entries[i], EntryMember(w, group, item.entries[i][1]),
                    SelectSeq(accounted[1].slots, LAMBDA s : s.wire = i))])
EntriesForm(w, item, group) ==
  EntriesWith(w, item, group, IF w.mode = "strict" THEN Accounting(w, item, group) ELSE <<NothingTaken>>)

\* ---- arrays ----

\* choice_label_counts: the names of a choice, the members of the groups it is made of
\* among them; what is named twice has no name.
RECURSIVE LabelsOf(_, _, _)
LabelsIn(rules, entries, open) == FlattenSeq([i \in DOMAIN entries |-> LabelsOf(rules, entries[i], open)])
BodiesOf(groups) == FlattenSeq([i \in DOMAIN groups |-> InArray(groups[i].body)])
LabelsOf(rules, e, open) ==
  LET groups == OfKind(Bodies(rules, e.name), "group") IN
  CASE e.kind = "member" -> IF e.key # <<>> /\ e.key[1].kind = "text" THEN <<e.key[1].value>> ELSE <<>>
    [] e.kind = "name" /\ groups = <<>> -> <<e.name[2]>>
    [] e.kind = "name" /\ groups # <<>> ->
         IF groups[1].name \in open THEN <<>> ELSE LabelsIn(rules, BodiesOf(groups), open \cup {groups[1].name})
Unique(labels, name) == Cardinality({i \in DOMAIN labels : labels[i] = name}) = 1

\* What has been read of an array: the items up to the cursor, by name or by position, and
\* the runs they were read in.
NothingRead == [cursor |-> 0, named |-> <<>>, unnamed |-> <<>>, plan |-> <<>>]
\* The entries of an array: what reads a slot, its name if it has one, and how often.
SlotName(w, e, labels) ==
  LET own == IF e.kind = "member" THEN {k.value : k \in {x \in Range(e.key) : x.kind = "text"}}
             ELSE {n \in {e.name[2]} : /\ Bounds(e.occur)[2] = 1 /\ n \notin PreludeNames
                                       /\ n \notin DOMAIN w.scope}
  IN SetToSeq({n \in own : Unique(labels, n)})
\* map_array_slot: leniently, only of an item the type accepts.
ReadSlot(w, e, item) ==
  CASE e.kind = "name" -> TryName(w, item, e)
    [] e.kind = "member" -> IF w.mode = "lenient" /\ ~AcceptsType(w, e.type, item) THEN Declined ELSE Under(w, item, e.type)
\* The items from the cursor on that the entry takes, as many as it may.
WithRead(run, read) == [reads |-> run.reads \o read, over |-> read = Declined]
ReadRun(w, e, items, cursor) ==
  FoldLeft(LAMBDA run, i :
             IF run.over \/ ~AtMost(Len(run.reads) + 1, Bounds(e.occur)[2]) THEN [run EXCEPT !.over = TRUE]
             ELSE WithRead(run, ReadSlot(w, e, items[i])),
           [reads |-> <<>>, over |-> FALSE], [i \in 1..(Len(items) - cursor) |-> cursor + i]).reads
\* emit: one that may be several is a list under its name, one that is absent no field.
Emitted(ctx, name, reads, several) ==
  LET values == [i \in DOMAIN reads |-> reads[i].json]
      field == IF name = <<>> \/ (~several /\ values = <<>>) THEN <<>>
               ELSE <<<<name[1], IF several THEN ListOf(values) ELSE values[1]>>>>
  IN [cursor |-> ctx.cursor + Len(reads), named |-> ctx.named \o field,
      unnamed |-> IF name = <<>> THEN ctx.unnamed \o values ELSE ctx.unnamed,
      plan |-> Append(ctx.plan, [name |-> name, several |-> several, from |-> ctx.cursor, reads |-> reads])]
SlotRead(w, e, ctx, labels, reads) ==
  LET bounds == Bounds(e.occur) IN
  IF Len(reads) < bounds[1] THEN Declined
  ELSE <<Emitted(ctx, SlotName(w, e, labels), reads, bounds[2] = Unbounded \/ bounds[2] > 1)>>
ConsumeSlot(w, e, items, ctx, labels) == SlotRead(w, e, ctx, labels, ReadRun(w, e, items, ctx.cursor))
RECURSIVE ConsumeItems(_, _, _, _, _)
\* consume_array_typegroupname: each time the first body that reads on from the cursor;
\* the first time one that reads nothing will do.
ReadsOn(ctx, read, taken) == IF read # Declined /\ (taken = 0 \/ read[1].cursor # ctx.cursor) THEN read ELSE Declined
Repetition(w, e, bodies, item, ctx, labels, taken) ==
  FoldLeft(LAMBDA r, body :
             IF r # Declined THEN r
             ELSE ReadsOn(ctx, ConsumeItems([w EXCEPT !.scope = ScopeOf(w.scope, body.params, e.args)],
                                            InArray(body.body), item, ctx, labels), taken),
           Declined, bodies)
AfterRepetition(r, read) == IF read = Declined THEN [r EXCEPT !.over = TRUE] ELSE [r EXCEPT !.ctx = read[1], !.taken = @ + 1]
Enough(r, min) == IF r.taken >= min THEN <<r.ctx>> ELSE Declined
Repetitions(w, e, bodies, item, ctx, labels) ==
  Enough(FoldLeft(LAMBDA r, n :
                IF r.over \/ ~AtMost(n, Bounds(e.occur)[2]) \/ (n > 1 /\ r.ctx.cursor >= Len(item.items)) THEN r
                ELSE AfterRepetition(r, Repetition(w, e, bodies, item, r.ctx, labels, n - 1)),
              [ctx |-> ctx, taken |-> 0, over |-> FALSE], [n \in 1..(Len(item.items) + 1) |-> n]),
         Bounds(e.occur)[1])
ConsumeArrayName(w, e, item, ctx, labels) ==
  LET groups == OfKind(Bodies(w.rules, e.name), "group") IN
  CASE groups = <<>> -> ConsumeSlot(w, e, item.items, ctx, labels)
    [] groups # <<>> /\ IsOpen(w, groups[1], item.at) -> Declined
    [] OTHER -> Repetitions([w EXCEPT !.open = @ \cup {<<groups[1].name, item.at>>}], e, groups, item, ctx, labels)
\* consume_array_entry, entry by entry.
ConsumeItems(w, entries, item, ctx, labels) ==
  FoldLeft(LAMBDA c, e :
             IF c = Declined THEN Declined
             ELSE IF e.kind = "name" THEN ConsumeArrayName(w, e, item, c[1], labels)
             ELSE ConsumeSlot(w, e, item.items, c[1], labels),
           <<ctx>>, entries)
\* try_array_with_choice: fields when anything has a name, what has none and what is left
\* over beside them; a field named again is the later one.
LastNamed(named, n) == named[CHOOSE i \in DOMAIN named : named[i][1] = n /\ \A j \in (i + 1)..Len(named) : named[j][1] # n][2]
Beside(name, values) == IF values = <<>> THEN <<>> ELSE name :> ListOf(values)
ArrayObject(ctx, rest) ==
  IF ctx.named = <<>> THEN ListOf(ctx.unnamed \o rest)
  ELSE Object(Beside("@extra", rest) @@ Beside("@positional", ctx.unnamed)
              @@ [n \in {ctx.named[i][1] : i \in DOMAIN ctx.named} |-> LastNamed(ctx.named, n)])
ArrayReading(w, item, read) ==
  LET rest == [i \in 1..(Len(item.items) - read[1].cursor) |-> Raw(item.items[read[1].cursor + i])]
  IN IF read = Declined \/ (w.mode = "strict" /\ read[1].cursor # Len(item.items)) THEN Declined
     ELSE ReadAs(ArrayObject(read[1], rest),
                 [is |-> "array", plan |-> read[1].plan, cursor |-> read[1].cursor, named |-> read[1].named # <<>>])
ArrayChoice(w, item, choice) ==
  ArrayReading(w, item, ConsumeItems(w, ArrayEntries(choice), item, NothingRead, LabelsIn(w.rules, ArrayEntries(choice), {})))

\* ---- map_by_rule_name ----

\* Each body of the root rule strictly, then each leniently, then the item raw.
NewWalk(rules, mode) == [rules |-> rules, mode |-> mode, scope |-> EmptyScope, open |-> {}, accepting |-> {}]
FirstBody(w, item, bodies) ==
  FoldLeft(LAMBDA r, body : IF r # Declined THEN r ELSE TryType(w, item, body.body), Declined, bodies)
DecodeAgainst(rules, name, item) ==
  OrElse(FoldLeft(LAMBDA r, mode : IF r # Declined THEN r
                                   ELSE FirstBody(NewWalk(rules, mode), item, OfKind(Bodies(rules, name), "type")),
                  Declined, ModesUpTo("lenient")),
         AsWhole(item, "raw"))[1]
================================================================================
