-------------------------------- MODULE MCMapper --------------------------------
\* Small schemas and items, each item decoded and mapped against a schema.
EXTENDS MCSchemas, PositionMap

\* ---- schemas ----

UintT == NameT("uint")
TextT == NameT("text")
AnyT == [kind |-> "any"]
Literal1 == [kind |-> "literal", of |-> "int", value |-> 1]
Embedded(inner) == [kind |-> "cbor", target |-> NameT("bytes"), inner |-> inner]
Controlled(t, op, by) == [kind |-> "control", op |-> op, target |-> t, by |-> by]
TagT(tag, t) == [kind |-> "tag", tag |-> tag, type |-> Just(t)]
KeyOf(t) == <<[kind |-> "type", type |-> t]>>
A_(t) == Member(TextKey("a"), Just(t))
B_(t) == Member(TextKey("b"), Just(t))
GroupBody(x, entries) == GroupRuleOf(x, Inline(<<entries>>))
MapperRules == <<
  GroupBody("g", <<A_(UintT), B_(UintT)>>), GroupBody("g", <<A_(TextT)>>), GroupBody("g", <<B_(TextT), Member(UintKey(1), Just(UintT))>>),
  GroupBody("pair", <<A_(UintT), Slot(TextT)>>), GroupBody("h", <<Times_(Optional, B_(TextT)), Spliced("pair")>>),
  TypeRule("n", OneOf(<<UintT, ArrayT(<<<<Times_(Repeated, Slot(NameT("n")))>>>>)>>)),
  TypeRule("m", Just(MapT(<<<<A_(AnyT)>>>>))),
  With(TypeRule("gen", Just(ArrayT(<<<<Spliced("t"), Times_(Optional, Slot(NameT("t")))>>>>))), <<"t">>)>>
MapGroups == {
  <<<<A_(UintT), Times_(Optional, B_(TextT))>>>>, <<<<A_(AnyT)>>, <<B_(AnyT)>>>>, <<<<A_(UintT), Times_(Repeated, Member(KeyOf(TextT), Just(UintT)))>>>>,
  <<<<Times_(Some, Member(KeyOf(UintT), Just(AnyT)))>>>>, <<<<Spliced("g")>>>>, <<<<Times_(Repeated, Spliced("g"))>>>>,
  <<<<Times_(Optional, Spliced("g")), Times_(Optional, B_(UintT))>>>>, <<<<Times_(Repeated, Inline(<<<<A_(UintT), B_(TextT)>>, <<B_(UintT)>>>>))>>>>,
  <<<<Times_(<<1, 2>>, Inline(<<<<A_(UintT)>>, <<A_(TextT), B_(UintT)>>>>))>>>>, <<<<Spliced("m"), Times_(Optional, B_(NameT("n")))>>>>,
  <<<<Times_(Repeated, Member(KeyOf(NameT("n")), Just(UintT)))>>>>, <<<<[Spliced("x") EXCEPT !.name = <<"$$", "x">>], A_(AnyT)>>>>}
ArrayGroups == {
  <<<<A_(UintT), Slot(TextT), Times_(Repeated, Slot(UintT))>>>>, <<<<Slot(TextT), A_(UintT), Slot(AnyT)>>>>, <<<<Spliced("pair"), Times_(Repeated, Slot(UintT))>>>>,
  <<<<Times_(Repeated, Spliced("pair"))>>>>, <<<<Spliced("h")>>, <<A_(AnyT)>>>>, <<<<Times_(Repeated, A_(UintT)), Spliced("n")>>>>,
  <<<<Slot(Literal1), Times_(<<1, 2>>, B_(NameT("n")))>>>>, <<<<A_(UintT), A_(TextT)>>, <<Inline(<<<<Slot(UintT)>>, <<B_(AnyT)>>>>)>>>>}
OtherTypes == {
  NameT("n"), Applied("gen", <<UintT>>), Applied("gen", <<NameT("n")>>), NameT("any"), Embedded(NameT("n")), Embedded(NameT("m")),
  TagT(<<2>>, NameT("bytes")), TagT(<<5>>, NameT("n")), TagT(<<>>, NameT("m")), Controlled(UintT, "le", Literal1), Controlled(UintT, "size", Literal1),
  [kind |-> "range", low |-> Literal1, high |-> [Literal1 EXCEPT !.value = 3]], Paren(OneOf(<<TextT, NameT("m")>>)),
  ArrayT(<<<<A_(TagT(<<2>>, NameT("bytes"))), Times_(Optional, B_(Embedded(NameT("n"))))>>>>)}
MCTypes == {MapT(g) : g \in MapGroups} \cup {ArrayT(g) : g \in ArrayGroups} \cup OtherTypes
Schema(t) == Append(MapperRules, TypeRule("root", Just(t)))

\* ---- items, not yet placed ----

Num(n) == [kind |-> "int", value |-> n]
Txt(s) == [kind |-> "text", value |-> s, chunks |-> <<1>>]
Byt(holds) == [kind |-> "bytes", value |-> "00", chunks |-> <<1>>, holds |-> holds, number |-> <<0>>]
Wide == [Byt(<<>>) EXCEPT !.number = <<>>]
Big(n) == [Byt(<<>>) EXCEPT !.number = <<n>>]
ArrOf(items) == [kind |-> "array", items |-> items]
Mp(entries) == [kind |-> "map", entries |-> entries]
Tg(tag, item) == [kind |-> "tag", tag |-> tag, item |-> item]
RECURSIVE ItemAt(_, _)
ItemAt(item, at) ==
  [at |-> at] @@
  CASE item.kind = "array" -> [item EXCEPT !.items = [i \in DOMAIN @ |-> ItemAt(@[i], Append(at, i))]]
    [] item.kind = "map" ->
         [item EXCEPT !.entries = [i \in DOMAIN @ |-> [j \in 1..2 |-> ItemAt(@[i][j], at \o <<i, j>>)]]]
    [] item.kind = "tag" -> [item EXCEPT !.item = ItemAt(@, Append(at, 1))]
    [] item.kind = "bytes" -> [item EXCEPT !.holds = [i \in DOMAIN @ |-> ItemAt(@[i], Append(at, i))]]
    [] OTHER -> item
ItemLeaves == {Num(1), Num(300), Txt("a"), Byt(<<ArrOf(<<Num(1)>>)>>)}
Values == {Num(1), Txt("b"), ArrOf(<<Num(2)>>)}
SomeEntries(S) == {<<k, v>> : k \in S, v \in Values}
MapKeys == {Txt("a"), Txt("b"), Num(1), ArrOf(<<>>)}
MCItems ==
  ItemLeaves \cup {[kind |-> "simple"], [kind |-> "null", value |-> 0], Wide, Byt(<<Txt("a")>>), Byt(<<Mp(<<<<Txt("a"), Num(1)>>>>)>>)}
  \cup {ArrOf(<<>>)} \cup {ArrOf(<<x>>) : x \in ItemLeaves} \cup {ArrOf(<<x, y>>) : x, y \in ItemLeaves \cup {ArrOf(<<Num(1)>>)}}
  \cup {ArrOf(<<x, y, z>>) : x, y, z \in {Num(1), Txt("a")}} \cup {ArrOf(<<Num(1), Txt("a"), Num(1), Txt("a")>>)}
  \cup {ArrOf(<<Tg(2, Byt(<<>>)), Byt(<<ArrOf(<<Num(1)>>)>>)>>), ArrOf(<<Tg(2, Wide)>>)}
  \cup {Tg(2, Byt(<<>>)), Tg(2, Big(2)), Tg(3, Big(2)), Tg(2, Wide), Tg(5, ArrOf(<<Num(1)>>)), Tg(5, Txt("a")), Tg(7, Mp(<<<<Txt("a"), Num(1)>>>>))}
  \cup {Mp(<<>>)} \cup {Mp(<<e>>) : e \in SomeEntries(MapKeys)}
  \cup {Mp(<<e, f>>) : e, f \in SomeEntries(MapKeys)}
  \cup {Mp(<<<<Txt("b"), v>>, <<Txt("a"), Num(1)>>, <<Num(1), x>>>>) : v, x \in Values}

\* ---- a call ----

VARIABLES given_, mapped
MapperInit ==
  /\ \E t \in MCTypes, i \in MCItems : given_ = [type |-> t, item |-> ItemAt(i, <<1>>)]
  /\ mapped = <<>>
ReadAndMapped(item, decoded) == <<[json |-> decoded.json, rows |-> MapAgainst(item, decoded)]>>
MapItem ==
  /\ mapped = <<>> /\ UNCHANGED given_
  /\ mapped' = ReadAndMapped(given_.item, DecodeAgainst(Schema(given_.type), Id("root"), given_.item))
MapperSpec == MapperInit /\ [][MapItem]_<<given_, mapped>>

\* ---- what a decoded item shows ----

ShownParts(json) ==
  Range(json.fields) \cup UNION {Range(v.list) : v \in {x \in Range(json.fields) : "list" \in DOMAIN x}}
  \cup (IF "@extra" \in DOMAIN json.fields /\ "fields" \in DOMAIN json.fields["@extra"]
        THEN Range(json.fields["@extra"].fields) ELSE {})
RECURSIVE Shows(_, _), ShowsEntry(_, _)
ShowsPairs(entries, list) ==
  /\ Len(list) = Len(entries)
  /\ \A i \in DOMAIN entries : Shows(entries[i][1], list[i].fields["key"]) /\ Shows(entries[i][2], list[i].fields["value"])
ShowsEntry(entry, fields) ==
  \/ JsonKey(entry[1]) \in DOMAIN fields /\ Shows(entry[2], fields[JsonKey(entry[1])])
  \/ "@extra" \in DOMAIN fields /\ ShowsEntry(entry, fields["@extra"].fields)
Shows(item, json) ==
  CASE item.kind = "array" /\ "list" \in DOMAIN json ->
         Len(json.list) = Len(item.items) /\ \A i \in DOMAIN item.items : Shows(item.items[i], json.list[i])
    [] item.kind = "array" /\ "fields" \in DOMAIN json -> \A i \in DOMAIN item.items : \E p \in ShownParts(json) : Shows(item.items[i], p)
    [] item.kind = "map" /\ "fields" \in DOMAIN json ->
         IF DOMAIN json.fields = {"@entries"} THEN ShowsPairs(item.entries, json.fields["@entries"].list)
         ELSE \A i \in DOMAIN item.entries : ShowsEntry(item.entries[i], json.fields)
    [] item.kind = "tag" ->
         \/ IsKnownTag(item) /\ json = Specialised(item)
         \/ /\ "fields" \in DOMAIN json /\ json.fields["@tag"] = LeafAt(item.at)
            /\ Shows(item.item, json.fields["@value"])
    [] item.kind = "simple" -> json \in {LeafAt(item.at), Raw(item)}
    [] item.kind = "bytes" -> json = LeafAt(item.at) \/ (item.holds # <<>> /\ Shows(item.holds[1], json))
    [] item.kind \in {"int", "text", "null"} -> json = LeafAt(item.at)
    [] OTHER -> FALSE
\* A group rule read several times into an array, with a member that has a name: only what
\* the last of them read is kept (emit).
RepeatsNamedGroup(t) == t = ArrayT(<<<<Times_(Repeated, Spliced("pair"))>>>>)

RECURSIVE Parts(_, _)
Parts(json, path) ==
  {[path |-> path, json |-> json]} \cup
  (CASE "list" \in DOMAIN json -> UNION {Parts(json.list[i], Indexed(path, i)) : i \in DOMAIN json.list}
     [] "fields" \in DOMAIN json -> UNION {Parts(json.fields[n], Named_(path, n)) : n \in DOMAIN json.fields}
     [] OTHER -> {})

\* Whatever the schema makes of an item, by a strict reading, a lenient one or none, every
\* scalar of it is in the decoded JSON, where it belongs: no entry a body took before it
\* declined, no duplicate key and nothing the schema does not name is dropped
\* (schema_mapper.rs, "never drop data"). A schema that repeats a named group is excepted.
NothingDropped ==
  mapped # <<>> /\ ~RepeatsNamedGroup(given_.type) => Shows(given_.item, mapped[1].json)
\* The position map and the decoded JSON agree: every part of the JSON has a row and every
\* row a part, and a row's item holds all that is shown at its path and below
\* (cbor_cddl_map_parity.rs).
PositionsMatchDecoded ==
  mapped # <<>> /\ ~RepeatsNamedGroup(given_.type) =>
    LET parts == Parts(mapped[1].json, <<>>)
        leaves == {p \in parts : "leaf" \in DOMAIN p.json /\ p.json.leaf # <<>>}
    IN /\ {r.path : r \in Range(mapped[1].rows)} = {p.path : p \in parts}
       /\ \A r \in Range(mapped[1].rows) : r.role = "value" =>
            \A p \in leaves : IsPrefix(r.path, p.path) => IsPrefix(r.of, p.json.leaf)
================================================================================
