-------------------------------- MODULE MCSchemas --------------------------------
\* Small schemas, and the locations looked up in them.
EXTENDS SchemaReadings

\* ---- nodes, not yet placed ----

Id(x) == <<"", x>>
Socket(x) == <<"$", x>>
NameT(x) == [kind |-> "name", name |-> Id(x), args |-> <<>>]
Applied(x, args) == [kind |-> "name", name |-> Id(x), args |-> args]
Data == [kind |-> "data"]
Paren(type) == [kind |-> "paren", type |-> type]
TaggedType(type) == [kind |-> "tag", type |-> type]
MapT(group) == [kind |-> "map", group |-> group]
ArrayT(group) == [kind |-> "array", group |-> group]
OneOf(choices) == [choices |-> choices]
Just(t) == OneOf(<<t>>)
TextKey(x) == <<[kind |-> "text", value |-> x, long |-> FALSE]>>
LongKey == <<[kind |-> "text", value |-> "long", long |-> TRUE]>>
UintKey(n) == <<[kind |-> "uint", value |-> n, long |-> FALSE]>>
TypeKey == <<[kind |-> "type", value |-> "any", long |-> FALSE]>>
Member(key, type) == [kind |-> "member", key |-> key, occur |-> <<>>, type |-> type]
Slot(t) == Member(<<>>, Just(t))
Times_(occur, e) == [e EXCEPT !.occur = occur]
Spliced(x) == [kind |-> "name", name |-> Id(x), args |-> <<>>, occur |-> <<>>]
SplicedWith(x, args) == [kind |-> "name", name |-> Id(x), args |-> args, occur |-> <<>>]
Inline(group) == [kind |-> "inline", group |-> group, occur |-> <<>>]
Optional == <<0, 1>>
Repeated == <<0, Unbounded>>
Some == <<1, Unbounded>>
TypeRule(x, type) == [kind |-> "type", name |-> Id(x), params |-> <<>>, body |-> type]
GroupRuleOf(x, e) == [kind |-> "group", name |-> Id(x), params |-> <<>>, body |-> e]
With(r, params) == [r EXCEPT !.params = params]
Socketed(r) == [r EXCEPT !.name = Socket(r.name[2])]

\* A span is the way down to a node.
RECURSIVE PlacedType(_, _), Placed2(_, _), PlacedEntry(_, _)
PlacedGroup(group, at) ==
  [i \in DOMAIN group |-> [j \in DOMAIN group[i] |-> PlacedEntry(group[i][j], at \o <<i, j>>)]]
PlacedArgs(args, at) == [i \in DOMAIN args |-> Placed2(args[i], at \o <<8, i>>)]
Placed2(t, at) ==
  [span |-> at] @@
  CASE t.kind = "name" -> [t EXCEPT !.args = PlacedArgs(@, at)]
    [] t.kind \in {"paren", "tag"} -> [t EXCEPT !.type = PlacedType(@, Append(at, 9))]
    [] t.kind \in {"map", "array"} -> [t EXCEPT !.group = PlacedGroup(@, at)]
    [] OTHER -> t
PlacedType(type, at) ==
  [span |-> at, choices |-> IF Len(type.choices) = 1 THEN <<Placed2(type.choices[1], at)>>
                            ELSE [i \in DOMAIN type.choices |-> Placed2(type.choices[i], Append(at, i))]]
PlacedEntry(e, at) ==
  CASE e.kind = "member" -> [e EXCEPT !.type = PlacedType(@, at)]
    [] e.kind = "inline" -> [e EXCEPT !.group = PlacedGroup(@, at)]
    [] e.kind = "name" -> [span |-> at] @@ [e EXCEPT !.args = PlacedArgs(@, at)]
Placed(rule, at) ==
  [rule EXCEPT !.body = IF rule.kind = "type" THEN PlacedType(@, <<at>>) ELSE PlacedEntry(@, <<at>>)]

\* ---- schemas ----

A(t) == MapT(<<<<Member(TextKey("a"), Just(t))>>>>)
Common == <<
  TypeRule("m", Just(MapT(<<<<Member(TextKey("a"), Just(Data)), Member(UintKey(1), Just(ArrayT(<<<<Slot(Data)>>>>)))>>>>))),
  GroupRuleOf("g", Inline(<<<<Slot(Data), Slot(A(Data))>>>>)),
  With(GroupRuleOf("pair", Inline(<<<<Spliced("t"), Slot(Data)>>>>)), <<"t">>),
  With(TypeRule("gen", Just(MapT(<<<<Member(TextKey("w"), Just(NameT("t")))>>>>))), <<"t">>),
  With(TypeRule("wrap", Just(MapT(<<<<Member(TextKey("b"), Just(Applied("gen", <<ArrayT(<<<<Spliced("t")>>>>)>>)))>>>>))), <<"t">>),
  TypeRule("rec", OneOf(<<NameT("rec"), A(NameT("rec"))>>)),
  Socketed(TypeRule("s", Just(A(Data)))),
  Socketed(TypeRule("s", OneOf(<<MapT(<<<<Member(TextKey("b"), Just(NameT("m")))>>>>), Data>>))),
  GroupRuleOf("mg", Inline(<<<<Member(TextKey("a"), Just(Data)), Member(TextKey("b"), Just(ArrayT(<<<<Spliced("m")>>>>)))>>>>)),
  GroupRuleOf("loop", Inline(<<<<Member(TextKey("a"), Just(Data)), Spliced("loop")>>>>))>>
CommonRules == [i \in DOMAIN Common |-> Placed(Common[i], i)]
Rooted(type) == <<Placed(TypeRule("root", type), 0)>> \o CommonRules

Entries == {
  Slot(Data), Times_(Optional, Slot(A(Data))), Times_(Repeated, Slot(Data)), Times_(<<2, 3>>, Slot(NameT("m"))),
  Spliced("g"), Spliced("m"), Times_(Optional, Spliced("m")), SplicedWith("pair", <<NameT("m")>>), Spliced("int"),
  Inline(<<<<Slot(Data)>>, <<Slot(A(Data)), Slot(NameT("m"))>>>>), Times_(Some, Inline(<<<<Slot(Data)>>>>)),
  Times_(Optional, Slot(ArrayT(<<<<Times_(Optional, Slot(A(Data))), Slot(NameT("m"))>>>>))),
  Times_(Repeated, Spliced("g"))}
FewEntries == {Slot(Data), Times_(Optional, Slot(A(Data))), Spliced("g"), Times_(Optional, Spliced("m")),
        Inline(<<<<Slot(Data)>>, <<Slot(A(Data)), Slot(NameT("m"))>>>>)}
ArraySchemas == {Just(ArrayT(group)) :
  group \in {<<<<e>>>> : e \in Entries} \cup {<<<<e, f>>>> : e, f \in Entries}
            \cup {<<<<e>>, <<f>>>> : e, f \in Entries} \cup {<<<<e, f, g>>>> : e, f, g \in FewEntries}}
Alternatives == {
  A(NameT("m")), MapT(<<<<Member(TextKey("a"), Just(Data)), Member(TextKey("b"), Just(ArrayT(<<<<Slot(Data)>>>>)))>>>>),
  MapT(<<<<Member(TextKey("a"), Just(Data))>>, <<Member(TextKey("b"), Just(NameT("m")))>>>>),
  MapT(<<<<Member(TypeKey, Just(A(Data)))>>>>), MapT(<<<<Member(LongKey, Just(Data)), Member(UintKey(1), Just(Data))>>>>),
  ArrayT(<<<<Spliced("m")>>>>), Paren(OneOf(<<Data, NameT("m")>>)), TaggedType(Just(NameT("m"))), NameT("m"),
  Applied("gen", <<NameT("m")>>), Applied("wrap", <<NameT("m")>>), NameT("rec"), MapT(<<<<Spliced("mg")>>>>),
  MapT(<<<<Spliced("loop"), Member(TextKey("b"), Just(Data))>>>>),
  [NameT("s") EXCEPT !.name = Socket("s")], Data}
ChoiceSchemas == {OneOf(c) : c \in {<<t>> : t \in Alternatives} \cup {<<t, u>> : t, u \in Alternatives}}

Seg(kind, value) == [kind |-> kind, value |-> value]
Texts == {Seg("text", x) : x \in {"a", "b", "w"}}
Slots0 == {Seg("index", i) : i \in 0..3}
UpTo2(S) == {<<>>} \cup {<<x>> : x \in S} \cup {<<x, y>> : x, y \in S}
ArrayPaths == {<<x>> : x \in Slots0} \cup {<<x, Seg("text", "a")>> : x \in Slots0}
              \cup {<<x, Seg("index", 0), Seg("text", "a")>> : x \in Slots0}
MapPaths == UpTo2(Texts \cup {Seg("index", 0), Seg("index", 1), Seg("unnamed", 0)})
            \cup {<<Seg("text", "b"), Seg("text", "w"), Seg("index", 0), Seg("text", "a")>>}
Lookup(root, segs, end) == [root |-> root, written |-> Id("root"), segs |-> segs, end |-> end]
MCLookups ==
  {Lookup(r, p, "item") : r \in ArraySchemas, p \in ArrayPaths} \cup {Lookup(r, p, e) : r \in ChoiceSchemas, p \in MapPaths, e \in {"item", "map"}}
  \cup {[Lookup(Just(Data), p, "item") EXCEPT !.written = Id("s")] : p \in MapPaths}

VARIABLES asked, answer
SchemaInit == asked \in MCLookups /\ answer = NoSpan
LookUp == /\ answer = NoSpan
          /\ answer' = SchemaSpan(Rooted(asked.root), asked.written, asked.segs, asked.end) /\ UNCHANGED asked
SchemaLookups == SchemaInit /\ [][LookUp]_<<asked, answer>>

Answered == answer # NoSpan
\* The span given for a location belongs to some reading of the schema that reaches the
\* item there (validation.rs, RuleIndex::schema_span): it is never the text of a member or
\* an alternative that cannot describe the item. Where the schema reads one way at the
\* location, its span is the one given: choices, groups spliced in, generics, sockets and
\* their plugs are followed to the end.
SpanDescribesItem ==
  Answered =>
    LET root == Rooted(asked.root) IN
    /\ Describes(root, asked.written, asked.segs, asked.end, answer)
    /\ asked.end = "item" /\ OneReading(root, asked.written, asked.segs) => answer = TheSpan(root, asked.written, asked.segs)
================================================================================
