------------------------------- MODULE PositionMap -------------------------------
\* map_cbor_to_cddl: the rows that lead from the parts of a document to the parts of the
\* JSON it is decoded to (cbor_cddl_map.rs). The decisions of one SchemaMapper walk are
\* replayed, and none is made again.
\*
\* A row is [path, of, role]: where in the decoded JSON, the item whose bytes it covers,
\* <<>> when it covers a run of several or none, and "key" or "value". The spans in the
\* schema, the bounds on rows and nesting and the tables the paths are stored in are left
\* out.
EXTENDS SchemaMapper

Named_(path, name) == Append(path, <<"name", name>>)
Indexed(path, i) == Append(path, <<"at", i>>)
RowFor(path, item, role) == <<[path |-> path, of |-> item.at, role |-> role]>>
ValueRow(path, item) == RowFor(path, item, "value")
Wrapper(path) == <<[path |-> path, of |-> <<>>, role |-> "value"]>>

\* ---- emit_raw, expand_raw_children ----

RECURSIVE RawRows(_, _)
EntriesPath(path, i, part) == Named_(Indexed(Named_(path, "@entries"), i), part)
RawPairs(path, entries) ==
  Wrapper(Named_(path, "@entries")) \o
  FlattenSeq([i \in DOMAIN entries |->
    Wrapper(Indexed(Named_(path, "@entries"), i))
    \o RawRows(EntriesPath(path, i, "key"), entries[i][1]) \o RawRows(EntriesPath(path, i, "value"), entries[i][2])])
RawChildren(path, item) ==
  CASE item.kind = "array" -> FlattenSeq([i \in DOMAIN item.items |-> RawRows(Indexed(path, i), item.items[i])])
    [] item.kind = "map" ->
         IF NeedsEntries(item.entries) THEN RawPairs(path, item.entries)
         ELSE FlattenSeq([i \in DOMAIN item.entries |->
                RawRows(Named_(path, JsonKey(item.entries[i][1])), item.entries[i][2])])
    [] item.kind = "tag" -> ValueRow(Named_(path, "@tag"), item) \o RawRows(Named_(path, "@value"), item.item)
    [] item.kind = "simple" -> ValueRow(Named_(path, "@simple"), item)
    [] OTHER -> <<>>
RawRows(path, item) == ValueRow(path, item) \o RawChildren(path, item)

\* ---- walk_decision ----

RECURSIVE Replay(_, _, _)
\* walk_map_choice: the entries the choice took in their order, the members it missed, the
\* entries left over.
NameCount(slots, name) == Len(SelectSeq(slots, LAMBDA s : s.wire > 0 /\ s.name = name))
\* Where the i-th of the slots is: under its name, or at its place in the list of that name.
SlotPath(path, slots, i) ==
  LET named == Named_(path, slots[i].name)
  IN IF NameCount(slots, slots[i].name) > 1 THEN Indexed(named, NameCount(SubSeq(slots, 1, i), slots[i].name)) ELSE named
TakenRows(path, item, slots) ==
  FlattenSeq([i \in DOMAIN slots |->
    LET entry == item.entries[slots[i].wire]
        at == SlotPath(path, slots, i)
    IN (IF NameCount(slots, slots[i].name) > 1 /\ NameCount(SubSeq(slots, 1, i), slots[i].name) = 1
        THEN Wrapper(Named_(path, slots[i].name)) ELSE <<>>)
       \o RowFor(at, entry[1], "key") \o Replay(at, entry[2], slots[i].read[1].trace)])
MissingRows(path, slots) ==
  LET present == {s.name : s \in {t \in Range(slots) : t.wire > 0}}
      missing == {s.name : s \in {t \in Range(slots) : t.wire = 0}} \ present
  IN FlattenSeq([i \in 1..Cardinality(missing) |-> Wrapper(Named_(path, SetToSeq(missing)[i]))])
LeftoverRows(path, item, leftover) ==
  LET extra == Named_(path, "@extra") IN
  IF leftover = <<>> THEN <<>>
  ELSE Wrapper(extra) \o
       FlattenSeq([i \in DOMAIN leftover |->
         RawRows(Named_(extra, JsonKey(item.entries[leftover[i]][1])), item.entries[leftover[i]][2])])
MapRows(path, item, trace) ==
  TakenRows(path, item, SelectSeq(InOrder(trace.slots), LAMBDA s : s.wire > 0))
  \o MissingRows(path, trace.slots) \o LeftoverRows(path, item, trace.leftover)
\* walk_map_entries_form.
EntriesRows(path, item, trace) ==
  Wrapper(Named_(path, "@entries")) \o
  FlattenSeq([i \in DOMAIN item.entries |->
    LET key == item.entries[i][1]
        value == EntriesPath(path, i, "value")
    IN Wrapper(Indexed(Named_(path, "@entries"), i))
       \o RowFor(EntriesPath(path, i, "key"), key, "key") \o RawChildren(EntriesPath(path, i, "key"), key)
       \o (IF trace.reads[i] = <<>> THEN RawRows(value, item.entries[i][2])
           ELSE Replay(value, item.entries[i][2], trace.reads[i][1].trace))])
\* walk_array_plan: the runs in the order they were read; what has no name is numbered on
\* from run to run.
\* Slip: numbered by its place in the document.
Positional_Wire(path, plan, i, j, named) ==
  Indexed(IF named THEN Named_(path, "@positional") ELSE path, plan[i].from + j)
Positional(path, plan, i, j, named) ==
  LET before == FoldLeft(LAMBDA n, run : IF run.name = <<>> THEN n + Len(run.reads) ELSE n, 0, SubSeq(plan, 1, i - 1))
  IN Indexed(IF named THEN Named_(path, "@positional") ELSE path, before + j)
RunPath(path, plan, i, j, named) ==
  CASE plan[i].name = <<>> -> Positional(path, plan, i, j, named)
    [] plan[i].name # <<>> /\ plan[i].several -> Indexed(Named_(path, plan[i].name[1]), j)
    [] OTHER -> Named_(path, plan[i].name[1])
RunRows(path, item, trace, i) ==
  LET run == trace.plan[i] IN
  (IF run.name # <<>> /\ run.several THEN Wrapper(Named_(path, run.name[1])) ELSE <<>>)
  \o FlattenSeq([j \in DOMAIN run.reads |->
       Replay(RunPath(path, trace.plan, i, j, trace.named), item.items[run.from + j], run.reads[j].trace)])
RestRows(path, item, trace, positional) ==
  LET extra == Named_(path, "@extra")
      rest == Len(item.items) - trace.cursor
      at(j) == IF trace.named THEN Indexed(extra, j) ELSE Indexed(path, positional + j)
  IN (IF trace.named /\ rest > 0 THEN Wrapper(extra) ELSE <<>>)
     \o FlattenSeq([j \in 1..rest |-> RawRows(at(j), item.items[trace.cursor + j])])
ArrayRows(path, item, trace) ==
  LET positional == FoldLeft(LAMBDA n, run : IF run.name = <<>> THEN n + Len(run.reads) ELSE n, 0, trace.plan)
  IN FlattenSeq([i \in DOMAIN trace.plan |-> RunRows(path, item, trace, i)])
     \o (IF trace.named /\ positional > 0 THEN Wrapper(Named_(path, "@positional")) ELSE <<>>)
     \o RestRows(path, item, trace, positional)
\* walk_tagged: a known tag has no parts, unless its bytes are kept.
TaggedRows(path, item, trace) ==
  LET tag == ValueRow(Named_(path, "@tag"), item)
      value == Named_(path, "@value")
  IN CASE trace.inner # <<>> -> tag \o Replay(value, item.item, trace.inner[1])
       [] trace.inner = <<>> /\ "fields" \in DOMAIN Specialised(item) -> tag \o ValueRow(value, item.item)
       [] OTHER -> <<>>
\* walk_type1, walk_type2, walk_typename.
Replay(path, item, trace) ==
  CASE trace.is \in {"raw", "range", "any"} -> RawRows(path, item)
    [] trace.is = "whole" -> ValueRow(path, item) \o RawChildren(path, item)
    [] trace.is \in {"alt", "binding", "paren"} -> Replay(path, item, trace.inner)
    [] trace.is = "rule" -> ValueRow(path, item) \o Replay(path, item, trace.inner)
    [] trace.is = "embedded" -> Replay(path, item.holds[1], trace.inner)
    [] trace.is = "leaf" -> ValueRow(path, item)
    [] trace.is = "map" -> ValueRow(path, item) \o MapRows(path, item, trace)
    [] trace.is = "entries" -> ValueRow(path, item) \o EntriesRows(path, item, trace)
    [] trace.is = "array" -> ValueRow(path, item) \o ArrayRows(path, item, trace)
    [] trace.is = "tagged" -> ValueRow(path, item) \o TaggedRows(path, item, trace)
MapAgainst(item, decoded) == RowFor(<<>>, item, "value") \o Replay(<<>>, item, decoded.trace)
================================================================================
