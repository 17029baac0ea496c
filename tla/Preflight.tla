------------------------------- MODULE Preflight -------------------------------
\* What is refused before a library that would abort on it reads the bytes
\* (csl_preflight.rs): what is no CBOR item, what nests too deep for the reader's stack, a
\* simple value where a witness should be, and an address of no bytes. The last two are
\* looked for along the library's own routes, by byte offsets. A hit is a truth value: which
\* of them is reported is left out. Nesting is measured (limits.rs) through the items byte
\* strings carry and without the native scripts, which every reader takes without recursion.
EXTENDS NestingScan

CONSTANTS
  MaxLevels,      \* MAX_CBOR_NESTING_DEPTH
  ReaderBound,    \* of each reader: MAX_CSL_, MAX_PALLAS_ and MAX_TYPED_DECODER_NESTING_DEPTH
  KeyHashLength   \* 28

\* ---- skip_item, array_element_offsets, map_entry_offsets ----

\* What each open container still expects, the innermost last.
RECURSIVE Unfilled(_), SkipOpen(_, _, _)
Unfilled(open) == IF open # <<>> /\ Last(open) = <<0>> THEN Unfilled(Front(open)) ELSE open
TakenFrom(open) == IF open = <<>> \/ Last(open) = <<>> THEN open ELSE Append(Front(open), <<Last(open)[1] - 1>>)
OpenedBy(h) ==
  CASE h.major \in {2, 3} -> IF h.arg = <<>> THEN <<h.arg>> ELSE <<>>
    [] h.major = 4 /\ h.arg # <<0>> -> <<h.arg>>
    [] h.major = 5 /\ h.arg # <<0>> -> <<IF h.arg = <<>> THEN <<>> ELSE <<2 * h.arg[1]>>>>
    [] h.major = 6 -> <<<<1>>>>
    [] OTHER -> <<>>
StringLength(h) == IF h.major \in {2, 3} /\ h.arg # <<>> THEN h.arg[1] ELSE 0
SkipOn(b, end, left) == IF left = <<>> THEN <<end>> ELSE SkipOpen(b, end, left)
Skipped(b, open, h, breaks, end) ==
  IF end > Len(b) \/ (breaks /\ (open = <<>> \/ Last(open) # <<>>)) THEN <<>>
  ELSE SkipOn(b, end, Unfilled(IF breaks THEN Front(open) ELSE TakenFrom(open) \o OpenedBy(h)))
SkipHead(b, open, h) ==
  IF h = <<>> THEN <<>> ELSE Skipped(b, open, h[1], h[1].major = 7 /\ h[1].arg = <<>>, h[1].next + StringLength(h[1]))
SkipOpen(b, at, open) == SkipHead(b, open, HeadAt(b, at))
ItemEnd(b, at) == SkipOpen(b, at, <<>>)

\* The offsets of that many items, or of those before a break.
RECURSIVE OffsetsFrom(_, _, _)
OneLess(left) == IF left = <<>> THEN <<>> ELSE <<left[1] - 1>>
OffsetsAfter(b, end, left) == IF end = <<>> THEN <<>> ELSE OffsetsFrom(b, end[1], OneLess(left))
Before(at, rest) == IF rest = <<>> THEN <<>> ELSE <<<<at>> \o rest[1]>>
OffsetsFrom(b, at, left) ==
  IF left = <<0>> \/ (left = <<>> /\ IsBreak(b, at)) THEN <<<<>>>>
  ELSE Before(at, OffsetsAfter(b, ItemEnd(b, at), left))
ItemsIn(b, h, major) ==
  IF h = <<>> \/ h[1].major # major THEN <<>>
  ELSE FlattenSeq(OffsetsFrom(b, h[1].next, IF major = 5 /\ h[1].arg # <<>> THEN <<2 * h[1].arg[1]>> ELSE h[1].arg))
ItemsOf(b, at, major) == ItemsIn(b, HeadAt(b, at), major)
Elements(b, at) == ItemsOf(b, at, 4)
EachOf(b, at) == Range(Elements(b, at))
NthOf(o, n) == IF n < Len(o) THEN {o[n + 1]} ELSE {}
Nth(b, at, n) == NthOf(Elements(b, at), n)
\* Pairs of a key and a value.
PairsOf(o) == IF Len(o) % 2 = 1 THEN {} ELSE {[key |-> o[2 * i - 1], value |-> o[2 * i]] : i \in 1..(Len(o) \div 2)}
PairsAt(b, at) == PairsOf(ItemsOf(b, at, 5))

\* ---- is_uint, skip_set_tags, byte_string_len ----

IsHead(h, major, arg) == h # <<>> /\ h[1].major = major /\ h[1].arg = arg
IsUint(b, at, n) == IsHead(HeadAt(b, at), 0, <<n>>)
MajorOf(h) == IF h = <<>> THEN -1 ELSE h[1].major
MajorAt(b, at) == MajorOf(HeadAt(b, at))
ValuesOf(b, at, n) == {e.value : e \in {e \in PairsAt(b, at) : IsUint(b, e.key, n)}}
PastTag(h, number, at) == IF IsTag(h, number) THEN h[1].next ELSE at
AfterSetTag(b, at) == PastTag(HeadAt(b, at), 258, at)
SetItems(b, at) == EachOf(b, AfterSetTag(b, AfterSetTag(b, at)))
RECURSIVE ChunksEmpty(_, _)
EmptyChunk(b, h) == IsHead(h, 2, <<0>>) /\ ChunksEmpty(b, h[1].next)
ChunksEmpty(b, at) == IsBreak(b, at) \/ EmptyChunk(b, HeadAt(b, at))
EmptyString(b, h) == IsHead(h, 2, <<0>>) \/ (IsHead(h, 2, <<>>) /\ ChunksEmpty(b, h[1].next))
EmptyBytes(b, at) == EmptyString(b, HeadAt(b, at))

\* ---- what a shape holds, by the offsets the library would come to ----

\* A versioned block has its block at 1.
RootsOf(b, shape) == IF shape = "VersionedBlock" THEN Nth(b, 0, 1) ELSE {0}
RootShape(shape) == IF shape = "VersionedBlock" THEN "Block" ELSE shape
\* _hazard_at, _scripts_at: the bodies and the witness sets.
BodiesIn(b, at, shape) ==
  CASE shape = "TransactionBody" -> {at}
    [] shape = "TransactionBodies" -> EachOf(b, at)
    [] shape = "Transaction" -> Nth(b, at, 0)
    [] shape = "Block" -> UNION {EachOf(b, bodies) : bodies \in Nth(b, at, 1)}
    [] OTHER -> {}
WitnessSetsOf(b, at, shape) ==
  CASE shape = "WitnessSet" -> {at}
    [] shape = "WitnessSets" -> EachOf(b, at)
    [] shape = "Transaction" -> Nth(b, at, 1)
    [] shape = "Block" -> UNION {EachOf(b, sets) : sets \in Nth(b, at, 2)}
    [] OTHER -> {}
ValuesUnder(b, maps, n) == UNION {ValuesOf(b, m, n) : m \in maps}
OutputsOf(b, at, shape, bodies) ==
  CASE shape = "TransactionOutput" -> {at}
    [] shape = "TransactionOutputs" -> EachOf(b, at)
    [] shape = "TransactionUnspentOutput" -> Nth(b, at, 1)
    [] OTHER -> UNION {EachOf(b, v) : v \in ValuesUnder(b, bodies, 1)} \cup ValuesUnder(b, bodies, 16)
\* The array itself, of a set of them, or those of the bodies.
ListedIn(b, at, shape, one, many, lists) ==
  CASE shape = one -> {at}
    [] shape = many -> SetItems(b, at)
    [] OTHER -> UNION {SetItems(b, v) : v \in lists}
OfThatKind(b, arrays, n) == {a \in arrays : \E kind \in Nth(b, a, 0) : IsUint(b, kind, n)}
ElementOf(b, arrays, n) == UNION {Nth(b, a, n) : a \in arrays}

\* ---- witness_list_hazard ----

WitnessHazardIn(b, lists) == \E list \in lists : \E item \in SetItems(b, list) : MajorAt(b, item) = 7
WitnessHazard(b, at, shape) ==
  WitnessHazardIn(b, IF shape = "WitnessList" THEN {at} ELSE UNION {ValuesUnder(b, WitnessSetsOf(b, at, shape), n) : n \in {0, 2}})

\* ---- address_hazard ----

OutputAddresses(b, outputs) == ElementOf(b, outputs, 0) \cup ValuesUnder(b, outputs, 0)
KeysOfMaps(b, maps) == {e.key : e \in UNION {PairsAt(b, m) : m \in maps}}
\* The maps from accounts: withdrawals, and what treasury withdrawals pay.
AccountMaps(b, at, shape, bodies, actions) ==
  IF shape = "Withdrawals" THEN {at} ELSE ValuesUnder(b, bodies, 5) \cup ElementOf(b, OfThatKind(b, actions, 2), 1)
ActionsOf(b, at, shape, proposals) == IF shape = "GovernanceAction" THEN {at} ELSE ElementOf(b, proposals, 2)
\* The reward accounts named on their own.
AccountsOf(b, at, shape, bodies, proposals) ==
  CASE shape = "RewardAddresses" -> EachOf(b, at)
    [] shape = "PoolParams" -> Nth(b, at, 5)
    [] OTHER -> ElementOf(b, proposals, 1)
         \cup ElementOf(b, OfThatKind(b, ListedIn(b, at, shape, "Certificate", "Certificates", ValuesUnder(b, bodies, 4)), 3), 6)
AddressesIn(b, at, shape, bodies, proposals) ==
  OutputAddresses(b, OutputsOf(b, at, shape, bodies)) \cup AccountsOf(b, at, shape, bodies, proposals)
  \cup KeysOfMaps(b, AccountMaps(b, at, shape, bodies, ActionsOf(b, at, shape, proposals)))
AddressesOf(b, at, shape, bodies) ==
  AddressesIn(b, at, shape, bodies, ListedIn(b, at, shape, "VotingProposal", "VotingProposals", ValuesUnder(b, bodies, 20)))
AddressHazard(b, at, shape) == \E a \in AddressesOf(b, at, shape, BodiesIn(b, at, shape)) : EmptyBytes(b, a)
ShapeHazard(b, shape) ==
  CASE \E at \in RootsOf(b, shape) : WitnessHazard(b, at, RootShape(shape)) -> "simple_value_in_witness_list"
    [] OTHER -> IF \E at \in RootsOf(b, shape) : AddressHazard(b, at, RootShape(shape)) THEN "empty_address" ELSE "ok"

\* ---- native_script_end, as read_script reads a script ----

CloseEnd(b, at, indefinite) == IF ~indefinite THEN <<at>> ELSE IF IsBreak(b, at) THEN <<at + 1>> ELSE <<>>
KindOf(h) == IF h # <<>> /\ h[1].major = 0 /\ h[1].arg # <<>> THEN h[1].arg[1] ELSE -1
ArgEnd(b, at, h, kind) ==
  CASE kind \in {1, 2} -> <<at>>
    [] kind = 0 /\ h # <<>> /\ h[1].major = 2 /\ h[1].arg = <<KeyHashLength>> /\ h[1].next + KeyHashLength <= Len(b) ->
         <<h[1].next + KeyHashLength>>
    [] kind = 3 /\ h # <<>> /\ h[1].major \in {0, 1} /\ h[1].arg # <<>> -> <<h[1].next>>
    [] kind \in {4, 5} /\ h # <<>> /\ h[1].major = 0 /\ h[1].arg # <<>> -> <<h[1].next>>
    [] OTHER -> <<>>
RECURSIVE ScriptEnd(_, _), ScriptsEnd(_, _, _)
\* The list of sub-scripts, tagged or not, and what closes the script.
ClosedAfter(b, end, indefinite) == IF end = <<>> THEN <<>> ELSE CloseEnd(b, end[1], indefinite)
ScriptsIn(b, h) == IF h = <<>> \/ h[1].major # 4 THEN <<>> ELSE ScriptsEnd(b, h[1].next, h[1].arg)
ListEnd(b, at, indefinite) == ClosedAfter(b, ScriptsIn(b, HeadAt(b, AfterSetTag(b, at))), indefinite)
ScriptsOn(b, end, left) == IF end = <<>> THEN <<>> ELSE ScriptsEnd(b, end[1], OneLess(left))
ScriptsEnd(b, at, left) ==
  IF left = <<0>> THEN <<at>>
  ELSE IF left = <<>> /\ IsBreak(b, at) THEN <<at + 1>> ELSE ScriptsOn(b, ScriptEnd(b, at), left)
BodyEnd(b, end, kind, indefinite) ==
  IF end = <<>> \/ kind \notin 1..3 THEN ClosedAfter(b, end, indefinite) ELSE ListEnd(b, end[1], indefinite)
ScriptOfKind(b, header, h, kind) ==
  IF h = <<>> \/ header.arg \notin {<<>>, <<IF kind = 3 THEN 3 ELSE 2>>} THEN <<>>
  ELSE BodyEnd(b, ArgEnd(b, h[1].next, HeadAt(b, h[1].next), kind), kind, header.arg = <<>>)
AtKind(b, header, h) == ScriptOfKind(b, header, h, KindOf(h))
ScriptAt(b, h) == IF h = <<>> \/ h[1].major # 4 THEN <<>> ELSE AtKind(b, h[1], HeadAt(b, h[1].next))
ScriptEnd(b, at) == ScriptAt(b, HeadAt(b, at))

\* ---- native_script_sites: the whole scripts, and where the payloads of script references start ----

ScriptSite(b, at) == {[start |-> at, end |-> end] : end \in Range(ScriptEnd(b, at))}
ListSites(b, at) == UNION {ScriptSite(b, s) : s \in SetItems(b, at)}
TaggedScripts(b, h) == IF IsTag(h, 259) THEN ValuesOf(b, h[1].next, 1) ELSE {}
AuxiliarySites(b, at) == UNION {ListSites(b, v) : v \in Nth(b, at, 1) \cup TaggedScripts(b, HeadAt(b, at))}
WholeString(h) == IF h # <<>> /\ h[1].major = 2 /\ h[1].arg # <<>> THEN {h[1].next} ELSE {}
UnderTag24(b, h) == IF IsTag(h, 24) THEN WholeString(HeadAt(b, h[1].next)) ELSE {}
ReferenceAt(b, at) == UnderTag24(b, HeadAt(b, at))
ScriptOfPair(b, o) == IF Len(o) = 2 /\ IsUint(b, o[1], 0) THEN ScriptSite(b, o[2]) ELSE {}
ContentSites(b, at) == ScriptOfPair(b, Elements(b, at))
Auxiliary(o) == IF Len(o) \in 3..4 THEN {Last(o)} ELSE {}
AuxiliaryOf(b, at, shape) ==
  CASE shape = "AuxiliaryData" -> {at}
    [] shape = "Transaction" -> Auxiliary(Elements(b, at))
    [] shape = "Block" -> {e.value : e \in UNION {PairsAt(b, a) : a \in Nth(b, at, 3)}}
    [] OTHER -> {}
ScriptSites(b, at, shape) ==
  CASE shape = "NativeScript" -> ScriptSite(b, at)
    [] shape = "NativeScripts" -> ListSites(b, at)
    [] shape = "ScriptRef" -> IF MajorAt(b, at) = 6 THEN {} ELSE ContentSites(b, at)
    [] OTHER -> UNION {ListSites(b, v) : v \in ValuesUnder(b, WitnessSetsOf(b, at, shape), 1)}
                \cup UNION {AuxiliarySites(b, a) : a \in AuxiliaryOf(b, at, shape)}
ReferenceSites(b, at, shape) ==
  IF shape = "ScriptRef" THEN ReferenceAt(b, at)
  ELSE UNION {ReferenceAt(b, v) : v \in ValuesUnder(b, OutputsOf(b, at, shape, BodiesIn(b, at, shape)), 3)}
ScriptsOfShape(b, shape) == UNION {ScriptSites(b, at, RootShape(shape)) : at \in RootsOf(b, shape)}
ReferencesOfShape(b, shape) == UNION {ReferenceSites(b, at, RootShape(shape)) : at \in RootsOf(b, shape)}

\* ---- cbor_nesting_depth_through_embedded_skipping ----

RECURSIVE ThroughPayloads(_, _, _, _, _, _)
LeftOutOf(p, embedding, refs) == IF embedding = 0 /\ p.start \in refs THEN ContentSites(p.data, 0) ELSE {}
WithPayloads(deepest, found, base, embedding, ceiling, refs) ==
  IF deepest > ceiling THEN deepest
  ELSE Max({deepest} \cup {ThroughPayloads(p.data, base + p.level, embedding + 1, ceiling, LeftOutOf(p, embedding, refs), {}) : p \in found})
MeasuredDepth(shape, base, embedding, ceiling, refs) ==
  WithPayloads(base + shape.deepest, shape.found, base, embedding, ceiling, refs)
ThroughPayloads(b, base, embedding, ceiling, skip, refs) ==
  MeasuredDepth(ScanShape(b, IF ceiling > base THEN ceiling - base ELSE 0, Unlimited, embedding < MaxFollowed, skip),
           base, embedding, ceiling, refs)
WholeDepth(b) == ThroughPayloads(b, 0, 0, MaxLevels, {}, {})
DepthOutsideScripts(b, shape, ceiling) ==
  ThroughPayloads(b, 0, 0, ceiling, ScriptsOfShape(b, shape), ReferencesOfShape(b, shape))

\* ---- nesting_verdict, check_cbor_within ----

VerdictOf(whole, b, shape, bound) ==
  IF whole <= bound THEN "ok"
  ELSE IF whole > MaxLevels THEN "nesting_too_deep"
  ELSE IF DepthOutsideScripts(b, shape, bound) > bound THEN "nesting_too_deep_for_reader" ELSE "ok"
NestingVerdict(b, shape, bound) == VerdictOf(WholeDepth(b), b, shape, bound)
OrHazard(nesting, b, shape) == IF nesting # "ok" THEN nesting ELSE ShapeHazard(b, shape)
\* Of bytes the decoder reads whole or not.
CheckWithin(b, decodes, shape, reader) ==
  CASE b = <<>> -> "empty"
    [] b # <<>> /\ ~decodes -> "malformed"
    [] OTHER -> OrHazard(NestingVerdict(b, shape, ReaderBound[reader]), b, shape)

\* ---- the typed decoders (universal_decoder.rs): one type at a time and every type an
\* ---- input decodes as. Whether a library reads the bytes as a type is taken as given.

\* ---- decoder_input, reading_shape: of the types used here ----

RawByteTypes == {"ScriptHash", "Address"}
ShapeOf(type) ==
  CASE type = "TransactionWitnessSet" -> "WitnessSet"
    [] type = "TransactionWitnessSets" -> "WitnessSets"
    [] type \in {"Vkeywitnesses", "BootstrapWitnesses"} -> "WitnessList"
    [] type \in {"Certificate", "PoolRegistration"} -> "Certificate"
    [] type \in {"GovernanceAction", "TreasuryWithdrawalsAction"} -> "GovernanceAction"
    [] type \in {"NativeScript", "ScriptAll", "ScriptPubkey"} -> "NativeScript"
    [] type \in {"PlutusData", "GeneralTransactionMetadata"} -> "Item"
    [] OTHER -> type
ReadingShape(type) == IF type \in RawByteTypes THEN "Item" ELSE ShapeOf(type)

\* ---- decode_specific_type ----

\* check_decoder_input: raw bytes pass.
InputCheck(b, decodes, type) == IF type \in RawByteTypes THEN "ok" ELSE CheckWithin(b, decodes, ShapeOf(type), "csl")
RefusedOr(refusal, then) == IF refusal # "ok" THEN refusal ELSE then
DecodeSpecificType(b, decodes, type, reads) ==
  RefusedOr(NestingVerdict(b, ReadingShape(type), ReaderBound["typed"]),
          RefusedOr(InputCheck(b, decodes, type), IF type \in reads THEN "decoded" ELSE "not_of_type"))

\* ---- possible_types ----

\* Slip: each type is measured as an item, whatever scripts it holds.
NotTried_AsItem(b, types) ==
  IF WholeDepth(b) <= ReaderBound["typed"] THEN {}
  ELSE {t \in types : NestingVerdict(b, "Item", ReaderBound["typed"]) # "ok"}
\* The types refused for nesting, none when the whole document is shallow.
NotTried(b, types) ==
  IF WholeDepth(b) <= ReaderBound["typed"] THEN {}
  ELSE {t \in types : NestingVerdict(b, ReadingShape(t), ReaderBound["typed"]) # "ok"}
MayTry(b, decodes, type) == type \in RawByteTypes \/ (decodes /\ ShapeHazard(b, ShapeOf(type)) = "ok")
\* The bound the report names and the depth, when the scan got to it.
ReasonNotTried(whole, refused) ==
  IF refused = {} THEN <<>>
  ELSE <<[limit |-> IF whole > MaxLevels THEN MaxLevels ELSE ReaderBound["typed"],
          depth |-> IF whole > MaxLevels THEN <<>> ELSE <<whole>>, types |-> refused]>>
PossibleReport(b, decodes, types, reads, refused) ==
  [types |-> {t \in types \ refused : MayTry(b, decodes, t) /\ t \in reads},
   unexamined |-> ReasonNotTried(WholeDepth(b), refused)]
PossibleTypes(b, decodes, types, reads) == PossibleReport(b, decodes, types, reads, NotTried(b, types))

\* ---- ledger_tx_size, unknown_cost_model_language ----

LengthsAt(b, starts) == [i \in DOMAIN starts |-> ItemEnd(b, starts[i])[1] - starts[i]]
SizeOfParts(n) ==
  CASE Len(n) = 4 -> <<1 + n[1] + n[2] + n[4]>>
    [] Len(n) = 3 -> <<1 + n[1] + n[2] + n[3]>>
    [] OTHER -> <<>>
LedgerTxSize(b) == SizeOfParts(LengthsAt(b, Elements(b, 0)))
\* CSL_COST_MODEL_LANGUAGES is 3.
UnknownLanguage(h) == h # <<>> /\ h[1].major = 0 /\ h[1].arg # <<>> /\ h[1].arg[1] >= 3
FirstOfPairs(pairs) == {e.value : e \in {e \in pairs : \A f \in pairs : e.key <= f.key}}
FirstValue(b, at, n) == FirstOfPairs({e \in PairsAt(b, at) : IsUint(b, e.key, n)})
UpdateUnknown(b, at) == \E models \in FirstValue(b, at, 18) : \E e \in PairsAt(b, models) : UnknownLanguage(HeadAt(b, e.key))
ActionUnknown(b, at) ==
  (\E kind \in Nth(b, at, 0) : IsUint(b, kind, 0)) /\ \E update \in Nth(b, at, 2) : UpdateUnknown(b, update)
UnknownCostModelLanguage(b) ==
  \E body \in Nth(b, 0, 0) :
    \/ \E v \in ValuesOf(b, body, 20) : \E p \in SetItems(b, v) : \E a \in Nth(b, p, 2) : ActionUnknown(b, a)
    \/ \E v \in ValuesOf(b, body, 6) : \E updates \in Nth(b, v, 0) : \E e \in PairsAt(b, updates) : UpdateUnknown(b, e.value)
\* parse_failure: what a transaction is told that the library refuses.
ParseFailure(b) == IF UnknownCostModelLanguage(b) THEN "unknown_cost_model_language" ELSE "library_error"
================================================================================
