-------------------------------- MODULE MCPreflight --------------------------------
\* Documents at the edge of what the libraries read safely: addresses, witnesses and
\* native scripts at every place a type holds one and beside it, and nesting around each
\* bound, in the document or in what its byte strings carry.
\*
\* A document says what is in it as it is put together: `empty` that an address a library
\* reads there has no bytes, `simple` that a witness is a simple value; an item marked
\* `script` is a native script where the type has one, and a byte string that `carries` an
\* item is read as it.
EXTENDS Preflight, CborDocuments

MCReaderBound == [csl |-> 10, pallas |-> 10, typed |-> 7]
Filler == Natural(1)
Nothing == Map(<<>>, 0)
ContainerStyles == {0, Indefinite}

\* ---- addresses ----

Addresses == {Bytes(<<>>, 0), Bytes(<<>>, 1), Bytes(<<97>>, 0), Chunked("bytes", <<>>),
  Chunked("bytes", <<Bytes(<<>>, 0), Bytes(<<>>, 1)>>), Chunked("bytes", <<Bytes(<<>>, 0), Bytes(<<97>>, 0)>>), Text(<<>>, 0)}
NoBytes(a) == a.kind # "text" /\ (IF a.kind = "chunks" THEN \A c \in Range(a.chunks) : c.data = <<>> ELSE a.data = <<>>)
Document(shape, item) == [shape |-> shape, item |-> item, empty |-> FALSE, simple |-> FALSE, language |-> FALSE]
Addressed(shape, item, a, read) == [Document(shape, item) EXCEPT !.empty = read /\ NoBytes(a)]
Output(a, w) == Array(<<a, Filler>>, w)
OutputMap(key, a, w) == Map(<<<<Filler, Filler>>, <<Natural(key), a>>>>, w)
Account(a, w) == Map(<<<<Bytes(<<97>>, 0), Filler>>, <<a, Filler>>>>, w)
Certificate(kind, a, w) == Array(<<Natural(kind), Filler, Filler, Filler, Filler, Filler, a>>, w)
ActionItem(kind, a, w) == Array(<<Natural(kind), Account(a, 0), Filler>>, w)
ProposalItem(a, action, w) == Array(<<Filler, a, action, Filler>>, w)
Set(tags, items, w) == IF tags = 0 THEN Array(items, w)
  ELSE IF tags = 1 THEN Tag(258, Array(items, w)) ELSE Tag(258, Tag(258, Array(items, w)))
\* The items that hold an address, and whether it is read there.
Addressing(a, w) == {
  Addressed("TransactionOutput", Output(a, w), a, TRUE),
  Addressed("TransactionOutput", OutputMap(0, a, w), a, TRUE),
  Addressed("TransactionOutput", OutputMap(3, a, w), a, FALSE),
  Addressed("TransactionOutput", Array(<<Bytes(<<97>>, 0), a>>, w), a, FALSE),
  Addressed("TransactionOutputs", Array(<<Output(Bytes(<<97>>, 0), 0), OutputMap(0, a, w)>>, w), a, TRUE),
  Addressed("TransactionUnspentOutput", Array(<<Filler, Output(a, w)>>, w), a, TRUE),
  Addressed("TransactionUnspentOutput", Array(<<Output(a, w), Filler>>, w), a, FALSE),
  Addressed("Withdrawals", Account(a, w), a, TRUE),
  Addressed("Withdrawals", Map(<<<<Filler, a>>>>, w), a, FALSE),
  Addressed("RewardAddresses", Array(<<Filler, a>>, w), a, TRUE),
  Addressed("PoolParams", Array(<<Filler, Filler, Filler, Filler, Filler, a>>, w), a, TRUE),
  Addressed("PoolParams", Array(<<Filler, Filler, Filler, Filler, a>>, w), a, FALSE),
  Addressed("Certificate", Certificate(3, a, w), a, TRUE),
  Addressed("Certificate", Certificate(4, a, w), a, FALSE),
  Addressed("GovernanceAction", ActionItem(2, a, w), a, TRUE),
  Addressed("GovernanceAction", ActionItem(6, a, w), a, FALSE),
  Addressed("VotingProposal", ProposalItem(a, ActionItem(6, Bytes(<<97>>, 0), 0), w), a, TRUE),
  Addressed("VotingProposal", ProposalItem(Bytes(<<97>>, 0), ActionItem(2, a, w), w), a, TRUE),
  Addressed("VotingProposal", ProposalItem(Filler, ActionItem(1, a, w), w), a, FALSE)}
ListShape(shape) == CASE shape = "Certificate" -> "Certificates" [] shape = "VotingProposal" -> "VotingProposals"
AddressingLists(a, w) == {[p EXCEPT !.shape = ListShape(@), !.item = Set(tags, <<Filler, @>>, w)] :
  p \in {p \in Addressing(a, w) : p.shape \in {"Certificate", "VotingProposal"}}, tags \in 0..2}
\* The keys of a body under which a type is found.
BodyKeysOf(shape) == CASE shape = "TransactionOutputs" -> {1} [] shape = "TransactionOutput" -> {16}
  [] shape = "Withdrawals" -> {5} [] shape = "Certificates" -> {4} [] shape = "VotingProposals" -> {20} [] OTHER -> {}
AddressingBodies(a, w) == {[p EXCEPT !.shape = "TransactionBody", !.item = Map(<<<<Natural(2), Filler>>, <<Natural(key), @>>>>, w),
                           !.empty = @ /\ key \in BodyKeysOf(p.shape)] :
  <<p, key>> \in {<<p, key>> \in (Addressing(a, 0) \cup AddressingLists(a, 0)) \X {1, 4, 5, 9, 13, 16, 20} :
                    BodyKeysOf(p.shape) # {} /\ key \in BodyKeysOf(p.shape) \cup {9, 13}}}
Null == Simple(22)
Transaction(body, set, auxiliary, w) == Array(<<body, set, Simple(21), auxiliary>>, w)
Block(bodies, sets, auxiliary, w) == Array(<<Filler, Array(bodies, w), Array(sets, w), auxiliary>>, w)
\* A body in what holds one.
InBodiesOf(p, w) == {p,
  [p EXCEPT !.shape = "TransactionBodies", !.item = Array(<<Nothing, @>>, w)],
  [p EXCEPT !.shape = "Transaction", !.item = Transaction(@, Nothing, Null, w)],
  [p EXCEPT !.shape = "Block", !.item = Block(<<Nothing, @>>, <<>>, Nothing, w)],
  [p EXCEPT !.shape = "VersionedBlock", !.item = Array(<<Filler, Block(<<@>>, <<>>, Nothing, 0)>>, w)]}
AddressDocuments ==
  UNION {Addressing(a, w) \cup AddressingLists(a, w) : a \in Addresses, w \in ContainerStyles}
  \cup UNION {InBodiesOf(p, w) : p \in UNION {AddressingBodies(a, 0) : a \in {Bytes(<<>>, 0), Bytes(<<97>>, 0)}}, w \in {Indefinite}}

\* ---- witnesses ----

WitnessPool == {Array(<<Filler, Filler>>, 0), Array(<<>>, Indefinite), Null, Simple(20), Float(<<60, 0>>), Filler}
IsSimple(x) == x.kind \in {"simple", "float"}
WitnessLists(w) == {[Document("WitnessList", Set(tags, <<Array(<<Filler>>, 0), x>>, w)) EXCEPT !.simple = IsSimple(x)] :
  x \in WitnessPool, tags \in 0..2}
WitnessSetsAround(w) == {[p EXCEPT !.shape = "WitnessSet", !.item = Map(<<<<Natural(4), Filler>>, <<Natural(key), @>>>>, w),
                             !.simple = @ /\ key \in {0, 2}] : p \in WitnessLists(0), key \in {0, 1, 2, 3}}
WitnessHolding(p, w) == {p,
  [p EXCEPT !.shape = "WitnessSets", !.item = Array(<<Nothing, @>>, w)],
  [p EXCEPT !.shape = "Transaction", !.item = Transaction(Nothing, @, Null, w)],
  [p EXCEPT !.shape = "Block", !.item = Block(<<Nothing, Nothing>>, <<Nothing, @>>, Nothing, w)],
  [p EXCEPT !.shape = "VersionedBlock", !.item = Array(<<Filler, Block(<<>>, <<@>>, Nothing, w)>>, 0)]}
WitnessDocuments ==
  UNION {WitnessLists(w) : w \in {0, Indefinite}}
  \cup UNION {WitnessHolding(p, w) : p \in WitnessSetsAround(Indefinite), w \in {0}}

\* ---- cost models ----

Update(key, language) == Map(<<<<Natural(key), Map(<<<<Natural(0), Filler>>, <<Natural(language), Filler>>>>, 0)>>>>, 0)
UpdateBodies == {
  [Document("Transaction", Transaction(Map(<<<<Natural(at), IF at = 6 THEN Array(<<Map(<<<<Filler, Update(key, language)>>>>, 0), Filler>>, 0)
     ELSE Set(tags, <<ProposalItem(Bytes(<<97>>, 0), Array(<<Natural(kind), Null, Update(key, language)>>, 0), 0)>>, 0)>>>>, 0), Nothing, Null, w))
     EXCEPT !.language = language >= 3 /\ key = 18 /\ (at = 6 \/ (at = 20 /\ kind = 0))] :
  at \in {6, 20}, key \in {18, 19}, language \in {2, 3, 4}, kind \in {0, 1}, tags \in {0, 1}, w \in {0, Indefinite}}

\* ---- nesting ----

RECURSIVE Chained(_, _, _)
Chained(kind, n, core) ==
  IF n = 0 THEN core
  ELSE LET inner == Chained(kind, n - 1, core) IN
       CASE kind = "array" -> Array(<<Filler, inner>>, 0)
         [] kind = "open" -> Array(<<inner, Filler>>, Indefinite)
         [] kind = "value" -> Map(<<<<Filler, inner>>>>, 0)
         [] kind = "key" -> Map(<<<<inner, Filler>>>>, Indefinite)
         [] kind = "tag" -> Tag(5, inner)
Fitted(n) == IF n < 24 THEN 0 ELSE 1
Carrying(item) == [carries |-> item] @@ Bytes(Encoded(item), Fitted(Len(Encoded(item))))
\* Only the first bytes of nested arrays, or an item and another.
CarryingCut(n) == [carries |-> Chained("tag", n - 1, Filler)] @@ Bytes([i \in 1..n |-> 129], 0)
InChunks(item) ==
  LET b == Encoded(item) IN
  [carries |-> item] @@ Chunked("bytes", <<Bytes(SubSeq(b, 1, 1), 0), Bytes(SubSeq(b, 2, Len(b)), 1)>>)
Cores == {Filler, Array(<<>>, 0), Array(<<>>, Indefinite), Chunked("text", <<Text(<<97>>, 0)>>)}
Embedding(item) == Tag(24, Carrying(item))
PlainChains == {Chained(kind, n, core) : kind \in {"array", "open", "value", "key", "tag"}, n \in 5..13, core \in Cores}
CarriedChains ==
  {Chained("array", n, Tag(24, string)) : n \in 1..3,
     string \in {Carrying(Chained("value", m, Filler)) : m \in 3..10} \cup {InChunks(Chained("open", m, Filler)) : m \in 3..10}
                \cup {CarryingCut(m) : m \in 4..9}
                \cup {Carrying(Embedding(Chained("tag", m, Filler))) : m \in 2..7}
                \cup {InChunks(Embedding(Chained("tag", m, Filler))) : m \in 2..6}
                \cup {Carrying(Embedding(Embedding(Chained("array", m, Filler)))) : m \in 2..7}}

\* ---- native scripts ----

KeyHash == Bytes(<<1>>, 0)
SignedBy == Array(<<Natural(0), KeyHash>>, 0)
RECURSIVE ScriptOf(_, _)
\* Scripts inside one another, and what looks like one at the innermost.
ScriptOf(n, core) ==
  IF n = 0 THEN core
  ELSE IF n % 3 = 0 THEN Array(<<Natural(3), Filler, Tag(258, Array(<<ScriptOf(n - 1, core)>>, 0))>>, Indefinite)
  ELSE Array(<<Natural(1), Array(<<SignedBy, ScriptOf(n - 1, core)>>, Indefinite)>>, 0)
ScriptCores == {SignedBy, Array(<<Natural(4), Filler>>, Indefinite), Array(<<Natural(5), Uint(<<7>>, 1)>>, 0), Array(<<Natural(2), Array(<<>>, 0)>>, 0)}
Unscripts == {Array(<<Natural(0), Bytes(<<1, 2>>, 0)>>, 0), Array(<<Natural(6), Filler>>, 0), Array(<<Natural(0), KeyHash, Filler>>, 0),
  Array(<<Natural(3), Array(<<>>, 0)>>, 0), Array(<<Natural(1), Filler>>, 0), Array(<<Natural(0), Chunked("bytes", <<KeyHash>>)>>, 0)}
Marked(item) == [script |-> TRUE] @@ item
Depths == {2, 4}
MarkedScripts == {Marked(ScriptOf(n, c)) : n \in Depths, c \in ScriptCores}
ScriptPool == MarkedScripts \cup {ScriptOf(n, c) : n \in Depths, c \in Unscripts}
Unmarked(item) == IF "script" \in DOMAIN item THEN [f \in DOMAIN item \ {"script"} |-> item[f]] ELSE item
ScriptSet(key, s) == Map(<<<<Natural(key), Set(1, <<SignedBy, IF key = 1 THEN s ELSE Unmarked(s)>>, 0)>>>>, 0)
AuxiliaryTagged(tag, s) == Tag(tag, Map(<<<<Filler, Array(<<IF tag = 259 THEN s ELSE Unmarked(s)>>, 0)>>>>, 0))
Reference(string) == Tag(24, string)
ScriptIn(kind, s) == Array(<<Natural(kind), IF kind = 0 THEN s ELSE Unmarked(s)>>, 0)
ReferenceOutput(key, kind, s) ==
  Map(<<<<Natural(key), Reference(Carrying(ScriptIn(kind, IF key = 3 THEN s ELSE Unmarked(s))))>>>>, 0)
ScriptDocuments == UNION {{
    Document("NativeScript", s), Document("Item", Unmarked(s)), Document("NativeScripts", Array(<<Filler, s>>, Indefinite)),
    Document("NativeScripts", Tag(258, Tag(258, Array(<<s>>, 0)))),
    Document("WitnessSet", ScriptSet(1, s)), Document("WitnessSet", ScriptSet(3, s)),
    Document("WitnessSets", Array(<<Filler, ScriptSet(1, s)>>, 0)),
    Document("Transaction", Transaction(Nothing, ScriptSet(1, s), Null, 0)),
    Document("Transaction", Transaction(Nothing, Filler, AuxiliaryTagged(259, s), Indefinite)),
    Document("Transaction", Array(<<Nothing, Nothing, Array(<<Nothing, Array(<<s>>, 0)>>, 0)>>, 0)),
    Document("AuxiliaryData", AuxiliaryTagged(259, s)), Document("AuxiliaryData", AuxiliaryTagged(258, s)),
    Document("AuxiliaryData", Array(<<Nothing, Array(<<s>>, 0)>>, 0)),
    Document("Block", Block(<<>>, <<ScriptSet(1, s)>>, Nothing, 0)),
    Document("Block", Block(<<>>, <<>>, Map(<<<<Filler, AuxiliaryTagged(259, s)>>>>, 0), Indefinite)),
    Document("ScriptRef", ScriptIn(0, s)), Document("ScriptRef", ScriptIn(1, s)),
    Document("ScriptRef", Reference(Carrying(ScriptIn(0, s)))),
    Document("ScriptRef", Reference(InChunks(ScriptIn(0, Unmarked(s))))),
    Document("TransactionOutput", ReferenceOutput(3, 0, s)), Document("TransactionOutput", ReferenceOutput(2, 0, s)),
    Document("TransactionOutputs", Array(<<ReferenceOutput(3, 0, s), Filler, ReferenceOutput(3, 0, s)>>, 0)),
    Document("TransactionOutputs", Array(<<Output(Filler, 0), ReferenceOutput(3, 1, s)>>, 0)),
    Document("TransactionUnspentOutput", Array(<<Filler, ReferenceOutput(3, 0, s)>>, 0)),
    Document("TransactionBody", Map(<<<<Filler, Array(<<ReferenceOutput(3, 0, s)>>, 0)>>>>, 0)),
    Document("TransactionBodies", Array(<<Filler, Map(<<<<Natural(16), ReferenceOutput(3, 0, s)>>>>, 0)>>, 0))} : s \in ScriptPool}

\* ---- the calls ----

NestingDocuments == {Document(shape, item) : shape \in {"Item", "Transaction"}, item \in PlainChains \cup CarriedChains}
GateInputs ==
  {[document |-> d, reader |-> "csl"] : d \in AddressDocuments \cup WitnessDocuments \cup UpdateBodies}
  \cup {[document |-> d, reader |-> r] : d \in NestingDocuments, r \in {"csl", "typed"}}
  \cup {[document |-> d, reader |-> "typed"] : d \in ScriptDocuments}
BytesOf(d) == Encoded(d.item)
\* The types asked for: of deep documents those that hold scripts, of the others those with
\* an address or a witness.
TypesFor(reader) ==
  IF reader = "typed" THEN {"Transaction", "TransactionOutput", "TransactionWitnessSet", "ScriptAll", "NativeScripts", "PlutusData", "ScriptHash"}
  ELSE {"TransactionOutput", "Vkeywitnesses", "PoolRegistration", "ScriptHash"}

VARIABLES submitted, verdict
GateInit == submitted \in GateInputs /\ verdict = <<>>
Answers(b, d, reader, Types) ==
  [checked |-> CheckWithin(b, TRUE, d.shape, reader),
   size |-> LedgerTxSize(b),
   failure |-> ParseFailure(b),
   possible |-> PossibleTypes(b, TRUE, Types, Types),
   specific |-> [t \in Types |-> DecodeSpecificType(b, TRUE, t, Types)]]
CheckInput ==
  /\ verdict = <<>>
  /\ verdict' = <<Answers(BytesOf(submitted.document), submitted.document, submitted.reader,
                         TypesFor(submitted.reader))>>
  /\ UNCHANGED submitted
GateSpec == GateInit /\ [][CheckInput]_<<submitted, verdict>>

\* How deep an item nests, where that many byte strings are read as what they carry;
\* without the native scripts of it or with them.
RECURSIVE Deepest(_, _, _)
Deepest(item, embedded, scripts) ==
  LET levels == {Deepest(i, embedded, scripts) : i \in Range(Inside(item))}
      carried == IF item.kind = "tag" /\ item.arg = <<24>> /\ "carries" \in DOMAIN item.item /\ embedded < MaxFollowed
                 THEN {Deepest(item.item.carries, embedded + 1, scripts)} ELSE {}
  IN IF item.kind \notin {"array", "map", "tag"} \/ levels = {} \/ (~scripts /\ "script" \in DOMAIN item) THEN 0
     ELSE 1 + Max(levels \cup carried)
\* The first reason a reader has to refuse a document.
ReasonToRefuse(d, bound) ==
  CASE Deepest(d.item, 0, TRUE) > MaxLevels -> "nesting_too_deep"
    [] Deepest(d.item, 0, TRUE) <= MaxLevels /\ Deepest(d.item, 0, FALSE) > bound -> "nesting_too_deep_for_reader"
    [] OTHER -> IF d.simple THEN "simple_value_in_witness_list" ELSE IF d.empty THEN "empty_address" ELSE "ok"
MeasuredParts(item) == IF Len(item.items) = 4 THEN <<item.items[1], item.items[2], item.items[4]>> ELSE item.items
SizeOf(item) == 1 + Len(FlattenSeq([i \in 1..3 |-> Encoded(MeasuredParts(item)[i])]))
\* A document is refused exactly when a library would run out of stack or abort on it: it
\* nests past the reader's bound outside the native scripts its type holds, through the
\* byte strings it carries items in, or past the walkers' bound with them; a witness is a
\* simple value; an address, in chunks or not, has no bytes. Nothing beside those places
\* counts, however alike (csl_preflight.rs, check_cbor_within). A transaction's size is that
\* of its three parts however it is written, and one the library refuses is told of a cost
\* model only if it has one (ledger_tx_size, parse_failure).
PreflightExact ==
  verdict # <<>> =>
    LET d == submitted.document IN
    /\ verdict[1].checked = ReasonToRefuse(d, ReaderBound[submitted.reader])
    /\ d.shape = "Transaction" /\ d.item.kind = "array" /\ Len(d.item.items) \in 3..4 => verdict[1].size = <<SizeOf(d.item)>>
    /\ verdict[1].failure = IF d.language THEN "unknown_cost_model_language" ELSE "library_error"
\* The types an input is said to decode as are those whose own decoder reads it; the types
\* said not to be tried are those it refuses for nesting, and the bound named is one of
\* theirs, though each type is asked in its own way and the bytes are scanned once
\* (universal_decoder.rs, possible_types and decode_specific_type).
TypesAgree ==
  verdict # <<>> =>
    LET v == verdict[1]
        Types == TypesFor(submitted.reader)
        refused == {t \in Types : v.specific[t] \in {"nesting_too_deep", "nesting_too_deep_for_reader"}}
    IN /\ v.possible.types = {t \in Types : v.specific[t] = "decoded"}
       /\ refused = IF v.possible.unexamined = <<>> THEN {} ELSE v.possible.unexamined[1].types
       /\ v.possible.unexamined # <<>> =>
            IF v.possible.unexamined[1].depth = <<>> THEN \A t \in Types : v.specific[t] = "nesting_too_deep"
            ELSE v.possible.unexamined[1].depth[1] = Deepest(submitted.document.item, 0, TRUE)
====================================================================================
