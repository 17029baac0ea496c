--------------------------------- MODULE MCLibrary ---------------------------------
\* The calls of the library, one at a time: a transaction validated or fetched for and a
\* native script read (MCOnline), a CBOR document decoded (MCDecoder), a location looked up
\* in a schema (MCSchemas), an item decoded and mapped against one (MCMapper), the errors of
\* a validation reported (MCReports), bytes checked before a library reads them
\* (MCPreflight), the value of a body summed up (Balance), a document walked with no native
\* recursion (WalkDriver). The calls share no state, so each run has one kind of call and the rest of the variables as they were.
EXTENDS MCOnline, MCDecoder, MCMapper, MCReports, MCPreflight, Balance, WalkDriver

VARIABLE task  \* the kind of call

onlineVars == <<vars, readerVars>>
documentVars == <<decoderVars, written>>
schemaVars == <<asked, answer>>
reportVars == <<doubt, found>>
mapperVars == <<given_, mapped>>
gateVars == <<submitted, verdict>>
NoDocument ==
  /\ bytes = <<>> /\ offset = 0 /\ path = <<>> /\ stack = <<>> /\ string = <<>> /\ done = <<>>
  /\ outcome = <<>> /\ written = <<>>
NoSchema == asked = <<>> /\ answer = <<>>
NoReport == doubt = <<>> /\ found = <<>>
NoItem == given_ = <<>> /\ mapped = <<>>
NoGate == submitted = <<>> /\ verdict = <<>>
NoOnline == NoCall /\ NoScript
NoBalance ==
  /\ part = "" /\ entriesRead = 0 /\ halfRead = FALSE /\ bundle = Zero /\ totals = <<>> /\ minted = NoAssets
  /\ burnt = NoAssets /\ sums = <<>> /\ declaredTreasury = Undeclared /\ known = TRUE /\ left = <<>>
NoWalk ==
  /\ journey = [last |-> <<>>, kind |-> <<>>, depth |-> [i \in {0} |-> 0]] /\ tasks = <<>> /\ channel = <<>>
  /\ descent = 0 /\ workLeft = 0 /\ nestingLeft = MaxTotalNesting /\ openPayloads = 0 /\ exceeded = "none"
  /\ product = <<<<>>>>
NoSideCall == NoSchema /\ NoReport /\ NoItem /\ NoGate /\ NoBalance /\ NoWalk

LibraryInit ==
  \/ task = "online" /\ MCInit /\ NoDocument /\ NoSideCall
  \/ task = "document" /\ DocumentInit /\ NoOnline /\ NoSideCall
  \/ task = "schema" /\ SchemaInit /\ NoOnline /\ NoDocument /\ NoReport /\ NoItem /\ NoGate /\ NoBalance /\ NoWalk
  \/ task = "report" /\ ReportInit /\ NoOnline /\ NoDocument /\ NoSchema /\ NoItem /\ NoGate /\ NoBalance /\ NoWalk
  \/ task = "mapping" /\ MapperInit /\ NoOnline /\ NoDocument /\ NoSchema /\ NoReport /\ NoGate /\ NoBalance /\ NoWalk
  \/ task = "gate" /\ GateInit /\ NoOnline /\ NoDocument /\ NoSchema /\ NoReport /\ NoItem /\ NoBalance /\ NoWalk
  \/ task = "balance" /\ BalanceInit /\ NoOnline /\ NoDocument /\ NoSchema /\ NoReport /\ NoItem /\ NoGate /\ NoWalk
  \/ task = "walk" /\ WalkInit /\ NoOnline /\ NoDocument /\ NoSchema /\ NoReport /\ NoItem /\ NoGate /\ NoBalance
sideVars == <<schemaVars, reportVars, mapperVars, gateVars, balanceVars, walkVars>>
libraryVars == <<task, onlineVars, documentVars, sideVars>>
LibraryNext ==
  /\ UNCHANGED task
  /\ \/ task = "online" /\ MCNext /\ UNCHANGED <<documentVars, sideVars>>
     \/ task = "document" /\ DocumentNext /\ UNCHANGED <<onlineVars, sideVars>>
     \/ task = "schema" /\ LookUp /\ UNCHANGED <<onlineVars, documentVars, reportVars, mapperVars, gateVars, balanceVars, walkVars>>
     \/ task = "report" /\ ReportNext /\ UNCHANGED <<onlineVars, documentVars, schemaVars, mapperVars, gateVars, balanceVars, walkVars>>
     \/ task = "mapping" /\ MapItem /\ UNCHANGED <<onlineVars, documentVars, schemaVars, reportVars, gateVars, balanceVars, walkVars>>
     \/ task = "gate" /\ CheckInput /\ UNCHANGED <<onlineVars, documentVars, schemaVars, reportVars, mapperVars, balanceVars, walkVars>>
     \/ task = "balance" /\ BalanceNext /\ UNCHANGED <<onlineVars, documentVars, schemaVars, reportVars, mapperVars, gateVars, walkVars>>
     \/ task = "walk" /\ WalkNext /\ UNCHANGED <<onlineVars, documentVars, schemaVars, reportVars, mapperVars, gateVars, balanceVars>>
LibrarySpec == LibraryInit /\ [][LibraryNext]_libraryVars

\* The documents walked, by their steps: three of every kind, four of those that hold most.
MCWeights == [level |-> 3, ruleHop |-> 2, rawLevel |-> 1]
Laminar(n) == {last \in [1..n -> 1..n] :
   last[1] = n /\ \A i \in 1..n : last[i] >= i /\ \A j \in i..last[i] : last[j] <= last[i]}
\* raw steps have raw steps below, a payload the one root of its document
Sensible(last, kind) ==
  \A i \in DOMAIN last :
    /\ kind[i] = "raw" => \A j \in i..last[i] : kind[j] = "raw"
    /\ kind[i] = "payload" /\ last[i] > i => last[i + 1] = last[i]
DepthIn(last, kind, i) ==
  LET end == IF i = 0 THEN Len(last) ELSE last[i]
      inside == {j \in i + 1..end : \A k \in i + 1..j : kind[k] = "payload" => last[k] < j}
  IN  Max({Cardinality({k \in i + 1..j : last[k] >= j /\ kind[k] \in {"level", "raw"}}) : j \in inside}
          \cup {IF i # 0 /\ last[i] = i THEN 1 ELSE 0})
WalkOf(last, kind) == [last |-> last, kind |-> kind, depth |-> [i \in 0..Len(last) |-> IF i > 0 /\ kind[i] # "payload" THEN 0 ELSE DepthIn(last, kind, i)]]
WalksOf(n, kinds) == {WalkOf(s[1], s[2]) : s \in {t \in Laminar(n) \X [1..n -> kinds] : Sensible(t[1], t[2])}}
MCWalks == WalksOf(3, {"plain", "level", "hop", "argument", "payload", "raw"}) \cup WalksOf(4, {"level", "hop", "payload"})

\* The levels of a decoded node, a string's chunks being at its own; the rows it has.
RECURSIVE Height(_), Rows(_)
RowsBelow(node) == IF node.type \in {"chunkedBytes", "chunkedText"} THEN {} ELSE {n \in Range(Listed(Inner(node))) : n.type # "break"}
Height(node) == IF RowsBelow(node) = {} THEN 0 ELSE 1 + Max({Height(n) : n \in RowsBelow(node)})
Rows(node) == (IF node.type = "tag" THEN 0 ELSE 1) + FoldSet(LAMBDA n, sum : sum + Rows(n), 0, RowsBelow(node))
\* The pass over the headers that every bound on nesting goes by sees what the decoder
\* reads: a whole document nests as deep as its decoded tree and has as many items as that
\* has rows, and the decoder gives up on exactly those that the pass finds too deep for it,
\* whether containers are closed by a count, a break or a tag's item (limits.rs,
\* scan_cbor_shape; decoder.rs).
ScanMatchesDecoder ==
  task = "document" /\ Ended /\ Undamaged =>
    /\ Rejected <=> DepthOf(bytes, Unlimited) > MaxNesting
    /\ ~Rejected => /\ DepthOf(bytes, Unlimited) = Height(outcome[1])
                    /\ ItemCount(bytes, Unlimited) = Rows(outcome[1])
===================================================================================
