SPECIFICATION LibrarySpec
CONSTANTS
 Keys <- MCKeys
 Scripts <- MCScripts
 Language <- MCLanguage
 Tree <- MCTree
 FlatForm <- MCFlat
 Deep = {12}
 Garbled = 99
 Predefined = {91, 92}
 Params <- MCParams
 RefSize <- MCRefSize
 Network = "main"
 Succeeds = {13, 14, 16}
 Cost = 2
 Ledger <- Whole
 Given <- MCGiven
 Fetches <- MCFetches
 ScriptTrees <- MCScriptTrees
 Styles <- MCStyles
 MaxNesting = 3
 ReadChunk = 2
 MaxHops = 4
 MaxReadings = 1
 Payloads <- MCPayloads
 Sequences <- MCSequences
 IndexedEntries = 3
 MaxEmbedded = 2
 MaxItems = 3
 RenderBound = 8
 MaxPathKey = 12
 MaxSegments = 5
 MaxAdditional = 1
 MaxAlternatives = 2
 MaxFollowed = 2
 MaxLevels = 12
 ReaderBound <- MCReaderBound
 KeyHashLength = 1
 Units = {"gold", "silver"}
 Quantities = {1}
 ContextTreasury = 0
 MaxEntries = 3
 Walks <- MCWalks
 Weights <- MCWeights
 MaxDescent = 8
 MaxRuleNesting = 2
 MaxWork = 6
 MaxTotalNesting = 3
 MaxOpenPayloads = 2
INVARIANTS
 AcceptedByLedger
 ErrorsJustified
 QuietFetch
 UnspentAtTip
 CaughtFailuresHideLittle
 ScriptReadBack
 DecodedAsWritten
 ErrorKeepsWhatWasRead
 SpanDescribesItem
 LocatedItemIsNamed
 ReportAccountsForErrors
 NothingDropped
 PositionsMatchDecoded
 PreflightExact
 TypesAgree
 ScanMatchesDecoder
 ValueConserved
 WalkExact
 WalkReturns
CHECK_DEADLOCK FALSE
