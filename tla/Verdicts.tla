-------------------------------- MODULE Verdicts --------------------------------
\* What the verdict of validateTransaction on a transaction and a context is worth, held
\* against the ledger's rules both ways.
EXTENDS OnlineValidation, LedgerRules

\* A native script is read into a flat form that holds when it does (MCOnline's
\* ScriptReadBack, of every script of a small size).
ASSUME FlatFormStands ==
  \A s \in {n \in Scripts : IsNative(n)} \ Deep : \A family \in Given : \A t \in family.transactions :
    Evaluate(FlatForm[s], ProvidedKeys(t), Interval(t)) <=> Holds(Tree[s], ProvidedKeys(t), Interval(t))

Judged == result # <<>> /\ ~Verdict.refused
Accepted == provider = "caller" /\ Judged /\ Accepts(Verdict)

\* Certificates of the transaction that change who may vote, or which accounts there
\* are; the validator judges votes and proposals by the context alone, hot keys apart.
ChangesStanding == \E c \in Certs(tx) : c.kind \in
  DRepKinds \cup CommitteeKinds \cup {"PoolRegistration", "StakeDeregistration"} \cup Registering
\* A transaction found valid has the witnesses, redeemers and datums the ledger asks for
\* (UTXOW), whatever part of the chain its context held, wherever its scripts come from and
\* whatever index its redeemers have; and every script of it runs to success within its
\* redeemer's units, in a context its language has. Not looked at: a script given twice, or
\* for a registration that asks for none; a Byron input's bootstrap witness; a hash of
\* auxiliary data that is not there (witness.rs, native_script.rs, auxiliary_data.rs,
\* eval_redeemer.rs, context_guard.rs).
Unlooked(t) ==
  {"ScriptGivenTwice", "MissingBootstrap"}
  \cup (IF \E c \in Certs(t) : Unwitnessed(c) /\ IsNative(c.cred) /\ c.cred \in t.scripts
        THEN {"ExtraneousScript"} ELSE {})
  \cup (IF t.auxiliary = None THEN {"Auxiliary"} ELSE {})
WitnessesAccepted == UtxowFailures(tx, Chain) \subseteq Unlooked(tx) /\ ScriptFailures(tx, Chain) = {}
\* A transaction found valid meets the bounds of the body: validity interval, fee,
\* collateral, sizes, networks, with every UTxO there and unspent. Not looked at: the
\* network and the size of the collateral's return. Its votes and proposals are the
\* ledger's (GOV), as long as no certificate of its own changes the standing of whom they
\* name; the guardrails script is held against the constitution when there is one to hold
\* it against (fee.rs, collateral.rs, output.rs, transaction_limits.rs, network.rs,
\* governance.rs).
BodyAccepted ==
  /\ Named(tx) \subseteq DOMAIN Chain.utxo
  /\ UtxoFailures(tx, Chain) \subseteq {"ReturnTooBig", "ReturnNetwork"}
  /\ ~ChangesStanding => GovFailures(tx, Chain) \subseteq {"Guardrail"}
  /\ fetched.constitution # NoConstitution => "Guardrail" \notin GovFailures(tx, Chain)
\* What the validator finds valid the ledger accepts, witnesses, scripts and body, whatever
\* part of the chain the context held (validator.rs, validate_transaction).
AcceptedByLedger == Accepted => WitnessesAccepted /\ BodyAccepted

\* ---- what an error is worth ----

\* The ledger's failures that bear an error out, one of them each time. An error that is
\* advice, as ExtraneousSignature, has none.
WitnessReasons == {
  <<"MissingVKeyWitnesses", {"MissingVKey"}>>, <<"InvalidSignature", {"InvalidWitness"}>>,
  <<"NativeScriptIsUnsuccessful", {"ScriptFails"}>>, <<"MissingScriptWitnesses", {"MissingScript"}>>,
  <<"MissingRedeemer", {"Redeemers"}>>, <<"MissingDatum", {"MissingDatum"}>>,
  <<"ExtraneousScriptWitnesses", {"ExtraneousScript"}>>,
  <<"ExtraneousDatumWitnesses", {"ExtraneousDatum"}>>, <<"ScriptDataHashMismatch", {"ScriptDataHash"}>>}
\* A redeemer may be looked at, and its script run, that the ledger has no use for.
ScriptReasons == {
  <<"ScriptLookupError", {"Redeemers", "MissingDatum", "NoDatumHash"}>>,
  <<"ContextRefused", {"Context", "Redeemers"}>>, <<"BuildTxContextError", {"Context", "Redeemers"}>>,
  <<"MachineError", {"ScriptFails", "Redeemers"}>>, <<"NoEnoughBudget", {"Units", "Redeemers"}>>}
BodyReasons == {
  <<"FeeTooSmallUTxO", {"Fee"}>>, <<"InputSetEmptyUTxO", {"NoInput"}>>, <<"MaxTxSizeUTxO", {"TxSize"}>>,
  <<"ExUnitsTooBigUTxO", {"Units"}>>, <<"RefScriptsSizeTooBig", {"RefScripts"}>>,
  <<"OutsideValidityIntervalUTxO", {"Validity"}>>, <<"BadInputsUTxO", {"BadInputs"}>>,
  <<"ReferenceInputOverlapsWithInput", {"Overlap"}>>, <<"TooManyCollateralInputs", {"TooManyCollateral"}>>,
  <<"OutputsValueTooBig", {"OutputTooBig"}>>, <<"OutputTooSmallUTxO", {"OutputTooSmall"}>>,
  <<"CollateralReturnTooSmall", {"OutputTooSmall"}>>, <<"WrongNetwork", {"Network"}>>,
  <<"WrongNetworkWithdrawal", {"Network"}>>, <<"WrongNetworkInTxBody", {"Network"}>>,
  <<"AuxiliaryDataHashMissing", {"Auxiliary"}>>, <<"AuxiliaryDataHashMismatch", {"Auxiliary"}>>}
\* Collateral is judged whether or not a script runs.
CollateralReasons ==
  {"InsufficientCollateral", "NoCollateralInputs", "IncorrectTotalCollateralField",
   "CalculatedCollateralContainsNonAdaAssets", "CollateralInputContainsNonAdaAssets",
   "CollateralIsLockedByScript"} \X {{"Collateral"}}
GovernanceReasons == {
  <<"VoterDoNotExist", {"Voter"}>>, <<"InvalidCommitteeVote", {"Voter"}>>,
  <<"GovActionsDoNotExist", {"UnknownAction", "Lineage"}>>, <<"VotingOnExpiredGovAction", {"ExpiredAction"}>>,
  <<"DisallowedVoters", {"DisallowedVoter"}>>, <<"ProposalReturnAccountDoesNotExist", {"ReturnAccount"}>>,
  <<"InvalidConstitutionPolicyHash", {"Guardrail"}>>, <<"ZeroTreasuryWithdrawals", {"ZeroTreasury"}>>,
  <<"TreasuryWithdrawalReturnAccountsDoNotExist", {"TreasuryAccount"}>>,
  <<"ConflictingCommitteeUpdate", {"CommitteeConflict"}>>,
  <<"ProposalProcedureNetworkIdMismatch", {"Network"}>>, <<"TreasuryWithdrawalsNetworkIdMismatch", {"Network"}>>}

\* Where the validator asks for more than the ledger, by what the transaction has: a
\* datum of an output it only looks at; a registration of before Conway; minted
\* policies out of their order, or one of them twice; content it cannot put into any
\* context, or an address it cannot read; who comes into being by its own certificates,
\* and a hot key it gives from a member that resigned to one that did not.
Stricter(t, chain) ==
  (IF t.datums \cap DatumsOf(Range(t.collateralReturn) \cup {chain.utxo[r] : r \in t.references}) # {}
   THEN {"ExtraneousDatumWitnesses"} ELSE {})
  \cup (IF \E c \in Certs(t) : Unwitnessed(c)
         THEN {"MissingVKeyWitnesses", "NativeScriptIsUnsuccessful", "MissingScriptWitnesses", "MissingRedeemer",
               "ScriptDataHashMismatch"} ELSE {})
  \cup (IF \E i \in DOMAIN t.mint : \E j \in 1..(i - 1) : t.mint[i] <= t.mint[j]
         THEN {"MissingRedeemer"} ELSE {})
  \cup (IF t.odd = "nothing" /\ \A o \in Range(t.outputs) : o.address # "unreadable"
         THEN {} ELSE {"ContextRefused"})
  \cup (IF \E c \in Certs(t) : c.kind \in {"DRepRegistration", "PoolRegistration"} THEN {"VoterDoNotExist"} ELSE {})
  \cup (IF Kinds(t, "CommitteeHotAuth") # {} THEN {"InvalidCommitteeVote"} ELSE {})
  \cup (IF \E c \in Certs(t) : c.kind \in Registering
         THEN {"ProposalReturnAccountDoesNotExist", "TreasuryWithdrawalReturnAccountsDoNotExist"} ELSE {})
\* Judged in a context that is the chain, with every UTxO on it: of a transaction that
\* names another the ledger has nothing else to say.
Informed == provider = "caller" /\ Judged /\ fetched = Chain /\ Named(tx) \subseteq DOMAIN Chain.utxo
Justified(reasons) ==
  \A r \in reasons : r[1] \in Names(Verdict.errors) \ Stricter(tx, Chain) => r[2] \cap LedgerFailures(tx, Chain) # {}

\* What the validator says is wrong the ledger finds wrong too, but where Stricter says: a
\* correct transaction is not turned away because an index, a hash or a requirement of its
\* witnesses was worked out otherwise than the ledger does, a fee, limit or interval at its
\* edge called broken, collateral asked for where no script runs, or a voter, action,
\* account or policy called wrong that the chain knows, hot keys given in the transaction
\* included (witness.rs, eval_redeemer.rs, fee.rs, transaction_limits.rs, collateral.rs,
\* output.rs, network.rs, auxiliary_data.rs, governance.rs).
ErrorsJustified ==
  Informed =>
    /\ Justified(WitnessReasons) /\ Justified(ScriptReasons)
    /\ Justified(BodyReasons) /\ Justified(GovernanceReasons)
    /\ tx.redeemers # {} => Justified(CollateralReasons)
=================================================================================
