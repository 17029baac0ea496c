------------------------- MODULE OnlineValidation_proofs -------------------------
\* OnlineValidation: whatever the chain and the transaction, what a fetch that nothing
\* disturbed hands to validateTransaction leads to the verdict the whole chain would
\* lead to; no UTxO of a fetch is older than the slot it is judged at; and what the
\* failures of a fetch can hide is little.
EXTENDS OnlineValidation, TLAPS

\* ---- the data the list names is enough ----

\* Two contexts that show a transaction the same: its UTxOs, accounts, pools, DReps and
\* actions; but for the committee and the constitution.
Agree(t, a, b) ==
  /\ Known(Named(t), a) = Known(Named(t), b)
  /\ \A r \in Known(Named(t), a) : a.utxo[r] = b.utxo[r]
  /\ a.slot = b.slot
  /\ a.costModels = b.costModels
  /\ NecessaryAccounts(t) \cap a.accounts = NecessaryAccounts(t) \cap b.accounts
  /\ Voters(t, "pool") \cap a.pools = Voters(t, "pool") \cap b.pools
  /\ Voters(t, "drep") \cap a.dreps = Voters(t, "drep") \cap b.dreps
  /\ NecessaryActions(t) \cap DOMAIN a.actions = NecessaryActions(t) \cap DOMAIN b.actions
  /\ \A x \in NecessaryActions(t) \cap DOMAIN a.actions : a.actions[x] = b.actions[x]
\* And the committee and the constitution.
AgreeOnRest(t, a, b) ==
  /\ a.constitution = b.constitution
  /\ \A hot \in Voters(t, "committee") : Seated(hot, a) = Seated(hot, b)

\* Any of its UTxOs.
LEMMA UtxosAgree ==
  ASSUME NEW t, NEW a, NEW b, Agree(t, a, b), NEW refs, refs \subseteq Named(t)
  PROVE  /\ Known(refs, a) = Known(refs, b)
         /\ \A r \in Known(refs, a) : a.utxo[r] = b.utxo[r]
         /\ Known(refs, a) \subseteq refs
  BY DEF Agree, Known

\* The scripts they refer to.
LEMMA ScriptRefsAgree ==
  ASSUME NEW t, NEW a, NEW b, Agree(t, a, b), NEW refs, refs \subseteq Named(t)
  PROVE  ScriptRefs(refs, a) = ScriptRefs(refs, b)
  BY UtxosAgree DEF ScriptRefs

\* Every set of UTxOs the validators look at is among those the list names.
LEMMA PartsAreNamed ==
  ASSUME NEW t
  PROVE  /\ t.inputs \subseteq Named(t) /\ t.collateral \subseteq Named(t)
         /\ t.references \subseteq Named(t)
         /\ t.inputs \cup t.references \subseteq Named(t)
         /\ t.inputs \cup t.collateral \subseteq Named(t)
         /\ Named(t) \subseteq Named(t)
         /\ t.inputs \cup t.collateral \cup t.references = Named(t)
  BY DEF Named, NecessaryUtxos

\* The scripts at hand, and those that can be examined.
LEMMA SourcesAgree ==
  ASSUME NEW t, NEW a, NEW b, Agree(t, a, b)
  PROVE  /\ Offered(t, a) = Offered(t, b)
         /\ RefGarbled(t, a) <=> RefGarbled(t, b)
         /\ Sources(t, a) = Sources(t, b)
         /\ FromWitnessSet(t, a) = FromWitnessSet(t, b)
         /\ Examined(t, a) = Examined(t, b)
         /\ Unexamined(t, a) = Unexamined(t, b)
<1>1. ScriptRefs(t.inputs \cup t.references, a) = ScriptRefs(t.inputs \cup t.references, b)
  BY ScriptRefsAgree, PartsAreNamed
<1>2. Offered(t, a) = Offered(t, b) /\ (RefGarbled(t, a) <=> RefGarbled(t, b))
  BY <1>1 DEF Offered, RefGarbled
<1>3. Sources(t, a) = Sources(t, b)
  BY <1>2 DEF Sources
<1> QED
  BY <1>2, <1>3 DEF FromWitnessSet, Examined, Unexamined

\* The scripts and the datums that are required.
LEMMA RequiredAgree ==
  ASSUME NEW t, NEW a, NEW b, Agree(t, a, b)
  PROVE  /\ Required(t, a) = Required(t, b)
         /\ RequiredNative(t, a) = RequiredNative(t, b)
         /\ RequiredPlutus(t, a) = RequiredPlutus(t, b)
         /\ RequiredUnknown(t, a) = RequiredUnknown(t, b)
         /\ RequiredDatums(t, a) = RequiredDatums(t, b)
<1>1. /\ Known(t.inputs, a) = Known(t.inputs, b)
      /\ \A r \in Known(t.inputs, a) : a.utxo[r] = b.utxo[r]
  BY UtxosAgree, PartsAreNamed
<1>2. InputScripts(t, a) = InputScripts(t, b)
  BY <1>1 DEF InputScripts
<1>3. Required(t, a) = Required(t, b)
  BY <1>2 DEF Required
<1>4. RequiredPlutus(t, a) = RequiredPlutus(t, b)
  BY <1>3, SourcesAgree DEF RequiredPlutus
<1>5. RequiredDatums(t, a) = RequiredDatums(t, b)
  BY <1>4 DEF RequiredDatums
<1> QED
  BY <1>3, <1>4, <1>5, SourcesAgree DEF RequiredNative, RequiredUnknown

\* The keys that are required.
LEMMA KeysAgree ==
  ASSUME NEW t, NEW a, NEW b, Agree(t, a, b)
  PROVE  RequiredKeys(t, a) = RequiredKeys(t, b)
<1> DEFINE refs == t.inputs \cup t.collateral
<1>1. Known(refs, a) = Known(refs, b) /\ \A r \in Known(refs, a) : a.utxo[r] = b.utxo[r]
  BY UtxosAgree, PartsAreNamed
<1>2. Owners(t, a) = Owners(t, b)
  BY <1>1 DEF Owners
<1> QED
  BY <1>2 DEF RequiredKeys

\* All that witness.rs says.
LEMMA WitnessesAgree ==
  ASSUME NEW t, NEW a, NEW b, Agree(t, a, b)
  PROVE  /\ WitnessesRefuse(t, a) <=> WitnessesRefuse(t, b)
         /\ WitnessErrors(t, a) = WitnessErrors(t, b)
         /\ WitnessWarnings(t, a) = WitnessWarnings(t, b)
<1>1. UsedVersions(t, a) = UsedVersions(t, b)
  BY RequiredAgree DEF UsedVersions
<1>2. ExpectedHash(t, a) = ExpectedHash(t, b)
  BY <1>1 DEF ExpectedHash
<1>3. WitnessesRefuse(t, a) <=> WitnessesRefuse(t, b)
  BY <1>1, SourcesAgree DEF WitnessesRefuse, Agree
<1>4. Candidates(t, a) = Candidates(t, b) /\ InvalidNative(t, a) = InvalidNative(t, b)
  BY RequiredAgree, SourcesAgree DEF Candidates, InvalidNative
<1>5. ExtraneousDatums(t, a) = ExtraneousDatums(t, b)
  BY RequiredAgree DEF ExtraneousDatums
<1>6. /\ RequiredKeys(t, a) = RequiredKeys(t, b)
      /\ Required(t, a) = Required(t, b) /\ RequiredNative(t, a) = RequiredNative(t, b)
      /\ RequiredPlutus(t, a) = RequiredPlutus(t, b) /\ RequiredUnknown(t, a) = RequiredUnknown(t, b)
      /\ RequiredDatums(t, a) = RequiredDatums(t, b)
      /\ FromWitnessSet(t, a) = FromWitnessSet(t, b) /\ Unexamined(t, a) = Unexamined(t, b)
  BY RequiredAgree, KeysAgree, SourcesAgree
<1>7. WitnessErrors(t, a) = WitnessErrors(t, b)
  BY <1>2, <1>4, <1>5, <1>6, Zenon DEF WitnessErrors
<1>8. WitnessWarnings(t, a) = WitnessWarnings(t, b)
  BY <1>6, Zenon DEF WitnessWarnings
<1> QED
  BY <1>3, <1>7, <1>8

\* The bytes of the scripts referred to.
LEMMA BytesAgree ==
  ASSUME NEW t, NEW a, NEW b, Agree(t, a, b)
  PROVE  RefBytes(t, a) = RefBytes(t, b)
<1> DEFINE refs == t.inputs \cup t.references
<1>1. Known(refs, a) = Known(refs, b) /\ \A r \in Known(refs, a) : a.utxo[r] = b.utxo[r]
  BY UtxosAgree, PartsAreNamed
<1>2. [r \in Known(refs, a) |-> RefSize[a.utxo[r].script]] = [r \in Known(refs, b) |-> RefSize[b.utxo[r].script]]
  BY <1>1
<1> QED
  BY <1>2, Zenon DEF RefBytes

\* All that fee.rs says.
LEMMA FeesAgree ==
  ASSUME NEW t, NEW a, NEW b, Agree(t, a, b)
  PROVE  FeeErrors(t, a) = FeeErrors(t, b) /\ FeeWarnings(t, a) = FeeWarnings(t, b)
<1>1. MinFee(t, a) = MinFee(t, b)
  BY BytesAgree, Zenon DEF MinFee
<1> QED
  BY <1>1, Zenon DEF FeeErrors, FeeWarnings

\* All that collateral.rs says.
LEMMA CollateralAgrees ==
  ASSUME NEW t, NEW a, NEW b, Agree(t, a, b)
  PROVE  CollateralErrors(t, a) = CollateralErrors(t, b)
<1>1. /\ Known(t.collateral, a) = Known(t.collateral, b)
      /\ \A r \in Known(t.collateral, a) : a.utxo[r] = b.utxo[r]
  BY UtxosAgree, PartsAreNamed
<1>2. ASSUME NEW part PROVE Balance(t, a, part) = Balance(t, b, part)
  <2>1. [r \in Known(t.collateral, a) |-> a.utxo[r][part]] = [r \in Known(t.collateral, b) |-> b.utxo[r][part]]
    BY <1>1
  <2>2. CollateralTotal(t, a, part) = CollateralTotal(t, b, part)
    BY <2>1, Zenon DEF CollateralTotal
  <2> QED
    BY <2>2, Zenon DEF Balance
<1>3. Balance(t, a, "coin") = Balance(t, b, "coin") /\ Balance(t, a, "assets") = Balance(t, b, "assets")
  BY <1>2
<1>4. CollateralAmount(t, a) = CollateralAmount(t, b)
  BY <1>3, Zenon DEF CollateralAmount
<1>5. {r \in Known(t.collateral, a) : a.utxo[r].assets # 0} = {r \in Known(t.collateral, b) : b.utxo[r].assets # 0}
  BY <1>1
<1>6. {r \in Known(t.collateral, a) : a.utxo[r].owner \in Scripts}
        = {r \in Known(t.collateral, b) : b.utxo[r].owner \in Scripts}
  BY <1>1
<1> QED
  BY <1>3, <1>4, <1>5, <1>6, Zenon DEF CollateralErrors

\* All that transaction_limits.rs says.
LEMMA LimitsAgree ==
  ASSUME NEW t, NEW a, NEW b, Agree(t, a, b)
  PROVE  LimitErrors(t, a) = LimitErrors(t, b)
<1> DEFINE refs == t.inputs \cup t.collateral \cup t.references
<1>1. Known(refs, a) = Known(refs, b) /\ \A r \in Known(refs, a) : a.utxo[r] = b.utxo[r]
  BY UtxosAgree, PartsAreNamed
<1>2. Spent(refs, a) = Spent(refs, b)
  BY <1>1 DEF Spent, Known
<1>3. a.slot = b.slot
  BY DEF Agree
<1> QED
  BY <1>2, <1>3, BytesAgree, Zenon DEF LimitErrors

\* ---- governance ----

\* The errors the committee and the constitution alone decide on.
Untold == {"VoterDoNotExist", "InvalidCommitteeVote", "InvalidConstitutionPolicyHash"}
Differ(one, other) == (one \ other) \cup (other \ one)

\* An error has the name it is reported under.
LEMMA ErrorsOf ==
  ASSUME NEW name, NEW set, NEW e
  PROVE  e \in Errors(name, set) => e[1] = name
  BY DEF Errors

\* A voter is there in both, and has resigned in both.
LEMMA PoolsAndDRepsExist ==
  ASSUME NEW t, NEW a, NEW b, Agree(t, a, b), AgreeOnRest(t, a, b),
         NEW v \in Range(t.votes), IsVote(v)
  PROVE  /\ Exists(t, v, a) <=> Exists(t, v, b)
         /\ Resigned(v, a) <=> Resigned(v, b)
<1>1. v.cred \in Voters(t, v.role)
  BY DEF Voters
<1>2. CASE v.role = "drep"
  BY <1>1, <1>2 DEF Exists, Resigned, Agree
<1>3. CASE v.role = "pool"
  BY <1>1, <1>3 DEF Exists, Resigned, Agree
<1>4. CASE v.role = "committee"
  <2>1. Seated(v.cred, a) = Seated(v.cred, b)
    BY <1>1, <1>4 DEF AgreeOnRest
  <2> QED
    BY <1>4, <2>1 DEF Exists, Resigned
<1> QED
  BY <1>2, <1>3, <1>4 DEF IsVote

\* What is voted on, and what of it is known.
Ballots(t) == {p \in Range(t.votes) \X NecessaryActions(t) : p[2] \in p[1].actions}
KnownBallots(t, ctx) == {p \in Ballots(t) : p[2] \in DOMAIN ctx.actions}

\* What is voted on is known in both, as the same action.
LEMMA BallotsAgree ==
  ASSUME NEW t, NEW a, NEW b, Agree(t, a, b)
  PROVE  /\ KnownBallots(t, a) = KnownBallots(t, b)
         /\ \A p \in KnownBallots(t, a) : a.actions[p[2]] = b.actions[p[2]]
<1>1. \A p \in Ballots(t) : p[2] \in NecessaryActions(t)
  BY DEF Ballots
<1>2. \A x \in NecessaryActions(t) : x \in DOMAIN a.actions <=> x \in DOMAIN b.actions
  BY DEF Agree
<1>3. \A x \in NecessaryActions(t) \cap DOMAIN a.actions : a.actions[x] = b.actions[x]
  BY DEF Agree
<1> QED
  BY <1>1, <1>2, <1>3 DEF KnownBallots

\* The errors about what is voted on.
BallotErrors(t, ctx) ==
  Errors("GovActionsDoNotExist", {p[2] : p \in Ballots(t) \ KnownBallots(t, ctx)})
  \cup Errors("VotingOnExpiredGovAction",
              {p[2] : p \in {q \in KnownBallots(t, ctx) : ~ctx.actions[q[2]].active}})
  \cup Errors("DisallowedVoters",
              {p[2] : p \in {q \in KnownBallots(t, ctx) : Disallowed(q[1], ctx.actions[q[2]])}})
\* And about who votes.
VoterErrors(t, ctx) ==
  Errors("VoterDoNotExist", {v.cred : v \in {w \in Range(t.votes) : ~Exists(t, w, ctx)}})
  \cup Errors("InvalidCommitteeVote", {v.cred : v \in {w \in Range(t.votes) : Resigned(w, ctx)}})

\* VoteErrors is made of these two.
LEMMA VoteErrorsAre ==
  ASSUME NEW t, NEW ctx
  PROVE  VoteErrors(t, ctx) = VoterErrors(t, ctx) \cup BallotErrors(t, ctx)
  BY DEF VoteErrors, VoterErrors, BallotErrors, KnownBallots, Ballots

\* The errors about ballots need no committee.
LEMMA BallotErrorsAgree ==
  ASSUME NEW t, NEW a, NEW b, Agree(t, a, b)
  PROVE  BallotErrors(t, a) = BallotErrors(t, b)
<1>1. /\ KnownBallots(t, a) = KnownBallots(t, b)
      /\ \A p \in KnownBallots(t, a) : a.actions[p[2]] = b.actions[p[2]]
  BY BallotsAgree
<1>2. {q \in KnownBallots(t, a) : ~a.actions[q[2]].active} = {q \in KnownBallots(t, b) : ~b.actions[q[2]].active}
  BY <1>1
<1>3. {q \in KnownBallots(t, a) : Disallowed(q[1], a.actions[q[2]])}
        = {q \in KnownBallots(t, b) : Disallowed(q[1], b.actions[q[2]])}
  BY <1>1
<1> QED
  BY <1>1, <1>2, <1>3, Zenon DEF BallotErrors

\* Those about the voters do.
LEMMA VoterErrorsAgree ==
  ASSUME NEW t, NEW a, NEW b, Agree(t, a, b), AgreeOnRest(t, a, b),
         \A v \in Range(t.votes) : IsVote(v)
  PROVE  VoterErrors(t, a) = VoterErrors(t, b)
<1>1. \A v \in Range(t.votes) : (Exists(t, v, a) <=> Exists(t, v, b)) /\ (Resigned(v, a) <=> Resigned(v, b))
  BY PoolsAndDRepsExist
<1>2. {w \in Range(t.votes) : ~Exists(t, w, a)} = {w \in Range(t.votes) : ~Exists(t, w, b)}
  BY <1>1
<1>3. {w \in Range(t.votes) : Resigned(w, a)} = {w \in Range(t.votes) : Resigned(w, b)}
  BY <1>1
<1> QED
  BY <1>2, <1>3, Zenon DEF VoterErrors

\* They are among the names the committee decides on.
LEMMA VoterErrorsUntold ==
  ASSUME NEW t, NEW ctx, NEW e \in VoterErrors(t, ctx)
  PROVE  e[1] \in Untold
  BY ErrorsOf DEF VoterErrors, Untold

\* The errors of proposals but those about the guardrails.
Treasury(t) == {p \in Proposals(t) : p.kind = "TreasuryWithdrawalsAction"}
Returns(t) == {p.account : p \in Proposals(t)}
Targets(t) == UNION {p.targets : p \in Treasury(t)}
PlainProposalErrors(t, ctx) ==
  Errors("ProposalReturnAccountDoesNotExist", Returns(t) \ ctx.accounts)
  \cup When(\E p \in Treasury(t) : p.amount * Cardinality(p.targets) = 0, "ZeroTreasuryWithdrawals")
  \cup Errors("TreasuryWithdrawalReturnAccountsDoNotExist", Targets(t) \ ctx.accounts)
  \cup Errors("ConflictingCommitteeUpdate",
        UNION {p.add \cap p.remove : p \in {q \in Proposals(t) : q.kind = "UpdateCommitteeAction"}})
  \cup Errors("GovActionsDoNotExist", PreviousActions(t) \ DOMAIN ctx.actions)
GuardrailErrors(t, ctx) ==
  Errors("InvalidConstitutionPolicyHash", {p.policy : p \in {q \in Proposals(t) : WrongGuardrail(q, ctx)}})

\* ProposalErrors is made of these two.
LEMMA ProposalErrorsAre ==
  ASSUME NEW t, NEW ctx
  PROVE  ProposalErrors(t, ctx) = GuardrailErrors(t, ctx) \cup PlainProposalErrors(t, ctx)
<1> DEFINE accounts == Errors("ProposalReturnAccountDoesNotExist", Returns(t) \ ctx.accounts)
           zero == When(\E p \in Treasury(t) : p.amount * Cardinality(p.targets) = 0, "ZeroTreasuryWithdrawals")
           targets == Errors("TreasuryWithdrawalReturnAccountsDoNotExist", Targets(t) \ ctx.accounts)
           seats == Errors("ConflictingCommitteeUpdate",
             UNION {p.add \cap p.remove : p \in {q \in Proposals(t) : q.kind = "UpdateCommitteeAction"}})
           lineage == Errors("GovActionsDoNotExist", PreviousActions(t) \ DOMAIN ctx.actions)
<1>1. ProposalErrors(t, ctx) =
        accounts \cup GuardrailErrors(t, ctx) \cup zero \cup targets \cup seats \cup lineage
  BY Zenon DEF ProposalErrors, GuardrailErrors, Treasury, Returns, Targets
<1>2. PlainProposalErrors(t, ctx) = accounts \cup zero \cup targets \cup seats \cup lineage
  BY Zenon DEF PlainProposalErrors
<1> HIDE DEF accounts, zero, targets, seats, lineage
<1> QED
  BY <1>1, <1>2

\* The errors of proposals but one need no constitution.
LEMMA PlainProposalErrorsAgree ==
  ASSUME NEW t, NEW a, NEW b, Agree(t, a, b)
  PROVE  PlainProposalErrors(t, a) = PlainProposalErrors(t, b)
<1>1. Returns(t) \subseteq NecessaryAccounts(t) /\ Targets(t) \subseteq NecessaryAccounts(t)
  BY DEF NecessaryAccounts, Returns, Targets, Treasury
<1>2. NecessaryAccounts(t) \cap a.accounts = NecessaryAccounts(t) \cap b.accounts
  BY DEF Agree
<1>3. Returns(t) \ a.accounts = Returns(t) \ b.accounts /\ Targets(t) \ a.accounts = Targets(t) \ b.accounts
  BY <1>1, <1>2
<1>4. PreviousActions(t) \ DOMAIN a.actions = PreviousActions(t) \ DOMAIN b.actions
  BY DEF Agree, NecessaryActions
<1> QED
  BY <1>3, <1>4, Zenon DEF PlainProposalErrors

\* The one that does.
LEMMA GuardrailErrorsAgree ==
  ASSUME NEW t, NEW a, NEW b, AgreeOnRest(t, a, b)
  PROVE  GuardrailErrors(t, a) = GuardrailErrors(t, b)
<1>1. a.constitution = b.constitution
  BY DEF AgreeOnRest
<1> QED
  BY <1>1, Zenon DEF GuardrailErrors, WrongGuardrail

\* Its name is the constitution's to decide on.
LEMMA GuardrailErrorsUntold ==
  ASSUME NEW t, NEW ctx, NEW e \in GuardrailErrors(t, ctx)
  PROVE  e[1] \in Untold
  BY ErrorsOf DEF GuardrailErrors, Untold

\* ---- phase 2 ----

\* What phase 2 can look at, and what makes it refuse.
LEMMA ExaminationAgrees ==
  ASSUME NEW t, NEW a, NEW b, Agree(t, a, b)
  PROVE  /\ NotExamined(t, a) = NotExamined(t, b)
         /\ PhaseTwoRefuses(t, a) <=> PhaseTwoRefuses(t, b)
         /\ Missed(t, a) = Missed(t, b)
<1>1. /\ Known(Named(t), a) = Known(Named(t), b)
      /\ \A r \in Known(Named(t), a) : a.utxo[r] = b.utxo[r]
  BY DEF Agree
<1>2. NotExamined(t, a) = NotExamined(t, b)
  BY <1>1 DEF NotExamined
<1>3. Missed(t, a) = Missed(t, b)
  BY <1>1 DEF Missed, Known
<1>4. ScriptRefs(Named(t), a) = ScriptRefs(Named(t), b)
  BY ScriptRefsAgree
<1> QED
  BY <1>2, <1>3, <1>4 DEF PhaseTwoRefuses

\* What comes of one redeemer.
LEMMA RedeemersAgree ==
  ASSUME NEW t, NEW a, NEW b, Agree(t, a, b), Missed(t, a) = {}, NEW redeemer
  PROVE  RedeemerError(t, a, redeemer) = RedeemerError(t, b, redeemer)
<1>1. \A r \in t.inputs \cup t.references : a.utxo[r] = b.utxo[r]
  BY PartsAreNamed DEF Agree, Missed, Known
<1>2. ScriptRefs(Named(t), a) = ScriptRefs(Named(t), b)
  BY ScriptRefsAgree
<1>3. \A n : \A r \in NthOfSet(t.inputs, n) : a.utxo[r] = b.utxo[r]
  BY <1>1 DEF NthOfSet
<1>4. ASSUME NEW n PROVE {a.utxo[r].owner : r \in NthOfSet(t.inputs, n)} = {b.utxo[r].owner : r \in NthOfSet(t.inputs, n)}
  BY <1>3
<1>5. Pointed(t, a, redeemer[1], redeemer[2]) = Pointed(t, b, redeemer[1], redeemer[2])
  BY <1>4, Zenon DEF Pointed
<1>6. FindScript(t, a, redeemer) = FindScript(t, b, redeemer)
  BY <1>2, <1>3, <1>5 DEF FindScript
<1>7. {a.utxo[r] : r \in t.inputs \cup t.references} = {b.utxo[r] : r \in t.inputs \cup t.references}
  BY <1>1
<1>8. ASSUME NEW s PROVE BuilderRefuses(t, a, s) = BuilderRefuses(t, b, s)
  BY <1>7, Zenon DEF BuilderRefuses
<1>9. a.costModels = b.costModels
  BY DEF Agree
<1> QED
  BY <1>6, <1>8, <1>9, Zenon DEF RedeemerError

\* All that phase 2 says.
LEMMA PhaseTwoAgrees ==
  ASSUME NEW t, NEW a, NEW b, Agree(t, a, b), ~PhaseTwoRefuses(t, a)
  PROVE  /\ PhaseTwoErrors(t, a) = PhaseTwoErrors(t, b)
         /\ PhaseTwoWarnings(t, a) = PhaseTwoWarnings(t, b)
<1>1. NotExamined(t, a) = NotExamined(t, b)
  BY ExaminationAgrees
<1>2. CASE NotExamined(t, a) # {}
  BY <1>1, <1>2 DEF PhaseTwoErrors, PhaseTwoWarnings
<1>3. CASE NotExamined(t, a) = {}
  <2>1. Missed(t, a) = {}
    BY <1>3 DEF PhaseTwoRefuses
  <2>2. ASSUME NEW r PROVE RedeemerError(t, a, r) = RedeemerError(t, b, r)
    BY <2>1, RedeemersAgree
  <2>3. PhaseTwoErrors(t, a) = PhaseTwoErrors(t, b)
    BY <1>1, <2>2, Zenon DEF PhaseTwoErrors
  <2>4. (\E r \in t.redeemers : Ran(RedeemerError(t, a, r))) <=> (\E r \in t.redeemers : Ran(RedeemerError(t, b, r)))
    BY <2>2
  <2>5. PhaseTwoWarnings(t, a) = PhaseTwoWarnings(t, b)
    BY <1>1, <1>3, <2>4 DEF PhaseTwoWarnings
  <2> QED
    BY <2>3, <2>5
<1> QED
  BY <1>2, <1>3

\* ---- the verdict ----

\* Whether the call is refused.
LEMMA RefusalAgrees ==
  ASSUME NEW t, NEW a, NEW b, Agree(t, a, b)
  PROVE  Refused(t, a) <=> Refused(t, b)
  BY WitnessesAgree, ExaminationAgrees DEF Refused

\* What the list of necessary data names is enough: in contexts that show it the same,
\* validate_transaction has the same to say of a transaction.
THEOREM NecessaryDataIsEnough ==
  ASSUME NEW t, NEW a, NEW b, Agree(t, a, b), AgreeOnRest(t, a, b),
         \A v \in Range(t.votes) : IsVote(v)
  PROVE  Validated(t, a) = Validated(t, b)
<1>1. Refused(t, a) <=> Refused(t, b)
  BY RefusalAgrees
<1>2. CASE Refused(t, a)
  BY <1>1, <1>2 DEF Validated
<1>3. CASE ~Refused(t, a)
  <2>1. GovernanceErrors(t, a) = GovernanceErrors(t, b)
    <3>1. VoteErrors(t, a) = VoteErrors(t, b)
      BY VoteErrorsAre, VoterErrorsAgree, BallotErrorsAgree
    <3>2. ProposalErrors(t, a) = ProposalErrors(t, b)
      BY ProposalErrorsAre, GuardrailErrorsAgree, PlainProposalErrorsAgree
    <3> QED
      BY <3>1, <3>2 DEF GovernanceErrors
  <2>2. PhaseOneErrors(t, a) = PhaseOneErrors(t, b)
    BY <2>1, FeesAgree, WitnessesAgree, CollateralAgrees, LimitsAgree DEF PhaseOneErrors
  <2>3. PhaseTwoErrors(t, a) = PhaseTwoErrors(t, b) /\ PhaseTwoWarnings(t, a) = PhaseTwoWarnings(t, b)
    BY <1>3, PhaseTwoAgrees DEF Refused
  <2> QED
    BY <1>1, <1>3, <2>2, <2>3, FeesAgree, WitnessesAgree, Zenon DEF Validated
<1> QED
  BY <1>2, <1>3

\* Without a committee and a constitution only the errors these decide on may differ.
THEOREM RestDecidesLittle ==
  ASSUME NEW t, NEW a, NEW b, Agree(t, a, b)
  PROVE  /\ Validated(t, a).refused = Validated(t, b).refused
         /\ Validated(t, a).warnings = Validated(t, b).warnings
         /\ Names(Differ(Validated(t, a).errors, Validated(t, b).errors)) \subseteq Untold
<1>1. Refused(t, a) <=> Refused(t, b)
  BY RefusalAgrees
<1>2. CASE Refused(t, a)
  BY <1>1, <1>2 DEF Validated, Refusal, Differ, Names
<1>3. CASE ~Refused(t, a)
  <2> DEFINE common(ctx) == FeeErrors(t, ctx) \cup WitnessErrors(t, ctx) \cup CollateralErrors(t, ctx)
                            \cup AuxiliaryErrors(t) \cup OutputErrors(t) \cup LimitErrors(t, ctx)
                            \cup NetworkErrors(t) \cup BallotErrors(t, ctx) \cup PlainProposalErrors(t, ctx)
                            \cup PhaseTwoErrors(t, ctx)
             told(ctx) == VoterErrors(t, ctx) \cup GuardrailErrors(t, ctx)
  <2>1. PhaseTwoErrors(t, a) = PhaseTwoErrors(t, b) /\ PhaseTwoWarnings(t, a) = PhaseTwoWarnings(t, b)
    BY <1>3, PhaseTwoAgrees DEF Refused
  <2>2. common(a) = common(b)
    BY <2>1, FeesAgree, WitnessesAgree, CollateralAgrees, LimitsAgree, BallotErrorsAgree, PlainProposalErrorsAgree
  <2>3. ASSUME NEW ctx, ~Refused(t, ctx) PROVE Validated(t, ctx).errors = common(ctx) \cup told(ctx)
    <3>1. Validated(t, ctx).errors = PhaseOneErrors(t, ctx) \cup PhaseTwoErrors(t, ctx)
      BY <2>3 DEF Validated
    <3> QED
      BY <3>1, VoteErrorsAre, ProposalErrorsAre DEF PhaseOneErrors, GovernanceErrors
  <2>4. ASSUME NEW ctx, NEW e \in told(ctx) PROVE e[1] \in Untold
    BY <2>4, VoterErrorsUntold, GuardrailErrorsUntold
  <2>5. Names(Differ(Validated(t, a).errors, Validated(t, b).errors)) \subseteq Untold
    <3>1. Validated(t, a).errors = common(a) \cup told(a) /\ Validated(t, b).errors = common(a) \cup told(b)
      BY <1>1, <1>3, <2>2, <2>3
    <3> HIDE DEF common, told
    <3> QED
      BY <3>1, <2>4 DEF Names, Differ
  <2>6. /\ Validated(t, a).refused = Validated(t, b).refused
        /\ Validated(t, a).warnings = Validated(t, b).warnings
    <3> HIDE DEF common, told
    <3> QED
      BY <1>1, <1>3, <2>1, FeesAgree, WitnessesAgree DEF Validated
  <2> QED
    BY <2>5, <2>6
<1> QED
  BY <1>2, <1>3

\* ---- what is fetched, whatever happens ----

\* Outputs as they are read, their script whatever was had of it; and a context.
IsRead(o) == o = [owner |-> o.owner, coin |-> o.coin, assets |-> o.assets, datum |-> o.datum,
                  inline |-> o.inline, script |-> o.script, deep |-> o.deep, spent |-> o.spent]
IsContext(c) ==
  /\ c = [utxo |-> c.utxo, accounts |-> c.accounts, pools |-> c.pools, dreps |-> c.dreps, actions |-> c.actions,
          committee |-> c.committee, slot |-> c.slot, constitution |-> c.constitution, costModels |-> c.costModels]
  /\ c.utxo = [r \in DOMAIN c.utxo |-> c.utxo[r]]
  /\ \A r \in DOMAIN c.utxo : IsRead(c.utxo[r])
IsChain(c) == c.utxo = [r \in DOMAIN c.utxo |-> c.utxo[r]] /\ \A r \in DOMAIN c.utxo : IsRead(c.utxo[r])
CallOK ==
  /\ provider \in {"koios", "blockfrost"}
  /\ Len(chains) \in Nat \ {0} /\ DOMAIN chains = 1..Len(chains)
  /\ \A i \in DOMAIN chains : IsChain(chains[i])
  /\ \A v \in Range(tx.votes) : IsVote(v)
  /\ \A d \in tx.redeemers : d[1] \in Tags
Fetching == provider # "caller"
FetchOK == Fetching => /\ CallOK /\ now \in DOMAIN chains
                       /\ stage \in {"together", "utxos", "scripts", "accounts", "pools", "dreps", "validate"}
                       /\ IsContext(fetched)

\* An output of a chain is read as it is.
LEMMA ReadOutputs ==
  ASSUME NEW o \in UtxoOutput PROVE IsRead(o)
  BY DEF UtxoOutput, IsRead

\* Read with another script it keeps the rest.
LEMMA ScriptReplaced ==
  ASSUME NEW o, IsRead(o), NEW s
  PROVE  /\ IsRead([o EXCEPT !.script = s])
         /\ [o EXCEPT !.script = s].spent = o.spent
         /\ s = o.script => [o EXCEPT !.script = s] = o
<1> DEFINE p == [owner |-> o.owner, coin |-> o.coin, assets |-> o.assets, datum |-> o.datum,
                 inline |-> o.inline, script |-> s, deep |-> o.deep, spent |-> o.spent]
<1>1. [o EXCEPT !.script = s] = p
  BY DEF IsRead
<1> QED
  BY <1>1 DEF IsRead

\* The seven stages and their order.
LEMMA StagesAre ==
  /\ Len(Stages) = 7
  /\ \A i \in 2..Len(Stages) :
       \/ Stages[i - 1] = "together" /\ Stages[i] = "utxos"
       \/ Stages[i - 1] = "utxos" /\ Stages[i] = "scripts"
       \/ Stages[i - 1] = "scripts" /\ Stages[i] = "accounts"
       \/ Stages[i - 1] = "accounts" /\ Stages[i] = "pools"
       \/ Stages[i - 1] = "pools" /\ Stages[i] = "dreps"
       \/ Stages[i - 1] = "dreps" /\ Stages[i] = "validate"
<1>1. Len(Stages) = 7
  BY DEF Stages
<1>2. 2..7 = {2, 3, 4, 5, 6, 7}
  OBVIOUS
<1> QED
  BY <1>1, <1>2 DEF Stages

\* A stage and the one after it.
Follows(s, n) ==
  \/ s = "together" /\ n = "utxos"
  \/ s = "utxos" /\ n = "scripts"
  \/ s = "scripts" /\ n = "accounts"
  \/ s = "accounts" /\ n = "pools"
  \/ s = "pools" /\ n = "dreps"
  \/ s = "dreps" /\ n = "validate"

\* A stage is left once its requests are answered, for the one after it.
LEMMA StagesFollow ==
  ASSUME NextStage PROVE Follows(stage, stage') /\ pending = {} /\ pending' = Requests(stage')
  BY StagesAre DEF NextStage, Follows

\* A fetch starts in its first stage, with the empty context.
LEMMA FetchStarts ==
  ASSUME Init PROVE FetchOK
<1>1. ASSUME NEW f \in Fetches, tx = f.tx, chains = f.chains, fetched = Blank, provider = f.provider,
             stage = Stages[1], now = 1
      PROVE  FetchOK
  <2>1. IsContext(Blank)
    BY DEF IsContext, Blank
  <2>2. \A i \in DOMAIN chains : IsChain(chains[i])
    <3> SUFFICES ASSUME NEW i \in DOMAIN chains PROVE IsChain(chains[i])
      OBVIOUS
    <3>1. chains[i].utxo \in [DOMAIN chains[i].utxo -> UtxoOutput]
      BY <1>1, FetchesTyped
    <3> QED
      BY <3>1, ReadOutputs DEF IsChain
  <2>3. stage = "together"
    BY <1>1 DEF Stages
  <2> QED
    BY <1>1, <2>1, <2>2, <2>3, FetchesTyped DEF FetchOK, CallOK, Fetching
<1>2. provider = "caller" => FetchOK
  BY DEF FetchOK, Fetching
<1> QED
  BY <1>1, <1>2 DEF Init

\* One part of a context replaced.
LEMMA PartReplaced ==
  ASSUME NEW c, IsContext(c), NEW v
  PROVE  /\ IsContext([c EXCEPT !.slot = v]) /\ IsContext([c EXCEPT !.costModels = v])
         /\ IsContext([c EXCEPT !.committee = v]) /\ IsContext([c EXCEPT !.actions = v])
         /\ IsContext([c EXCEPT !.constitution = v]) /\ IsContext([c EXCEPT !.accounts = v])
         /\ IsContext([c EXCEPT !.pools = v]) /\ IsContext([c EXCEPT !.dreps = v])
  BY DEF IsContext

\* A context but for one of its parts.
Others(c, d, part) ==
  /\ part # "utxo" => d.utxo = c.utxo
  /\ part # "accounts" => d.accounts = c.accounts
  /\ part # "pools" => d.pools = c.pools
  /\ part # "dreps" => d.dreps = c.dreps
  /\ part # "actions" => d.actions = c.actions
  /\ part # "committee" => d.committee = c.committee
  /\ part # "slot" => d.slot = c.slot
  /\ part # "constitution" => d.constitution = c.constitution
  /\ part # "costModels" => d.costModels = c.costModels

\* Replacing one part leaves the others.
LEMMA OthersKept ==
  ASSUME NEW c, IsContext(c), NEW v
  PROVE  /\ Others(c, [c EXCEPT !.slot = v], "slot") /\ [c EXCEPT !.slot = v].slot = v
         /\ Others(c, [c EXCEPT !.costModels = v], "costModels") /\ [c EXCEPT !.costModels = v].costModels = v
         /\ Others(c, [c EXCEPT !.committee = v], "committee") /\ [c EXCEPT !.committee = v].committee = v
         /\ Others(c, [c EXCEPT !.actions = v], "actions") /\ [c EXCEPT !.actions = v].actions = v
         /\ Others(c, [c EXCEPT !.constitution = v], "constitution") /\ [c EXCEPT !.constitution = v].constitution = v
         /\ Others(c, [c EXCEPT !.accounts = v], "accounts") /\ [c EXCEPT !.accounts = v].accounts = v
         /\ Others(c, [c EXCEPT !.pools = v], "pools") /\ [c EXCEPT !.pools = v].pools = v
         /\ Others(c, [c EXCEPT !.dreps = v], "dreps") /\ [c EXCEPT !.dreps = v].dreps = v
         /\ Others(c, [c EXCEPT !.utxo = v], "utxo") /\ [c EXCEPT !.utxo = v].utxo = v
  BY DEF IsContext, Others

\* What an answer about UTxOs adds, and what is left of them without the scripts lost.
WithRead(utxo, refs, raw, dropped) ==
  [r \in Known(refs, Chain) \cup DOMAIN utxo |->
     IF r \in Known(refs, Chain) THEN [Chain.utxo[r] EXCEPT !.script = ScriptGiven(r, raw, dropped)] ELSE utxo[r]]
WithoutScripts(utxo, lost) ==
  [r \in DOMAIN utxo |-> IF r \in lost THEN [utxo[r] EXCEPT !.script = None] ELSE utxo[r]]

\* The two steps that read them, in these terms.
LEMMA UtxosReadIn ==
  ASSUME UtxosAnswered
  PROVE  \E refs \in pending, raw \in BOOLEAN, dropped \in SUBSET WithScript(Refs) :
           /\ stage = "utxos" /\ stage' = stage /\ pending' = pending \ {refs} /\ result' = result
           /\ fetched' = [fetched EXCEPT !.utxo = WithRead(fetched.utxo, refs, raw, dropped)]
           /\ calm' = (calm /\ dropped = {} /\ ~raw)
  BY ZenonT(30) DEF UtxosAnswered, WithRead, StageDone

\* ScriptsAnswered, in these terms.
LEMMA ScriptsReadIn ==
  ASSUME ScriptsAnswered
  PROVE  \E refs \in pending, lost \in SUBSET unread :
           /\ stage = "scripts" /\ stage' = stage /\ result' = result
           /\ fetched' = [fetched EXCEPT !.utxo = WithoutScripts(fetched.utxo, lost)]
           /\ calm' = (calm /\ lost = {})
  BY ZenonT(30) DEF ScriptsAnswered, WithoutScripts, StageDone

\* A UTxO in the context before or after an answer about UTxOs.
Added(utxo, refs, raw, dropped) ==
  /\ utxo = [r \in DOMAIN utxo |-> utxo[r]]
  /\ DOMAIN utxo = Known(refs, Chain) \cup DOMAIN fetched.utxo
  /\ \A r \in Known(refs, Chain) :
       IsRead(utxo[r]) /\ utxo[r] = [Chain.utxo[r] EXCEPT !.script = ScriptGiven(r, raw, dropped)]
                       /\ utxo[r].spent = Chain.utxo[r].spent
  /\ \A r \in DOMAIN fetched.utxo \ Known(refs, Chain) : utxo[r] = fetched.utxo[r]

\* What an answer about UTxOs adds is as the chain has it, but for the script.
LEMMA UtxosAdded ==
  ASSUME FetchOK, Fetching, NEW refs, NEW raw, NEW dropped
  PROVE  Added(WithRead(fetched.utxo, refs, raw, dropped), refs, raw, dropped)
<1> DEFINE utxo == WithRead(fetched.utxo, refs, raw, dropped)
<1>1. ASSUME NEW r \in Known(refs, Chain)
      PROVE  /\ utxo[r] = [Chain.utxo[r] EXCEPT !.script = ScriptGiven(r, raw, dropped)]
             /\ IsRead(utxo[r]) /\ utxo[r].spent = Chain.utxo[r].spent
  <2>1. IsRead(Chain.utxo[r])
    BY DEF FetchOK, CallOK, IsChain, Chain, Known
  <2>2. utxo[r] = [Chain.utxo[r] EXCEPT !.script = ScriptGiven(r, raw, dropped)]
    BY DEF WithRead
  <2> QED
    BY <2>1, <2>2, ScriptReplaced
<1>2. /\ utxo = [r \in DOMAIN utxo |-> utxo[r]]
      /\ DOMAIN utxo = Known(refs, Chain) \cup DOMAIN fetched.utxo
      /\ \A r \in DOMAIN fetched.utxo \ Known(refs, Chain) : utxo[r] = fetched.utxo[r]
  BY DEF WithRead
<1> QED
  BY <1>1, <1>2 DEF Added

\* Losing scripts loses nothing else.
LEMMA ScriptsLost ==
  ASSUME FetchOK, Fetching, NEW lost, NEW utxo, utxo = WithoutScripts(fetched.utxo, lost)
  PROVE  /\ utxo = [r \in DOMAIN utxo |-> utxo[r]]
         /\ DOMAIN utxo = DOMAIN fetched.utxo
         /\ \A r \in DOMAIN utxo : IsRead(utxo[r]) /\ utxo[r].spent = fetched.utxo[r].spent
         /\ lost = {} => utxo = fetched.utxo
<1>1. ASSUME NEW r \in DOMAIN fetched.utxo
      PROVE  IsRead(utxo[r]) /\ utxo[r].spent = fetched.utxo[r].spent
  <2>1. IsRead(fetched.utxo[r])
    BY DEF FetchOK, IsContext
  <2>2. utxo[r] = IF r \in lost THEN [fetched.utxo[r] EXCEPT !.script = None] ELSE fetched.utxo[r]
    BY DEF WithoutScripts
  <2> QED
    BY <2>1, <2>2, ScriptReplaced
<1>2. fetched.utxo = [r \in DOMAIN fetched.utxo |-> fetched.utxo[r]]
  BY DEF FetchOK, IsContext
<1>3. utxo = [r \in DOMAIN utxo |-> utxo[r]] /\ DOMAIN utxo = DOMAIN fetched.utxo
  BY DEF WithoutScripts
<1>4. lost = {} => utxo = fetched.utxo
  BY <1>2 DEF WithoutScripts
<1> QED
  BY <1>1, <1>3, <1>4

\* One of these happens to the context.
PartsSet(v) ==
  \/ fetched' = [fetched EXCEPT !.slot = v]
  \/ fetched' = [fetched EXCEPT !.costModels = v]
  \/ fetched' = [fetched EXCEPT !.committee = v]
  \/ fetched' = [fetched EXCEPT !.actions = v]
  \/ fetched' = [fetched EXCEPT !.constitution = v]
  \/ fetched' = [fetched EXCEPT !.accounts = v]
  \/ fetched' = [fetched EXCEPT !.pools = v]
  \/ fetched' = [fetched EXCEPT !.dreps = v]

\* A step sets one part of the context, or reads UTxOs or scripts, or leaves it alone.
LEMMA StepsOfContext ==
  ASSUME FetchOK, Fetching, [Next]_vars
  PROVE  \/ fetched' = fetched
         \/ \E v : PartsSet(v)
         \/ UtxosAnswered
         \/ ScriptsAnswered
<1>1. CASE TipAnswered \/ ParamsAnswered \/ CommitteeAnswered \/ ActionsAnswered \/ ConstitutionAnswered
  BY <1>1 DEF PartsSet, TipAnswered, ParamsAnswered, CommitteeAnswered, ActionsAnswered, ConstitutionAnswered, Answer
<1>2. CASE RequestCaught
  BY <1>2 DEF PartsSet, RequestCaught, Caught, Emptied
<1>3. CASE AccountAnswered
  BY <1>3 DEF PartsSet, AccountAnswered
<1>4. CASE PoolsAnswered \/ DRepsAnswered
  BY <1>4 DEF PartsSet, PoolsAnswered, DRepsAnswered
<1>5. CASE NextStage \/ RequestRejected \/ Validate \/ ChainMoves \/ UNCHANGED vars
  BY <1>5 DEF NextStage, RequestRejected, Validate, ChainMoves, vars
<1> QED
  BY <1>1, <1>2, <1>3, <1>4, <1>5 DEF Next

\* No step changes the call; the chain and the stages only move on.
LEMMA CallKept ==
  ASSUME FetchOK, Fetching, [Next]_vars
  PROVE  /\ UNCHANGED call
         /\ now' \in DOMAIN chains
         /\ stage' = stage \/ (Follows(stage, stage') /\ pending = {})
         /\ ChainMoves \/ now' = now
<1>1. CASE TipAnswered \/ ParamsAnswered \/ CommitteeAnswered \/ ActionsAnswered \/ ConstitutionAnswered
  BY <1>1 DEF TipAnswered, ParamsAnswered, CommitteeAnswered, ActionsAnswered, ConstitutionAnswered, Answer, StageDone, FetchOK
<1>2. CASE RequestCaught \/ UtxosAnswered \/ ScriptsAnswered \/ AccountAnswered \/ PoolsAnswered \/ DRepsAnswered
  BY <1>2 DEF RequestCaught, UtxosAnswered, ScriptsAnswered, AccountAnswered, PoolsAnswered, DRepsAnswered, StageDone, FetchOK
<1>3. CASE RequestRejected \/ Validate \/ UNCHANGED vars
  BY <1>3 DEF RequestRejected, Validate, vars, call, FetchOK
<1>4. CASE NextStage
  BY <1>4, StagesFollow DEF NextStage, FetchOK
<1>5. CASE ChainMoves
  <2>1. now + 1 \in 1..Len(chains)
    BY <1>5 DEF ChainMoves, FetchOK, CallOK
  <2> QED
    BY <1>5, <2>1 DEF ChainMoves, FetchOK, CallOK
<1> QED
  BY <1>1, <1>2, <1>3, <1>4, <1>5 DEF Next

\* A fetch stays one, and its context a context.
LEMMA FetchKept ==
  ASSUME FetchOK, [Next]_vars
  PROVE  FetchOK'
<1>1. CASE provider = "caller"
  <2>1. UNCHANGED provider
    BY DEF Next, vars, call, NextStage, TipAnswered, ParamsAnswered, CommitteeAnswered, ActionsAnswered,
           ConstitutionAnswered, Answer, StageDone, RequestCaught, RequestRejected, UtxosAnswered, ScriptsAnswered,
           AccountAnswered, PoolsAnswered, DRepsAnswered, Validate, ChainMoves
  <2> QED
    BY <1>1, <2>1 DEF FetchOK, Fetching
<1>2. CASE Fetching
  <2>1. CallOK'
    BY <1>2, CallKept DEF CallOK, FetchOK, call, Range
  <2>2. now' \in DOMAIN chains'
    BY <1>2, CallKept DEF call
  <2>3. stage' \in {"together", "utxos", "scripts", "accounts", "pools", "dreps", "validate"}
    BY <1>2, CallKept DEF FetchOK, Follows
  <2>4. IsContext(fetched')
    <3>1. IsContext(fetched)
      BY <1>2 DEF FetchOK
    <3>2. CASE UtxosAnswered
      <4>1. PICK refs, raw, dropped : fetched' = [fetched EXCEPT !.utxo = WithRead(fetched.utxo, refs, raw, dropped)]
        BY <3>2, UtxosReadIn, Zenon
      <4>2. fetched'.utxo = WithRead(fetched.utxo, refs, raw, dropped)
        BY <3>1, <4>1, OthersKept
      <4>3. /\ fetched'.utxo = [r \in DOMAIN fetched'.utxo |-> fetched'.utxo[r]]
            /\ \A r \in DOMAIN fetched'.utxo : IsRead(fetched'.utxo[r])
        <5> DEFINE u == fetched'.utxo
        <5> HIDE DEF u
        <5>0. Added(u, refs, raw, dropped)
          BY <1>2, <4>2, UtxosAdded, Zenon DEF u
        <5>1. /\ u = [r \in DOMAIN u |-> u[r]]
              /\ DOMAIN u = Known(refs, Chain) \cup DOMAIN fetched.utxo
              /\ \A r \in Known(refs, Chain) : IsRead(u[r])
              /\ \A r \in DOMAIN fetched.utxo \ Known(refs, Chain) : u[r] = fetched.utxo[r]
          BY <5>0 DEF Added
        <5>2. \A r \in DOMAIN fetched.utxo : IsRead(fetched.utxo[r])
          BY <3>1 DEF IsContext
        <5>3. \A r \in DOMAIN u : IsRead(u[r])
          BY <5>1, <5>2
        <5> QED
          BY <5>1, <5>3 DEF u
      <4> QED
        BY <3>1, <4>1, <4>3 DEF IsContext
    <3>3. CASE ScriptsAnswered
      <4>1. PICK lost : fetched' = [fetched EXCEPT !.utxo = WithoutScripts(fetched.utxo, lost)]
        BY <3>3, ScriptsReadIn, Zenon
      <4>2. fetched'.utxo = WithoutScripts(fetched.utxo, lost)
        BY <3>1, <4>1, OthersKept
      <4>3. /\ fetched'.utxo = [r \in DOMAIN fetched'.utxo |-> fetched'.utxo[r]]
            /\ \A r \in DOMAIN fetched'.utxo : IsRead(fetched'.utxo[r])
        BY <1>2, <4>2, ScriptsLost
      <4> QED
        BY <3>1, <4>1, <4>3 DEF IsContext
    <3>4. CASE fetched' = fetched
      BY <3>1, <3>4
    <3>5. ASSUME NEW v, PartsSet(v) PROVE IsContext(fetched')
      <4>1. /\ IsContext([fetched EXCEPT !.slot = v]) /\ IsContext([fetched EXCEPT !.costModels = v])
            /\ IsContext([fetched EXCEPT !.committee = v]) /\ IsContext([fetched EXCEPT !.actions = v])
            /\ IsContext([fetched EXCEPT !.constitution = v]) /\ IsContext([fetched EXCEPT !.accounts = v])
            /\ IsContext([fetched EXCEPT !.pools = v]) /\ IsContext([fetched EXCEPT !.dreps = v])
        BY <3>1, PartReplaced, Zenon
      <4> QED
        BY <3>5, <4>1, Zenon DEF PartsSet
    <3>6. \/ fetched' = fetched \/ (\E v : PartsSet(v)) \/ UtxosAnswered \/ ScriptsAnswered
      BY <1>2, StepsOfContext, Zenon
    <3> QED
      BY <3>2, <3>3, <3>4, <3>5, <3>6, Zenon
  <2> QED
    BY <2>1, <2>2, <2>3, <2>4 DEF FetchOK
<1> QED
  BY <1>1, <1>2 DEF Fetching

\* ---- what is fetched on a chain that stands still, every request answered ----

\* The first requests answered.
Answered(r) == stage # "together" \/ r \notin pending
FirstAnswers ==
  /\ Answered("tip") => fetched.slot = Chain.slot
  /\ Answered("params") => fetched.costModels = Chain.costModels
  /\ (Answered("committee") /\ provider = "koios") => fetched.committee = Chain.committee
  /\ Answered("actions") =>
       fetched.actions = Restrict(Chain.actions, NecessaryActions(tx) \cap DOMAIN Chain.actions)
  /\ (Answered("constitution") /\ provider = "koios") => fetched.constitution = Chain.constitution
\* The UTxOs, the accounts, the pools and the DReps: nothing but what the chain has, and
\* from their stage on all that is asked for, or a request for it is still out.
Out(s, x) == stage = s /\ \E asked \in pending : x \in asked
UtxosFetched ==
  /\ DOMAIN fetched.utxo \subseteq Known(Refs, Chain)
  /\ \A r \in DOMAIN fetched.utxo : fetched.utxo[r] = Chain.utxo[r]
  /\ stage = "utxos" => \A refs \in pending : refs \subseteq Refs
  /\ stage # "together" => \A r \in Known(Refs, Chain) : r \in DOMAIN fetched.utxo \/ Out("utxos", r)
AccountsFetched ==
  /\ fetched.accounts \subseteq Chain.accounts
  /\ stage \in {"accounts", "pools", "dreps", "validate"} =>
       \A a \in NecessaryAccounts(tx) \cap Chain.accounts :
         a \in fetched.accounts \/ (stage = "accounts" /\ a \in pending)
PoolsFetched ==
  /\ fetched.pools \subseteq RegisteredPools
  /\ stage = "pools" => pending \subseteq {NecessaryPools(tx)}
  /\ stage \in {"pools", "dreps", "validate"} =>
       \A p \in NecessaryPools(tx) \cap RegisteredPools : p \in fetched.pools \/ Out("pools", p)
AskedDReps == NecessaryDReps(tx) \ ({None} \cup Predefined)
DRepsFetched ==
  /\ fetched.dreps \subseteq Chain.dreps
  /\ stage = "dreps" => pending \subseteq {AskedDReps}
  /\ stage \in {"dreps", "validate"} =>
       \A d \in AskedDReps \cap Chain.dreps : d \in fetched.dreps \/ Out("dreps", d)
\* The verdict is on what was fetched.
Judgement == result # <<>> => stage = "validate" /\ result = <<Validated(tx, Context)>>
FetchedAsAsked ==
  FirstAnswers /\ UtxosFetched /\ AccountsFetched /\ PoolsFetched /\ DRepsFetched /\ Judgement
Quiet == Fetching /\ calm
QuietInv == FetchOK /\ (Quiet => FetchedAsAsked)

\* What a step that leaves the fetch quiet may be.
LEMMA QuietSteps ==
  ASSUME FetchOK, Quiet', [Next]_vars
  PROVE  /\ Quiet
         /\ tx' = tx /\ chains' = chains /\ provider' = provider /\ now' = now
         /\ \/ NextStage \/ TipAnswered \/ ParamsAnswered \/ CommitteeAnswered \/ ActionsAnswered
            \/ ConstitutionAnswered \/ UtxosAnswered \/ ScriptsAnswered \/ AccountAnswered
            \/ PoolsAnswered \/ DRepsAnswered \/ Validate \/ UNCHANGED vars
<1>1. provider' = provider
  BY DEF Next, vars, call, NextStage, TipAnswered, ParamsAnswered, CommitteeAnswered, ActionsAnswered,
         ConstitutionAnswered, Answer, StageDone, RequestCaught, RequestRejected, UtxosAnswered, ScriptsAnswered,
         AccountAnswered, PoolsAnswered, DRepsAnswered, Validate, ChainMoves
<1>2. Fetching
  BY <1>1 DEF Quiet, Fetching
<1>3. ~RequestCaught /\ ~RequestRejected /\ ~ChainMoves
  BY DEF Quiet, RequestCaught, RequestRejected, ChainMoves
<1>4. \/ NextStage \/ TipAnswered \/ ParamsAnswered \/ CommitteeAnswered \/ ActionsAnswered
      \/ ConstitutionAnswered \/ UtxosAnswered \/ ScriptsAnswered \/ AccountAnswered
      \/ PoolsAnswered \/ DRepsAnswered \/ Validate \/ UNCHANGED vars
  BY <1>3 DEF Next
<1>5. calm
  <2>1. CASE NextStage \/ Validate \/ UNCHANGED vars \/ UtxosAnswered
    BY <2>1 DEF NextStage, Validate, vars, UtxosAnswered, Quiet
  <2>2. CASE ScriptsAnswered \/ AccountAnswered \/ PoolsAnswered \/ DRepsAnswered
    BY <2>2 DEF ScriptsAnswered, AccountAnswered, PoolsAnswered, DRepsAnswered, Quiet
  <2>3. CASE TipAnswered \/ ParamsAnswered \/ CommitteeAnswered \/ ActionsAnswered \/ ConstitutionAnswered
    BY <2>3 DEF TipAnswered, ParamsAnswered, CommitteeAnswered, ActionsAnswered, ConstitutionAnswered, Answer, Quiet
  <2> QED
    BY <1>4, <2>1, <2>2, <2>3
<1>6. UNCHANGED call /\ (ChainMoves \/ now' = now)
  BY <1>2, CallKept, Zenon
<1> QED
  BY <1>2, <1>3, <1>4, <1>5, <1>6 DEF Quiet, call

\* The parts that what is fetched touches: all the others are as they were.
LEMMA FirstAnswersMade ==
  ASSUME FetchOK, Fetching, FirstAnswers, tx' = tx, chains' = chains, provider' = provider, now' = now,
         TipAnswered \/ ParamsAnswered \/ CommitteeAnswered \/ ActionsAnswered \/ ConstitutionAnswered
  PROVE  /\ FirstAnswers' /\ stage = "together" /\ stage' = stage /\ result' = result
         /\ fetched'.utxo = fetched.utxo /\ fetched'.accounts = fetched.accounts
         /\ fetched'.pools = fetched.pools /\ fetched'.dreps = fetched.dreps
<1>1. IsContext(fetched)
  BY DEF FetchOK
<1>2. CASE TipAnswered
  <2>1. fetched' = [fetched EXCEPT !.slot = Chain.slot] /\ pending' = pending \ {"tip"}
        /\ stage = "together" /\ stage' = stage /\ result' = result
    BY <1>2 DEF TipAnswered, Answer, StageDone
  <2>2. Others(fetched, fetched', "slot") /\ fetched'.slot = Chain.slot
    BY <1>1, <2>1 DEF IsContext, Others
  <2>3. FirstAnswers'
    BY <2>1, <2>2 DEF FirstAnswers, Answered, Others, Chain
  <2> QED
    BY <2>1, <2>2, <2>3 DEF Others
<1>3. CASE ParamsAnswered
  <2>1. fetched' = [fetched EXCEPT !.costModels = Chain.costModels] /\ pending' = pending \ {"params"}
        /\ stage = "together" /\ stage' = stage /\ result' = result
    BY <1>3 DEF ParamsAnswered, Answer, StageDone
  <2>2. Others(fetched, fetched', "costModels") /\ fetched'.costModels = Chain.costModels
    BY <1>1, <2>1 DEF IsContext, Others
  <2>3. FirstAnswers'
    BY <2>1, <2>2 DEF FirstAnswers, Answered, Others, Chain
  <2> QED
    BY <2>1, <2>2, <2>3 DEF Others
<1>4. CASE CommitteeAnswered
  <2> DEFINE given == IF provider = "koios" THEN Chain.committee ELSE {}
  <2>1. fetched' = [fetched EXCEPT !.committee = given] /\ pending' = pending \ {"committee"}
        /\ stage = "together" /\ stage' = stage /\ result' = result
    BY <1>4 DEF CommitteeAnswered, Answer, StageDone
  <2>2. Others(fetched, fetched', "committee") /\ fetched'.committee = given
    BY <1>1, <2>1 DEF IsContext, Others
  <2>3. FirstAnswers'
    BY <2>1, <2>2 DEF FirstAnswers, Answered, Others, Chain
  <2> QED
    BY <2>1, <2>2, <2>3 DEF Others
<1>5. CASE ActionsAnswered
  <2> DEFINE given == Restrict(Chain.actions, NecessaryActions(tx) \cap DOMAIN Chain.actions)
  <2>1. fetched' = [fetched EXCEPT !.actions = given] /\ pending' = pending \ {"actions"}
        /\ stage = "together" /\ stage' = stage /\ result' = result
    BY <1>5 DEF ActionsAnswered, Answer, StageDone
  <2>2. Others(fetched, fetched', "actions") /\ fetched'.actions = given
    BY <1>1, <2>1 DEF IsContext, Others
  <2>3. FirstAnswers'
    BY <2>1, <2>2 DEF FirstAnswers, Answered, Others, Chain
  <2> QED
    BY <2>1, <2>2, <2>3 DEF Others
<1>6. CASE ConstitutionAnswered
  <2> DEFINE given == IF provider = "koios" THEN Chain.constitution ELSE Constitution(None)
  <2>1. fetched' = [fetched EXCEPT !.constitution = given] /\ pending' = pending \ {"constitution"}
        /\ stage = "together" /\ stage' = stage /\ result' = result
    BY <1>6 DEF ConstitutionAnswered, Answer, StageDone
  <2>2. Others(fetched, fetched', "constitution") /\ fetched'.constitution = given
    BY <1>1, <2>1 DEF IsContext, Others
  <2>3. FirstAnswers'
    BY <2>1, <2>2 DEF FirstAnswers, Answered, Others, Chain
  <2> QED
    BY <2>1, <2>2, <2>3 DEF Others
<1> QED
  BY <1>2, <1>3, <1>4, <1>5, <1>6

Held == tx' = tx /\ chains' = chains /\ provider' = provider /\ now' = now

\* Between them, the requests of a stage ask for all that is necessary and for nothing else.
LEMMA RequestsMade ==
  /\ \A refs \in Requests("utxos") : refs \subseteq Refs
  /\ \A r \in Refs : \E refs \in Requests("utxos") : r \in refs
  /\ Requests("accounts") = NecessaryAccounts(tx)
  /\ Requests("pools") \subseteq {NecessaryPools(tx)}
  /\ \A p \in NecessaryPools(tx) : \E ids \in Requests("pools") : p \in ids
  /\ Requests("dreps") \subseteq {AskedDReps}
  /\ \A d \in AskedDReps : \E ids \in Requests("dreps") : d \in ids
<1>1. Requests("utxos") = IF Refs = {} THEN {} ELSE IF provider = "koios" THEN {Refs} ELSE {{r} : r \in Refs}
  BY DEF Requests
<1>2. Requests("accounts") = NecessaryAccounts(tx) /\ Requests("pools") = {NecessaryPools(tx)} \ {{}}
      /\ Requests("dreps") = {AskedDReps} \ {{}}
  BY DEF Requests, AskedDReps
<1>3. /\ \A refs \in Requests("utxos") : refs \subseteq Refs
      /\ \A r \in Refs : \E refs \in Requests("utxos") : r \in refs
  <2>1. CASE Refs = {}
    BY <1>1, <2>1
  <2>2. CASE Refs # {} /\ provider = "koios"
    <3>1. Requests("utxos") = {Refs}
      BY <1>1, <2>2
    <3> QED
      BY <3>1
  <2>3. CASE Refs # {} /\ provider # "koios"
    <3>1. Requests("utxos") = {{r} : r \in Refs}
      BY <1>1, <2>3
    <3> QED
      BY <3>1
  <2> QED
    BY <2>1, <2>2, <2>3
<1>4. ASSUME NEW whole PROVE \A x \in whole : \E ids \in {whole} \ {{}} : x \in ids
  <2>1. ASSUME NEW x \in whole PROVE whole \in {whole} \ {{}}
    BY <2>1
  <2> QED
    BY <2>1
<1>5. /\ \A p \in NecessaryPools(tx) : \E ids \in Requests("pools") : p \in ids
      /\ \A d \in AskedDReps : \E ids \in Requests("dreps") : d \in ids
  BY <1>2, <1>4
<1> QED
  BY <1>2, <1>3, <1>5

\* TipAnswered, ParamsAnswered, CommitteeAnswered, ActionsAnswered and ConstitutionAnswered.
LEMMA FirstAnswersKeepOrder ==
  ASSUME FetchOK, Fetching, FetchedAsAsked, Held,
         TipAnswered \/ ParamsAnswered \/ CommitteeAnswered \/ ActionsAnswered \/ ConstitutionAnswered
  PROVE  FetchedAsAsked'
<1>1. /\ FirstAnswers' /\ stage = "together" /\ stage' = stage /\ result' = result
      /\ fetched'.utxo = fetched.utxo /\ fetched'.accounts = fetched.accounts
      /\ fetched'.pools = fetched.pools /\ fetched'.dreps = fetched.dreps
  BY FirstAnswersMade DEF FetchedAsAsked, Held
<1>2. UtxosFetched'
  BY <1>1 DEF FetchedAsAsked, UtxosFetched, Held, Chain, Refs
<1>3. AccountsFetched'
  BY <1>1 DEF FetchedAsAsked, AccountsFetched, Held, Chain
<1>4. PoolsFetched'
  BY <1>1 DEF FetchedAsAsked, PoolsFetched, Held, Chain, RegisteredPools
<1>5. DRepsFetched'
  BY <1>1 DEF FetchedAsAsked, DRepsFetched, Held, Chain
<1>6. Judgement'
  BY <1>1 DEF FetchedAsAsked, Judgement
<1> QED
  BY <1>1, <1>2, <1>3, <1>4, <1>5, <1>6 DEF FetchedAsAsked

\* NextStage: the new stage's requests are for all it must bring, the old one's are answered.
LEMMA NextStageKeepsOrder ==
  ASSUME FetchedAsAsked, Held, NextStage
  PROVE  FetchedAsAsked'
<1>1. /\ Follows(stage, stage') /\ pending = {} /\ pending' = Requests(stage') /\ fetched' = fetched
      /\ result = <<>> /\ result' = result
  BY StagesFollow DEF NextStage
<1>2. FirstAnswers'
  BY <1>1 DEF FetchedAsAsked, FirstAnswers, Answered, Held, Chain
<1>3. UtxosFetched'
  <2>1. Known(Refs, Chain) \subseteq Refs
    BY DEF Known
  <2>2. CASE stage = "together"
    BY <1>1, <2>1, <2>2, RequestsMade DEF FetchedAsAsked, UtxosFetched, Held, Chain, Refs, Out, Follows
  <2>3. CASE stage # "together"
    <3>1. stage' # "utxos" /\ stage' # "together"
      BY <1>1, <2>3 DEF Follows
    <3> QED
      BY <1>1, <2>3, <3>1 DEF FetchedAsAsked, UtxosFetched, Held, Chain, Refs, Out
  <2> QED
    BY <2>2, <2>3
<1>4. AccountsFetched'
  <2>1. CASE stage = "scripts"
    BY <1>1, <2>1, RequestsMade DEF FetchedAsAsked, AccountsFetched, Held, Chain, Follows
  <2>2. CASE stage # "scripts"
    BY <1>1, <2>2 DEF FetchedAsAsked, AccountsFetched, Held, Chain, Follows
  <2> QED
    BY <2>1, <2>2
<1>5. PoolsFetched'
  <2>1. CASE stage = "accounts"
    <3>1. stage' = "pools" /\ pending' = Requests("pools")
      BY <1>1, <2>1 DEF Follows
    <3> QED
      BY <1>1, <3>1, RequestsMade DEF FetchedAsAsked, PoolsFetched, Held, Chain, Out, RegisteredPools
  <2>2. CASE stage # "accounts"
    <3>1. stage' # "pools" /\ (stage' \in {"dreps", "validate"} => stage \in {"pools", "dreps"})
      BY <1>1, <2>2 DEF Follows
    <3> QED
      BY <1>1, <3>1 DEF FetchedAsAsked, PoolsFetched, Held, Chain, Out, RegisteredPools
  <2> QED
    BY <2>1, <2>2
<1>6. DRepsFetched'
  <2>1. CASE stage = "pools"
    <3>1. stage' = "dreps" /\ pending' = Requests("dreps")
      BY <1>1, <2>1 DEF Follows
    <3> QED
      BY <1>1, <3>1, RequestsMade DEF FetchedAsAsked, DRepsFetched, Held, Chain, Out, AskedDReps
  <2>2. CASE stage # "pools"
    <3>1. stage' # "dreps" /\ (stage' = "validate" => stage = "dreps")
      BY <1>1, <2>2 DEF Follows
    <3> QED
      BY <1>1, <3>1 DEF FetchedAsAsked, DRepsFetched, Held, Chain, Out, AskedDReps
  <2> QED
    BY <2>1, <2>2
<1>7. Judgement'
  BY <1>1 DEF Judgement
<1> QED
  BY <1>2, <1>3, <1>4, <1>5, <1>6, <1>7 DEF FetchedAsAsked

\* UtxosAnswered: what it brings is what the chain has.
LEMMA UtxosKeepOrder ==
  ASSUME FetchOK, Quiet', Fetching, FetchedAsAsked, Held, UtxosAnswered
  PROVE  FetchedAsAsked'
<1>0. \E refs \in pending :
        /\ stage = "utxos" /\ stage' = stage /\ pending' = pending \ {refs} /\ result' = result
        /\ fetched' = [fetched EXCEPT !.utxo = WithRead(fetched.utxo, refs, FALSE, {})]
  <2>1. PICK refs \in pending, raw \in BOOLEAN, dropped \in SUBSET WithScript(Refs) :
          /\ stage = "utxos" /\ stage' = stage /\ pending' = pending \ {refs} /\ result' = result
          /\ fetched' = [fetched EXCEPT !.utxo = WithRead(fetched.utxo, refs, raw, dropped)]
          /\ calm' = (calm /\ dropped = {} /\ ~raw)
    BY UtxosReadIn, Zenon
  <2>2. dropped = {} /\ raw = FALSE
    BY <2>1 DEF Quiet
  <2> QED
    BY <2>1, <2>2, Zenon
<1>1. PICK refs \in pending :
        /\ stage = "utxos" /\ stage' = stage /\ pending' = pending \ {refs} /\ result' = result
        /\ fetched' = [fetched EXCEPT !.utxo = WithRead(fetched.utxo, refs, FALSE, {})]
  BY <1>0, Zenon
<1>2. Others(fetched, fetched', "utxo") /\ fetched'.utxo = WithRead(fetched.utxo, refs, FALSE, {})
  BY <1>1 DEF FetchOK, IsContext, Others
<1>3. Added(fetched'.utxo, refs, FALSE, {})
  BY <1>2, UtxosAdded, Zenon
<1>4. refs \subseteq Refs
  BY <1>1 DEF FetchedAsAsked, UtxosFetched
<1>5. /\ DOMAIN fetched'.utxo = Known(refs, Chain) \cup DOMAIN fetched.utxo
      /\ \A r \in Known(refs, Chain) : fetched'.utxo[r] = Chain.utxo[r]
      /\ \A r \in DOMAIN fetched.utxo \ Known(refs, Chain) : fetched'.utxo[r] = fetched.utxo[r]
  <2>1. ASSUME NEW r \in Known(refs, Chain) PROVE fetched'.utxo[r] = Chain.utxo[r]
    <3>1. fetched'.utxo[r] = [Chain.utxo[r] EXCEPT !.script = ScriptGiven(r, FALSE, {})]
      BY <1>3, <2>1 DEF Added
    <3>2. ScriptGiven(r, FALSE, {}) = Chain.utxo[r].script
      BY DEF ScriptGiven
    <3>3. IsRead(Chain.utxo[r])
      BY <2>1 DEF FetchOK, CallOK, IsChain, Chain, Known
    <3> QED
      BY <3>1, <3>2, <3>3, ScriptReplaced
  <2> QED
    BY <1>3, <2>1 DEF Added
<1>6. UtxosFetched'
  <2>1. Known(refs, Chain) \subseteq Known(Refs, Chain) /\ \A r \in Known(Refs, Chain) : r \in refs => r \in Known(refs, Chain)
    BY <1>4 DEF Known
  <2>2. DOMAIN fetched'.utxo \subseteq Known(Refs, Chain) /\ \A r \in DOMAIN fetched'.utxo : fetched'.utxo[r] = Chain.utxo[r]
    BY <1>5, <2>1 DEF FetchedAsAsked, UtxosFetched
  <2>3. ASSUME NEW r \in Known(Refs, Chain), r \notin DOMAIN fetched'.utxo PROVE \E asked \in pending' : r \in asked
    <3>1. PICK asked \in pending : r \in asked
      BY <1>1, <1>5, <2>3 DEF FetchedAsAsked, UtxosFetched, Out
    <3> QED
      BY <1>1, <1>5, <2>1, <2>3, <3>1
  <2>4. \A s \in pending' : s \subseteq Refs
    BY <1>1 DEF FetchedAsAsked, UtxosFetched
  <2> QED
    BY <1>1, <2>2, <2>3, <2>4 DEF UtxosFetched, Out, Held, Chain, Refs
<1>7. FirstAnswers'
  BY <1>1, <1>2 DEF FetchedAsAsked, FirstAnswers, Answered, Held, Chain, Others
<1>8. AccountsFetched' /\ PoolsFetched' /\ DRepsFetched'
  BY <1>1, <1>2 DEF FetchedAsAsked, AccountsFetched, PoolsFetched, DRepsFetched, Held, Chain, Others, RegisteredPools
<1>9. Judgement'
  BY <1>1 DEF FetchedAsAsked, Judgement
<1> QED
  BY <1>6, <1>7, <1>8, <1>9 DEF FetchedAsAsked

\* ScriptsAnswered, when none is lost.
LEMMA ScriptsKeepOrder ==
  ASSUME FetchOK, Quiet', Fetching, FetchedAsAsked, Held, ScriptsAnswered
  PROVE  FetchedAsAsked'
<1>1. /\ stage = "scripts" /\ stage' = stage /\ result' = result
      /\ fetched' = [fetched EXCEPT !.utxo = WithoutScripts(fetched.utxo, {})]
  <2>1. PICK lost \in SUBSET unread :
          /\ stage = "scripts" /\ stage' = stage /\ result' = result
          /\ fetched' = [fetched EXCEPT !.utxo = WithoutScripts(fetched.utxo, lost)]
          /\ calm' = (calm /\ lost = {})
    BY ScriptsReadIn, Zenon
  <2>2. lost = {}
    BY <2>1 DEF Quiet
  <2> QED
    BY <2>1, <2>2, Zenon
<1>2. Others(fetched, fetched', "utxo") /\ fetched'.utxo = WithoutScripts(fetched.utxo, {})
  BY <1>1 DEF FetchOK, IsContext, Others
<1>3. fetched'.utxo = fetched.utxo
  BY <1>2, ScriptsLost
<1>4. FirstAnswers'
  BY <1>1, <1>2 DEF FetchedAsAsked, FirstAnswers, Answered, Held, Chain, Others
<1>5. UtxosFetched'
  BY <1>1, <1>3 DEF FetchedAsAsked, UtxosFetched, Held, Chain, Refs, Out
<1>6. AccountsFetched' /\ PoolsFetched' /\ DRepsFetched'
  BY <1>1, <1>2 DEF FetchedAsAsked, AccountsFetched, PoolsFetched, DRepsFetched, Held, Chain, Others, RegisteredPools
<1>7. Judgement'
  BY <1>1 DEF FetchedAsAsked, Judgement
<1> QED
  BY <1>4, <1>5, <1>6, <1>7 DEF FetchedAsAsked

\* AccountAnswered, when the request did not fail.
LEMMA AccountsKeepOrder ==
  ASSUME FetchOK, Quiet', Fetching, FetchedAsAsked, Held, AccountAnswered
  PROVE  FetchedAsAsked'
<1> DEFINE account == Min(pending)
           accounts == fetched.accounts \cup ({account} \cap Chain.accounts)
<1>1. /\ stage = "accounts" /\ stage' = stage /\ result' = result /\ pending' = pending \ {account}
      /\ fetched' = [fetched EXCEPT !.accounts = accounts]
  BY DEF AccountAnswered, StageDone, Quiet
<1> HIDE DEF account
<1>2. Others(fetched, fetched', "accounts") /\ fetched'.accounts = accounts
  BY <1>1 DEF FetchOK, IsContext, Others
<1>3. FirstAnswers'
  BY <1>1, <1>2 DEF FetchedAsAsked, FirstAnswers, Answered, Held, Chain, Others
<1>4. UtxosFetched'
  BY <1>1, <1>2 DEF FetchedAsAsked, UtxosFetched, Held, Chain, Refs, Out, Others
<1>5. AccountsFetched'
  BY <1>1, <1>2 DEF FetchedAsAsked, AccountsFetched, Held, Chain
<1>6. PoolsFetched' /\ DRepsFetched'
  BY <1>1, <1>2 DEF FetchedAsAsked, PoolsFetched, DRepsFetched, Held, Chain, Others, RegisteredPools
<1>7. Judgement'
  BY <1>1 DEF FetchedAsAsked, Judgement
<1> QED
  BY <1>3, <1>4, <1>5, <1>6, <1>7 DEF FetchedAsAsked

\* PoolsAnswered.
LEMMA PoolsKeepOrder ==
  ASSUME FetchOK, Fetching, FetchedAsAsked, Held, PoolsAnswered
  PROVE  FetchedAsAsked'
<1>1. PICK ids \in pending :
        /\ stage = "pools" /\ stage' = stage /\ result' = result /\ pending' = pending \ {ids}
        /\ fetched' = [fetched EXCEPT !.pools = ids \cap RegisteredPools]
  BY DEF PoolsAnswered, StageDone
<1>2. Others(fetched, fetched', "pools") /\ fetched'.pools = ids \cap RegisteredPools
  BY <1>1 DEF FetchOK, IsContext, Others
<1>3. ids = NecessaryPools(tx) /\ pending' = {}
  BY <1>1 DEF FetchedAsAsked, PoolsFetched
<1>4. FirstAnswers'
  BY <1>1, <1>2 DEF FetchedAsAsked, FirstAnswers, Answered, Held, Chain, Others
<1>5. UtxosFetched'
  BY <1>1, <1>2 DEF FetchedAsAsked, UtxosFetched, Held, Chain, Refs, Out, Others
<1>6. AccountsFetched' /\ DRepsFetched'
  BY <1>1, <1>2 DEF FetchedAsAsked, AccountsFetched, DRepsFetched, Held, Chain, Others
<1>7. PoolsFetched'
  BY <1>1, <1>2, <1>3 DEF PoolsFetched, Held, Chain, RegisteredPools
<1>8. Judgement'
  BY <1>1 DEF FetchedAsAsked, Judgement
<1> QED
  BY <1>4, <1>5, <1>6, <1>7, <1>8 DEF FetchedAsAsked

\* DRepsAnswered.
LEMMA DRepsKeepOrder ==
  ASSUME FetchOK, Fetching, FetchedAsAsked, Held, DRepsAnswered
  PROVE  FetchedAsAsked'
<1>1. PICK ids \in pending :
        /\ stage = "dreps" /\ stage' = stage /\ result' = result /\ pending' = pending \ {ids}
        /\ fetched' = [fetched EXCEPT !.dreps = ids \cap Chain.dreps]
  BY DEF DRepsAnswered, StageDone
<1>2. Others(fetched, fetched', "dreps") /\ fetched'.dreps = ids \cap Chain.dreps
  BY <1>1 DEF FetchOK, IsContext, Others
<1>3. ids = AskedDReps /\ pending' = {}
  BY <1>1 DEF FetchedAsAsked, DRepsFetched
<1>4. FirstAnswers'
  BY <1>1, <1>2 DEF FetchedAsAsked, FirstAnswers, Answered, Held, Chain, Others
<1>5. UtxosFetched'
  BY <1>1, <1>2 DEF FetchedAsAsked, UtxosFetched, Held, Chain, Refs, Out, Others
<1>6. AccountsFetched' /\ PoolsFetched'
  BY <1>1, <1>2 DEF FetchedAsAsked, AccountsFetched, PoolsFetched, Held, Chain, Others, RegisteredPools, Out
<1>7. DRepsFetched'
  BY <1>1, <1>2, <1>3 DEF DRepsFetched, Held, Chain, AskedDReps
<1>8. Judgement'
  BY <1>1 DEF FetchedAsAsked, Judgement
<1> QED
  BY <1>4, <1>5, <1>6, <1>7, <1>8 DEF FetchedAsAsked

\* Validate, and a stutter.
LEMMA VerdictKeepsOrder ==
  ASSUME FetchedAsAsked, Held, Validate \/ UNCHANGED vars
  PROVE  FetchedAsAsked'
<1>1. stage' = stage /\ fetched' = fetched /\ pending' = pending
  BY DEF Validate, vars
<1>2. FirstAnswers' /\ AccountsFetched'
  BY <1>1 DEF FetchedAsAsked, FirstAnswers, AccountsFetched, Answered, Held, Chain
<1>3. UtxosFetched'
  BY <1>1 DEF FetchedAsAsked, UtxosFetched, Held, Chain, Refs, Out
<1>4. PoolsFetched' /\ DRepsFetched'
  BY <1>1 DEF FetchedAsAsked, PoolsFetched, DRepsFetched, Held, Chain, Out, RegisteredPools, AskedDReps
<1>5. Judgement'
  <2>1. Context' = Context
    BY <1>1 DEF Context, Named_Seats, Held
  <2>2. CASE Validate
    BY <1>1, <2>1, <2>2 DEF Validate, Judgement, Held
  <2>3. CASE UNCHANGED vars
    BY <1>1, <2>1, <2>3 DEF FetchedAsAsked, Judgement, Held, vars
  <2> QED
    BY <2>2, <2>3
<1> QED
  BY <1>2, <1>3, <1>4, <1>5 DEF FetchedAsAsked

\* A fetch starts with nothing, and nothing asked for but the first requests.
LEMMA QuietStarts ==
  ASSUME Init PROVE QuietInv
<1>1. FetchOK
  BY FetchStarts
<1>2. ASSUME NEW f \in Fetches, tx = f.tx, chains = f.chains, fetched = Blank, provider = f.provider,
             stage = Stages[1], pending = Requests(Stages[1]), result = <<>>
      PROVE  FetchedAsAsked
  <2>1. stage = "together" /\ pending = {"tip", "params", "committee", "actions", "constitution"}
    BY <1>2 DEF Stages, Requests
  <2>2. FirstAnswers
    BY <2>1 DEF FirstAnswers, Answered
  <2>3. UtxosFetched /\ AccountsFetched /\ PoolsFetched /\ DRepsFetched /\ Judgement
    BY <1>2, <2>1 DEF UtxosFetched, AccountsFetched, PoolsFetched, DRepsFetched, Judgement, Blank
  <2> QED
    BY <2>2, <2>3 DEF FetchedAsAsked
<1>3. Fetching => FetchedAsAsked
  BY <1>2 DEF Init, Fetching
<1> QED
  BY <1>1, <1>3 DEF QuietInv, Quiet

\* A step that leaves the fetch quiet leaves it as asked.
LEMMA QuietKept ==
  ASSUME QuietInv, [Next]_vars PROVE QuietInv'
<1>1. FetchOK /\ FetchOK'
  BY FetchKept DEF QuietInv
<1>2. ASSUME Quiet' PROVE FetchedAsAsked'
  <2>1. /\ Quiet
        /\ tx' = tx /\ chains' = chains /\ provider' = provider /\ now' = now
        /\ \/ NextStage \/ TipAnswered \/ ParamsAnswered \/ CommitteeAnswered \/ ActionsAnswered
           \/ ConstitutionAnswered \/ UtxosAnswered \/ ScriptsAnswered \/ AccountAnswered
           \/ PoolsAnswered \/ DRepsAnswered \/ Validate \/ UNCHANGED vars
    BY <1>1, <1>2, QuietSteps, Zenon
  <2>2. FetchedAsAsked /\ Fetching /\ Held
    BY <2>1 DEF QuietInv, Quiet, Held
  <2>3. CASE NextStage
    BY <2>2, <2>3, NextStageKeepsOrder, Zenon
  <2>4. CASE TipAnswered \/ ParamsAnswered \/ CommitteeAnswered \/ ActionsAnswered \/ ConstitutionAnswered
    BY <1>1, <2>2, <2>4, FirstAnswersKeepOrder, Zenon
  <2>5. CASE UtxosAnswered
    BY <1>1, <1>2, <2>2, <2>5, UtxosKeepOrder, Zenon
  <2>6. CASE ScriptsAnswered
    BY <1>1, <1>2, <2>2, <2>6, ScriptsKeepOrder, Zenon
  <2>7. CASE AccountAnswered
    BY <1>1, <1>2, <2>2, <2>7, AccountsKeepOrder, Zenon
  <2>8. CASE PoolsAnswered
    BY <1>1, <2>2, <2>8, PoolsKeepOrder, Zenon
  <2>9. CASE DRepsAnswered
    BY <1>1, <2>2, <2>9, DRepsKeepOrder, Zenon
  <2>10. CASE Validate \/ UNCHANGED vars
    BY <2>2, <2>10, VerdictKeepsOrder, Zenon
  <2> QED
    BY <2>1, <2>3, <2>4, <2>5, <2>6, <2>7, <2>8, <2>9, <2>10, Zenon
<1> QED
  BY <1>1, <1>2 DEF QuietInv

\* What a vote is cast with is asked for.
LEMMA VotersAreAsked ==
  ASSUME \A v \in Range(tx.votes) : IsVote(v)
  PROVE  /\ Voters(tx, "pool") \subseteq NecessaryPools(tx)
         /\ Voters(tx, "drep") \subseteq AskedDReps
         /\ Voters(tx, "committee") \subseteq NecessaryHot(tx) \ {None}
<1>1. ASSUME NEW role, NEW c \in Voters(tx, role) PROVE c # None /\ c \notin Predefined
  <2>1. PICK v \in Range(tx.votes) : c = v.cred
    BY <1>1 DEF Voters
  <2>2. v.cred \in (Keys \cup Scripts) \ Predefined
    BY <2>1 DEF IsVote
  <2> QED
    BY <2>1, <2>2, HashesApart DEF None
<1>2. Voters(tx, "pool") \subseteq NecessaryPools(tx)
  BY DEF NecessaryPools
<1>3. Voters(tx, "drep") \subseteq NecessaryDReps(tx)
  BY DEF NecessaryDReps
<1>4. Voters(tx, "committee") = NecessaryHot(tx)
  BY DEF NecessaryHot
<1> QED
  BY <1>1, <1>2, <1>3, <1>4 DEF AskedDReps

\* Once the call validates, the context shows the transaction what the chain does.
LEMMA ContextAgrees ==
  ASSUME QuietInv, Quiet, stage = "validate", Misjudged = {}
  PROVE  /\ Agree(tx, Context, Chain)
         /\ provider = "koios" => AgreeOnRest(tx, Context, Chain)
<1>1. IsContext(fetched) /\ FetchedAsAsked /\ \A v \in Range(tx.votes) : IsVote(v)
  BY DEF QuietInv, FetchOK, CallOK, Quiet
<1>2. Others(fetched, Context, "committee") /\ Context.committee = Named_Seats(fetched.committee)
  BY <1>1 DEF Context, IsContext, Others, Quiet, Fetching
<1>3. /\ Voters(tx, "pool") \subseteq NecessaryPools(tx)
      /\ Voters(tx, "drep") \subseteq AskedDReps
      /\ Voters(tx, "committee") \subseteq NecessaryHot(tx) \ {None}
  BY <1>1, VotersAreAsked
<1>4. Known(Named(tx), Context) = Known(Named(tx), Chain)
      /\ \A r \in Known(Named(tx), Context) : Context.utxo[r] = Chain.utxo[r]
  <2>1. Named(tx) = Refs /\ Context.utxo = fetched.utxo
    BY <1>2 DEF Named, Refs, Others
  <2>2. DOMAIN fetched.utxo = Known(Refs, Chain) /\ \A r \in DOMAIN fetched.utxo : fetched.utxo[r] = Chain.utxo[r]
    BY <1>1 DEF FetchedAsAsked, UtxosFetched, Out
  <2> QED
    BY <2>1, <2>2 DEF Known
<1>5. Context.slot = Chain.slot /\ Context.costModels = Chain.costModels
  BY <1>1, <1>2 DEF FetchedAsAsked, FirstAnswers, Answered, Others
<1>6. NecessaryAccounts(tx) \cap Context.accounts = NecessaryAccounts(tx) \cap Chain.accounts
  BY <1>1, <1>2 DEF FetchedAsAsked, AccountsFetched, Others
<1>7. Voters(tx, "pool") \cap Context.pools = Voters(tx, "pool") \cap Chain.pools
  <2>1. NecessaryPools(tx) \cap fetched.pools = NecessaryPools(tx) \cap RegisteredPools
    BY <1>1 DEF FetchedAsAsked, PoolsFetched, Out
  <2>2. NecessaryPools(tx) \cap RegisteredPools = NecessaryPools(tx) \cap Chain.pools
    BY DEF Misjudged
  <2>3. Context.pools = fetched.pools
    BY <1>2 DEF Others
  <2> QED
    BY <1>3, <2>1, <2>2, <2>3
<1>8. Voters(tx, "drep") \cap Context.dreps = Voters(tx, "drep") \cap Chain.dreps
  <2>1. AskedDReps \cap fetched.dreps = AskedDReps \cap Chain.dreps
    BY <1>1 DEF FetchedAsAsked, DRepsFetched, Out
  <2>2. Context.dreps = fetched.dreps
    BY <1>2 DEF Others
  <2> QED
    BY <1>3, <2>1, <2>2
<1>9. NecessaryActions(tx) \cap DOMAIN Context.actions = NecessaryActions(tx) \cap DOMAIN Chain.actions
      /\ \A x \in NecessaryActions(tx) \cap DOMAIN Context.actions : Context.actions[x] = Chain.actions[x]
  <2>1. Context.actions = Restrict(Chain.actions, NecessaryActions(tx) \cap DOMAIN Chain.actions)
    BY <1>1, <1>2 DEF FetchedAsAsked, FirstAnswers, Answered, Others
  <2> QED
    BY <2>1 DEF Restrict
<1>10. ASSUME provider = "koios" PROVE AgreeOnRest(tx, Context, Chain)
  <2>1. Context.constitution = Chain.constitution /\ Context.committee = Named_Seats(Chain.committee)
    BY <1>1, <1>2, <1>10 DEF FetchedAsAsked, FirstAnswers, Answered, Others
  <2>2. ASSUME NEW hot \in Voters(tx, "committee") PROVE Seated(hot, Context) = Seated(hot, Chain)
    BY <1>3, <2>1, <2>2 DEF Seated, Named_Seats
  <2> QED
    BY <2>1, <2>2 DEF AgreeOnRest
<1> QED
  BY <1>4, <1>5, <1>6, <1>7, <1>8, <1>9, <1>10 DEF Agree

\* So the verdict is the one the chain would lead to.
LEMMA QuietInvGivesQuietFetch ==
  ASSUME QuietInv PROVE QuietFetch
<1> SUFFICES ASSUME Fetched, calm, Misjudged = {} PROVE Told(Verdict, Validated(tx, Chain))
  BY DEF QuietFetch
<1>1. Quiet /\ result # <<>>
  BY DEF Fetched, Quiet, Fetching
<1>2. stage = "validate" /\ result = <<Validated(tx, Context)>>
  BY <1>1 DEF QuietInv, FetchedAsAsked, Judgement
<1>3. Verdict = Validated(tx, Context)
  BY <1>2 DEF Verdict
<1>4. Agree(tx, Context, Chain) /\ (provider = "koios" => AgreeOnRest(tx, Context, Chain))
  BY <1>1, <1>2, ContextAgrees
<1>5. CASE provider = "koios"
  <2>1. \A v \in Range(tx.votes) : IsVote(v)
    BY <1>1 DEF QuietInv, FetchOK, CallOK, Quiet
  <2>2. Validated(tx, Context) = Validated(tx, Chain)
    BY <1>4, <1>5, <2>1, NecessaryDataIsEnough
  <2> QED
    BY <1>3, <1>5, <2>2 DEF Told
<1>6. CASE provider # "koios"
  <2>1. /\ Validated(tx, Context).refused = Validated(tx, Chain).refused
        /\ Validated(tx, Context).warnings = Validated(tx, Chain).warnings
        /\ Names(Differ(Validated(tx, Context).errors, Validated(tx, Chain).errors)) \subseteq Untold
    BY <1>4, RestDecidesLittle
  <2> QED
    BY <1>3, <1>6, <2>1, Zenon DEF Told, Differ, Untold
<1> QED
  BY <1>5, <1>6

\* On a chain that stands still, with every request answered, validateTransactionOnline
\* comes to the verdict the whole chain would lead to, whatever the chain and the
\* transaction; from Blockfrost, but for what the committee and the constitution decide.
THEOREM FetchesAreEnough == Spec => []QuietFetch
<1>1. Init => QuietInv
  BY QuietStarts
<1>2. QuietInv /\ [Next]_vars => QuietInv'
  BY QuietKept
<1>3. QuietInv => QuietFetch
  BY QuietInvGivesQuietFetch
<1> QED
  BY <1>1, <1>2, <1>3, PTL DEF Spec

\* ---- the UTxOs are never older than the slot ----

Onwards ==
  \A i, j \in DOMAIN chains :
    i <= j => \A r \in DOMAIN chains[i].utxo \cap DOMAIN chains[j].utxo :
      chains[i].utxo[r].spent => chains[j].utxo[r].spent
ReadFrom(list, first, last, r, spent) ==
  \E k \in first..last : r \in DOMAIN list[k].utxo /\ spent = list[k].utxo[r].spent
TipFirst ==
  /\ Onwards
  /\ atTip \in Nat \ {0} /\ atTip <= now
  /\ stage = "together" => DOMAIN fetched.utxo = {}
  /\ \A r \in DOMAIN fetched.utxo : ReadFrom(chains, atTip, now, r, fetched.utxo[r].spent)
TipInv == FetchOK /\ (Fetching => TipFirst)

\* At first nothing is read.
LEMMA TipStarts ==
  ASSUME Init PROVE TipInv
<1>1. FetchOK
  BY FetchStarts
<1>2. ASSUME NEW f \in Fetches, chains = f.chains, fetched = Blank PROVE TipFirst
  <2>1. Onwards
    BY <1>2, SpentStaysSpent DEF Onwards
  <2>2. now = 1 /\ atTip = 1 /\ DOMAIN fetched.utxo = {}
    BY <1>2 DEF Init, Blank
  <2> QED
    BY <2>1, <2>2 DEF TipFirst
<1>3. Fetching => TipFirst
  BY <1>2 DEF Init, Fetching
<1> QED
  BY <1>1, <1>3 DEF TipInv

\* The chain only moves on, and the tip's answer alone moves the mark.
LEMMA MarkKept ==
  ASSUME [Next]_vars, ~TipAnswered PROVE atTip' = atTip
  BY DEF Next, vars, NextStage, ParamsAnswered, CommitteeAnswered, ActionsAnswered,
         ConstitutionAnswered, RequestCaught, RequestRejected, UtxosAnswered, ScriptsAnswered,
         AccountAnswered, PoolsAnswered, DRepsAnswered, Validate, ChainMoves

\* Only the answers about UTxOs and scripts touch the UTxOs.
LEMMA UtxosKept ==
  ASSUME FetchOK, Fetching, [Next]_vars, ~UtxosAnswered, ~ScriptsAnswered
  PROVE  fetched'.utxo = fetched.utxo
<1>1. IsContext(fetched)
  BY DEF FetchOK
<1>2. ASSUME NEW v, PartsSet(v) PROVE fetched'.utxo = fetched.utxo
  BY <1>1, <1>2 DEF PartsSet, IsContext
<1>3. fetched' = fetched \/ \E v : PartsSet(v)
  BY StepsOfContext, Zenon
<1>4. ASSUME fetched' = fetched PROVE fetched'.utxo = fetched.utxo
  BY <1>4
<1> QED
  BY <1>2, <1>3, <1>4, Zenon

\* Every step keeps the UTxOs younger than the slot.
LEMMA TipKept ==
  ASSUME TipInv, [Next]_vars PROVE TipInv'
<1>1. FetchOK /\ FetchOK'
  BY FetchKept DEF TipInv
<1>2. ASSUME Fetching' PROVE TipFirst'
  <2>1. Fetching
    BY <1>2 DEF Fetching, Next, vars, call, NextStage, TipAnswered, ParamsAnswered, CommitteeAnswered, ActionsAnswered,
       ConstitutionAnswered, Answer, StageDone, RequestCaught, RequestRejected, UtxosAnswered, ScriptsAnswered,
       AccountAnswered, PoolsAnswered, DRepsAnswered, Validate, ChainMoves
  <2>2. TipFirst
    BY <2>1 DEF TipInv
  <2>3. /\ chains' = chains /\ now' \in DOMAIN chains /\ (stage' = stage \/ Follows(stage, stage'))
        /\ ChainMoves \/ now' = now
    <3>1. /\ UNCHANGED call /\ now' \in DOMAIN chains
          /\ stage' = stage \/ (Follows(stage, stage') /\ pending = {})
          /\ ChainMoves \/ now' = now
      BY <1>1, <2>1, CallKept, Zenon
    <3> QED
      BY <3>1 DEF call
  <2>4. Onwards'
    BY <2>2, <2>3 DEF TipFirst, Onwards
  <2>5. now \in Nat /\ now' \in Nat /\ now <= now'
    <3>1. now \in 1..Len(chains) /\ Len(chains) \in Nat
      BY <1>1, <2>1 DEF FetchOK, CallOK
    <3>2. now' = now \/ now' = now + 1
      BY <2>3 DEF ChainMoves
    <3> QED
      BY <3>1, <3>2
  <2>6. ASSUME atTip' = atTip, NEW r, NEW spent, ReadFrom(chains, atTip, now, r, spent) PROVE ReadFrom(chains', atTip', now', r, spent)
    <3>1. PICK k \in atTip..now : r \in DOMAIN chains[k].utxo /\ spent = chains[k].utxo[r].spent
      BY <2>6 DEF ReadFrom
    <3>2. k \in atTip'..now'
      BY <2>2, <2>5, <2>6, <3>1 DEF TipFirst
    <3> QED
      BY <2>3, <3>1, <3>2 DEF ReadFrom
  <2>7. CASE TipAnswered
    <3>1. stage = "together" /\ stage' = stage /\ atTip' = now /\ now' = now
      BY <2>7 DEF TipAnswered, Answer, StageDone
    <3>2. fetched'.utxo = fetched.utxo
      BY <1>1, <2>1, <3>1, UtxosKept DEF UtxosAnswered, ScriptsAnswered
    <3> QED
      BY <2>2, <2>4, <2>5, <3>1, <3>2 DEF TipFirst
  <2>8. CASE UtxosAnswered
    <3>1. PICK refs, raw, dropped : fetched' = [fetched EXCEPT !.utxo = WithRead(fetched.utxo, refs, raw, dropped)]
      BY <2>8, UtxosReadIn, Zenon
    <3>2. fetched'.utxo = WithRead(fetched.utxo, refs, raw, dropped)
      BY <1>1, <2>1, <3>1 DEF FetchOK, IsContext
    <3>3. Added(fetched'.utxo, refs, raw, dropped)
      BY <1>1, <2>1, <3>2, UtxosAdded, Zenon
    <3>4. stage = "utxos" /\ stage' = stage /\ atTip' = atTip /\ now' = now
      BY <2>8 DEF UtxosAnswered, StageDone
    <3>5. ASSUME NEW r \in DOMAIN fetched'.utxo PROVE ReadFrom(chains', atTip', now', r, fetched'.utxo[r].spent)
      <4>1. CASE r \in Known(refs, Chain)
        <5>1. fetched'.utxo[r].spent = chains[now].utxo[r].spent /\ r \in DOMAIN chains[now].utxo
          BY <3>3, <4>1 DEF Added, Chain, Known
        <5>2. now' \in atTip'..now'
          BY <2>2, <2>5, <3>4 DEF TipFirst
        <5> QED
          BY <2>3, <3>4, <5>1, <5>2 DEF ReadFrom
      <4>2. CASE r \notin Known(refs, Chain)
        <5>1. r \in DOMAIN fetched.utxo /\ fetched'.utxo[r] = fetched.utxo[r]
          BY <3>3, <3>5, <4>2 DEF Added
        <5>2. ReadFrom(chains, atTip, now, r, fetched.utxo[r].spent)
          BY <2>2, <5>1 DEF TipFirst
        <5> QED
          BY <2>3, <3>4, <5>1, <5>2 DEF ReadFrom
      <4> QED
        BY <4>1, <4>2
    <3> QED
      BY <2>2, <2>4, <2>5, <3>4, <3>5 DEF TipFirst
  <2>9. CASE ScriptsAnswered
    <3>1. PICK lost : fetched' = [fetched EXCEPT !.utxo = WithoutScripts(fetched.utxo, lost)]
      BY <2>9, ScriptsReadIn, Zenon
    <3>2. fetched'.utxo = WithoutScripts(fetched.utxo, lost)
      BY <1>1, <2>1, <3>1 DEF FetchOK, IsContext
    <3>3. /\ DOMAIN fetched'.utxo = DOMAIN fetched.utxo
          /\ \A r \in DOMAIN fetched.utxo : fetched'.utxo[r].spent = fetched.utxo[r].spent
      BY <1>1, <2>1, <3>2, ScriptsLost
    <3>4. stage = "scripts" /\ stage' = stage /\ atTip' = atTip /\ now' = now
      BY <2>9 DEF ScriptsAnswered, StageDone
    <3> QED
      BY <2>2, <2>3, <2>4, <2>5, <3>3, <3>4 DEF TipFirst, ReadFrom
  <2>10. CASE ~TipAnswered /\ ~UtxosAnswered /\ ~ScriptsAnswered
    <3>1. atTip' = atTip /\ fetched'.utxo = fetched.utxo
      BY <1>1, <2>1, <2>10, MarkKept, UtxosKept
    <3>2. stage' = "together" => stage = "together"
      BY <2>3 DEF Follows
    <3>3. \A r \in DOMAIN fetched'.utxo : ReadFrom(chains', atTip', now', r, fetched'.utxo[r].spent)
      BY <2>2, <2>6, <3>1 DEF TipFirst
    <3> QED
      BY <2>2, <2>4, <2>5, <3>1, <3>2, <3>3 DEF TipFirst
  <2> QED
    BY <2>7, <2>8, <2>9, <2>10
<1> QED
  BY <1>1, <1>2 DEF TipInv

\* What was unspent later was unspent then: nothing spent comes back.
LEMMA TipInvGivesUnspent ==
  ASSUME TipInv PROVE UnspentAtTip
<1> SUFFICES ASSUME Fetched, NEW r \in DOMAIN fetched.utxo, ~fetched.utxo[r].spent,
                    r \in DOMAIN chains[atTip].utxo
             PROVE  ~chains[atTip].utxo[r].spent
  BY DEF UnspentAtTip
<1>1. TipFirst /\ FetchOK /\ Fetching
  BY DEF TipInv, Fetched, Fetching
<1>2. PICK k \in atTip..now : r \in DOMAIN chains[k].utxo /\ fetched.utxo[r].spent = chains[k].utxo[r].spent
  BY <1>1 DEF TipFirst, ReadFrom
<1>3. k \in DOMAIN chains /\ atTip \in DOMAIN chains /\ atTip <= k
  <2>1. now \in 1..Len(chains) /\ DOMAIN chains = 1..Len(chains) /\ Len(chains) \in Nat
    BY <1>1 DEF FetchOK, CallOK
  <2>2. atTip \in Nat \ {0} /\ atTip <= now
    BY <1>1 DEF TipFirst
  <2> QED
    BY <1>2, <2>1, <2>2
<1> QED
  BY <1>1, <1>2, <1>3 DEF TipFirst, Onwards

\* Whatever moves or fails, no UTxO of a fetch was already spent when the slot it is
\* judged at was read.
THEOREM FetchedIsUnspent == Spec => []UnspentAtTip
<1>1. Init => TipInv
  BY TipStarts
<1>2. TipInv /\ [Next]_vars => TipInv'
  BY TipKept
<1>3. TipInv => UnspentAtTip
  BY TipInvGivesUnspent
<1> QED
  BY <1>1, <1>2, <1>3, PTL DEF Spec

\* ---- what a context that shows less can hide ----

\* An output as it is, but for its script: that may be lost, or not decode.
SameButScript(o, p) ==
  /\ IsRead(o) /\ IsRead(p)
  /\ o.script \in {p.script, None, Garbled}
  /\ o.owner = p.owner /\ o.coin = p.coin /\ o.assets = p.assets /\ o.datum = p.datum
  /\ o.inline = p.inline /\ o.deep = p.deep /\ o.spent = p.spent
\* A context that shows a transaction no more than another does, and its UTxOs but for
\* their scripts; of the pools and the constitution it may show anything.
ShowsLess(t, c, w) ==
  /\ Known(Named(t), c) = Known(Named(t), w)
  /\ \A r \in Known(Named(t), c) : SameButScript(c.utxo[r], w.utxo[r])
  /\ c.slot = w.slot
  /\ c.costModels = w.costModels
  /\ c.accounts \subseteq w.accounts
  /\ c.dreps \subseteq w.dreps
  /\ NecessaryActions(t) \cap DOMAIN c.actions \subseteq DOMAIN w.actions
  /\ \A x \in NecessaryActions(t) \cap DOMAIN c.actions : c.actions[x] = w.actions[x]
  /\ \A hot \in Voters(t, "committee") : Seated(hot, c) = Seated(hot, w) \/ Seated(hot, c) = {}
LostScripts(t, c, w) == {r \in Known(Named(t), c) : c.utxo[r].script # w.utxo[r].script}
\* What is missing of the committee and decides on a vote; and who of the pools is taken
\* for registered.
LostSeats(t, c, w) == {hot \in Voters(t, "committee") \cap HotInTx(t) : Seated(hot, c) # Seated(hot, w)}
TakenPools(t, c, w) == Voters(t, "pool") \cap (c.pools \ w.pools)
\* The names of the errors it can hide.
Hidden(t, c, w) ==
  (IF c.constitution = w.constitution THEN {} ELSE {"InvalidConstitutionPolicyHash"})
  \cup (IF LostScripts(t, c, w) = {} THEN {} ELSE {"FeeTooSmallUTxO", "RefScriptsSizeTooBig", "BuildTxContextError"})
  \cup (IF LostSeats(t, c, w) = {} THEN {} ELSE {"InvalidCommitteeVote"})
  \cup (IF TakenPools(t, c, w) = {} THEN {} ELSE {"VoterDoNotExist"})

\* No error, of nothing.
LEMMA NoErrors ==
  ASSUME NEW name, NEW set
  PROVE  Errors(name, set) = {} <=> set = {}
  BY DEF Errors

\* Any of its UTxOs.
LEMMA UtxosShown ==
  ASSUME NEW t, NEW c, NEW w, ShowsLess(t, c, w), NEW refs, refs \subseteq Named(t)
  PROVE  /\ Known(refs, c) = Known(refs, w)
         /\ \A r \in Known(refs, c) : SameButScript(c.utxo[r], w.utxo[r])
         /\ Known(refs, c) \subseteq refs
  BY DEF ShowsLess, Known

\* A script that is shown is there, unless it does not decode.
LEMMA ScriptRefsShown ==
  ASSUME NEW t, NEW c, NEW w, ShowsLess(t, c, w), NEW refs, refs \subseteq Named(t)
  PROVE  ScriptRefs(refs, c) \ {Garbled} \subseteq ScriptRefs(refs, w)
<1>1. /\ Known(refs, c) = Known(refs, w)
      /\ \A r \in Known(refs, c) : SameButScript(c.utxo[r], w.utxo[r])
  BY UtxosShown
<1>2. \A r \in Known(refs, c) : c.utxo[r].script \notin {None, Garbled} => c.utxo[r].script = w.utxo[r].script
  BY <1>1 DEF SameButScript
<1> QED
  BY <1>1, <1>2 DEF ScriptRefs

\* The scripts at hand are all there.
LEMMA SourcesShown ==
  ASSUME NEW t, NEW c, NEW w, ShowsLess(t, c, w)
  PROVE  /\ Offered(t, c) \subseteq Offered(t, w)
         /\ Sources(t, c) \subseteq Sources(t, w)
         /\ FromWitnessSet(t, w) \subseteq FromWitnessSet(t, c)
<1>1. ScriptRefs(t.inputs \cup t.references, c) \ {Garbled} \subseteq ScriptRefs(t.inputs \cup t.references, w)
  BY ScriptRefsShown, PartsAreNamed
<1>2. Offered(t, c) \subseteq Offered(t, w)
  BY <1>1 DEF Offered
<1> QED
  BY <1>2 DEF Sources, FromWitnessSet

\* What is required does not depend on the scripts shown.
LEMMA RequiredShown ==
  ASSUME NEW t, NEW c, NEW w, ShowsLess(t, c, w)
  PROVE  Required(t, c) = Required(t, w) /\ RequiredKeys(t, c) = RequiredKeys(t, w)
<1>1. /\ Known(t.inputs, c) = Known(t.inputs, w)
      /\ \A r \in Known(t.inputs, c) : SameButScript(c.utxo[r], w.utxo[r])
  BY UtxosShown, PartsAreNamed
<1>2. \A r \in Known(t.inputs, c) : c.utxo[r].owner = w.utxo[r].owner /\ DatumHash(c.utxo[r]) = DatumHash(w.utxo[r])
  BY <1>1 DEF SameButScript, DatumHash
<1>3. InputScripts(t, c) = InputScripts(t, w)
  BY <1>1, <1>2 DEF InputScripts
<1> DEFINE refs == t.inputs \cup t.collateral
<1>4. /\ Known(refs, c) = Known(refs, w)
      /\ \A r \in Known(refs, c) : SameButScript(c.utxo[r], w.utxo[r])
  BY UtxosShown, PartsAreNamed
<1>5. \A r \in Known(refs, c) : c.utxo[r].owner = w.utxo[r].owner
  BY <1>4 DEF SameButScript
<1>6. Owners(t, c) = Owners(t, w)
  BY <1>4, <1>5 DEF Owners
<1> QED
  BY <1>3, <1>6 DEF Required, RequiredKeys

\* With none of them unknown, each is of the same kind.
LEMMA NothingUnknown ==
  ASSUME NEW t, NEW c, NEW w, ShowsLess(t, c, w), RequiredUnknown(t, c) = {}
  PROVE  /\ RequiredUnknown(t, w) = {}
         /\ RequiredNative(t, c) = RequiredNative(t, w)
         /\ RequiredPlutus(t, c) = RequiredPlutus(t, w)
         /\ {q.script : q \in RequiredNative(t, c)} \cap Examined(t, c)
              = {q.script : q \in RequiredNative(t, w)} \cap Examined(t, w)
<1>1. Required(t, c) = Required(t, w) /\ Sources(t, c) \subseteq Sources(t, w)
  BY RequiredShown, SourcesShown
<1>2. \A q \in Required(t, c) : q.script \in Sources(t, c) /\ q.script \in Sources(t, w)
  BY <1>1 DEF RequiredUnknown
<1>3. RequiredUnknown(t, w) = {}
  BY <1>1, <1>2 DEF RequiredUnknown
<1>4. RequiredNative(t, c) = RequiredNative(t, w)
  BY <1>1, <1>2 DEF RequiredNative
<1>5. RequiredPlutus(t, c) = RequiredPlutus(t, w)
  BY <1>1, <1>2 DEF RequiredPlutus
<1>6. \A q \in RequiredNative(t, c) : IsNative(q.script) /\ q.script \in Sources(t, c) /\ q.script \in Sources(t, w)
  BY <1>1, <1>2 DEF RequiredNative
<1>7. \A q \in RequiredNative(t, c) : q.script \in Examined(t, c) <=> q.script \in Examined(t, w)
  BY <1>6 DEF Examined
<1> QED
  BY <1>3, <1>4, <1>5, <1>7

\* With nothing wrong with the witnesses in the one, there is nothing in the other.
LEMMA WitnessesShown ==
  ASSUME NEW t, NEW c, NEW w, ShowsLess(t, c, w), WitnessErrors(t, c) = {}
  PROVE  WitnessErrors(t, w) = {} /\ RequiredUnknown(t, c) = {}
<1>1. Errors("MissingScriptWitnesses", {q.script : q \in RequiredUnknown(t, c)}) = {}
  BY DEF WitnessErrors
<1>2. RequiredUnknown(t, c) = {}
  <2>1. {q.script : q \in RequiredUnknown(t, c)} = {}
    BY <1>1, NoErrors, Zenon
  <2> QED
    BY <2>1
<1>3. /\ RequiredUnknown(t, w) = RequiredUnknown(t, c)
      /\ RequiredPlutus(t, c) = RequiredPlutus(t, w)
      /\ {q.script : q \in RequiredNative(t, c)} \cap Examined(t, c)
           = {q.script : q \in RequiredNative(t, w)} \cap Examined(t, w)
      /\ Required(t, c) = Required(t, w) /\ RequiredKeys(t, c) = RequiredKeys(t, w)
  BY <1>2, NothingUnknown, RequiredShown
<1>4. InvalidNative(t, c) = InvalidNative(t, w) /\ Candidates(t, c) = Candidates(t, w)
  BY <1>3, Zenon DEF InvalidNative, Candidates
<1>5. RequiredDatums(t, c) = RequiredDatums(t, w) /\ UsedVersions(t, c) = UsedVersions(t, w)
  BY <1>3, Zenon DEF RequiredDatums, UsedVersions
<1>6. ExtraneousDatums(t, c) = ExtraneousDatums(t, w) /\ ExpectedHash(t, c) = ExpectedHash(t, w)
  BY <1>5, Zenon DEF ExtraneousDatums, ExpectedHash
<1>7. Errors("ExtraneousScriptWitnesses", FromWitnessSet(t, c) \ {q.script : q \in Required(t, c)}) = {}
  BY DEF WitnessErrors
<1>8. FromWitnessSet(t, c) \ {q.script : q \in Required(t, c)} = {}
  BY <1>7, NoErrors
<1>9. FromWitnessSet(t, w) \ {q.script : q \in Required(t, w)} = FromWitnessSet(t, c) \ {q.script : q \in Required(t, c)}
  BY <1>3, <1>8, SourcesShown
<1>10. WitnessErrors(t, w) = WitnessErrors(t, c)
  BY <1>3, <1>4, <1>5, <1>6, <1>9, Zenon DEF WitnessErrors
<1> QED
  BY <1>2, <1>10

\* Nothing that collateral.rs looks at differs.
LEMMA CollateralShown ==
  ASSUME NEW t, NEW c, NEW w, ShowsLess(t, c, w)
  PROVE  CollateralErrors(t, c) = CollateralErrors(t, w)
<1>1. /\ Known(t.collateral, c) = Known(t.collateral, w)
      /\ \A r \in Known(t.collateral, c) : SameButScript(c.utxo[r], w.utxo[r])
  BY UtxosShown, PartsAreNamed
<1>2. \A r \in Known(t.collateral, c) : /\ c.utxo[r].coin = w.utxo[r].coin
                                       /\ c.utxo[r].assets = w.utxo[r].assets
                                       /\ c.utxo[r].owner = w.utxo[r].owner
  BY <1>1 DEF SameButScript
<1>3. Balance(t, c, "coin") = Balance(t, w, "coin")
  <2>1. [r \in Known(t.collateral, c) |-> c.utxo[r]["coin"]] = [r \in Known(t.collateral, w) |-> w.utxo[r]["coin"]]
    BY <1>1, <1>2
  <2>2. CollateralTotal(t, c, "coin") = CollateralTotal(t, w, "coin")
    BY <2>1, Zenon DEF CollateralTotal
  <2> QED
    BY <2>2, Zenon DEF Balance
<1>4. Balance(t, c, "assets") = Balance(t, w, "assets")
  <2>1. [r \in Known(t.collateral, c) |-> c.utxo[r]["assets"]] = [r \in Known(t.collateral, w) |-> w.utxo[r]["assets"]]
    BY <1>1, <1>2
  <2>2. CollateralTotal(t, c, "assets") = CollateralTotal(t, w, "assets")
    BY <2>1, Zenon DEF CollateralTotal
  <2> QED
    BY <2>2, Zenon DEF Balance
<1>5. CollateralAmount(t, c) = CollateralAmount(t, w)
  BY <1>3, Zenon DEF CollateralAmount
<1>6. {r \in Known(t.collateral, c) : c.utxo[r].assets # 0} = {r \in Known(t.collateral, w) : w.utxo[r].assets # 0}
  BY <1>1, <1>2
<1>7. {r \in Known(t.collateral, c) : c.utxo[r].owner \in Scripts}
        = {r \in Known(t.collateral, w) : w.utxo[r].owner \in Scripts}
  BY <1>1, <1>2
<1> QED
  BY <1>4, <1>5, <1>6, <1>7, Zenon DEF CollateralErrors

\* The scripts referred to weigh the same when none is lost.
LEMMA BytesShown ==
  ASSUME NEW t, NEW c, NEW w, ShowsLess(t, c, w), LostScripts(t, c, w) = {}
  PROVE  RefBytes(t, c) = RefBytes(t, w)
<1> DEFINE refs == t.inputs \cup t.references
<1>1. /\ Known(refs, c) = Known(refs, w)
      /\ \A r \in Known(refs, c) : SameButScript(c.utxo[r], w.utxo[r])
      /\ Known(refs, c) \subseteq refs /\ refs \subseteq Named(t)
  BY UtxosShown, PartsAreNamed
<1>2. \A r \in Known(refs, c) : c.utxo[r].script = w.utxo[r].script
  BY <1>1 DEF LostScripts, Known
<1>3. [r \in Known(refs, c) |-> RefSize[c.utxo[r].script]] = [r \in Known(refs, w) |-> RefSize[w.utxo[r].script]]
  BY <1>1, <1>2
<1> QED
  BY <1>3, Zenon DEF RefBytes

\* Of what fee.rs and transaction_limits.rs look at nothing else differs.
LEMMA LimitsShown ==
  ASSUME NEW t, NEW c, NEW w, ShowsLess(t, c, w), LimitErrors(t, c) = {}, FeeErrors(t, c) = {}
  PROVE  /\ Names(LimitErrors(t, w) \cup FeeErrors(t, w)) \subseteq {"FeeTooSmallUTxO", "RefScriptsSizeTooBig"}
         /\ LostScripts(t, c, w) = {} => LimitErrors(t, w) \cup FeeErrors(t, w) = {}
<1> DEFINE refs == t.inputs \cup t.collateral \cup t.references
           rest(ctx) == When(t.inputs = {}, "InputSetEmptyUTxO")
             \cup When(t.size > Params.maxSize, "MaxTxSizeUTxO")
             \cup When(TotalUnits(t) > Params.maxUnits, "ExUnitsTooBigUTxO")
             \cup When(Outside(t, ctx.slot), "OutsideValidityIntervalUTxO")
             \cup Errors("BadInputsUTxO", Spent(t.inputs \cup t.collateral \cup t.references, ctx))
             \cup Errors("ReferenceInputOverlapsWithInput", t.references \cap t.inputs)
           bytes(ctx) == When(RefBytes(t, ctx) > Params.maxRefs, "RefScriptsSizeTooBig")
<1>1. /\ Known(refs, c) = Known(refs, w)
      /\ \A r \in Known(refs, c) : SameButScript(c.utxo[r], w.utxo[r])
  BY UtxosShown, PartsAreNamed
<1>2. \A r \in Known(refs, c) : c.utxo[r].spent = w.utxo[r].spent
  BY <1>1 DEF SameButScript
<1>3. Spent(refs, c) = Spent(refs, w)
  BY <1>1, <1>2 DEF Spent, Known
<1>4. c.slot = w.slot
  BY DEF ShowsLess
<1>5. rest(c) = rest(w)
  BY <1>3, <1>4, Zenon
<1>6. LimitErrors(t, c) = rest(c) \cup bytes(c) /\ LimitErrors(t, w) = rest(w) \cup bytes(w)
  BY DEF LimitErrors
<1> HIDE DEF rest, bytes
<1>7. LimitErrors(t, w) = bytes(w) /\ bytes(c) = {}
  BY <1>5, <1>6
<1>8. Names(bytes(w) \cup FeeErrors(t, w)) \subseteq {"FeeTooSmallUTxO", "RefScriptsSizeTooBig"}
  BY DEF Names, bytes, FeeErrors, When
<1>9. ASSUME LostScripts(t, c, w) = {} PROVE bytes(w) = {} /\ FeeErrors(t, w) = {}
  <2>1. RefBytes(t, c) = RefBytes(t, w)
    BY <1>9, BytesShown
  <2>2. bytes(w) = bytes(c)
    BY <2>1, Zenon DEF bytes
  <2>3. MinFee(t, c) = MinFee(t, w)
    BY <2>1, Zenon DEF MinFee
  <2>4. FeeErrors(t, w) = FeeErrors(t, c)
    BY <2>3, Zenon DEF FeeErrors
  <2> QED
    BY <1>7, <2>2, <2>4
<1> QED
  BY <1>7, <1>8, <1>9

\* ---- governance, of less ----

\* Who votes is there in the other too; who has resigned is, unless the seats are lost.
LEMMA VotersShown ==
  ASSUME NEW t, NEW c, NEW w, ShowsLess(t, c, w), \A v \in Range(t.votes) : IsVote(v), VoterErrors(t, c) = {}
  PROVE  /\ Names(VoterErrors(t, w)) \subseteq {"VoterDoNotExist", "InvalidCommitteeVote"}
         /\ TakenPools(t, c, w) = {} => "VoterDoNotExist" \notin Names(VoterErrors(t, w))
         /\ LostSeats(t, c, w) = {} => "InvalidCommitteeVote" \notin Names(VoterErrors(t, w))
<1> DEFINE absent(ctx) == {v.cred : v \in {x \in Range(t.votes) : ~Exists(t, x, ctx)}}
           resigned(ctx) == {v.cred : v \in {x \in Range(t.votes) : Resigned(x, ctx)}}
<1>1. \A ctx : VoterErrors(t, ctx) = Errors("VoterDoNotExist", absent(ctx)) \cup Errors("InvalidCommitteeVote", resigned(ctx))
  BY Zenon DEF VoterErrors
<1>2. absent(c) = {} /\ resigned(c) = {}
  <2> HIDE DEF absent, resigned
  <2>1. Errors("VoterDoNotExist", absent(c)) = {} /\ Errors("InvalidCommitteeVote", resigned(c)) = {}
    BY <1>1
  <2> QED
    BY <2>1, NoErrors
<1>3. \A v \in Range(t.votes) : Exists(t, v, c) /\ ~Resigned(v, c)
  BY <1>2
<1>4. ASSUME TakenPools(t, c, w) = {}, NEW v \in Range(t.votes) PROVE Exists(t, v, w)
  <2>1. v.cred \in Voters(t, v.role) /\ Exists(t, v, c)
    BY <1>3 DEF Voters
  <2>2. CASE v.role = "drep"
    BY <2>1, <2>2 DEF Exists, ShowsLess
  <2>3. CASE v.role = "pool"
    BY <1>4, <2>1, <2>3 DEF Exists, TakenPools
  <2>4. CASE v.role = "committee"
    <3>1. Seated(v.cred, c) = Seated(v.cred, w) \/ Seated(v.cred, c) = {}
      BY <2>1, <2>4 DEF ShowsLess
    <3> QED
      BY <2>1, <2>4, <3>1 DEF Exists
  <2> QED
    BY <2>2, <2>3, <2>4 DEF IsVote
<1>5. ASSUME LostSeats(t, c, w) = {}, NEW v \in Range(t.votes) PROVE ~Resigned(v, w)
  <2> SUFFICES ASSUME v.role = "committee", NEW m \in Seated(v.cred, w), m.resigned PROVE FALSE
    BY DEF Resigned
  <2>1. v.cred \in Voters(t, "committee") /\ Exists(t, v, c) /\ ~Resigned(v, c)
    BY <1>3 DEF Voters
  <2>2. Seated(v.cred, c) # Seated(v.cred, w)
    BY <2>1 DEF Resigned
  <2>3. Seated(v.cred, c) = {}
    BY <2>1, <2>2 DEF ShowsLess
  <2>4. v.cred \in HotInTx(t)
    BY <2>1, <2>3 DEF Exists
  <2> QED
    BY <1>5, <2>1, <2>2, <2>4 DEF LostSeats
<1>6. TakenPools(t, c, w) = {} => absent(w) = {}
  BY <1>4
<1>7. LostSeats(t, c, w) = {} => resigned(w) = {}
  BY <1>5
<1> HIDE DEF absent, resigned
<1>8. \A e \in VoterErrors(t, w) : (e[1] = "VoterDoNotExist" /\ absent(w) # {}) \/ (e[1] = "InvalidCommitteeVote" /\ resigned(w) # {})
  <2> SUFFICES ASSUME NEW e \in VoterErrors(t, w)
               PROVE  (e[1] = "VoterDoNotExist" /\ absent(w) # {}) \/ (e[1] = "InvalidCommitteeVote" /\ resigned(w) # {})
    OBVIOUS
  <2>1. CASE e \in Errors("VoterDoNotExist", absent(w))
    BY <2>1, ErrorsOf, NoErrors
  <2>2. CASE e \in Errors("InvalidCommitteeVote", resigned(w))
    BY <2>2, ErrorsOf, NoErrors
  <2> QED
    BY <1>1, <2>1, <2>2
<1> QED
  BY <1>6, <1>7, <1>8 DEF Names

\* What is voted on is there in the other too, as the same.
LEMMA BallotsShown ==
  ASSUME NEW t, NEW c, NEW w, ShowsLess(t, c, w), BallotErrors(t, c) = {}
  PROVE  BallotErrors(t, w) = {}
<1> DEFINE unknown(ctx) == {p[2] : p \in Ballots(t) \ KnownBallots(t, ctx)}
           expired(ctx) == {p[2] : p \in {q \in KnownBallots(t, ctx) : ~ctx.actions[q[2]].active}}
           disallowed(ctx) == {p[2] : p \in {q \in KnownBallots(t, ctx) : Disallowed(q[1], ctx.actions[q[2]])}}
<1>1. \A ctx : BallotErrors(t, ctx) = Errors("GovActionsDoNotExist", unknown(ctx))
                  \cup Errors("VotingOnExpiredGovAction", expired(ctx)) \cup Errors("DisallowedVoters", disallowed(ctx))
  BY Zenon DEF BallotErrors
<1>2. unknown(c) = {} /\ expired(c) = {} /\ disallowed(c) = {}
  <2> HIDE DEF unknown, expired, disallowed
  <2>1. Errors("GovActionsDoNotExist", unknown(c)) = {} /\ Errors("VotingOnExpiredGovAction", expired(c)) = {}
        /\ Errors("DisallowedVoters", disallowed(c)) = {}
    BY <1>1
  <2> QED
    BY <2>1, NoErrors
<1>3. \A p \in Ballots(t) : p \in KnownBallots(t, c)
  BY <1>2
<1>4. ASSUME NEW p \in Ballots(t)
      PROVE  p \in KnownBallots(t, w) /\ c.actions[p[2]] = w.actions[p[2]]
  <2>1. p[2] \in NecessaryActions(t) \cap DOMAIN c.actions
    BY <1>3 DEF Ballots, KnownBallots
  <2> QED
    BY <2>1 DEF ShowsLess, KnownBallots
<1>5. \A p \in Ballots(t) : c.actions[p[2]].active /\ ~Disallowed(p[1], c.actions[p[2]])
  BY <1>2, <1>3
<1>6. unknown(w) = {}
  BY <1>4
<1>7. \A p \in KnownBallots(t, w) : p \in Ballots(t)
  BY DEF KnownBallots
<1>8. expired(w) = {}
  BY <1>4, <1>5, <1>7
<1>9. disallowed(w) = {}
  BY <1>4, <1>5, <1>7
<1> HIDE DEF unknown, expired, disallowed
<1> QED
  BY <1>1, <1>6, <1>8, <1>9, NoErrors

\* Proposals: their accounts and the actions before them are there, the guardrails may
\* be others.
LEMMA ProposalsShown ==
  ASSUME NEW t, NEW c, NEW w, ShowsLess(t, c, w), ProposalErrors(t, c) = {}
  PROVE  /\ PlainProposalErrors(t, w) = {}
         /\ Names(GuardrailErrors(t, w)) \subseteq {"InvalidConstitutionPolicyHash"}
         /\ c.constitution = w.constitution => GuardrailErrors(t, w) = {}
<1> DEFINE returns(ctx) == Errors("ProposalReturnAccountDoesNotExist", Returns(t) \ ctx.accounts)
           targets(ctx) == Errors("TreasuryWithdrawalReturnAccountsDoNotExist", Targets(t) \ ctx.accounts)
           lineage(ctx) == Errors("GovActionsDoNotExist", PreviousActions(t) \ DOMAIN ctx.actions)
           zero == When(\E p \in Treasury(t) : p.amount * Cardinality(p.targets) = 0, "ZeroTreasuryWithdrawals")
           seats == Errors("ConflictingCommitteeUpdate",
             UNION {p.add \cap p.remove : p \in {q \in Proposals(t) : q.kind = "UpdateCommitteeAction"}})
<1>1. \A ctx : PlainProposalErrors(t, ctx) = returns(ctx) \cup zero \cup targets(ctx) \cup seats \cup lineage(ctx)
  BY Zenon DEF PlainProposalErrors
<1>2. PlainProposalErrors(t, c) = {} /\ GuardrailErrors(t, c) = {}
  BY ProposalErrorsAre
<1>3. returns(c) = {} /\ zero = {} /\ targets(c) = {} /\ seats = {} /\ lineage(c) = {}
  <2> HIDE DEF returns, zero, targets, seats, lineage
  <2> QED
    BY <1>1, <1>2
<1>4. /\ Returns(t) \ c.accounts = {}
      /\ Targets(t) \ c.accounts = {}
      /\ PreviousActions(t) \ DOMAIN c.actions = {}
  BY <1>3, NoErrors
<1>5. /\ Returns(t) \ w.accounts = {}
      /\ Targets(t) \ w.accounts = {}
  BY <1>4 DEF ShowsLess
<1>6. PreviousActions(t) \ DOMAIN w.actions = {}
  BY <1>4 DEF ShowsLess, NecessaryActions
<1>7. returns(w) = {} /\ targets(w) = {} /\ lineage(w) = {}
  BY <1>5, <1>6, NoErrors
<1>8. PlainProposalErrors(t, w) = {}
  <2> HIDE DEF returns, zero, targets, seats, lineage
  <2> QED
    BY <1>1, <1>3, <1>7
<1>9. Names(GuardrailErrors(t, w)) \subseteq {"InvalidConstitutionPolicyHash"}
  BY ErrorsOf DEF GuardrailErrors, Names
<1>10. ASSUME c.constitution = w.constitution PROVE GuardrailErrors(t, w) = GuardrailErrors(t, c)
  BY <1>10, Zenon DEF GuardrailErrors, WrongGuardrail
<1> QED
  BY <1>2, <1>8, <1>9, <1>10

\* ---- phase 2, of less ----

\* The tags of redeemers, and the keys pools vote with.
WellTagged(t) == /\ \A d \in t.redeemers : d[1] \in Tags
                 /\ \A v \in Range(t.votes) : IsVote(v)

\* A script a redeemer points at is a required one.
LEMMA PointedRequired ==
  ASSUME NEW t, NEW c, WellTagged(t), Missed(t, c) = {},
         NEW d \in t.redeemers, NEW s \in Pointed(t, c, d[1], d[2]), s \in Scripts
  PROVE  \E q \in Required(t, c) : q.script = s
<1>0. \A tag, index, datum : Requires(tag, index, s, datum).script = s
  BY DEF Requires
<1>1. CASE d[1] = "spend"
  <2>1. PICK r \in NthOfSet(t.inputs, d[2]) : s = c.utxo[r].owner
    BY <1>1 DEF Pointed
  <2>2. r \in Known(t.inputs, c)
    BY <2>1, PartsAreNamed DEF NthOfSet, Missed, Known
  <2>3. Requires("spend", SortedIndex(t.inputs, r), s, DatumHash(c.utxo[r])) \in InputScripts(t, c)
    BY <2>1, <2>2 DEF InputScripts
  <2> QED
    BY <1>0, <2>3 DEF Required
<1>2. CASE d[1] = "reward"
  <2>1. s \in t.withdrawals
    BY <1>2 DEF Pointed, NthOfSet
  <2>2. Requires("reward", SortedIndex(t.withdrawals, s), s, None) \in WithdrawalScripts(t)
    BY <2>1 DEF WithdrawalScripts
  <2> QED
    BY <1>0, <2>2 DEF Required
<1>3. CASE d[1] = "mint"
  <2>1. PICK i \in DOMAIN t.mint : s = t.mint[i]
    BY <1>3 DEF Pointed, NthOfSet, Range
  <2>2. Requires("mint", i - 1, s, None) \in MintScripts(t)
    BY <2>1 DEF MintScripts
  <2> QED
    BY <1>0, <2>2 DEF Required
<1>4. CASE d[1] = "cert"
  <2>1. PICK i \in DOMAIN t.certs : t.certs[i].kind \notin PoolOwnKinds /\ s = t.certs[i].cred
    BY <1>4 DEF Pointed, NthListed
  <2>2. Requires("cert", i - 1, s, None) \in CertScripts(t)
    BY <2>1 DEF CertScripts
  <2> QED
    BY <1>0, <2>2 DEF Required
<1>5. CASE d[1] = "propose"
  <2>1. PICK i \in DOMAIN t.proposals : t.proposals[i].kind \in GuardedKinds /\ s = t.proposals[i].policy
    BY <1>5 DEF Pointed, NthListed
  <2>2. Requires("propose", i - 1, s, None) \in ProposalScripts(t)
    BY <2>1 DEF ProposalScripts
  <2> QED
    BY <1>0, <2>2 DEF Required
<1>6. CASE d[1] = "vote"
  <2>1. PICK i \in DOMAIN t.votes : s = t.votes[i].cred
    BY <1>6 DEF Pointed, NthListed
  <2>2. t.votes[i].role # "pool"
    <3>1. IsVote(t.votes[i])
      BY <2>1 DEF WellTagged, Range
    <3> QED
      BY <2>1, <3>1, HashesApart DEF IsVote
  <2>3. Requires("vote", i - 1, s, None) \in VoteScripts(t)
    BY <2>1, <2>2 DEF VoteScripts
  <2> QED
    BY <1>0, <2>3 DEF Required
<1> QED
  BY <1>1, <1>2, <1>3, <1>4, <1>5, <1>6 DEF WellTagged, Tags

\* What a redeemer points at does not depend on the scripts shown.
LEMMA PointedShown ==
  ASSUME NEW t, NEW c, NEW w, ShowsLess(t, c, w), Missed(t, c) = {}, NEW tag, NEW n
  PROVE  Pointed(t, c, tag, n) = Pointed(t, w, tag, n)
<1>1. \A r \in t.inputs : c.utxo[r].owner = w.utxo[r].owner
  <2>1. \A r \in t.inputs : r \in Known(Named(t), c)
    BY PartsAreNamed DEF Missed, Known
  <2> QED
    BY <2>1 DEF ShowsLess, SameButScript
<1>2. {c.utxo[r].owner : r \in NthOfSet(t.inputs, n)} = {w.utxo[r].owner : r \in NthOfSet(t.inputs, n)}
  BY <1>1 DEF NthOfSet
<1> QED
  BY <1>2, Zenon DEF Pointed

\* A redeemer's script is found in both.
LEMMA ScriptFoundInBoth ==
  ASSUME NEW t, NEW c, NEW w, ShowsLess(t, c, w), WellTagged(t), Missed(t, c) = {},
         RequiredUnknown(t, c) = {}, NEW d \in t.redeemers
  PROVE  FindScript(t, c, d) = FindScript(t, w, d)
<1>1. Pointed(t, c, d[1], d[2]) = Pointed(t, w, d[1], d[2])
  BY PointedShown
<1>2. ASSUME NEW s \in Pointed(t, c, d[1], d[2]), IsPlutus(s)
      PROVE  /\ s \in t.scripts \cup ScriptRefs(Named(t), c)
             /\ s \in t.scripts \cup ScriptRefs(Named(t), w)
  <2>1. s \in Scripts /\ s # Garbled
    BY <1>2, HashesApart DEF IsPlutus
  <2>2. PICK q \in Required(t, c) : q.script = s
    BY <1>2, <2>1, PointedRequired
  <2>3. s \in Sources(t, c)
    BY <2>2 DEF RequiredUnknown
  <2>4. ScriptRefs(t.inputs \cup t.references, c) \subseteq ScriptRefs(Named(t), c)
    BY PartsAreNamed DEF ScriptRefs, Known
  <2>5. s \in t.scripts \cup ScriptRefs(Named(t), c)
    BY <2>3, <2>4 DEF Sources, Offered
  <2>6. ScriptRefs(Named(t), c) \ {Garbled} \subseteq ScriptRefs(Named(t), w)
    BY ScriptRefsShown
  <2> QED
    BY <2>1, <2>5, <2>6
<1>3. \A r \in NthOfSet(t.inputs, d[2]) : \A s : HasDatum(t, c.utxo[r], s) <=> HasDatum(t, w.utxo[r], s)
  <2>1. ASSUME NEW r \in NthOfSet(t.inputs, d[2]), NEW s PROVE HasDatum(t, c.utxo[r], s) <=> HasDatum(t, w.utxo[r], s)
    <3>1. r \in Known(Named(t), c)
      BY PartsAreNamed DEF NthOfSet, Missed, Known
    <3>2. c.utxo[r].inline = w.utxo[r].inline /\ c.utxo[r].datum = w.utxo[r].datum
      BY <3>1 DEF ShowsLess, SameButScript
    <3> QED
      BY <3>2 DEF HasDatum, DatumHash
  <2> QED
    BY <2>1
<1> QED
  BY <1>1, <1>2, <1>3 DEF FindScript

\* Without a script lost the builder is given the same.
LEMMA BuilderGivenTheSame ==
  ASSUME NEW t, NEW c, NEW w, ShowsLess(t, c, w), Missed(t, c) = {}, LostScripts(t, c, w) = {}, NEW s
  PROVE  BuilderRefuses(t, c, s) <=> BuilderRefuses(t, w, s)
<1>1. \A r \in t.inputs \cup t.references : c.utxo[r] = w.utxo[r]
  <2> SUFFICES ASSUME NEW r \in t.inputs \cup t.references PROVE c.utxo[r] = w.utxo[r]
    OBVIOUS
  <2>1. r \in Known(Named(t), c)
    BY PartsAreNamed DEF Missed, Known
  <2>2. SameButScript(c.utxo[r], w.utxo[r]) /\ c.utxo[r].script = w.utxo[r].script
    BY <2>1 DEF ShowsLess, LostScripts
  <2> QED
    BY <2>2 DEF SameButScript, IsRead
<1>2. {c.utxo[r] : r \in t.inputs \cup t.references} = {w.utxo[r] : r \in t.inputs \cup t.references}
  BY <1>1
<1> QED
  BY <1>2, Zenon DEF BuilderRefuses

\* What runs to success in the one does in the other, unless its context cannot be built.
LEMMA RedeemersShown ==
  ASSUME NEW t, NEW c, NEW w, ShowsLess(t, c, w), WellTagged(t), Missed(t, c) = {},
         RequiredUnknown(t, c) = {}, NEW d \in t.redeemers, RedeemerError(t, c, d) = "none"
  PROVE  /\ RedeemerError(t, w, d) \in {"none", "BuildTxContextError"}
         /\ LostScripts(t, c, w) = {} => RedeemerError(t, w, d) = "none"
<1> DEFINE found == FindScript(t, c, d)
           languages == {Language[s] : s \in found}
<1>1. FindScript(t, w, d) = found /\ c.costModels = w.costModels
  BY ScriptFoundInBoth DEF ShowsLess
<1>2. RedeemerError(t, c, d) =
        IF WithdrawalRefusal(t) THEN "UnreadableTransactionField"
        ELSE IF TransactionRefusal(t) THEN "ContextRefused"
        ELSE IF found = {} THEN "ScriptLookupError"
        ELSE IF \E l \in languages : LanguageRefusal(t, l) THEN "ContextRefused"
        ELSE IF ~(languages \subseteq c.costModels) THEN "CostModelNotFound"
        ELSE IF \E s \in found : BuilderRefuses(t, c, s) THEN "BuildTxContextError"
        ELSE IF ~(found \subseteq Succeeds) THEN "MachineError"
        ELSE "none"
  BY Zenon DEF RedeemerError
<1>3. RedeemerError(t, w, d) =
        IF WithdrawalRefusal(t) THEN "UnreadableTransactionField"
        ELSE IF TransactionRefusal(t) THEN "ContextRefused"
        ELSE IF found = {} THEN "ScriptLookupError"
        ELSE IF \E l \in languages : LanguageRefusal(t, l) THEN "ContextRefused"
        ELSE IF ~(languages \subseteq c.costModels) THEN "CostModelNotFound"
        ELSE IF \E s \in found : BuilderRefuses(t, w, s) THEN "BuildTxContextError"
        ELSE IF ~(found \subseteq Succeeds) THEN "MachineError"
        ELSE "none"
  BY <1>1, Zenon DEF RedeemerError
<1> HIDE DEF found, languages
<1> DEFINE refuses(ctx) == \E s \in found : BuilderRefuses(t, ctx, s)
           unled == \E l \in languages : LanguageRefusal(t, l)
<1> HIDE DEF refuses, unled
<1>4. /\ ~WithdrawalRefusal(t) /\ ~TransactionRefusal(t) /\ found # {} /\ ~unled
      /\ languages \subseteq c.costModels /\ found \subseteq Succeeds /\ ~refuses(c)
  BY <1>2 DEF refuses, unled
<1>5. RedeemerError(t, w, d) = IF refuses(w) THEN "BuildTxContextError" ELSE "none"
  BY <1>3, <1>4 DEF refuses, unled
<1>6. ASSUME LostScripts(t, c, w) = {} PROVE ~refuses(w)
  BY <1>4, <1>6, BuilderGivenTheSame DEF refuses
<1> QED
  BY <1>5, <1>6

\* One redeemer's errors.
ErrorsOfOne(t, ctx, d) ==
  LET error == RedeemerError(t, ctx, d)
  IN Errors(error, IF error = "none" THEN {} ELSE {d}) \cup BudgetErrors(t, error)

\* All that phase 2 says.
LEMMA PhaseTwoShown ==
  ASSUME NEW t, NEW c, NEW w, ShowsLess(t, c, w), WellTagged(t),
         RequiredUnknown(t, c) = {}, ~PhaseTwoRefuses(t, c), PhaseTwoErrors(t, c) = {}
  PROVE  /\ Names(PhaseTwoErrors(t, w)) \subseteq {"BuildTxContextError"}
         /\ LostScripts(t, c, w) = {} => PhaseTwoErrors(t, w) = {}
<1>1. CASE NotExamined(t, w) # {}
  BY <1>1 DEF PhaseTwoErrors, Names
<1>2. CASE NotExamined(t, w) = {}
  <2>1. NotExamined(t, c) = {}
    <3> SUFFICES ASSUME NEW r \in NotExamined(t, c) PROVE r \in NotExamined(t, w)
      BY <1>2
    <3>1. r \in Known(Named(t), c) /\ r \in Known(Named(t), w) /\ SameButScript(c.utxo[r], w.utxo[r])
      BY DEF NotExamined, ShowsLess
    <3>2. None \notin Deep /\ Garbled \notin Deep
      BY HashesApart DEF None
    <3> QED
      BY <3>1, <3>2 DEF NotExamined, SameButScript
  <2>2. Missed(t, c) = {}
    BY <2>1 DEF PhaseTwoRefuses
  <2>3. /\ PhaseTwoErrors(t, c) = UNION {ErrorsOfOne(t, c, d) : d \in t.redeemers}
        /\ PhaseTwoErrors(t, w) = UNION {ErrorsOfOne(t, w, d) : d \in t.redeemers}
    BY <1>2, <2>1, Zenon DEF PhaseTwoErrors, ErrorsOfOne
  <2>4. ASSUME NEW d \in t.redeemers
        PROVE  /\ Names(ErrorsOfOne(t, w, d)) \subseteq {"BuildTxContextError"}
               /\ LostScripts(t, c, w) = {} => ErrorsOfOne(t, w, d) = {}
    <3>1. ErrorsOfOne(t, c, d) = {}
      BY <2>3
    <3>2. RedeemerError(t, c, d) = "none" /\ BudgetErrors(t, RedeemerError(t, c, d)) = {}
      <4>1. Errors(RedeemerError(t, c, d), IF RedeemerError(t, c, d) = "none" THEN {} ELSE {d}) = {}
            /\ BudgetErrors(t, RedeemerError(t, c, d)) = {}
        BY <3>1 DEF ErrorsOfOne
      <4> QED
        BY <4>1, NoErrors
    <3>3. /\ RedeemerError(t, w, d) \in {"none", "BuildTxContextError"}
          /\ LostScripts(t, c, w) = {} => RedeemerError(t, w, d) = "none"
      BY <2>2, <3>2, RedeemersShown
    <3>4. CASE RedeemerError(t, w, d) = "none"
      <4>1. ErrorsOfOne(t, w, d) = ErrorsOfOne(t, c, d)
        BY <3>2, <3>4, Zenon DEF ErrorsOfOne
      <4> QED
        BY <3>1, <4>1 DEF Names
    <3>5. CASE RedeemerError(t, w, d) = "BuildTxContextError"
      <4>1. BudgetErrors(t, "BuildTxContextError") = {}
        BY DEF BudgetErrors, Ran, When
      <4>2. ErrorsOfOne(t, w, d) = Errors("BuildTxContextError", {d})
        BY <3>5, <4>1 DEF ErrorsOfOne
      <4> QED
        BY <3>3, <3>5, <4>2, ErrorsOf DEF Names
    <3> QED
      BY <3>3, <3>4, <3>5
  <2> HIDE DEF ErrorsOfOne
  <2> QED
    BY <2>3, <2>4 DEF Names
<1> QED
  BY <1>1, <1>2

\* What is found valid in a context that shows less is, in one that shows all, refused or
\* found at fault only in what the lost scripts, the committee, the constitution and the
\* pools decide.
THEOREM LessShownHidesLittle ==
  ASSUME NEW t, NEW c, NEW w, ShowsLess(t, c, w), WellTagged(t),
         ~Validated(t, c).refused, Validated(t, c).errors = {}, ~Validated(t, w).refused
  PROVE  Names(Validated(t, w).errors) \subseteq Hidden(t, c, w)
<1>1. /\ ~Refused(t, c) /\ ~Refused(t, w)
      /\ PhaseOneErrors(t, c) = {} /\ PhaseTwoErrors(t, c) = {}
      /\ Validated(t, w).errors = PhaseOneErrors(t, w) \cup PhaseTwoErrors(t, w)
  BY DEF Validated, Refusal
<1>2. /\ FeeErrors(t, c) = {} /\ WitnessErrors(t, c) = {} /\ CollateralErrors(t, c) = {}
      /\ AuxiliaryErrors(t) = {} /\ OutputErrors(t) = {} /\ LimitErrors(t, c) = {} /\ NetworkErrors(t) = {}
      /\ VoteErrors(t, c) = {} /\ ProposalErrors(t, c) = {}
  BY <1>1 DEF PhaseOneErrors, GovernanceErrors
<1>3. VoterErrors(t, c) = {} /\ BallotErrors(t, c) = {}
  BY <1>2, VoteErrorsAre
<1>4. WitnessErrors(t, w) = {} /\ RequiredUnknown(t, c) = {} /\ CollateralErrors(t, w) = {}
  BY <1>2, WitnessesShown, CollateralShown
<1>5. BallotErrors(t, w) = {} /\ PlainProposalErrors(t, w) = {}
  BY <1>2, <1>3, BallotsShown, ProposalsShown
<1>6. Validated(t, w).errors = (LimitErrors(t, w) \cup FeeErrors(t, w)) \cup VoterErrors(t, w)
                               \cup GuardrailErrors(t, w) \cup PhaseTwoErrors(t, w)
  BY <1>1, <1>2, <1>4, <1>5, VoteErrorsAre, ProposalErrorsAre DEF PhaseOneErrors, GovernanceErrors
<1>7. /\ Names(LimitErrors(t, w) \cup FeeErrors(t, w)) \subseteq {"FeeTooSmallUTxO", "RefScriptsSizeTooBig"}
      /\ LostScripts(t, c, w) = {} => LimitErrors(t, w) \cup FeeErrors(t, w) = {}
  BY <1>2, LimitsShown
<1>8. Names(LimitErrors(t, w) \cup FeeErrors(t, w)) \subseteq Hidden(t, c, w)
  BY <1>7 DEF Hidden, Names
<1>9. /\ Names(VoterErrors(t, w)) \subseteq {"VoterDoNotExist", "InvalidCommitteeVote"}
      /\ TakenPools(t, c, w) = {} => "VoterDoNotExist" \notin Names(VoterErrors(t, w))
      /\ LostSeats(t, c, w) = {} => "InvalidCommitteeVote" \notin Names(VoterErrors(t, w))
  BY <1>3, VotersShown DEF WellTagged
<1>10. Names(VoterErrors(t, w)) \subseteq Hidden(t, c, w)
  BY <1>9 DEF Hidden
<1>11. Names(GuardrailErrors(t, w)) \subseteq Hidden(t, c, w)
  <2>1. /\ Names(GuardrailErrors(t, w)) \subseteq {"InvalidConstitutionPolicyHash"}
        /\ c.constitution = w.constitution => GuardrailErrors(t, w) = {}
    BY <1>2, ProposalsShown
  <2> QED
    BY <2>1 DEF Hidden, Names
<1>12. Names(PhaseTwoErrors(t, w)) \subseteq Hidden(t, c, w)
  <2>1. /\ Names(PhaseTwoErrors(t, w)) \subseteq {"BuildTxContextError"}
        /\ LostScripts(t, c, w) = {} => PhaseTwoErrors(t, w) = {}
    BY <1>1, <1>4, PhaseTwoShown DEF Refused
  <2> QED
    BY <2>1 DEF Hidden, Names
<1> QED
  BY <1>6, <1>8, <1>10, <1>11, <1>12 DEF Names

\* ---- what is fetched while the chain stands still, whatever fails ----

UtxosRead ==
  /\ DOMAIN fetched.utxo \subseteq Known(Refs, Chain)
  /\ \A r \in DOMAIN fetched.utxo : SameButScript(fetched.utxo[r], Chain.utxo[r])
  /\ stage = "utxos" => \A refs \in pending : refs \subseteq Refs
  /\ stage # "together" => \A r \in Known(Refs, Chain) : r \in DOMAIN fetched.utxo \/ Out("utxos", r)
RestRead ==
  /\ Answered("tip") => fetched.slot = Chain.slot
  /\ Answered("params") => fetched.costModels = Chain.costModels
  /\ fetched.committee \in {{}, Chain.committee}
  /\ DOMAIN fetched.actions \subseteq DOMAIN Chain.actions
  /\ \A x \in DOMAIN fetched.actions : fetched.actions[x] = Chain.actions[x]
  /\ fetched.accounts \subseteq Chain.accounts
  /\ fetched.pools \subseteq RegisteredPools
  /\ fetched.dreps \subseteq Chain.dreps
\* Once the promise is rejected nothing more happens.
Rejected == result = <<Refusal>> /\ pending = {}
Standing == Fetching /\ now = 1
LittleInv == FetchOK /\ (Standing => Rejected \/ (UtxosRead /\ RestRead /\ Judgement))

\* At first nothing is read.
LEMMA LittleStarts ==
  ASSUME Init PROVE LittleInv
<1>1. FetchOK
  BY FetchStarts
<1>2. ASSUME NEW f \in Fetches, fetched = Blank, stage = Stages[1], pending = Requests(Stages[1]), result = <<>>
      PROVE  UtxosRead /\ RestRead /\ Judgement
  <2>1. stage = "together" /\ pending = {"tip", "params", "committee", "actions", "constitution"}
    BY <1>2 DEF Stages, Requests
  <2>2. UtxosRead /\ Judgement
    BY <1>2, <2>1 DEF UtxosRead, Judgement, Blank
  <2>3. RestRead
    BY <1>2, <2>1 DEF RestRead, Answered, Blank
  <2> QED
    BY <2>2, <2>3
<1>3. Fetching => UtxosRead /\ RestRead /\ Judgement
  BY <1>2 DEF Init, Fetching
<1> QED
  BY <1>1, <1>3 DEF LittleInv, Standing

\* A rejection stands.
LEMMA RejectionStands ==
  ASSUME Rejected, [Next]_vars PROVE Rejected'
<1>1. result # <<>> /\ pending = {}
  BY DEF Rejected
<1>2. ~NextStage /\ ~Validate /\ ~ChainMoves /\ ~RequestRejected
  BY <1>1 DEF NextStage, Validate, ChainMoves, RequestRejected
<1>3. ~TipAnswered /\ ~ParamsAnswered /\ ~CommitteeAnswered /\ ~ActionsAnswered /\ ~ConstitutionAnswered
  BY <1>1 DEF TipAnswered, ParamsAnswered, CommitteeAnswered, ActionsAnswered, ConstitutionAnswered, Answer
<1>4. ~RequestCaught /\ ~UtxosAnswered /\ ~ScriptsAnswered /\ ~AccountAnswered /\ ~PoolsAnswered /\ ~DRepsAnswered
  BY <1>1 DEF RequestCaught, UtxosAnswered, ScriptsAnswered, AccountAnswered, PoolsAnswered, DRepsAnswered
<1>5. UNCHANGED vars
  BY <1>2, <1>3, <1>4 DEF Next
<1> QED
  BY <1>5 DEF vars, Rejected

\* A step that leaves the chain where it stands, without a rejection.
Steady ==
  /\ Fetching /\ now = 1 /\ Held
  /\ UtxosRead /\ RestRead /\ Judgement

\* What is given of a script is the script, or nothing, or does not decode.
LEMMA ScriptsGiven ==
  ASSUME NEW r, NEW raw, NEW dropped
  PROVE  ScriptGiven(r, raw, dropped) \in {Chain.utxo[r].script, None, Garbled}
  BY DEF ScriptGiven, Formatted

\* Read with a script of these an output is as it was.
LEMMA SameWithScript ==
  ASSUME NEW o, NEW p, SameButScript(o, p), NEW s \in {p.script, None, Garbled}
  PROVE  SameButScript([o EXCEPT !.script = s], p)
<1> DEFINE n == [owner |-> o.owner, coin |-> o.coin, assets |-> o.assets, datum |-> o.datum,
                 inline |-> o.inline, script |-> s, deep |-> o.deep, spent |-> o.spent]
<1>1. [o EXCEPT !.script = s] = n
  BY DEF SameButScript, IsRead
<1>2. SameButScript(n, p)
  BY DEF SameButScript, IsRead
<1> QED
  BY <1>1, <1>2

\* Steps that leave the UTxOs alone keep them as read.
LEMMA UtxosReadKept ==
  ASSUME Steady, fetched'.utxo = fetched.utxo, stage' = stage, stage # "utxos" \/ pending' = pending
  PROVE  UtxosRead'
<1>1. chains' = chains /\ now' = now /\ tx' = tx
  BY DEF Steady, Held
<1>2. Chain' = Chain /\ Refs' = Refs
  BY <1>1 DEF Chain, Refs
<1>3. UtxosRead
  BY DEF Steady
<1> QED
  BY <1>1, <1>2, <1>3 DEF UtxosRead, Out

\* A verdict not yet given need not be the one on what was fetched.
LEMMA NoVerdict ==
  ASSUME Steady, result' = result, stage # "validate", stage' = stage
  PROVE  Judgement'
<1>1. result = <<>>
  BY DEF Steady, Judgement
<1> QED
  BY <1>1 DEF Judgement

\* The first answers, and their failures.
LEMMA FirstAnswersKeepLittle ==
  ASSUME FetchOK, Steady,
         TipAnswered \/ ParamsAnswered \/ CommitteeAnswered \/ ActionsAnswered \/ ConstitutionAnswered \/ RequestCaught
  PROVE  UtxosRead' /\ RestRead' /\ Judgement'
<1>1. IsContext(fetched)
  BY DEF FetchOK, Steady
<1>2. RestRead /\ Chain' = Chain /\ RegisteredPools' = RegisteredPools /\ tx' = tx
  BY DEF Steady, Held, Chain, RegisteredPools
<1>3. ASSUME NEW r, stage = "together", stage' = stage, pending' = pending \ {r}, result' = result,
             fetched'.utxo = fetched.utxo, RestRead'
      PROVE  UtxosRead' /\ RestRead' /\ Judgement'
  BY <1>3, UtxosReadKept, NoVerdict
<1>4. CASE TipAnswered
  <2>1. /\ fetched' = [fetched EXCEPT !.slot = Chain.slot] /\ pending' = pending \ {"tip"}
        /\ stage = "together" /\ stage' = stage /\ result' = result
    BY <1>4 DEF TipAnswered, Answer, StageDone
  <2>2. Others(fetched, fetched', "slot") /\ fetched'.slot = Chain.slot
    BY <1>1, <2>1 DEF IsContext, Others
  <2>3. RestRead'
    BY <1>2, <2>1, <2>2 DEF RestRead, Answered, Others
  <2> QED
    BY <1>3, <2>1, <2>2, <2>3 DEF Others
<1>5. CASE ParamsAnswered
  <2>1. /\ fetched' = [fetched EXCEPT !.costModels = Chain.costModels] /\ pending' = pending \ {"params"}
        /\ stage = "together" /\ stage' = stage /\ result' = result
    BY <1>5 DEF ParamsAnswered, Answer, StageDone
  <2>2. Others(fetched, fetched', "costModels") /\ fetched'.costModels = Chain.costModels
    BY <1>1, <2>1 DEF IsContext, Others
  <2>3. RestRead'
    BY <1>2, <2>1, <2>2 DEF RestRead, Answered, Others
  <2> QED
    BY <1>3, <2>1, <2>2, <2>3 DEF Others
<1>6. ASSUME NEW given \in {{}, Chain.committee}, NEW r, r \in {"committee"},
             fetched' = [fetched EXCEPT !.committee = given], pending' = pending \ {r},
             stage = "together", stage' = stage, result' = result
      PROVE  UtxosRead' /\ RestRead' /\ Judgement'
  <2>1. Others(fetched, fetched', "committee") /\ fetched'.committee = given
    BY <1>1, <1>6 DEF IsContext, Others
  <2>2. RestRead'
    BY <1>2, <1>6, <2>1 DEF RestRead, Answered, Others
  <2> QED
    BY <1>3, <1>6, <2>1, <2>2 DEF Others
<1>7. ASSUME NEW given, DOMAIN given \subseteq DOMAIN Chain.actions, \A x \in DOMAIN given : given[x] = Chain.actions[x],
             NEW r, r \in {"actions"}, fetched' = [fetched EXCEPT !.actions = given], pending' = pending \ {r},
             stage = "together", stage' = stage, result' = result
      PROVE  UtxosRead' /\ RestRead' /\ Judgement'
  <2>1. Others(fetched, fetched', "actions") /\ fetched'.actions = given
    BY <1>1, <1>7 DEF IsContext, Others
  <2>2. RestRead'
    BY <1>2, <1>7, <2>1 DEF RestRead, Answered, Others
  <2> QED
    BY <1>3, <1>7, <2>1, <2>2 DEF Others
<1>8. ASSUME NEW given, NEW r, r \in {"constitution"},
             fetched' = [fetched EXCEPT !.constitution = given], pending' = pending \ {r},
             stage = "together", stage' = stage, result' = result
      PROVE  UtxosRead' /\ RestRead' /\ Judgement'
  <2>1. Others(fetched, fetched', "constitution")
    BY <1>1, <1>8 DEF IsContext, Others
  <2>2. RestRead'
    BY <1>2, <1>8, <2>1 DEF RestRead, Answered, Others
  <2> QED
    BY <1>3, <1>8, <2>1, <2>2 DEF Others
<1>9. CASE CommitteeAnswered
  <2> DEFINE given == IF provider = "koios" THEN Chain.committee ELSE {}
  <2>1. /\ fetched' = [fetched EXCEPT !.committee = given] /\ pending' = pending \ {"committee"}
        /\ stage = "together" /\ stage' = stage /\ result' = result
    BY <1>9 DEF CommitteeAnswered, Answer, StageDone
  <2>2. given \in {{}, Chain.committee}
    OBVIOUS
  <2> QED
    BY <1>6, <2>1, <2>2
<1>10. CASE ActionsAnswered
  <2> DEFINE given == Restrict(Chain.actions, NecessaryActions(tx) \cap DOMAIN Chain.actions)
  <2>1. /\ fetched' = [fetched EXCEPT !.actions = given] /\ pending' = pending \ {"actions"}
        /\ stage = "together" /\ stage' = stage /\ result' = result
    BY <1>10 DEF ActionsAnswered, Answer, StageDone
  <2>2. DOMAIN given \subseteq DOMAIN Chain.actions /\ \A x \in DOMAIN given : given[x] = Chain.actions[x]
    BY DEF Restrict
  <2> HIDE DEF given
  <2> QED
    BY <1>7, <2>1, <2>2
<1>11. CASE ConstitutionAnswered
  <2> DEFINE given == IF provider = "koios" THEN Chain.constitution ELSE Constitution(None)
  <2>1. /\ fetched' = [fetched EXCEPT !.constitution = given] /\ pending' = pending \ {"constitution"}
        /\ stage = "together" /\ stage' = stage /\ result' = result
    BY <1>11 DEF ConstitutionAnswered, Answer, StageDone
  <2> HIDE DEF given
  <2> QED
    BY <1>8, <2>1
<1>12. CASE RequestCaught
  <2>1. PICK r \in pending \cap Caught : StageDone(r) /\ fetched' = Emptied(r)
    BY <1>12 DEF RequestCaught
  <2>2. stage = "together" /\ stage' = stage /\ result' = result /\ pending' = pending \ {r}
    BY <1>12, <2>1 DEF RequestCaught, StageDone
  <2>3. CASE r = "committee"
    <3>1. fetched' = [fetched EXCEPT !.committee = {}]
      BY <2>1, <2>3 DEF Emptied
    <3> QED
      BY <1>6, <2>2, <2>3, <3>1
  <2>4. CASE r = "actions"
    <3>1. fetched' = [fetched EXCEPT !.actions = <<>>]
      BY <2>1, <2>4 DEF Emptied
    <3>2. DOMAIN <<>> = {}
      OBVIOUS
    <3> QED
      BY <1>7, <2>2, <2>4, <3>1, <3>2
  <2>5. CASE r = "constitution"
    <3>1. fetched' = [fetched EXCEPT !.constitution = Constitution(None)]
      BY <2>1, <2>5 DEF Emptied
    <3> QED
      BY <1>8, <2>2, <2>5, <3>1
  <2> QED
    BY <2>1, <2>3, <2>4, <2>5 DEF Caught
<1> QED
  BY <1>4, <1>5, <1>9, <1>10, <1>11, <1>12

\* Accounts, pools and DReps.
LEMMA LaterAnswersKeepLittle ==
  ASSUME FetchOK, Steady, AccountAnswered \/ PoolsAnswered \/ DRepsAnswered
  PROVE  UtxosRead' /\ RestRead' /\ Judgement'
<1>1. IsContext(fetched)
  BY DEF FetchOK, Steady
<1>2. RestRead /\ Chain' = Chain /\ RegisteredPools' = RegisteredPools /\ tx' = tx
  BY DEF Steady, Held, Chain, RegisteredPools
<1>3. /\ stage \in {"accounts", "pools", "dreps"} /\ stage' = stage /\ result' = result
  BY DEF AccountAnswered, PoolsAnswered, DRepsAnswered, StageDone
<1>4. CASE AccountAnswered
  <2> DEFINE account == Min(pending)
  <2>1. \E given : given \subseteq Chain.accounts /\ fetched' = [fetched EXCEPT !.accounts = fetched.accounts \cup given]
    <3>1. \/ fetched' = [fetched EXCEPT !.accounts = fetched.accounts \cup ({account} \cap Chain.accounts)]
          \/ fetched' = [fetched EXCEPT !.accounts = fetched.accounts \cup {}]
      BY <1>4 DEF AccountAnswered, Unanswered
    <3> HIDE DEF account
    <3> QED
      BY <3>1
  <2>2. PICK given : given \subseteq Chain.accounts /\ fetched' = [fetched EXCEPT !.accounts = fetched.accounts \cup given]
    BY <2>1
  <2>3. Others(fetched, fetched', "accounts") /\ fetched'.accounts = fetched.accounts \cup given
    BY <1>1, <2>2 DEF IsContext, Others
  <2>4. RestRead'
    BY <1>2, <1>3, <2>2, <2>3 DEF RestRead, Answered, Others
  <2> QED
    BY <1>3, <2>3, <2>4, UtxosReadKept, NoVerdict DEF Others
<1>5. CASE PoolsAnswered
  <2>1. PICK ids : fetched' = [fetched EXCEPT !.pools = ids \cap RegisteredPools]
    BY <1>5 DEF PoolsAnswered
  <2>2. Others(fetched, fetched', "pools") /\ fetched'.pools = ids \cap RegisteredPools
    BY <1>1, <2>1 DEF IsContext, Others
  <2>3. RestRead'
    BY <1>2, <1>3, <2>2 DEF RestRead, Answered, Others
  <2> QED
    BY <1>3, <2>2, <2>3, UtxosReadKept, NoVerdict DEF Others
<1>6. CASE DRepsAnswered
  <2>1. PICK ids : fetched' = [fetched EXCEPT !.dreps = ids \cap Chain.dreps]
    BY <1>6 DEF DRepsAnswered
  <2>2. Others(fetched, fetched', "dreps") /\ fetched'.dreps = ids \cap Chain.dreps
    BY <1>1, <2>1 DEF IsContext, Others
  <2>3. RestRead'
    BY <1>2, <1>3, <2>2 DEF RestRead, Answered, Others
  <2> QED
    BY <1>3, <2>2, <2>3, UtxosReadKept, NoVerdict DEF Others
<1> QED
  BY <1>4, <1>5, <1>6

\* UTxOs, their scripts whatever was given of them.
LEMMA UtxosKeepLittle ==
  ASSUME FetchOK, Steady, UtxosAnswered
  PROVE  UtxosRead' /\ RestRead' /\ Judgement'
<1>1. PICK refs \in pending, raw \in BOOLEAN, dropped \in SUBSET WithScript(Refs) :
        /\ stage = "utxos" /\ stage' = stage /\ pending' = pending \ {refs} /\ result' = result
        /\ fetched' = [fetched EXCEPT !.utxo = WithRead(fetched.utxo, refs, raw, dropped)]
  BY UtxosReadIn, Zenon
<1>2. Others(fetched, fetched', "utxo") /\ fetched'.utxo = WithRead(fetched.utxo, refs, raw, dropped)
  BY <1>1 DEF FetchOK, Steady, IsContext, Others
<1>3. Added(fetched'.utxo, refs, raw, dropped)
  BY <1>2, UtxosAdded, Zenon DEF Steady
<1>4. Chain' = Chain /\ RegisteredPools' = RegisteredPools /\ Refs' = Refs /\ UtxosRead /\ RestRead
  BY DEF Steady, Held, Chain, RegisteredPools, Refs
<1>5. refs \subseteq Refs
  BY <1>1, <1>4 DEF UtxosRead
<1>6. Known(refs, Chain) \subseteq Known(Refs, Chain) /\ \A r \in Known(Refs, Chain) : r \in refs => r \in Known(refs, Chain)
  BY <1>5 DEF Known
<1>7. ASSUME NEW r \in Known(refs, Chain) PROVE SameButScript(fetched'.utxo[r], Chain.utxo[r])
  <2> DEFINE given == ScriptGiven(r, raw, dropped)
             o == Chain.utxo[r]
  <2>1. fetched'.utxo[r] = [o EXCEPT !.script = given]
    BY <1>3, <1>7 DEF Added
  <2>2. IsRead(o)
    BY <1>7 DEF FetchOK, Steady, CallOK, IsChain, Chain, Known
  <2>3. SameButScript(o, o)
    BY <2>2 DEF SameButScript
  <2>4. given \in {o.script, None, Garbled}
    BY ScriptsGiven
  <2> HIDE DEF given, o
  <2>5. SameButScript([o EXCEPT !.script = given], o)
    BY <2>3, <2>4, SameWithScript
  <2>6. SameButScript(fetched'.utxo[r], o)
    BY <2>1, <2>5
  <2> QED
    BY <2>6 DEF o
<1>8. /\ DOMAIN fetched'.utxo = Known(refs, Chain) \cup DOMAIN fetched.utxo
      /\ \A r \in DOMAIN fetched.utxo \ Known(refs, Chain) : fetched'.utxo[r] = fetched.utxo[r]
  BY <1>3 DEF Added
<1>9. UtxosRead'
  <2>1. DOMAIN fetched'.utxo \subseteq Known(Refs, Chain)
        /\ \A r \in DOMAIN fetched'.utxo : SameButScript(fetched'.utxo[r], Chain.utxo[r])
    BY <1>4, <1>6, <1>7, <1>8 DEF UtxosRead
  <2>2. ASSUME NEW r \in Known(Refs, Chain), r \notin DOMAIN fetched'.utxo PROVE \E asked \in pending' : r \in asked
    <3>1. PICK asked \in pending : r \in asked
      BY <1>1, <1>4, <1>8, <2>2 DEF UtxosRead, Out
    <3> QED
      BY <1>1, <1>6, <1>8, <2>2, <3>1
  <2>3. \A s \in pending' : s \subseteq Refs
    BY <1>1, <1>4 DEF UtxosRead
  <2> QED
    BY <1>1, <1>4, <2>1, <2>2, <2>3 DEF UtxosRead, Out
<1>10. RestRead'
  BY <1>1, <1>2, <1>4 DEF RestRead, Answered, Others
<1> QED
  BY <1>1, <1>9, <1>10, NoVerdict

\* Scripts, lost or not.
LEMMA ScriptsKeepLittle ==
  ASSUME FetchOK, Steady, ScriptsAnswered
  PROVE  UtxosRead' /\ RestRead' /\ Judgement'
<1>1. PICK lost : /\ stage = "scripts" /\ stage' = stage /\ result' = result
                  /\ fetched' = [fetched EXCEPT !.utxo = WithoutScripts(fetched.utxo, lost)]
  BY ScriptsReadIn, Zenon
<1>2. Others(fetched, fetched', "utxo") /\ fetched'.utxo = WithoutScripts(fetched.utxo, lost)
  BY <1>1 DEF FetchOK, Steady, IsContext, Others
<1>3. Chain' = Chain /\ RegisteredPools' = RegisteredPools /\ Refs' = Refs /\ UtxosRead /\ RestRead
  BY DEF Steady, Held, Chain, RegisteredPools, Refs
<1>4. DOMAIN fetched'.utxo = DOMAIN fetched.utxo
  BY <1>2 DEF WithoutScripts
<1>5. ASSUME NEW r \in DOMAIN fetched.utxo PROVE SameButScript(fetched'.utxo[r], Chain.utxo[r])
  <2> DEFINE read == fetched.utxo[r]
             o == Chain.utxo[r]
  <2>1. SameButScript(read, o)
    BY <1>3, <1>5 DEF UtxosRead
  <2>2. fetched'.utxo[r] = IF r \in lost THEN [read EXCEPT !.script = None] ELSE read
    BY <1>2, <1>5 DEF WithoutScripts
  <2> HIDE DEF read, o
  <2>3. SameButScript([read EXCEPT !.script = None], o)
    BY <2>1, SameWithScript
  <2>4. SameButScript(fetched'.utxo[r], o)
    BY <2>1, <2>2, <2>3
  <2> QED
    BY <2>4 DEF o
<1>6. UtxosRead'
  BY <1>1, <1>3, <1>4, <1>5 DEF UtxosRead, Out
<1>7. RestRead'
  BY <1>1, <1>2, <1>3 DEF RestRead, Answered, Others
<1> QED
  BY <1>1, <1>6, <1>7, NoVerdict

\* The next stage asks for what it must bring.
LEMMA NextStageKeepsLittle ==
  ASSUME FetchOK, Steady, NextStage
  PROVE  UtxosRead' /\ RestRead' /\ Judgement'
<1>1. /\ Follows(stage, stage') /\ pending = {} /\ pending' = Requests(stage') /\ fetched' = fetched
      /\ result = <<>> /\ result' = result
  BY StagesFollow DEF NextStage
<1>2. Chain' = Chain /\ RegisteredPools' = RegisteredPools /\ Refs' = Refs /\ UtxosRead /\ RestRead
  BY DEF Steady, Held, Chain, RegisteredPools, Refs
<1>3. RestRead'
  BY <1>1, <1>2 DEF RestRead, Answered
<1>4. UtxosRead'
  <2>1. Known(Refs, Chain) \subseteq Refs
    BY DEF Known
  <2>2. CASE stage = "together"
    BY <1>1, <1>2, <2>1, <2>2, RequestsMade DEF UtxosRead, Out, Follows
  <2>3. CASE stage # "together"
    <3>1. stage' # "utxos" /\ stage' # "together"
      BY <1>1, <2>3 DEF Follows
    <3> QED
      BY <1>1, <1>2, <2>3, <3>1 DEF UtxosRead, Out
  <2> QED
    BY <2>2, <2>3
<1>5. Judgement'
  BY <1>1 DEF Judgement
<1> QED
  BY <1>3, <1>4, <1>5

\* Validate, and a stutter.
LEMMA VerdictKeepsLittle ==
  ASSUME FetchOK, Steady, Validate \/ UNCHANGED vars
  PROVE  UtxosRead' /\ RestRead' /\ Judgement'
<1>1. stage' = stage /\ fetched' = fetched /\ pending' = pending
  BY DEF Validate, vars
<1>2. Chain' = Chain /\ RegisteredPools' = RegisteredPools /\ Refs' = Refs /\ UtxosRead /\ RestRead
  BY DEF Steady, Held, Chain, RegisteredPools, Refs
<1>3. UtxosRead'
  BY <1>1, UtxosReadKept
<1>4. RestRead'
  BY <1>1, <1>2 DEF RestRead, Answered
<1>5. Judgement'
  <2>1. Context' = Context
    BY <1>1 DEF Context, Named_Seats, Steady, Held
  <2>2. CASE Validate
    BY <1>1, <2>1, <2>2 DEF Validate, Judgement, Steady, Held
  <2>3. CASE UNCHANGED vars
    BY <1>1, <2>1, <2>3 DEF Judgement, Steady, Held, vars
  <2> QED
    BY <2>2, <2>3
<1> QED
  BY <1>3, <1>4, <1>5

\* Every step that leaves the chain where it stands keeps what is fetched right.
LEMMA LittleKept ==
  ASSUME LittleInv, [Next]_vars PROVE LittleInv'
<1>1. FetchOK /\ FetchOK'
  BY FetchKept DEF LittleInv
<1>2. ASSUME Standing' PROVE Rejected' \/ (UtxosRead' /\ RestRead' /\ Judgement')
  <2>1. provider' = provider
    BY DEF Next, vars, call, NextStage, TipAnswered, ParamsAnswered, CommitteeAnswered, ActionsAnswered,
         ConstitutionAnswered, Answer, StageDone, RequestCaught, RequestRejected, UtxosAnswered, ScriptsAnswered,
         AccountAnswered, PoolsAnswered, DRepsAnswered, Validate, ChainMoves
  <2>2. Fetching
    BY <1>2, <2>1 DEF Standing, Fetching
  <2>3. UNCHANGED call /\ (ChainMoves \/ now' = now)
    BY <1>1, <2>2, CallKept, Zenon
  <2>4. ~ChainMoves
    <3>1. now \in 1..Len(chains)
      BY <1>1, <2>2 DEF FetchOK, CallOK
    <3>2. ASSUME ChainMoves PROVE FALSE
      <4>1. now' = now + 1 /\ now' = 1
        BY <1>2, <3>2 DEF ChainMoves, Standing
      <4> QED
        BY <3>1, <4>1
    <3> QED
      BY <3>2
  <2>5. now = 1 /\ Held
    BY <1>2, <2>3, <2>4 DEF Standing, Held, call
  <2>6. Rejected \/ (UtxosRead /\ RestRead /\ Judgement)
    BY <2>2, <2>5 DEF LittleInv, Standing
  <2>7. CASE Rejected
    BY <2>7, RejectionStands
  <2>8. CASE RequestRejected
    BY <2>8 DEF RequestRejected, Rejected
  <2>9. CASE ~Rejected /\ ~RequestRejected
    <3>1. Steady
      BY <2>2, <2>5, <2>6, <2>9 DEF Steady
    <3>2. CASE TipAnswered \/ ParamsAnswered \/ CommitteeAnswered \/ ActionsAnswered \/ ConstitutionAnswered \/ RequestCaught
      BY <1>1, <3>1, <3>2, FirstAnswersKeepLittle
    <3>3. CASE AccountAnswered \/ PoolsAnswered \/ DRepsAnswered
      BY <1>1, <3>1, <3>3, LaterAnswersKeepLittle
    <3>4. CASE UtxosAnswered
      BY <1>1, <3>1, <3>4, UtxosKeepLittle
    <3>5. CASE ScriptsAnswered
      BY <1>1, <3>1, <3>5, ScriptsKeepLittle
    <3>6. CASE NextStage
      BY <1>1, <3>1, <3>6, NextStageKeepsLittle
    <3>7. CASE Validate \/ UNCHANGED vars
      BY <1>1, <3>1, <3>7, VerdictKeepsLittle
    <3> QED
      BY <2>4, <2>9, <3>2, <3>3, <3>4, <3>5, <3>6, <3>7 DEF Next
  <2> QED
    BY <2>7, <2>8, <2>9
<1> QED
  BY <1>1, <1>2 DEF LittleInv

\* Once the call validates, the context shows the transaction no more than the chain does.
LEMMA ContextShowsLess ==
  ASSUME FetchOK, Fetching, stage = "validate", UtxosRead, RestRead
  PROVE  /\ ShowsLess(tx, Context, Chain)
         /\ WellTagged(tx)
         /\ Context.utxo = fetched.utxo /\ Context.constitution = fetched.constitution
         /\ Context.pools = fetched.pools
         /\ DOMAIN fetched.utxo = Known(Named(tx), Context)
<1>1. IsContext(fetched) /\ CallOK
  BY DEF FetchOK
<1>2. WellTagged(tx)
  BY <1>1 DEF CallOK, WellTagged
<1>3. Others(fetched, Context, "committee") /\ Context.committee = Named_Seats(fetched.committee)
  BY <1>1 DEF Context, IsContext, Others, Fetching
<1>4. Context.utxo = fetched.utxo /\ Named(tx) = Refs
  BY <1>3 DEF Others, Named, Refs
<1>5. DOMAIN fetched.utxo = Known(Refs, Chain)
  BY DEF UtxosRead, Out
<1>6. /\ Known(Named(tx), Context) = Known(Named(tx), Chain)
      /\ \A r \in Known(Named(tx), Context) : SameButScript(Context.utxo[r], Chain.utxo[r])
  BY <1>4, <1>5 DEF UtxosRead, Known
<1>7. Context.slot = Chain.slot /\ Context.costModels = Chain.costModels
  BY <1>3 DEF RestRead, Answered, Others
<1>8. Context.accounts \subseteq Chain.accounts /\ Context.dreps \subseteq Chain.dreps
  BY <1>3 DEF RestRead, Others
<1>9. /\ NecessaryActions(tx) \cap DOMAIN Context.actions \subseteq DOMAIN Chain.actions
      /\ \A x \in NecessaryActions(tx) \cap DOMAIN Context.actions : Context.actions[x] = Chain.actions[x]
  BY <1>3 DEF RestRead, Others
<1>10. ASSUME NEW hot \in Voters(tx, "committee")
       PROVE  Seated(hot, Context) = Seated(hot, Chain) \/ Seated(hot, Context) = {}
  <2>1. Voters(tx, "committee") \subseteq NecessaryHot(tx) \ {None}
    BY <1>1, VotersAreAsked DEF CallOK
  <2>2. CASE fetched.committee = {}
    BY <1>3, <2>2 DEF Seated, Named_Seats
  <2>3. CASE fetched.committee = Chain.committee
    BY <1>3, <1>10, <2>1, <2>3 DEF Seated, Named_Seats
  <2> QED
    BY <2>2, <2>3 DEF RestRead
<1>11. ShowsLess(tx, Context, Chain)
  BY <1>6, <1>7, <1>8, <1>9, <1>10 DEF ShowsLess
<1> QED
  BY <1>2, <1>3, <1>4, <1>5, <1>6, <1>11 DEF Others

\* So what is hidden is little.
LEMMA LittleInvGivesLittle ==
  ASSUME LittleInv PROVE CaughtFailuresHideLittle
<1> SUFFICES ASSUME Fetched, now = 1, Accepts(Verdict), ~Validated(tx, Chain).refused
             PROVE  HidesLittle(Validated(tx, Chain))
  BY DEF CaughtFailuresHideLittle, HidesLittle
<1>1. FetchOK /\ Fetching /\ result # <<>> /\ Standing
  BY DEF LittleInv, Fetched, Fetching, Standing
<1>2. ~Rejected
  BY DEF Rejected, Verdict, Accepts, Refusal
<1>3. UtxosRead /\ RestRead /\ stage = "validate" /\ Verdict = Validated(tx, Context)
  BY <1>1, <1>2 DEF LittleInv, Judgement, Verdict
<1>4. /\ ShowsLess(tx, Context, Chain) /\ WellTagged(tx)
      /\ Context.utxo = fetched.utxo /\ Context.constitution = fetched.constitution
      /\ Context.pools = fetched.pools /\ DOMAIN fetched.utxo = Known(Named(tx), Context)
  BY <1>1, <1>3, ContextShowsLess
<1>5. ~Validated(tx, Context).refused /\ Validated(tx, Context).errors = {}
  BY <1>3 DEF Accepts
<1>6. Names(Validated(tx, Chain).errors) \subseteq Hidden(tx, Context, Chain)
  BY <1>4, <1>5, LessShownHidesLittle
<1> DEFINE lost == {r \in DOMAIN fetched.utxo : fetched.utxo[r].script # Chain.utxo[r].script}
<1>7. lost = LostScripts(tx, Context, Chain)
  BY <1>4 DEF LostScripts
<1>8. ASSUME fetched.committee = Chain.committee \/ NecessaryHot(tx) \cap HotInTx(tx) = {}
      PROVE  LostSeats(tx, Context, Chain) = {}
  <2>1. Voters(tx, "committee") \subseteq NecessaryHot(tx) \ {None}
    BY <1>1, VotersAreAsked DEF FetchOK, CallOK
  <2>2. Context.committee = Named_Seats(fetched.committee)
    BY <1>1 DEF Context, FetchOK, IsContext, Fetching
  <2>3. CASE fetched.committee = Chain.committee
    BY <2>1, <2>2, <2>3 DEF LostSeats, Seated, Named_Seats
  <2>4. CASE NecessaryHot(tx) \cap HotInTx(tx) = {}
    BY <2>1, <2>4 DEF LostSeats
  <2> QED
    BY <1>8, <2>3, <2>4
<1>9. ASSUME Misjudged = {} PROVE TakenPools(tx, Context, Chain) = {}
  <2>1. Voters(tx, "pool") \subseteq NecessaryPools(tx) /\ Context.pools \subseteq RegisteredPools
    BY <1>1, <1>3, <1>4, VotersAreAsked DEF FetchOK, CallOK, RestRead
  <2> QED
    BY <1>9, <2>1 DEF Misjudged, TakenPools
<1> HIDE DEF lost
<1>10. Hidden(tx, Context, Chain) \subseteq
         (IF fetched.constitution = Chain.constitution THEN {} ELSE {"InvalidConstitutionPolicyHash"})
         \cup (IF lost = {} THEN {} ELSE {"FeeTooSmallUTxO", "RefScriptsSizeTooBig", "BuildTxContextError"})
         \cup (IF fetched.committee = Chain.committee \/ NecessaryHot(tx) \cap HotInTx(tx) = {} THEN {}
               ELSE {"InvalidCommitteeVote"})
         \cup (IF Misjudged = {} THEN {} ELSE {"VoterDoNotExist"})
  BY <1>4, <1>7, <1>8, <1>9 DEF Hidden
<1> QED
  BY <1>6, <1>10 DEF HidesLittle, lost

\* On a chain that stands still, whatever requests fail and are caught, and whatever
\* scripts are left out, what validateTransactionOnline accepts is valid on the chain, but
\* for the few errors the property names.
THEOREM FailuresHideLittle == Spec => []CaughtFailuresHideLittle
<1>1. Init => LittleInv
  BY LittleStarts
<1>2. LittleInv /\ [Next]_vars => LittleInv'
  BY LittleKept
<1>3. LittleInv => CaughtFailuresHideLittle
  BY LittleInvGivesLittle
<1> QED
  BY <1>1, <1>2, <1>3, PTL DEF Spec
================================================================================
