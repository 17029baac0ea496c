---------------------------------- MODULE MCOnline ----------------------------------
\* A small chain, the transactions judged on it and fetched for, and the native scripts
\* read. Keys are 1..4, scripts 11.., datums 21.., actions 31.., predefined DReps 91..
EXTENDS Verdicts

MCKeys == 1..4
MCScripts == 11..17
MCLanguage == 11 :> "native" @@ 12 :> "native" @@ 13 :> "v3" @@ 14 :> "v2" @@ 15 :> "v3"
              @@ 16 :> "v1" @@ 17 :> "v3"
Leaf(kind, arg) == [kind |-> kind, arg |-> arg, subs |-> <<>>]
MCTree ==
  11 :> [kind |-> "all", arg |-> 0, subs |-> <<Leaf("key", 2), Leaf("start", 5)>>]
  @@ 12 :> Leaf("key", 1)
FlatNode(kind, arg) == [kind |-> kind, arg |-> arg]
MCFlat ==
  11 :> [nodes |-> <<FlatNode("all", 0), FlatNode("key", 2), FlatNode("start", 5)>>, ends |-> <<4, 3, 4>>]
  @@ 12 :> [nodes |-> <<FlatNode("key", 1)>>, ends |-> <<2>>]
MCParams ==
  [feeA |-> 1, feeB |-> 2, price |-> 1, refPrice |-> 1, percentage |-> 150, maxCollateral |-> 1,
   maxSize |-> 10, maxUnits |-> 5, maxRefs |-> 6, maxValueSize |-> 5, minCoin |-> 2]
MCRefSize == 0 :> 0 @@ 11 :> 1 @@ 12 :> 1 @@ 13 :> 2 @@ 14 :> 3 @@ 15 :> 2 @@ 16 :> 2 @@ 17 :> 2 @@ 99 :> 0

\* ---- the chain ----

Out(owner) == [owner |-> owner, coin |-> 30, assets |-> 0, datum |-> 0, inline |-> FALSE,
               script |-> 0, deep |-> FALSE, spent |-> FALSE]
Carries(script) == [Out(1) EXCEPT !.script = script]
Utxos == <<
  Out(1), Out(11), [Out(13) EXCEPT !.datum = 21], [Out(14) EXCEPT !.inline = TRUE, !.datum = 21],
  Carries(13), Carries(11), Carries(12), Out(12), Out(14), [Out(2) EXCEPT !.assets = 1], Out(0),
  Carries(99), [Out(1) EXCEPT !.spent = TRUE], [Out(2) EXCEPT !.datum = 22], Out(15), Out(16),
  [Out(2) EXCEPT !.deep = TRUE], Carries(15), Carries(14)>>
Action(kind, active, security) == [kind |-> kind, active |-> active, security |-> security]
Actions ==
  31 :> Action("ParameterChangeAction", TRUE, TRUE)
  @@ 32 :> Action("ParameterChangeAction", TRUE, FALSE)
  @@ 33 :> Action("NoConfidenceAction", TRUE, FALSE)
  @@ 34 :> Action("InfoAction", FALSE, FALSE)
  @@ 35 :> Action("NewConstitutionAction", TRUE, FALSE)
Seat(cold, hot, resigned) == [cold |-> cold, hot |-> hot, resigned |-> resigned]
Whole ==
  [utxo |-> Utxos, accounts |-> {1, 13}, pools |-> {3, 4}, retiring |-> {4}, renewed |-> {2, 3},
   dreps |-> {1, 13}, actions |-> Actions,
   committee |-> {Seat(1, 4, FALSE), Seat(2, 2, TRUE), Seat(3, 0, FALSE)},
   slot |-> 6, constitution |-> <<13>>, costModels |-> {"v1", "v2", "v3"}]
\* The chain a block or so later: an input spent, accounts and DReps gone, the member
\* resigned, actions over, the constitution replaced.
Later ==
  [Whole EXCEPT !.slot = 9, !.utxo = [@ EXCEPT ![1].spent = TRUE], !.accounts = {13},
   !.dreps = {13}, !.pools = {}, !.renewed = {}, !.constitution = <<None>>,
   !.committee = {[m EXCEPT !.resigned = TRUE] : m \in @}, !.actions = Restrict(@, {31})]

\* ---- transactions ----

Sign(k) == [key |-> k, valid |-> TRUE]
Forged(k) == [key |-> k, valid |-> FALSE]
TxOut == [coin |-> 4, size |-> 2, net |-> "main", datum |-> 0, inline |-> FALSE,
          address |-> "plain", assets |-> 0]
Plain ==
  [inputs |-> {1}, collateral |-> {}, references |-> {}, withdrawals |-> {}, withdrawalNet |-> "main",
   certs |-> <<>>, proposals |-> <<>>, votes |-> <<>>, mint |-> <<>>, signers |-> {},
   vkeys |-> {Sign(1)}, scripts |-> {}, datums |-> {}, redeemers |-> {}, units |-> 2,
   scriptDataHash |-> <<>>, fee |-> 20, size |-> 3, totalCollateral |-> -1, collateralReturn |-> <<>>,
   start |-> NoBound, ttl |-> NoBound, outputs |-> <<TxOut>>, net |-> "main", auxiliary |-> 0,
   auxiliaryHash |-> 0, donation |-> FALSE, odd |-> "nothing"]
Cert(kind, cred) == [kind |-> kind, cred |-> cred, deposit |-> TRUE, pool |-> 3, owners |-> {2},
                     drep |-> 1, hot |-> 4]
HotAuth(cold, hot) == [Cert("CommitteeHotAuth", cold) EXCEPT !.hot = hot]
Vote(role, cred, actions) == [role |-> role, cred |-> cred, actions |-> actions]
Proposal(kind, account, policy) ==
  [kind |-> kind, account |-> account, net |-> "main", targets |-> {}, targetNet |-> "main",
   amount |-> 1, prev |-> 0, policy |-> policy, add |-> {}, remove |-> {}]
Treasury(account, policy, targets) ==
  [Proposal("TreasuryWithdrawalsAction", account, policy) EXCEPT !.targets = targets]

\* A transaction with the redeemers, datums, hash and signatures the ledger asks for,
\* and those that are one step from it.
Sealed(t) == [t EXCEPT !.scriptDataHash =
  ScriptDataHash({Language[p[3]] : p \in PlutusNeeded(t, Whole)}, t.redeemers, t.datums)]
Redeemed(t) == Sealed([t EXCEPT !.redeemers = {<<p[1], p[2]>> : p \in PlutusNeeded(t, Whole)},
                                !.datums = DatumsOf(PlutusInputs(t, Whole))])
Endorsed(t) ==
  LET natives == {n \in NeededScripts(t, Whole) : IsNative(n)}
  IN [t EXCEPT !.vkeys = {Sign(k) : k \in KeysNeeded(t, Whole) \cup UNION {KeysOf(Tree[n]) : n \in natives}}]
Completed(t) == Endorsed(LET r == Redeemed(t) IN [r EXCEPT !.collateral = IF r.redeemers = {} THEN {} ELSE {1}])
OneOff(t) ==
  {t, [t EXCEPT !.scriptDataHash = <<{"v1"}, {}, {}>>], Sealed([t EXCEPT !.datums = @ \cup {22}])}
  \cup {[t EXCEPT !.vkeys = @ \ {v}] : v \in t.vkeys}
  \cup {[t EXCEPT !.vkeys = (@ \ {v}) \cup {Forged(v.key)}] : v \in t.vkeys}
  \cup {Sealed([t EXCEPT !.redeemers = @ \ {d}]) : d \in t.redeemers}
  \cup {Sealed([t EXCEPT !.datums = @ \ {d}]) : d \in t.datums}
  \cup {Sealed([t EXCEPT !.redeemers = @ \cup {<<tag, i>>}]) : tag \in {"spend", "mint"}, i \in {0, 1}}
OneOffs(set) == UNION {OneOff(Completed(t)) : t \in set}

\* Inputs locked by every kind of script, given with the transaction or by reference.
Scripted == OneOffs({[Plain EXCEPT !.inputs = i, !.references = r, !.scripts = s, !.start = 5] :
  i \in {{1}, {2}, {1, 3}, {4}, {8}, {9}, {11}, {2, 3}, {16}, {3, 4}},
  r \in {{}, {5}, {6}, {7}, {5, 6}, {14}, {12}},
  s \in {{}, {11}, {13}, {14}, {11, 13}, {16}, {13, 14}}})
\* Who signs.
Signed == {[Plain EXCEPT !.inputs = i, !.collateral = c, !.vkeys = v, !.signers = g, !.scripts = s, !.ttl = e] :
  i \in {{1}, {2}, {1, 2}}, c \in {{}, {10}},
  v \in SUBSET {Sign(1), Sign(2)} \cup {{Sign(1), Forged(2)}},
  g \in {{}, {2}}, s \in {{}, {11}}, e \in {NoBound, 7}}
\* Each certificate, alone or after a change of the committee.
CertKinds == StakeKinds \cup PoolKinds \cup DRepKinds \cup CommitteeKinds
CertLists ==
  {<<Cert(k, x)>> : k \in CertKinds, x \in {2, 13, 14, 16}}
  \cup {<<Cert(k, 2), [Cert("StakeRegistration", x) EXCEPT !.deposit = d]>> :
          k \in CommitteeKinds, x \in {2, 13}, d \in BOOLEAN}
Certified == OneOffs({[Plain EXCEPT !.certs = c, !.references = r, !.scripts = s] :
  c \in CertLists, r \in {{}, {5}}, s \in {{}, {14}, {16}}})
\* Withdrawals, policies, votes and proposals.
Purposed == OneOffs({[Plain EXCEPT !.withdrawals = w, !.mint = m, !.votes = v, !.proposals = p,
                        !.references = r, !.start = 5, !.outputs = <<[TxOut EXCEPT !.datum = 22]>>] :
  w \in {{}, {1, 13}}, m \in {<<>>, <<13>>, <<11, 13>>, <<13, 11>>},
  v \in {<<>>, <<Vote("drep", 13, {31})>>, <<Vote("drep", 1, {32}), Vote("committee", 4, {31})>>},
  p \in {<<>>, <<Proposal("ParameterChangeAction", 1, 13)>>,
         <<Proposal("InfoAction", 1, 0), Treasury(1, 13, {1})>>},
  r \in {{5}, {5, 6}}})
\* Who votes on what.
Voting == {Completed([Plain EXCEPT !.votes = <<v>>, !.certs = c, !.references = {5}]) :
  v \in {w \in {Vote(role, cred, {a}) : role \in {"drep", "pool", "committee"}, cred \in {1, 2, 3, 4, 13}, a \in 31..36} :
           IsVote(w)},
  c \in {<<>>, <<HotAuth(1, 4)>>, <<HotAuth(3, 2)>>, <<HotAuth(3, 3)>>}}
\* What a proposal names.
Proposing == {Completed([Plain EXCEPT !.proposals = <<p>>, !.references = {5}]) :
  p \in {[Proposal(k, a, IF k \in GuardedKinds THEN g ELSE 0) EXCEPT !.prev = x] :
           k \in LineageKinds \cup {"InfoAction"}, a \in {1, 2}, g \in {0, 1, 13}, x \in {0, 31, 36}}
        \cup {[Treasury(a, g, t) EXCEPT !.amount = n, !.targetNet = w] :
                a \in {1, 2}, g \in {0, 1, 13}, t \in {{}, {1}, {1, 2}}, n \in {0, 1}, w \in {"main", "test"}}
        \cup {[Proposal("UpdateCommitteeAction", 1, 0) EXCEPT !.add = {1, 2}, !.remove = m] :
                m \in {{}, {2}, {3}}}}
\* Collateral, with and without a script to pay for.
Collateralised ==
  {LET paid == Redeemed([Plain EXCEPT !.inputs = i, !.references = {9}, !.scripts = IF i = {1} THEN {} ELSE {14}])
   IN Endorsed([paid EXCEPT !.collateral = c, !.totalCollateral = n, !.collateralReturn = r, !.fee = f]) :
  i \in {{1}, {1, 4}}, c \in {{}, {1}, {10}, {2}, {1, 10}, {11}}, n \in {-1, 25, 26, 30, 56}, f \in {17, 20},
  r \in {<<>>} \cup {<<[TxOut EXCEPT !.coin = x, !.assets = y]>> : x \in {1, 4, 5, 30}, y \in {0, 1}}}
\* The bounds of the body, at their edges.
Bounded == {[Plain EXCEPT !.inputs = {1} \cup (r \cap {5}), !.references = r, !.size = z, !.fee = f,
               !.start = b, !.ttl = e, !.outputs = o] :
  z \in {3, 10, 11}, f \in {4, 5, 6, 7, 10, 12, 18, 20}, b \in {NoBound, 6, 7}, e \in {NoBound, 6, 7},
  o \in {<<TxOut>>, <<[TxOut EXCEPT !.coin = 1]>>, <<[TxOut EXCEPT !.size = 6]>>,
         <<TxOut, [TxOut EXCEPT !.net = "untold"]>>, <<[TxOut EXCEPT !.net = "test"]>>},
  r \in {{}, {1}, {5, 9}, {13}, {20}}}
\* What no language's context has, or not the script's.
Contextual ==
  {LET built == Completed([Plain EXCEPT !.inputs = i, !.scripts = s, !.outputs = o, !.donation = g, !.certs = c])
   IN [built EXCEPT !.units = u, !.odd = q, !.auxiliary = 1, !.auxiliaryHash = h] :
  i \in {{4}, {16}, {3}, {15}, {17}, {11, 16}}, s \in {{13}, {14}, {15}, {16}},
  c \in {<<>>, <<Cert("VoteDelegation", 1)>>},
  o \in {<<TxOut>>, <<[TxOut EXCEPT !.address = "byron"]>>, <<[TxOut EXCEPT !.inline = TRUE, !.datum = 21]>>},
  u \in {1, 2, 6}, g \in BOOLEAN, q \in {"nothing", "withdrawal"}, h \in {0, 1}}
\* What is rare: a script for a registration that asks for none, a policy minted twice, an
\* address that cannot be read, a script that only a collateral input carries.
Rare ==
  OneOffs({[Plain EXCEPT !.certs = <<[Cert("StakeRegistration", x) EXCEPT !.deposit = FALSE]>>, !.scripts = {x},
             !.start = 5, !.signers = g] : x \in {11, 14}, g \in {{}, {2}}}
          \cup {[Plain EXCEPT !.mint = m, !.references = {5}] : m \in {<<13, 13>>, <<13, 11, 13>>}}
          \cup {[Plain EXCEPT !.inputs = i, !.scripts = {14}, !.outputs = <<[TxOut EXCEPT !.address = "unreadable"]>>] :
             i \in {{1}, {4}}})
  \cup {Endorsed(Sealed([Plain EXCEPT !.inputs = i, !.collateral = c, !.redeemers = {<<"spend", 0>>}, !.units = u])) :
          i \in {{15}, {9}, {9, 11}, {4, 11}}, c \in {{18}, {19}}, u \in {1, 2}}

\* What the caller's context may lack.
Sparse == {
  Whole, [Whole EXCEPT !.constitution = NoConstitution],
  [Whole EXCEPT !.accounts = {13}, !.dreps = {}, !.committee = {}],
  [Whole EXCEPT !.utxo = Restrict(@, 1..4)], [Whole EXCEPT !.actions = <<>>]}
Family(txs, contexts) == [transactions |-> txs, contexts |-> contexts]
MCGiven ==
  {Family(txs, {Whole}) : txs \in {Scripted, Signed, Certified, Collateralised, Bounded, Contextual, Rare}}
  \cup {Family(txs, Sparse) : txs \in {Purposed, Voting, Proposing}}

\* ---- fetches ----

ToFetch == {
  Completed([Plain EXCEPT !.inputs = {1, 2}, !.references = {6, 9}, !.start = 5, !.fee = 12]),
  Completed([Plain EXCEPT !.references = {5, 6}, !.fee = 11]),
  Completed([Plain EXCEPT !.references = {5}, !.proposals = <<Treasury(13, 13, {1})>>]),
  Completed([Plain EXCEPT !.proposals = <<Proposal("InfoAction", 2, 0)>>]),
  Completed([Plain EXCEPT !.votes = <<Vote("pool", 2, {31})>>]),
  Completed([Plain EXCEPT !.proposals = <<[Proposal("ParameterChangeAction", 1, 0) EXCEPT !.prev = 31]>>]),
  Completed([Plain EXCEPT !.votes =
    <<Vote("committee", 4, {31}), Vote("drep", 1, {32}), Vote("pool", 3, {31})>>]),
  Completed([Plain EXCEPT !.inputs = {5}, !.mint = <<16>>, !.scripts = {16}]),
  Completed([Plain EXCEPT !.certs = <<HotAuth(3, 2)>>, !.votes = <<Vote("committee", 2, {31})>>]),
  Completed([Plain EXCEPT !.references = {7}, !.withdrawals = {1, 13}, !.certs =
    <<[Cert("StakeAndVoteDelegation", 1) EXCEPT !.drep = 91, !.pool = 4], Cert("CommitteeColdResign", 1)>>])}
MCFetches ==
  {[tx |-> t, provider |-> p, chains |-> c] :
     t \in ToFetch, p \in {"koios", "blockfrost"}, c \in {<<Whole>>, <<Whole, Later>>}}

\* ---- native scripts, read on their own ----

Of(kind, arg, subs) == [kind |-> kind, arg |-> arg, subs |-> subs]
UpToTwo(S) == {<<>>} \cup {<<a>> : a \in S} \cup {<<a, b>> : a, b \in S}
ListsOf(subs) ==
  {Of(k, 0, u) : k \in {"all", "any"}, u \in subs} \cup {Of("nOfK", n, u) : n \in {-1, 1, 2, 3}, u \in subs}
Leaves == {Leaf("key", 1), Leaf("start", 5), Leaf("expiry", 6)}
Nested == {Leaf("key", 2), Of("any", 0, <<>>), Of("nOfK", 2, <<Leaf("key", 1), Leaf("expiry", 6)>>),
           Of("all", 0, <<Of("any", 0, <<Leaf("key", 1)>>)>>)}
MCScriptTrees == Leaves \cup ListsOf(UpToTwo(Leaves)) \cup ListsOf(UpToTwo(Nested))
Style(indefinite, openLists, tagged) == [indefinite |-> indefinite, open |-> openLists, tagged |-> tagged]
MCStyles == {Style(TRUE, TRUE, FALSE), Style(FALSE, FALSE, TRUE), Style(TRUE, FALSE, FALSE)}

\* Either a call is under way or a script is read: the other rests.
CONSTANTS ScriptTrees, Styles
VARIABLES script, spoilt, items, nodes, ends, open, reading
readerVars == <<script, spoilt, items, nodes, ends, open, reading>>
Reader == INSTANCE NativeScriptReader
NoCall ==
  /\ tx = Plain /\ chains = <<Whole>> /\ now = 1 /\ provider = "caller" /\ stage = "validate"
  /\ pending = {} /\ fetched = Blank /\ unread = {} /\ atTip = 1 /\ calm = TRUE /\ result = <<Refusal>>
NoScript ==
  /\ script = Leaf("key", 1) /\ spoilt = "nothing" /\ items = <<>> /\ nodes = <<>> /\ ends = <<>>
  /\ open = <<>> /\ reading = "none"
MCInit == (Init /\ NoScript) \/ (NoCall /\ Reader!Init)
MCNext == (Next /\ UNCHANGED readerVars) \/ (Reader!Next /\ UNCHANGED vars)
MCSpec == MCInit /\ [][MCNext]_<<vars, readerVars>>

\* The flat form that native_script.rs reads a script's CBOR into, its ends found as the
\* lists close, stands for the script that was written, however its lists are encoded.
ScriptReadBack == Reader!ScriptReadBack
=====================================================================================
