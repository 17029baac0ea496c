-------------------------------- MODULE Balance --------------------------------
\* The value equation of a transaction (BalanceValidator of balance.rs, over the Value of
\* value.rs): what a body takes in and what it gives out are added up as coins and a list of
\* assets a side, and the two sides compared. The ledger asks for nothing to be left of what
\* is consumed less what is produced, unit by unit.
\*
\* A body is read entry by entry, part by part. A list of assets, which names a unit once
\* and none of which there is nothing, is a function; the lists of refunds, deposits and
\* withdrawals are their sums. What a certificate deposits and refunds is CertificateChecks'.
EXTENDS Integers, FiniteSets

CONSTANTS
  Units,           \* the assets other than the coin
  Quantities,      \* that the entries of a body have, unless they have none
  ContextTreasury, \* the treasury of the context
  MaxEntries       \* a bound on the entries of a body

ASSUME BalanceAssumption ==
  /\ IsFiniteSet(Units) /\ Quantities \subseteq Nat \ {0}
  /\ ContextTreasury \in Int /\ MaxEntries \in Nat

VARIABLES
  part,             \* the part of the body that is read, at last "judged" or "refused"
  entriesRead,      \* how many entries it had
  halfRead,         \* whether a UTxO or an output is half read
  bundle,           \* what there is of it
  totals,           \* total_inputs and total_output
  minted, burnt,
  sums,             \* the coins of the other entries
  declaredTreasury, \* the treasury the body declares, or Undeclared
  known,            \* history: the context has what the body names
  left              \* history: what the ledger consumes less what it produces

balanceVars == <<part, entriesRead, halfRead, bundle, totals, minted, burnt, sums, declaredTreasury, known, left>>
Undeclared == -1

\* ---- value.rs ----

Amount(assets, u) == IF u \in DOMAIN assets THEN assets[u] ELSE 0
\* Slip: units of which nothing is left stay listed.
Plus_ZeroKept(a, b) == [u \in DOMAIN a \cup DOMAIN b |-> Amount(a, u) + Amount(b, u)]
\* The assets of one list are added to the other one by one.
Plus(a, b) == [u \in {v \in DOMAIN a \cup DOMAIN b : Amount(a, v) + Amount(b, v) # 0} |-> Amount(a, u) + Amount(b, u)]
AddAsset(assets, u, quantity) == Plus(assets, [v \in {u} |-> quantity])
Negated(assets) == [u \in DOMAIN assets |-> -assets[u]]
NoAssets == [u \in {} |-> 0]
\* As many assets, and each of the one among the other's.
SameAssets(a, b) == /\ Cardinality(DOMAIN a) = Cardinality(DOMAIN b)
                    /\ \A u \in DOMAIN a : u \in DOMAIN b /\ a[u] = b[u]

Worth(coins, assets) == [coins |-> coins, assets |-> assets]
Zero == Worth(0, NoAssets)
AddValue(a, b) == Worth(a.coins + b.coins, Plus(a.assets, b.assets))
Difference(a, b) == Worth(a.coins - b.coins, Plus(a.assets, Negated(b.assets)))
SameValue(a, b) == a.coins = b.coins /\ SameAssets(a.assets, b.assets)

\* ---- the parts of a body ----

BodyParts == <<"inputs", "certificates", "proposals", "withdrawals", "mint", "outputs", "fee">>
Sides == {"inputs", "outputs"}
SideSign(side) == IF side = "inputs" THEN 1 ELSE -1
Terms == {"refunds", "deposits", "withdrawals", "fees", "donation"}
TermSign(term) == IF term \in {"refunds", "withdrawals"} THEN 1 ELSE -1

BalanceInit ==
  /\ part = "inputs" /\ entriesRead = 0 /\ halfRead = FALSE /\ bundle = Zero
  /\ totals = [s \in Sides |-> Zero] /\ minted = NoAssets /\ burnt = NoAssets
  /\ sums = [t \in Terms |-> 0] /\ declaredTreasury = Undeclared
  /\ known = TRUE /\ left = [coins |-> 0, assets |-> [u \in Units |-> 0]]

More == entriesRead < MaxEntries /\ entriesRead' = entriesRead + 1
LeftCoins(coins) == left' = [left EXCEPT !.coins = @ + coins]
LeftAsset(u, quantity) == left' = [left EXCEPT !.assets[u] = @ + quantity]
AccountVars == <<minted, burnt, sums, declaredTreasury>>

\* A UTxO the context holds, a list of units and quantities in any order; an output, which
\* has its coins at once.
OpenInput ==
  /\ part = "inputs" /\ ~halfRead /\ entriesRead < MaxEntries
  /\ halfRead' = TRUE /\ bundle' = Zero
  /\ UNCHANGED <<part, entriesRead, totals, AccountVars, known, left>>
OpenOutput(coins) ==
  /\ part = "outputs" /\ ~halfRead /\ More
  /\ halfRead' = TRUE /\ bundle' = Worth(coins, NoAssets) /\ LeftCoins(-coins)
  /\ UNCHANGED <<part, totals, AccountVars, known>>
ReadCoins(coins) ==
  /\ part = "inputs" /\ halfRead /\ More
  /\ bundle' = [bundle EXCEPT !.coins = @ + coins] /\ LeftCoins(coins)
  /\ UNCHANGED <<part, halfRead, totals, AccountVars, known>>
ReadAsset(u, quantity) ==
  /\ halfRead /\ More
  /\ bundle' = [bundle EXCEPT !.assets = AddAsset(@, u, quantity)] /\ LeftAsset(u, SideSign(part) * quantity)
  /\ UNCHANGED <<part, halfRead, totals, AccountVars, known>>
CloseValue ==
  /\ halfRead /\ halfRead' = FALSE
  /\ totals' = [totals EXCEPT ![part] = AddValue(@, bundle)]
  /\ UNCHANGED <<part, entriesRead, bundle, AccountVars, known, left>>
\* A quantity of the context that is no integer refuses the call.
RefuseQuantity ==
  /\ part = "inputs" /\ halfRead /\ part' = "refused" /\ halfRead' = FALSE
  /\ UNCHANGED <<entriesRead, bundle, totals, AccountVars, known, left>>
\* An input the context lacks adds nothing.
UnknownInput(coins) ==
  /\ part = "inputs" /\ ~halfRead /\ More
  /\ known' = FALSE /\ LeftCoins(coins)
  /\ UNCHANGED <<part, halfRead, bundle, totals, AccountVars>>

Term(term, coins) ==
  /\ More /\ sums' = [sums EXCEPT ![term] = @ + coins] /\ LeftCoins(TermSign(term) * coins)
  /\ UNCHANGED <<part, halfRead, bundle, totals, minted, burnt, declaredTreasury, known>>
CertificateEntry(coins) == part = "certificates" /\ (Term("refunds", coins) \/ Term("deposits", coins))
\* A refund that is not stated, of an account whose deposit the context does not tell.
UnknownRefund(coins) ==
  /\ part = "certificates" /\ More
  /\ known' = FALSE /\ LeftCoins(coins)
  /\ UNCHANGED <<part, halfRead, bundle, totals, AccountVars>>
ProposalEntry(coins) == part = "proposals" /\ Term("deposits", coins)
WithdrawalEntry(coins) == part = "withdrawals" /\ Term("withdrawals", coins)

\* An entry of the mint, positive or negative, is counted on its side; one of nothing on none.
MintEntry(u, quantity) ==
  /\ part = "mint" /\ More
  /\ minted' = IF quantity > 0 THEN AddAsset(minted, u, quantity) ELSE minted
  /\ burnt' = IF quantity < 0 THEN AddAsset(burnt, u, -quantity) ELSE burnt
  /\ LeftAsset(u, quantity)
  /\ UNCHANGED <<part, halfRead, bundle, totals, sums, declaredTreasury, known>>
FeeAndDonation(fee, donation, declared) ==
  /\ part = "fee" /\ part' = "judged"
  /\ sums' = [sums EXCEPT !.fees = fee, !.donation = donation] /\ declaredTreasury' = declared
  /\ LeftCoins(-fee - donation)
  /\ UNCHANGED <<entriesRead, halfRead, bundle, totals, minted, burnt, known>>
NextPart ==
  /\ ~halfRead
  /\ \E i \in 1..6 : part = BodyParts[i] /\ part' = BodyParts[i + 1]
  /\ UNCHANGED <<entriesRead, halfRead, bundle, totals, AccountVars, known, left>>

BalanceNext ==
  \/ OpenInput \/ CloseValue \/ RefuseQuantity \/ NextPart
  \/ \E q \in Quantities :
       \/ OpenOutput(q) \/ ReadCoins(q) \/ UnknownInput(q) \/ UnknownRefund(q)
       \/ CertificateEntry(q) \/ ProposalEntry(q) \/ WithdrawalEntry(q)
       \/ \E u \in Units : ReadAsset(u, q) \/ ReadAsset(u, 0) \/ MintEntry(u, q) \/ MintEntry(u, -q) \/ MintEntry(u, 0)
       \/ \E donation \in {0, q}, declared \in {Undeclared, ContextTreasury, ContextTreasury + 1} : FeeAndDonation(q, donation, declared)
BalanceSpec == BalanceInit /\ [][BalanceNext]_balanceVars

\* ---- the verdict ----

TotalInput == Worth(totals["inputs"].coins + sums.refunds + sums.withdrawals, Plus(totals["inputs"].assets, minted))
TotalOutput == Worth(totals["outputs"].coins + sums.fees + sums.deposits + sums.donation,
                     Plus(totals["outputs"].assets, burnt))
BalanceErrors ==
  (IF SameValue(TotalInput, TotalOutput) THEN {} ELSE {"ValueNotConservedUTxO"})
  \cup (IF declaredTreasury \in {Undeclared, ContextTreasury} THEN {} ELSE {"TreasuryValueMismatch"})

\* The ledger's preservation of value, and the treasury a body may declare.
Preserved == left.coins = 0 /\ \A u \in Units : left.assets[u] = 0
LedgerErrors ==
  (IF Preserved THEN {} ELSE {"ValueNotConservedUTxO"})
  \cup (IF declaredTreasury \in {Undeclared, ContextTreasury} THEN {} ELSE {"TreasuryValueMismatch"})
\* Of a body whose inputs and deposits the context knows, the sides are found unequal exactly
\* when the ledger finds value lost or made, in whatever lists the entries are counted,
\* cancelling or not, and the difference reported is what the ledger is left with
\* (BalanceValidator::new and validate, MultiAsset::add_asset and eq).
ValueConserved ==
  part = "judged" /\ known =>
    /\ BalanceErrors = LedgerErrors
    /\ Difference(TotalInput, TotalOutput).coins = left.coins
    /\ \A u \in Units : Amount(Difference(TotalInput, TotalOutput).assets, u) = left.assets[u]
=================================================================================
