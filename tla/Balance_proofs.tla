----------------------------- MODULE Balance_proofs -----------------------------
\* The value equation, for any units, quantities and number of entries: what the lists of
\* the two sides hold is, unit by unit, what the ledger counts as consumed and as produced,
\* so that comparing the lists decides the equation.
EXTENDS Balance, FiniteSetTheorems, TLAPS

Assets == UNION {[S -> Int \ {0}] : S \in SUBSET Units}
ValueOf == [coins : Int, assets : Assets]
Reading(x) == IF halfRead THEN SideSign(part) * x ELSE 0

BalanceTypes ==
  /\ bundle \in ValueOf /\ totals \in [Sides -> ValueOf]
  /\ minted \in Assets /\ burnt \in Assets /\ sums \in [Terms -> Int]
  /\ left \in [coins : Int, assets : [Units -> Int]]
  /\ halfRead \in BOOLEAN /\ (halfRead => part \in Sides)
  /\ part # "judged" => sums.fees = 0 /\ sums.donation = 0

CoinsCounted ==
  left.coins = totals["inputs"].coins - totals["outputs"].coins + sums.refunds + sums.withdrawals
               - sums.fees - sums.deposits - sums.donation + Reading(bundle.coins)
AssetsCounted ==
  \A u \in Units :
    left.assets[u] = Amount(totals["inputs"].assets, u) - Amount(totals["outputs"].assets, u)
                     + Amount(minted, u) - Amount(burnt, u) + Reading(Amount(bundle.assets, u))

\* The inductive invariant: the lists account for what was read so far. An input of the
\* context is given up half read when it refuses the call.
BalanceInv ==
  /\ BalanceTypes
  /\ part # "refused" => AssetsCounted /\ (known => CoinsCounted)

\* A list has an amount of every unit, which is not nothing for those it names.
LEMMA AmountType ==
  ASSUME NEW a \in Assets, NEW u
  PROVE  /\ Amount(a, u) \in Int
         /\ u \in DOMAIN a <=> Amount(a, u) # 0
<1>1. PICK S \in SUBSET Units : a \in [S -> Int \ {0}]
  BY DEF Assets
<1> QED  BY <1>1 DEF Amount

\* Adding two lists adds their amounts, and leaves out what cancels.
LEMMA PlusAdds ==
  ASSUME NEW a \in Assets, NEW b \in Assets
  PROVE  /\ Plus(a, b) \in Assets
         /\ \A u : Amount(Plus(a, b), u) = Amount(a, u) + Amount(b, u)
<1> DEFINE S == {v \in DOMAIN a \cup DOMAIN b : Amount(a, v) + Amount(b, v) # 0}
<1>1. Plus(a, b) = [u \in S |-> Amount(a, u) + Amount(b, u)]
  BY DEF Plus
<1>2. S \in SUBSET Units
  BY DEF Assets
<1>3. Plus(a, b) \in [S -> Int \ {0}]
  BY <1>1, AmountType
<1>4. Plus(a, b) \in Assets
  BY <1>2, <1>3 DEF Assets
<1>5. ASSUME NEW u PROVE Amount(Plus(a, b), u) = Amount(a, u) + Amount(b, u)
  <2>1. CASE u \in S
    BY <1>1, <2>1 DEF Amount
  <2>2. CASE u \notin S
    <3>1. Amount(Plus(a, b), u) = 0
      BY <1>1, <2>2 DEF Amount
    <3>2. Amount(a, u) + Amount(b, u) = 0
      BY <2>2, AmountType DEF Amount
    <3> QED  BY <3>1, <3>2
  <2> QED  BY <2>1, <2>2
<1> QED  BY <1>4, <1>5

\* Taking back a list takes back its amounts.
LEMMA NegatedTakes ==
  ASSUME NEW a \in Assets
  PROVE  /\ Negated(a) \in Assets
         /\ \A u : Amount(Negated(a), u) = -Amount(a, u)
<1>1. PICK S \in SUBSET Units : a \in [S -> Int \ {0}]
  BY DEF Assets
<1>2. Negated(a) \in [S -> Int \ {0}]
  BY <1>1 DEF Negated
<1>3. Negated(a) \in Assets
  BY <1>2 DEF Assets
<1>4. \A u : Amount(Negated(a), u) = -Amount(a, u)
  BY <1>1 DEF Negated, Amount
<1> QED  BY <1>3, <1>4

\* An asset added to a list adds to its amount of that unit alone.
LEMMA AddAssetAdds ==
  ASSUME NEW a \in Assets, NEW u \in Units, NEW q \in Int
  PROVE  /\ AddAsset(a, u, q) \in Assets
         /\ \A v : Amount(AddAsset(a, u, q), v) = Amount(a, v) + (IF v = u THEN q ELSE 0)
<1> DEFINE b == [v \in {u} |-> q]
<1> DEFINE S == {v \in DOMAIN a \cup {u} : Amount(a, v) + Amount(b, v) # 0}
<1>1. \A v : Amount(b, v) = IF v = u THEN q ELSE 0
  BY DEF Amount
<1>2. AddAsset(a, u, q) = [v \in S |-> Amount(a, v) + Amount(b, v)]
  BY DEF AddAsset, Plus
<1>3. S \in SUBSET Units
  BY DEF Assets
<1>4. \A v : Amount(a, v) + Amount(b, v) \in Int
  BY <1>1, AmountType
<1>5. AddAsset(a, u, q) \in [S -> Int \ {0}]
  BY <1>2, <1>4
<1>6. AddAsset(a, u, q) \in Assets
  BY <1>3, <1>5 DEF Assets
<1>7. ASSUME NEW v PROVE Amount(AddAsset(a, u, q), v) = Amount(a, v) + Amount(b, v)
  <2> HIDE DEF b
  <2>1. CASE v \in S
    BY <1>2, <2>1 DEF Amount
  <2>2. CASE v \notin S
    <3>1. Amount(AddAsset(a, u, q), v) = 0
      BY <1>2, <2>2 DEF Amount
    <3>2. Amount(a, v) + Amount(b, v) = 0
      <4>1. CASE v \in DOMAIN a \cup {u}
        BY <4>1, <2>2
      <4>2. CASE v \notin DOMAIN a \cup {u}
        <5>1. Amount(b, v) = 0 /\ Amount(a, v) = 0
          BY <4>2, <1>1 DEF Amount
        <5> QED  BY <5>1
      <4> QED  BY <4>1, <4>2
    <3> QED  BY <3>1, <3>2
  <2> QED  BY <2>1, <2>2
<1> QED  BY <1>1, <1>6, <1>7

\* Two lists are found the same exactly when they have the same amount of every unit:
\* counting the entries and looking the one list's up in the other is enough, as neither
\* keeps a unit of nothing.
LEMMA SameIsEqualAmounts ==
  ASSUME NEW a \in Assets, NEW b \in Assets
  PROVE  SameAssets(a, b) <=> \A u \in Units : Amount(a, u) = Amount(b, u)
<1>1. PICK S \in SUBSET Units : a \in [S -> Int \ {0}]
  BY DEF Assets
<1>2. PICK T \in SUBSET Units : b \in [T -> Int \ {0}]
  BY DEF Assets
<1>3. IsFiniteSet(Units)
  BY BalanceAssumption
<1>4. IsFiniteSet(T)
  BY <1>2, <1>3, FS_Subset
<1>5. ASSUME SameAssets(a, b) PROVE \A u \in Units : Amount(a, u) = Amount(b, u)
  <2>1. S \subseteq T /\ Cardinality(T) = Cardinality(S)
    BY <1>1, <1>2, <1>5 DEF SameAssets
  <2>2. S = T
    BY <1>4, <2>1, FS_Subset
  <2> QED  BY <1>1, <1>2, <1>5, <2>2 DEF SameAssets, Amount
<1>6. ASSUME \A u \in Units : Amount(a, u) = Amount(b, u) PROVE SameAssets(a, b)
  <2>1. S = T
    <3>1. \A u \in Units : u \in S <=> u \in T
      BY <1>1, <1>2, <1>6, AmountType
    <3> QED  BY <3>1
  <2>2. \A u \in S : a[u] = b[u]
    BY <1>1, <1>2, <1>6, <2>1 DEF Amount
  <2> QED  BY <1>1, <1>2, <2>1, <2>2 DEF SameAssets
<1> QED  BY <1>5, <1>6

\* A list of nothing.
LEMMA NothingIsNone ==
  NoAssets \in Assets /\ Zero \in ValueOf /\ \A u : Amount(NoAssets, u) = 0
<1>1. NoAssets \in [{} -> Int \ {0}]
  BY DEF NoAssets
<1>2. NoAssets \in Assets
  BY <1>1 DEF Assets
<1>3. \A u : Amount(NoAssets, u) = 0
  BY DEF NoAssets, Amount
<1> QED  BY <1>2, <1>3 DEF Zero, Worth, ValueOf

\* An entry of an amount of coins keeps the equation of the coins, or takes what the body
\* names out of what is known.
LEMMA TermStep ==
  ASSUME BalanceInv, part \notin Sides \cup {"judged", "refused"}, NEW q \in Nat,
         NEW t \in {"refunds", "deposits", "withdrawals"}, Term(t, q)
  PROVE  BalanceInv'
<1>1. part' = part /\ halfRead' = FALSE /\ halfRead = FALSE
  BY DEF BalanceInv, BalanceTypes, Term
<1>2. BalanceTypes'
  BY DEF BalanceInv, BalanceTypes, Term, LeftCoins, TermSign, Terms
<1>3. AssetsCounted'
  BY <1>1 DEF BalanceInv, BalanceTypes, AssetsCounted, Term, LeftCoins, Reading
<1>4. ASSUME known' PROVE CoinsCounted'
  BY <1>1, <1>4 DEF BalanceInv, BalanceTypes, CoinsCounted, Term, LeftCoins, TermSign, Reading, Terms, ValueOf, Sides
<1> QED  BY <1>1, <1>2, <1>3, <1>4 DEF BalanceInv

LEMMA BalanceStep ==
  ASSUME BalanceInv, [BalanceNext]_balanceVars
  PROVE  BalanceInv'
<1> USE DEF BalanceInv
<1>a. BalanceTypes /\ Quantities \subseteq Nat /\ ContextTreasury \in Int
  BY BalanceAssumption
<1>b. /\ bundle.coins \in Int /\ bundle.assets \in Assets
      /\ \A s \in Sides : totals[s].coins \in Int /\ totals[s].assets \in Assets
  BY <1>a DEF BalanceTypes, ValueOf
<1>c. \A s \in Sides : SideSign(s) \in {1, -1}
  BY DEF Sides, SideSign
<1>1. CASE UNCHANGED balanceVars
  BY <1>1 DEF balanceVars, BalanceTypes, AssetsCounted, CoinsCounted, Reading
<1>2. CASE OpenInput
  <2>1. part' = part /\ part = "inputs" /\ halfRead' /\ ~halfRead /\ bundle' = Zero
    BY <1>2 DEF OpenInput
  <2>2. BalanceTypes'
    BY <1>2, NothingIsNone DEF OpenInput, BalanceTypes, AccountVars, Sides
  <2>3. AssetsCounted'
    BY <1>2, <2>1, <1>a, <1>b, NothingIsNone DEF OpenInput, AssetsCounted, AccountVars, Reading, Zero, Worth, SideSign, Sides
  <2>4. known' => CoinsCounted'
    BY <1>2, <2>1, <1>a, <1>b DEF OpenInput, CoinsCounted, AccountVars, Reading, Zero, Worth, SideSign, Sides
  <2> QED  BY <2>2, <2>3, <2>4
<1>3. ASSUME NEW q \in Quantities, OpenOutput(q) PROVE BalanceInv'
  <2>1. /\ part' = part /\ part = "outputs" /\ halfRead' /\ ~halfRead /\ bundle' = Worth(q, NoAssets) /\ q \in Int
        /\ left'.coins = left.coins - q /\ left'.assets = left.assets
    BY <1>3, <1>a DEF OpenOutput, LeftCoins, BalanceTypes
  <2>2. BalanceTypes'
    BY <1>3, <1>a, <2>1, NothingIsNone DEF OpenOutput, LeftCoins, BalanceTypes, AccountVars, Sides, Worth, ValueOf
  <2>3. AssetsCounted'
    BY <1>3, <2>1, <1>a, <1>b, NothingIsNone DEF OpenOutput, AssetsCounted, AccountVars, Reading, Worth, SideSign, Sides
  <2>4. ASSUME known' PROVE CoinsCounted'
    <3>1. /\ totals["inputs"].coins \in Int /\ totals["outputs"].coins \in Int /\ \A t \in Terms : sums[t] \in Int
          /\ left.coins \in Int /\ totals' = totals /\ sums' = sums /\ CoinsCounted
      BY <1>3, <1>a, <1>b, <2>1, <2>4 DEF OpenOutput, AccountVars, Sides, BalanceTypes
    <3> QED  BY <1>b, <2>1, <3>1 DEF CoinsCounted, Reading, Worth, SideSign, Sides, Terms
  <2> QED  BY <2>2, <2>3, <2>4
<1>4. ASSUME NEW q \in Quantities, ReadCoins(q) PROVE BalanceInv'
  <2>1. /\ part' = part /\ part = "inputs" /\ halfRead' /\ halfRead /\ q \in Int
        /\ bundle'.coins = bundle.coins + q /\ bundle'.assets = bundle.assets
        /\ left'.coins = left.coins + q /\ left'.assets = left.assets
    BY <1>4, <1>a DEF ReadCoins, LeftCoins, BalanceTypes, ValueOf
  <2>2. BalanceTypes'
    BY <1>4, <1>a, <2>1 DEF ReadCoins, LeftCoins, BalanceTypes, AccountVars, Sides, ValueOf
  <2>3. AssetsCounted'
    BY <1>4, <2>1, <1>a, <1>b DEF ReadCoins, AssetsCounted, AccountVars, Reading, SideSign, Sides
  <2>4. ASSUME known' PROVE CoinsCounted'
    <3>1. /\ totals["inputs"].coins \in Int /\ totals["outputs"].coins \in Int /\ \A t \in Terms : sums[t] \in Int
          /\ left.coins \in Int /\ totals' = totals /\ sums' = sums /\ CoinsCounted
      BY <1>4, <1>a, <1>b, <2>1, <2>4 DEF ReadCoins, AccountVars, Sides, BalanceTypes
    <3> QED  BY <1>b, <2>1, <3>1 DEF CoinsCounted, Reading, SideSign, Sides, Terms
  <2> QED  BY <2>2, <2>3, <2>4
<1>5. ASSUME NEW u \in Units, NEW q \in Nat, ReadAsset(u, q) PROVE BalanceInv'
  <2>1. /\ part' = part /\ part \in Sides /\ halfRead' /\ halfRead /\ q \in Int
        /\ bundle'.coins = bundle.coins /\ bundle'.assets = AddAsset(bundle.assets, u, q)
        /\ left'.coins = left.coins /\ left'.assets = [left.assets EXCEPT ![u] = @ + SideSign(part) * q]
    BY <1>5, <1>a DEF ReadAsset, LeftAsset, BalanceTypes, ValueOf
  <2>2. /\ bundle'.assets \in Assets
        /\ \A v : Amount(bundle'.assets, v) = Amount(bundle.assets, v) + (IF v = u THEN q ELSE 0)
    BY <2>1, <1>b, AddAssetAdds
  <2>3. bundle' \in ValueOf
    BY <1>5, <1>a, <2>1, <2>2 DEF ReadAsset, BalanceTypes, ValueOf
  <2>4. left' \in [coins : Int, assets : [Units -> Int]]
    BY <1>5, <1>a, <1>c, <2>1 DEF ReadAsset, LeftAsset, BalanceTypes
  <2>5. BalanceTypes'
    BY <1>5, <1>a, <2>1, <2>3, <2>4 DEF ReadAsset, BalanceTypes, AccountVars, Sides
  <2>6. ASSUME NEW v \in Units
        PROVE  left'.assets[v] = Amount(totals["inputs"].assets, v) - Amount(totals["outputs"].assets, v)
                                 + Amount(minted, v) - Amount(burnt, v) + SideSign(part) * Amount(bundle'.assets, v)
    <3>1. /\ Amount(totals["inputs"].assets, v) \in Int /\ Amount(totals["outputs"].assets, v) \in Int
          /\ Amount(minted, v) \in Int /\ Amount(burnt, v) \in Int /\ Amount(bundle.assets, v) \in Int
      BY <1>a, <1>b, AmountType DEF BalanceTypes, Sides
    <3>2. left'.assets[v] = left.assets[v] + SideSign(part) * (IF v = u THEN q ELSE 0)
      BY <1>a, <1>c, <2>1 DEF BalanceTypes
    <3>3. left.assets[v] = Amount(totals["inputs"].assets, v) - Amount(totals["outputs"].assets, v)
                           + Amount(minted, v) - Amount(burnt, v) + SideSign(part) * Amount(bundle.assets, v)
      BY <2>1 DEF AssetsCounted, Reading, Sides
    <3>4. CASE SideSign(part) = 1
      BY <2>2, <3>1, <3>2, <3>3, <3>4
    <3>5. CASE SideSign(part) = -1
      BY <2>2, <3>1, <3>2, <3>3, <3>5
    <3> QED  BY <1>c, <2>1, <3>4, <3>5
  <2>7. AssetsCounted'
    BY <1>5, <2>1, <2>6 DEF ReadAsset, AssetsCounted, AccountVars, Reading
  <2>8. known' => CoinsCounted'
    BY <1>5, <2>1 DEF ReadAsset, CoinsCounted, AccountVars, Reading, Sides
  <2> QED  BY <2>5, <2>7, <2>8
<1>6. CASE CloseValue
  <2>1. /\ part' = part /\ part \in Sides /\ ~halfRead' /\ halfRead
        /\ totals' = [totals EXCEPT ![part] = AddValue(totals[part], bundle)]
    BY <1>6, <1>a DEF CloseValue, BalanceTypes
  <2>2. /\ AddValue(totals[part], bundle) \in ValueOf
        /\ AddValue(totals[part], bundle).coins = totals[part].coins + bundle.coins
        /\ \A u : Amount(AddValue(totals[part], bundle).assets, u) = Amount(totals[part].assets, u) + Amount(bundle.assets, u)
    BY <1>b, <2>1, PlusAdds DEF AddValue, Worth, ValueOf
  <2>3. totals' \in [Sides -> ValueOf]
    BY <1>a, <2>1, <2>2 DEF BalanceTypes
  <2>4. BalanceTypes'
    BY <1>6, <1>a, <2>1, <2>3 DEF CloseValue, BalanceTypes, AccountVars
  <2>5. part = "inputs" \/ part = "outputs"
    BY <2>1 DEF Sides
  <2>6. /\ \A s \in Sides : s # part => totals'[s] = totals[s]
        /\ totals'[part] = AddValue(totals[part], bundle)
    BY <1>a, <2>1 DEF BalanceTypes
  <2>7. ASSUME NEW u \in Units
        PROVE  left.assets[u] = Amount(totals'["inputs"].assets, u) - Amount(totals'["outputs"].assets, u)
                                + Amount(minted, u) - Amount(burnt, u)
    <3>1. /\ Amount(totals["inputs"].assets, u) \in Int /\ Amount(totals["outputs"].assets, u) \in Int
          /\ Amount(minted, u) \in Int /\ Amount(burnt, u) \in Int /\ Amount(bundle.assets, u) \in Int
      BY <1>a, <1>b, AmountType DEF BalanceTypes, Sides
    <3>3. left.assets[u] = Amount(totals["inputs"].assets, u) - Amount(totals["outputs"].assets, u)
                           + Amount(minted, u) - Amount(burnt, u) + SideSign(part) * Amount(bundle.assets, u)
      BY <2>1 DEF AssetsCounted, Reading, Sides
    <3> QED  BY <2>2, <2>5, <2>6, <3>1, <3>3 DEF SideSign, Sides
  <2>8. AssetsCounted'
    BY <1>6, <1>a, <2>1, <2>7 DEF CloseValue, AssetsCounted, AccountVars, Reading, BalanceTypes
  <2>9. ASSUME known' PROVE CoinsCounted'
    <3>1. left.coins = totals["inputs"].coins - totals["outputs"].coins + sums.refunds + sums.withdrawals
                       - sums.fees - sums.deposits - sums.donation + SideSign(part) * bundle.coins
      BY <1>6, <2>1, <2>9 DEF CloseValue, CoinsCounted, Reading, Sides
    <3>2. left.coins = totals'["inputs"].coins - totals'["outputs"].coins + sums.refunds + sums.withdrawals
                       - sums.fees - sums.deposits - sums.donation
      BY <1>a, <1>b, <2>2, <2>5, <2>6, <3>1 DEF SideSign, Sides, BalanceTypes, Terms
    <3> QED  BY <1>6, <1>a, <2>1, <3>2 DEF CloseValue, CoinsCounted, AccountVars, Reading, BalanceTypes, Terms
  <2> QED  BY <2>4, <2>8, <2>9
<1>7. CASE RefuseQuantity
  BY <1>7, <1>a DEF RefuseQuantity, BalanceTypes, AccountVars
<1>8. CASE NextPart
  <2>1. /\ part' \in {"certificates", "proposals", "withdrawals", "mint", "outputs", "fee"}
        /\ part # "judged" /\ part # "refused" /\ ~halfRead /\ ~halfRead'
    BY <1>8 DEF NextPart, BodyParts
  <2>2. BalanceTypes'
    BY <1>8, <1>a, <2>1 DEF NextPart, BalanceTypes, AccountVars
  <2>3. AssetsCounted' /\ (known' => CoinsCounted')
    BY <1>8, <1>a, <2>1 DEF NextPart, AssetsCounted, CoinsCounted, AccountVars, Reading
  <2> QED  BY <2>2, <2>3
<1>9. ASSUME NEW q \in Quantities, UnknownInput(q) \/ UnknownRefund(q) PROVE BalanceInv'
  <2>1. part' = part /\ halfRead' = halfRead /\ ~known' /\ part # "refused" /\ part # "judged"
    BY <1>9 DEF UnknownInput, UnknownRefund
  <2>2. BalanceTypes'
    BY <1>9, <1>a, <2>1 DEF UnknownInput, UnknownRefund, BalanceTypes, LeftCoins, AccountVars
  <2>3. AssetsCounted'
    BY <1>9, <1>a, <2>1 DEF UnknownInput, UnknownRefund, AssetsCounted, LeftCoins, AccountVars, Reading, BalanceTypes
  <2> QED  BY <2>1, <2>2, <2>3
<1>10. ASSUME NEW q \in Quantities, CertificateEntry(q) \/ ProposalEntry(q) \/ WithdrawalEntry(q) PROVE BalanceInv'
  <2>1. part \notin Sides \cup {"judged", "refused"}
    BY <1>10 DEF CertificateEntry, ProposalEntry, WithdrawalEntry, Sides
  <2> QED  BY <1>a, <1>10, <2>1, TermStep DEF CertificateEntry, ProposalEntry, WithdrawalEntry
<1>11. ASSUME NEW u \in Units, NEW q \in Int, MintEntry(u, q) PROVE BalanceInv'
  <2>1. /\ part' = part /\ part = "mint" /\ ~halfRead /\ ~halfRead'
        /\ minted' = IF q > 0 THEN AddAsset(minted, u, q) ELSE minted
        /\ burnt' = IF q < 0 THEN AddAsset(burnt, u, -q) ELSE burnt
        /\ left'.coins = left.coins /\ left'.assets = [left.assets EXCEPT ![u] = @ + q]
    BY <1>11, <1>a DEF MintEntry, LeftAsset, BalanceTypes, Sides
  <2>2. /\ minted' \in Assets
        /\ \A v : Amount(minted', v) = Amount(minted, v) + (IF v = u /\ q > 0 THEN q ELSE 0)
    <3>0. minted \in Assets /\ \A v : Amount(minted, v) \in Int
      BY <1>a, AmountType DEF BalanceTypes
    <3>1. CASE q > 0
      BY <2>1, <3>0, <3>1, AddAssetAdds
    <3>2. CASE ~(q > 0)
      BY <2>1, <3>0, <3>2
    <3> QED  BY <3>1, <3>2
  <2>3. /\ burnt' \in Assets
        /\ \A v : Amount(burnt', v) = Amount(burnt, v) + (IF v = u /\ q < 0 THEN -q ELSE 0)
    <3>0. burnt \in Assets /\ -q \in Int /\ \A v : Amount(burnt, v) \in Int
      BY <1>a, AmountType DEF BalanceTypes
    <3>1. CASE q < 0
      BY <2>1, <3>0, <3>1, AddAssetAdds
    <3>2. CASE ~(q < 0)
      BY <2>1, <3>0, <3>2
    <3> QED  BY <3>1, <3>2
  <2>4. left' \in [coins : Int, assets : [Units -> Int]]
    BY <1>11, <1>a DEF MintEntry, LeftAsset, BalanceTypes
  <2>5. BalanceTypes'
    BY <1>11, <1>a, <2>1, <2>2, <2>3, <2>4 DEF MintEntry, BalanceTypes
  <2>6. AssetsCounted'
    <3>1. ASSUME NEW v \in Units
          PROVE  left'.assets[v] = Amount(totals["inputs"].assets, v) - Amount(totals["outputs"].assets, v)
                                   + Amount(minted', v) - Amount(burnt', v)
      <4>1. /\ Amount(totals["inputs"].assets, v) \in Int /\ Amount(totals["outputs"].assets, v) \in Int
            /\ Amount(minted, v) \in Int /\ Amount(burnt, v) \in Int
        BY <1>a, <1>b, AmountType DEF BalanceTypes, Sides
      <4>2. left'.assets[v] = left.assets[v] + (IF v = u THEN q ELSE 0)
        BY <1>a, <2>1 DEF BalanceTypes
      <4>3. left.assets[v] = Amount(totals["inputs"].assets, v) - Amount(totals["outputs"].assets, v)
                             + Amount(minted, v) - Amount(burnt, v)
        BY <1>a, <2>1, <4>1 DEF AssetsCounted, Reading, BalanceTypes
      <4> QED  BY <2>2, <2>3, <4>1, <4>2, <4>3
    <3>2. \A v \in Units : left'.assets[v] \in Int
      BY <2>4
    <3> QED  BY <1>11, <2>1, <3>1, <3>2 DEF MintEntry, AssetsCounted, Reading
  <2>7. known' => CoinsCounted'
    BY <1>11, <2>1 DEF MintEntry, CoinsCounted, Reading
  <2> QED  BY <2>5, <2>6, <2>7
<1>12. ASSUME NEW q \in Quantities, NEW donation \in {0, q}, NEW declared, FeeAndDonation(q, donation, declared) PROVE BalanceInv'
  <2>1. /\ part = "fee" /\ part' = "judged" /\ ~halfRead /\ ~halfRead' /\ q \in Int /\ donation \in Int
        /\ sums' = [sums EXCEPT !.fees = q, !.donation = donation]
        /\ left'.coins = left.coins - q - donation /\ left'.assets = left.assets
    BY <1>12, <1>a DEF FeeAndDonation, LeftCoins, BalanceTypes, Sides
  <2>2. BalanceTypes'
    <3>0. sums \in [Terms -> Int] /\ left \in [coins : Int, assets : [Units -> Int]]
      BY <1>a DEF BalanceTypes
    <3>2. sums' \in [Terms -> Int]
      BY <2>1, <3>0
    <3>3. left' = [left EXCEPT !.coins = @ + (-q - donation)] /\ left.coins + (-q - donation) \in Int
      BY <1>12, <2>1, <3>0 DEF FeeAndDonation, LeftCoins
    <3>4. left' \in [coins : Int, assets : [Units -> Int]]
      BY <3>0, <3>3
    <3>1. sums' \in [Terms -> Int] /\ left' \in [coins : Int, assets : [Units -> Int]]
      BY <3>2, <3>4
    <3> QED  BY <1>12, <1>a, <2>1, <3>1 DEF FeeAndDonation, BalanceTypes
  <2>3. AssetsCounted'
    BY <1>12, <2>1 DEF FeeAndDonation, AssetsCounted, Reading
  <2>4. ASSUME known' PROVE CoinsCounted'
    <3>1. left.coins = totals["inputs"].coins - totals["outputs"].coins + sums.refunds + sums.withdrawals - sums.deposits
      BY <1>12, <1>a, <1>b, <2>1, <2>4 DEF FeeAndDonation, CoinsCounted, Reading, BalanceTypes, Terms, Sides
    <3>2. /\ sums'.refunds = sums.refunds /\ sums'.withdrawals = sums.withdrawals /\ sums'.deposits = sums.deposits
          /\ sums'.fees = q /\ sums'.donation = donation
      BY <1>a, <2>1 DEF BalanceTypes, Terms
    <3>3. sums.refunds \in Int /\ sums.withdrawals \in Int /\ sums.deposits \in Int
      BY <1>a DEF BalanceTypes, Terms
    <3> QED  BY <1>12, <1>b, <2>1, <3>1, <3>2, <3>3 DEF FeeAndDonation, CoinsCounted, Reading, Sides
  <2> QED  BY <2>2, <2>3, <2>4
<1> QED
  BY <1>a, <1>1, <1>2, <1>3, <1>4, <1>5, <1>6, <1>7, <1>8, <1>9, <1>10, <1>11, <1>12 DEF BalanceNext

THEOREM BalanceInvariance == BalanceSpec => []BalanceInv
<1>1. BalanceInit => BalanceInv
  <2>1. ASSUME BalanceInit PROVE BalanceTypes
    <3>1. sums \in [Terms -> Int] /\ left \in [coins : Int, assets : [Units -> Int]]
      BY <2>1 DEF BalanceInit
    <3>2. sums.fees = 0 /\ sums.donation = 0
      BY <2>1 DEF BalanceInit, Terms
    <3> QED  BY <2>1, <3>1, <3>2, NothingIsNone DEF BalanceInit, BalanceTypes, Sides
  <2>2. ASSUME BalanceInit PROVE AssetsCounted /\ CoinsCounted
    BY <2>2, NothingIsNone DEF BalanceInit, AssetsCounted, CoinsCounted, Reading, Zero, Worth, Sides, Terms
  <2> QED  BY <2>1, <2>2 DEF BalanceInv
<1> QED  BY <1>1, BalanceStep, PTL DEF BalanceSpec

\* Of a body all of which the context knows, the two sides are found equal exactly when the
\* ledger finds its value preserved, whatever units there are and however the entries are
\* listed (BalanceValidator::validate; MultiAsset::eq, add_asset).
THEOREM ValueIsConserved == BalanceSpec => []ValueConserved
<1>1. BalanceInv => ValueConserved
  <2> SUFFICES ASSUME BalanceInv, part = "judged", known
               PROVE  /\ BalanceErrors = LedgerErrors
                      /\ Difference(TotalInput, TotalOutput).coins = left.coins
                      /\ \A u \in Units : Amount(Difference(TotalInput, TotalOutput).assets, u) = left.assets[u]
    BY DEF ValueConserved
  <2> DEFINE a == Plus(totals["inputs"].assets, minted)
  <2> DEFINE b == Plus(totals["outputs"].assets, burnt)
  <2>1. /\ BalanceTypes /\ AssetsCounted /\ CoinsCounted /\ ~halfRead
        /\ totals["inputs"] \in ValueOf /\ totals["outputs"] \in ValueOf
    BY DEF BalanceInv, BalanceTypes, Sides
  <2>2. /\ a \in Assets /\ \A u : Amount(a, u) = Amount(totals["inputs"].assets, u) + Amount(minted, u)
        /\ b \in Assets /\ \A u : Amount(b, u) = Amount(totals["outputs"].assets, u) + Amount(burnt, u)
    BY <2>1, PlusAdds DEF BalanceTypes, ValueOf
  <2>3. TotalInput.assets = a /\ TotalOutput.assets = b
    BY DEF TotalInput, TotalOutput, Worth
  <2> HIDE DEF a, b
  <2>4. TotalInput.coins \in Int /\ TotalOutput.coins \in Int /\ left.coins = TotalInput.coins - TotalOutput.coins
    BY <2>1 DEF TotalInput, TotalOutput, Worth, CoinsCounted, Reading, BalanceTypes, ValueOf, Terms
  <2>5. \A u \in Units : /\ Amount(a, u) \in Int /\ Amount(b, u) \in Int
                         /\ left.assets[u] = Amount(a, u) - Amount(b, u)
    <3> SUFFICES ASSUME NEW u \in Units
                 PROVE  /\ Amount(a, u) \in Int /\ Amount(b, u) \in Int
                        /\ left.assets[u] = Amount(a, u) - Amount(b, u)
      OBVIOUS
    <3>1. /\ Amount(totals["inputs"].assets, u) \in Int /\ Amount(totals["outputs"].assets, u) \in Int
          /\ Amount(minted, u) \in Int /\ Amount(burnt, u) \in Int
      BY <2>1, AmountType DEF BalanceTypes, ValueOf
    <3> QED  BY <2>1, <2>2, <3>1 DEF AssetsCounted, Reading
  <2>6. SameValue(TotalInput, TotalOutput) <=> Preserved
    <3>1. SameAssets(a, b) <=> \A u \in Units : left.assets[u] = 0
      BY <2>2, <2>5, SameIsEqualAmounts
    <3>2. TotalInput.coins = TotalOutput.coins <=> left.coins = 0
      BY <2>4
    <3> QED  BY <2>3, <3>1, <3>2 DEF SameValue, Preserved
  <2>7. Difference(TotalInput, TotalOutput).coins = left.coins
    BY <2>4 DEF Difference, Worth
  <2>8. \A u \in Units : Amount(Difference(TotalInput, TotalOutput).assets, u) = left.assets[u]
    <3>1. Difference(TotalInput, TotalOutput).assets = Plus(a, Negated(b))
      BY <2>3 DEF Difference, Worth
    <3> QED  BY <2>2, <2>5, <3>1, PlusAdds, NegatedTakes
  <2> QED  BY <2>6, <2>7, <2>8 DEF BalanceErrors, LedgerErrors
<1> QED  BY <1>1, BalanceInvariance, PTL
=================================================================================
