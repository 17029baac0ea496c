----------------------------- MODULE Verdicts_proofs -----------------------------
\* Verdicts, for every transaction and every chain: what validateTransaction finds valid
\* the ledger accepts, and what it says is wrong the ledger finds wrong. The way there: the
\* requirements the validator draws up and the ledger's script purposes are the same, tag by
\* tag and index by index, and so are the keys, the datums, the languages, the sizes and the
\* sums that are worked out from them; then each rule of the ledger is held against the
\* error that is not there, and each error that is there against its rule.
EXTENDS Verdicts, FiniteSetTheorems, WellFoundedInduction, TLAPS

\* ---- counting, sums and ranks ----

\* A set of naturals that has 0 and the successor of each of its members has them all:
\* what induction on naturals is used for here, stated of a set.
LEMMA CountingUp ==
  ASSUME NEW S \in SUBSET Nat, 0 \in S, \A n \in S : n + 1 \in S
  PROVE  S = Nat
<1> DEFINE R == OpToRel(<, Nat)
<1>1. IsWellFoundedOn(R, Nat)
  BY NatLessThanWellFounded, Zenon
<1>2. \A x, y \in Nat : <<y, x>> \in R <=> y < x
  BY DEF OpToRel
<1> HIDE DEF R
<1>3. SUFFICES ASSUME Nat \ S # {} PROVE FALSE
  OBVIOUS
<1>4. PICK x \in Nat \ S : \A y \in Nat \ S : ~(<<y, x>> \in R)
  BY <1>1, <1>3, WFMin
<1>5. x # 0 /\ x - 1 \in Nat /\ x - 1 < x /\ (x - 1) + 1 = x
  BY <1>4
<1>6. x - 1 \in S
  BY <1>2, <1>4, <1>5
<1> QED
  BY <1>4, <1>5, <1>6

\* The sum of what is left, when the sums of less are `sums`.
Summed(f, sums, rest) ==
  IF rest = {} THEN 0 ELSE LET x == CHOOSE y \in rest : TRUE IN f[x] + sums[rest \ {x}]
Small(D, n) == {s \in SUBSET D : Cardinality(s) <= n}

\* The fold, as the function it is chosen to be.
LEMMA TotalIs ==
  ASSUME NEW f
  PROVE  Total(f) = LET h == CHOOSE g : g = [s \in SUBSET DOMAIN f |-> Summed(f, g, s)] IN h[DOMAIN f]
BY DEF Total, FoldFunction, FoldFunctionOnSet, MapThenFoldSet, Summed

\* There is one function that sums every part of a finite domain.
LEMMA SumsExist ==
  ASSUME NEW f, IsFiniteSet(DOMAIN f)
  PROVE  \E g : g = [s \in SUBSET DOMAIN f |-> Summed(f, g, s)]
<1> DEFINE D == DOMAIN f
           S == {n \in Nat : \E g : g = [s \in Small(D, n) |-> Summed(f, g, s)]}
<1>0. \A s \in SUBSET D : IsFiniteSet(s) /\ Cardinality(s) \in Nat
  BY FS_Subset, FS_CardinalityType
<1>1. 0 \in S
  <2>1. Small(D, 0) = {{}}
    BY <1>0, FS_EmptySet DEF Small
  <2> DEFINE z == [s \in {{}} |-> 0]
  <2>2. z = [s \in Small(D, 0) |-> Summed(f, z, s)]
    BY <2>1 DEF Summed
  <2> QED
    BY <2>2
<1>2. ASSUME NEW n \in S PROVE n + 1 \in S
  <2> n \in Nat
    BY <1>2
  <2>1. PICK g : g = [s \in Small(D, n) |-> Summed(f, g, s)]
    BY <1>2
  <2> DEFINE h == [s \in Small(D, n + 1) |-> IF s \in Small(D, n) THEN g[s] ELSE Summed(f, g, s)]
  <2>2. ASSUME NEW s \in Small(D, n + 1) PROVE h[s] = Summed(f, h, s)
    <3>1. CASE s = {}
      <4>1. s \in Small(D, n) BY <3>1, FS_EmptySet DEF Small
      <4> QED BY <2>1, <3>1, <4>1 DEF Summed
    <3>2. CASE s # {}
      <4> DEFINE x == CHOOSE y \in s : TRUE
      <4>1. x \in s BY <3>2
      <4>2. s \in SUBSET D /\ Cardinality(s) <= n + 1 BY DEF Small
      <4>3. Cardinality(s \ {x}) = Cardinality(s) - 1
        BY <4>1, <4>2, <1>0, FS_RemoveElement
      <4>4. s \ {x} \in Small(D, n) /\ s \ {x} \in Small(D, n + 1)
        BY <4>2, <4>3, <1>0 DEF Small
      <4>5. h[s \ {x}] = g[s \ {x}] BY <4>4
      <4>6. h[s] = Summed(f, g, s) BY <2>1
      <4> HIDE DEF h
      <4> QED BY <4>5, <4>6, <3>2 DEF Summed
    <3> QED BY <3>1, <3>2
  <2>3. h = [s \in Small(D, n + 1) |-> Summed(f, h, s)]
    <3> DEFINE k == [s \in Small(D, n + 1) |-> Summed(f, h, s)]
    <3>1. h = [s \in Small(D, n + 1) |-> h[s]] OBVIOUS
    <3> HIDE DEF h
    <3> QED BY <2>2, <3>1
  <2>4. n + 1 \in Nat
    OBVIOUS
  <2> HIDE DEF h
  <2> QED BY <2>3, <2>4, Zenon
<1>3. S = Nat
  BY <1>1, <1>2, CountingUp
<1>4. Small(D, Cardinality(D)) = SUBSET D
  BY <1>0, FS_Subset DEF Small
<1>5. Cardinality(D) \in S
  BY <1>0, <1>3
<1>6. \E g : g = [s \in Small(D, Cardinality(D)) |-> Summed(f, g, s)]
  BY <1>5, Zenon
<1> QED
  BY <1>4, <1>6, Zenon

\* The sum of integers.
LEMMA TotalIsASum ==
  ASSUME NEW D, IsFiniteSet(D), NEW f \in [D -> Int]
  PROVE  /\ Total(f) \in Int
         /\ (\A x \in D : f[x] = 0) => Total(f) = 0
         /\ (\A x \in D : f[x] >= 0) => \A x \in D : Total(f) >= f[x]
<1> DEFINE h == CHOOSE g : g = [s \in SUBSET D |-> Summed(f, g, s)]
<1>1. h = [s \in SUBSET D |-> Summed(f, h, s)]
  BY SumsExist
<1>2. Total(f) = h[D]
  BY TotalIs
<1> HIDE DEF h
<1> DEFINE Good(s) == /\ h[s] \in Int
                      /\ (\A x \in s : f[x] = 0) => h[s] = 0
                      /\ (\A x \in s : f[x] >= 0) => h[s] >= 0 /\ \A x \in s : h[s] >= f[x]
           S == {n \in Nat : \A s \in Small(D, n) : Good(s)}
<1>3. \A s \in SUBSET D : IsFiniteSet(s) /\ Cardinality(s) \in Nat
  BY FS_Subset, FS_CardinalityType
<1>4. h[{}] = 0 /\ Good({})
  BY <1>1 DEF Summed
<1>5. 0 \in S
  <2>1. Small(D, 0) = {{}}
    BY <1>3, FS_EmptySet DEF Small
  <2> QED
    BY <1>4, <2>1
<1>6. ASSUME NEW n \in S PROVE n + 1 \in S
  <2>1. ASSUME NEW s \in Small(D, n + 1) PROVE Good(s)
    <3>1. CASE s = {} BY <3>1, <1>4
    <3>2. CASE s # {}
      <4> DEFINE x == CHOOSE y \in s : TRUE
      <4>1. x \in s BY <3>2
      <4>2. s \in SUBSET D /\ Cardinality(s) <= n + 1 BY DEF Small
      <4>3. Cardinality(s \ {x}) = Cardinality(s) - 1
        BY <4>1, <4>2, <1>3, FS_RemoveElement
      <4>4. s \ {x} \in Small(D, n)
        BY <4>2, <4>3, <1>3, <1>6 DEF Small
      <4>5. Good(s \ {x}) BY <4>4, <1>6
      <4>6. h[s] = f[x] + h[s \ {x}] BY <1>1, <4>2, <3>2 DEF Summed
      <4>7. f[x] \in Int BY <4>1, <4>2
      <4>8. \A y \in s : y = x \/ y \in s \ {x} OBVIOUS
      <4>9. \A y \in s : f[y] \in Int BY <4>2
      <4> HIDE DEF x
      <4>10. h[s] \in Int
        BY <4>5, <4>6, <4>7
      <4>11. (\A y \in s : f[y] = 0) => h[s] = 0
        BY <4>1, <4>5, <4>6
      <4>12. ASSUME \A y \in s : f[y] >= 0 PROVE h[s] >= 0 /\ \A y \in s : h[s] >= f[y]
        <5>1. f[x] >= 0 /\ h[s \ {x}] >= 0 /\ \A y \in s \ {x} : h[s \ {x}] >= f[y]
          BY <4>1, <4>5, <4>12
        <5>2. h[s] >= 0 /\ h[s] >= h[s \ {x}] /\ h[s] >= f[x]
          BY <5>1, <4>5, <4>6, <4>7
        <5>3. h[s \ {x}] \in Int
          BY <4>5
        <5>4. ASSUME NEW y \in s PROVE h[s] >= f[y]
          <6>1. f[y] \in Int
            BY <4>9
          <6>2. CASE y = x BY <6>2, <5>2
          <6>3. CASE y \in s \ {x}
            <7>1. h[s \ {x}] >= f[y] BY <5>1, <6>3
            <7> QED BY <7>1, <5>2, <5>3, <6>1, <4>10
          <6> QED BY <6>2, <6>3
        <5> QED
          BY <5>2, <5>4
      <4> QED BY <4>10, <4>11, <4>12
    <3> QED BY <3>1, <3>2
  <2> QED BY <2>1, <1>6
<1>7. S = Nat
  BY <1>5, <1>6, CountingUp
<1>8. D \in Small(D, Cardinality(D))
  BY <1>3, FS_Subset DEF Small
<1>9. Good(D)
  BY <1>3, <1>7, <1>8
<1> QED
  BY <1>2, <1>9

\* No two elements of a finite set of integers have the same rank in it.
LEMMA RankTells ==
  ASSUME NEW S, IsFiniteSet(S), S \subseteq Int, NEW a \in S, NEW b \in S,
         SortedIndex(S, a) = SortedIndex(S, b)
  PROVE  a = b
<1> DEFINE Below(e) == {x \in S : x < e}
<1>1. ASSUME NEW e \in S, NEW g \in S, e < g, Cardinality(Below(e)) = Cardinality(Below(g)) PROVE FALSE
  <2>1. Below(e) \in SUBSET Below(g)
    <3>1. e \in Int /\ g \in Int /\ \A x \in S : x \in Int
      OBVIOUS
    <3>2. \A x \in S : x < e => x < g
      BY <1>1, <3>1
    <3> QED
      BY <3>2
  <2>2. e \in Below(g) /\ e \notin Below(e)
    <3>1. e \in Int /\ g \in Int
      OBVIOUS
    <3>2. ~(e < e) /\ e < g
      BY <1>1, <3>1
    <3> QED
      BY <3>2
  <2>3. IsFiniteSet(Below(g))
    BY FS_Subset
  <2>4. Below(g) = Below(e)
    BY <1>1, <2>1, <2>3, FS_Subset
  <2> QED
    BY <2>2, <2>4
<1>2. a < b \/ b < a \/ a = b
  OBVIOUS
<1> QED
  BY <1>1, <1>2 DEF SortedIndex

\* The policies of a mint are ranked as they are listed, when they are listed in order.
LEMMA RanksOfMint ==
  ASSUME NEW mint \in Seq(Nat), \A i \in DOMAIN mint : \A j \in 1..(i - 1) : ~(mint[i] <= mint[j]),
         NEW i \in DOMAIN mint
  PROVE  Rank(Range(mint), mint[i]) = i - 1
<1> DEFINE Below == {x \in Range(mint) : x < mint[i]}
           f == [j \in 1..(i - 1) |-> mint[j]]
<1>1. DOMAIN mint = 1..Len(mint) /\ Len(mint) \in Nat /\ \A j \in DOMAIN mint : mint[j] \in Nat
  OBVIOUS
<1>a. i \in Nat /\ \A j \in 1..(i - 1) : j \in DOMAIN mint /\ j \in Nat /\ j < i
  BY <1>1
<1>b. \A j \in DOMAIN mint : mint[j] \in Range(mint)
  BY DEF Range
<1>2. \A j \in DOMAIN mint, k \in DOMAIN mint : k < j => mint[k] < mint[j]
  <2> SUFFICES ASSUME NEW j \in DOMAIN mint, NEW k \in DOMAIN mint, k < j PROVE mint[k] < mint[j]
    OBVIOUS
  <2>1. k \in 1..(j - 1)
    BY <1>1
  <2>2. ~(mint[j] <= mint[k])
    BY <2>1
  <2>3. mint[j] \in Nat /\ mint[k] \in Nat
    BY <1>1
  <2> QED
    BY <2>2, <2>3
<1>3. \A j \in 1..(i - 1) : mint[j] \in Below
  BY <1>a, <1>b, <1>2
<1>4. \A x \in Below : \E j \in 1..(i - 1) : mint[j] = x
  <2> SUFFICES ASSUME NEW x \in Below PROVE \E j \in 1..(i - 1) : mint[j] = x
    OBVIOUS
  <2>1. PICK j \in DOMAIN mint : mint[j] = x
    BY DEF Range
  <2>2. mint[j] < mint[i] /\ mint[i] \in Nat /\ mint[j] \in Nat
    BY <1>1, <2>1
  <2>3. ~(i < j) /\ i # j
    <3>1. i < j => mint[i] < mint[j]
      BY <1>2
    <3> QED
      BY <2>2, <3>1
  <2>4. i \in Nat /\ j \in Nat /\ j >= 1
    BY <1>1
  <2>5. j \in 1..(i - 1)
    BY <2>3, <2>4
  <2> QED
    BY <2>1, <2>5
<1>5. f \in Bijection(1..(i - 1), Below)
  <2>1. f \in [1..(i - 1) -> Below]
    BY <1>3
  <2>2. \A j, k \in 1..(i - 1) : f[j] = f[k] => j = k
    <3> SUFFICES ASSUME NEW j \in 1..(i - 1), NEW k \in 1..(i - 1), mint[j] = mint[k] PROVE j = k
      OBVIOUS
    <3>1. j \in Nat /\ k \in Nat /\ j \in DOMAIN mint /\ k \in DOMAIN mint
      BY <1>a
    <3>2. mint[j] \in Nat
      BY <1>1, <3>1
    <3>3. ~(mint[j] < mint[k]) /\ ~(mint[k] < mint[j])
      BY <3>2
    <3> QED
      BY <1>2, <3>1, <3>3
  <2> QED
    BY <1>4, <2>1, <2>2 DEF Bijection, Injection, Surjection, IsInjective
<1>6. IsFiniteSet(1..(i - 1)) /\ Cardinality(1..(i - 1)) = i - 1
  <2>1. 1 \in Int /\ i - 1 \in Int /\ i >= 1 /\ i \in Int
    BY <1>1
  <2>2. (i - 1) - 1 + 1 = i - 1 /\ (1 > i - 1 => i - 1 = 0)
    BY <2>1
  <2>3. Cardinality(1..(i - 1)) = IF 1 > i - 1 THEN 0 ELSE (i - 1) - 1 + 1
    BY <2>1, FS_Interval
  <2>4. IsFiniteSet(1..(i - 1))
    BY <2>1, FS_Interval
  <2> QED
    BY <2>2, <2>3, <2>4
<1>7. Cardinality(Below) = i - 1
  BY <1>5, <1>6, FS_Bijection DEF ExistsBijection
<1> QED
  BY <1>7 DEF Rank

\* If some of the policies' places in the list are all ranks of theirs, they are all of
\* their ranks, one policy listed twice or not.
LEMMA PlacesAreRanks ==
  ASSUME NEW mint \in Seq(Nat), NEW policies,
         {i - 1 : i \in {j \in DOMAIN mint : mint[j] \in policies}}
           \subseteq {Rank(Range(mint), p) : p \in Range(mint) \cap policies}
  PROVE  \A p \in Range(mint) \cap policies : \E i \in DOMAIN mint : mint[i] \in policies /\ Rank(Range(mint), p) = i - 1
<1> DEFINE places == {i - 1 : i \in {j \in DOMAIN mint : mint[j] \in policies}}
           ranks == {Rank(Range(mint), p) : p \in Range(mint) \cap policies}
           f == [k \in places |-> Rank(Range(mint), mint[k + 1])]
<1>1. DOMAIN mint = 1..Len(mint) /\ Len(mint) \in Nat
  OBVIOUS
<1>2. \A k \in places : k \in 0..Len(mint) /\ k + 1 \in DOMAIN mint /\ mint[k + 1] \in policies
  BY <1>1
<1>3. \A i \in DOMAIN mint : mint[i] \in policies => i - 1 \in places /\ (i - 1) + 1 = i
  BY <1>1
<1>4. IsFiniteSet(places) /\ Cardinality(places) \in Nat
  <2>1. IsFiniteSet(0..Len(mint))
    BY <1>1, FS_Interval
  <2>2. places \in SUBSET (0..Len(mint))
    BY <1>2
  <2> HIDE DEF places
  <2> QED
    BY <2>1, <2>2, FS_Subset, FS_CardinalityType
<1>5. f \in Surjection(places, ranks)
  <2>1. \A k \in places : f[k] \in ranks
    BY <1>2 DEF Range
  <2>2. \A r \in ranks : \E k \in places : f[k] = r
    <3> TAKE r \in ranks
    <3>1. PICK p \in Range(mint) \cap policies : r = Rank(Range(mint), p)
      OBVIOUS
    <3>2. PICK i \in DOMAIN mint : mint[i] = p
      BY DEF Range
    <3>3. i - 1 \in places /\ (i - 1) + 1 = i
      BY <1>3, <3>1, <3>2
    <3>4. f[i - 1] = r
      BY <3>1, <3>2, <3>3
    <3> QED
      BY <3>3, <3>4
  <2>3. f \in [places -> ranks]
    BY <2>1
  <2> HIDE DEF f, places, ranks
  <2> QED
    BY <2>2, <2>3 DEF Surjection
<1> HIDE DEF f, places, ranks
<1>6. IsFiniteSet(ranks) /\ Cardinality(ranks) <= Cardinality(places)
  BY <1>4, <1>5, FS_Surjection
<1>7. places \in SUBSET ranks
  BY DEF places, ranks
<1>8. Cardinality(ranks) \in Nat
  BY <1>6, FS_CardinalityType
<1>9. Cardinality(places) <= Cardinality(ranks)
  BY <1>6, <1>7, FS_Subset
<1>10. ranks = places
  BY <1>4, <1>6, <1>7, <1>8, <1>9, FS_Subset
<1> QED
  BY <1>10 DEF ranks, places

\* ---- the setting: a transaction whose UTxOs are all in the context ----

ScriptsStand(t) ==
  \A s \in {n \in Scripts : IsNative(n)} \ Deep :
    Evaluate(FlatForm[s], ProvidedKeys(t), Interval(t)) <=> Holds(Tree[s], ProvidedKeys(t), Interval(t))
Setting(t, ctx, chain) ==
  /\ IsTransaction(t) /\ ScriptsStand(t)
  /\ IsPartOf(ctx, chain) /\ Named(t) \subseteq DOMAIN ctx.utxo
  /\ chain.utxo \in [DOMAIN chain.utxo -> UtxoOutput]
  /\ \A m, n \in chain.committee : m.hot = n.hot /\ m.hot # None => m = n

\* Its UTxOs are those of the chain.
LEMMA OnChain ==
  ASSUME NEW t, NEW ctx, NEW chain, Setting(t, ctx, chain)
  PROVE  /\ \A r \in Named(t) : r \in DOMAIN chain.utxo
         /\ \A r \in Named(t) : ctx.utxo[r] = chain.utxo[r]
BY DEF Setting, IsPartOf

\* And they are outputs.
LEMMA OutputsTyped ==
  ASSUME NEW t, NEW ctx, NEW chain, Setting(t, ctx, chain), NEW r \in Named(t)
  PROVE  chain.utxo[r] \in UtxoOutput
BY OnChain DEF Setting

\* And the context knows them all.
LEMMA Seen ==
  ASSUME NEW t, NEW ctx, NEW chain, Setting(t, ctx, chain)
  PROVE  /\ t.inputs \subseteq Named(t) /\ t.collateral \subseteq Named(t) /\ t.references \subseteq Named(t)
         /\ Known(t.inputs, ctx) = t.inputs /\ Known(t.collateral, ctx) = t.collateral
         /\ Known(t.inputs \cup t.references, ctx) = t.inputs \cup t.references
         /\ Known(t.inputs \cup t.collateral, ctx) = t.inputs \cup t.collateral
         /\ Known(Named(t), ctx) = Named(t)
<1>1. /\ t.inputs \subseteq Named(t) /\ t.collateral \subseteq Named(t) /\ t.references \subseteq Named(t)
      /\ Named(t) \subseteq DOMAIN ctx.utxo
  BY DEF Named, NecessaryUtxos, Setting
<1> QED
  BY <1>1 DEF Known

\* A script is at hand exactly when the ledger finds it.
LEMMA AtHand ==
  ASSUME NEW t, NEW ctx, NEW chain, Setting(t, ctx, chain), NEW s \in Scripts
  PROVE  /\ s \in Offered(t, ctx) <=> s \in Referenced(t, chain)
         /\ s \in Sources(t, ctx) <=> s \in t.scripts \cup Referenced(t, chain)
         /\ s \in Referenced(t, chain) => s \in ScriptRefs(Named(t), ctx)
<1>1. s # None /\ s # Garbled
  BY HashesApart DEF None
<1> DEFINE refs == t.inputs \cup t.references
<1>a. Known(refs, ctx) = refs /\ refs \subseteq Named(t) /\ Known(Named(t), ctx) = Named(t)
  BY Seen
<1>b. \A r \in Named(t) : ctx.utxo[r] = chain.utxo[r]
  BY OnChain
<1>2. \A r \in refs : r \in Named(t) /\ ctx.utxo[r] = chain.utxo[r]
  BY <1>a, <1>b
<1>3. ScriptRefs(refs, ctx) = Referenced(t, chain) \ {None}
  BY <1>2, <1>a DEF ScriptRefs, Referenced
<1>4. s \in Offered(t, ctx) <=> s \in Referenced(t, chain)
  BY <1>1, <1>3 DEF Offered
<1>5. s \in Referenced(t, chain) => s \in ScriptRefs(Named(t), ctx)
  BY <1>1, <1>2, <1>a DEF ScriptRefs, Referenced
<1> QED
  BY <1>4, <1>5 DEF Sources

\* What the validator requires is a purpose of the ledger's, or is asked for by a
\* registration that asks for nothing; only an input requires a datum.
LEMMA RequiredIsNeeded ==
  ASSUME NEW t, NEW ctx, NEW chain, Setting(t, ctx, chain), NEW q \in Required(t, ctx)
  PROVE  /\ q.script \in Scripts
         /\ \/ q.tag # "mint" /\ <<q.tag, q.index, q.script>> \in Needed(t, chain)
            \/ /\ q.tag = "mint"
               /\ \E i \in DOMAIN t.mint : /\ q.index = i - 1 /\ q.script = t.mint[i]
                                           /\ <<"mint", Rank(Range(t.mint), q.script), q.script>> \in Needed(t, chain)
            \/ q.tag = "cert" /\ \E c \in Certs(t) : Unwitnessed(c) /\ c.cred = q.script
         /\ q.datum # None => \E r \in t.inputs : /\ q.tag = "spend" /\ q.script = chain.utxo[r].owner
                                                  /\ q.datum = DatumHash(chain.utxo[r])
<1>1. q.script \in Scripts
  BY DEF Required
<1>2. \A p \in Purposes(t, chain) : p[3] = q.script => p \in Needed(t, chain)
  BY <1>1 DEF Needed
<1>3. CASE q \in InputScripts(t, ctx)
  <2>1. PICK r \in t.inputs : q = Requires("spend", SortedIndex(t.inputs, r), chain.utxo[r].owner, DatumHash(chain.utxo[r]))
    <3>a. Known(t.inputs, ctx) = t.inputs /\ t.inputs \subseteq Named(t)
      BY Seen
    <3>b. \A r \in Named(t) : ctx.utxo[r] = chain.utxo[r]
      BY OnChain
    <3>1. Known(t.inputs, ctx) = t.inputs /\ \A r \in t.inputs : ctx.utxo[r] = chain.utxo[r]
      BY <3>a, <3>b
    <3> QED
      BY <1>3, <3>1 DEF InputScripts
  <2>2. <<"spend", Rank(t.inputs, r), chain.utxo[r].owner>> \in Purposes(t, chain)
    BY DEF Purposes
  <2> QED
    BY <1>1, <1>2, <2>1, <2>2 DEF Requires, Rank, SortedIndex
<1>4. CASE q \in WithdrawalScripts(t)
  <2>1. PICK a \in t.withdrawals : q = Requires("reward", SortedIndex(t.withdrawals, a), a, None)
    BY <1>4 DEF WithdrawalScripts
  <2>2. <<"reward", Rank(t.withdrawals, a), a>> \in Purposes(t, chain)
    BY DEF Purposes
  <2> QED
    BY <1>1, <1>2, <2>1, <2>2 DEF Requires, Rank, SortedIndex
<1>5. CASE q \in CertScripts(t)
  <2>1. PICK i \in DOMAIN t.certs : t.certs[i].kind \notin PoolOwnKinds /\ q = Requires("cert", i - 1, t.certs[i].cred, None)
    BY <1>5 DEF CertScripts
  <2>2. CASE Unwitnessed(t.certs[i])
    BY <1>1, <2>1, <2>2 DEF Requires, Certs, Range
  <2>3. CASE ~Unwitnessed(t.certs[i])
    <3>1. <<"cert", i - 1, t.certs[i].cred>> \in Purposes(t, chain)
      BY <2>1, <2>3 DEF Purposes
    <3> QED
      BY <1>1, <1>2, <2>1, <3>1 DEF Requires
  <2> QED
    BY <2>2, <2>3
<1>6. CASE q \in ProposalScripts(t)
  <2>1. PICK i \in DOMAIN t.proposals : /\ t.proposals[i].kind \in GuardedKinds
                                        /\ q = Requires("propose", i - 1, t.proposals[i].policy, None)
    BY <1>6 DEF ProposalScripts
  <2>2. <<"propose", i - 1, t.proposals[i].policy>> \in Purposes(t, chain)
    BY <2>1 DEF Purposes
  <2> QED
    BY <1>1, <1>2, <2>1, <2>2 DEF Requires
<1>7. CASE q \in VoteScripts(t)
  <2>1. PICK i \in DOMAIN t.votes : t.votes[i].role # "pool" /\ q = Requires("vote", i - 1, t.votes[i].cred, None)
    BY <1>7 DEF VoteScripts
  <2>2. <<"vote", i - 1, t.votes[i].cred>> \in Purposes(t, chain)
    BY <2>1 DEF Purposes
  <2> QED
    BY <1>1, <1>2, <2>1, <2>2 DEF Requires
<1>8. CASE q \in MintScripts(t)
  <2>1. PICK i \in DOMAIN t.mint : q = Requires("mint", i - 1, t.mint[i], None)
    BY <1>8 DEF MintScripts
  <2>2. <<"mint", Rank(Range(t.mint), t.mint[i]), t.mint[i]>> \in Purposes(t, chain)
    BY DEF Purposes, Range
  <2> QED
    BY <1>1, <1>2, <2>1, <2>2 DEF Requires
<1> QED
  BY <1>3, <1>4, <1>5, <1>6, <1>7, <1>8 DEF Required

\* And every purpose with a script is required, with its index; a mint's at the policy's
\* place in the list.
LEMMA NeededIsRequired ==
  ASSUME NEW t, NEW ctx, NEW chain, Setting(t, ctx, chain), NEW p \in Needed(t, chain)
  PROVE  /\ p = <<p[1], p[2], p[3]>> /\ p[3] \in Scripts
         /\ \/ p[1] # "mint" /\ \E q \in Required(t, ctx) : q.tag = p[1] /\ q.index = p[2] /\ q.script = p[3]
            \/ /\ p[1] = "mint" /\ p[2] = Rank(Range(t.mint), p[3]) /\ p[3] \in Range(t.mint)
               /\ \A i \in DOMAIN t.mint : t.mint[i] = p[3] =>
                    \E q \in Required(t, ctx) : q.tag = "mint" /\ q.index = i - 1 /\ q.script = p[3]
<1>1. p \in Purposes(t, chain) /\ p[3] \in Scripts
  BY DEF Needed
<1> DEFINE All == InputScripts(t, ctx) \cup WithdrawalScripts(t) \cup CertScripts(t)
                  \cup ProposalScripts(t) \cup VoteScripts(t) \cup MintScripts(t)
<1>2. \A tag, index, datum :
        Requires(tag, index, p[3], datum) \in All =>
          \E q \in Required(t, ctx) : q.tag = tag /\ q.index = index /\ q.script = p[3]
  <2> SUFFICES ASSUME NEW tag, NEW index, NEW datum, Requires(tag, index, p[3], datum) \in All
               PROVE  \E q \in Required(t, ctx) : q.tag = tag /\ q.index = index /\ q.script = p[3]
    OBVIOUS
  <2> DEFINE q == Requires(tag, index, p[3], datum)
  <2>1. q.tag = tag /\ q.index = index /\ q.script = p[3]
    BY DEF Requires
  <2>2. q \in Required(t, ctx)
    BY <1>1, <2>1 DEF Required
  <2> QED
    BY <2>1, <2>2
<1>3. CASE p \in {<<"spend", Rank(t.inputs, r), chain.utxo[r].owner>> : r \in t.inputs}
  <2>1. PICK r \in t.inputs : p = <<"spend", Rank(t.inputs, r), chain.utxo[r].owner>>
    BY <1>3
  <2>2. Requires("spend", SortedIndex(t.inputs, r), chain.utxo[r].owner, DatumHash(ctx.utxo[r])) \in InputScripts(t, ctx)
    <3>a. Known(t.inputs, ctx) = t.inputs /\ t.inputs \subseteq Named(t)
      BY Seen
    <3>b. \A u \in Named(t) : ctx.utxo[u] = chain.utxo[u]
      BY OnChain
    <3>1. Known(t.inputs, ctx) = t.inputs /\ \A u \in t.inputs : ctx.utxo[u] = chain.utxo[u]
      BY <3>a, <3>b
    <3>2. ctx.utxo[r].owner = chain.utxo[r].owner
      BY <3>1
    <3> QED
      BY <3>1, <3>2 DEF InputScripts
  <2>3. p[1] = "spend" /\ p[2] = SortedIndex(t.inputs, r) /\ p[3] = chain.utxo[r].owner
    BY <2>1 DEF Rank, SortedIndex
  <2> QED
    BY <1>1, <1>2, <2>1, <2>2, <2>3
<1>4. CASE p \in {<<"reward", Rank(t.withdrawals, a), a>> : a \in t.withdrawals}
  <2>1. PICK a \in t.withdrawals : p = <<"reward", Rank(t.withdrawals, a), a>>
    BY <1>4
  <2>2. Requires("reward", SortedIndex(t.withdrawals, a), a, None) \in WithdrawalScripts(t)
    BY DEF WithdrawalScripts
  <2>3. p[1] = "reward" /\ p[2] = SortedIndex(t.withdrawals, a) /\ p[3] = a
    BY <2>1 DEF Rank, SortedIndex
  <2> QED
    BY <1>1, <1>2, <2>1, <2>2, <2>3
<1>5. CASE p \in {<<"mint", Rank(Range(t.mint), x), x>> : x \in Range(t.mint)}
  <2>1. PICK x \in Range(t.mint) : p = <<"mint", Rank(Range(t.mint), x), x>>
    BY <1>5
  <2>2. p[1] = "mint" /\ p[2] = Rank(Range(t.mint), p[3]) /\ p[3] = x
    BY <2>1
  <2>3. ASSUME NEW i \in DOMAIN t.mint, t.mint[i] = p[3]
        PROVE  \E q \in Required(t, ctx) : q.tag = "mint" /\ q.index = i - 1 /\ q.script = p[3]
    <3>1. Requires("mint", i - 1, p[3], None) \in MintScripts(t)
      BY <2>3 DEF MintScripts
    <3> QED
      BY <1>2, <3>1
  <2> QED
    BY <1>1, <2>1, <2>2, <2>3
<1>6. CASE p \in {<<"cert", i - 1, t.certs[i].cred>> :
                   i \in {j \in DOMAIN t.certs : t.certs[j].kind \notin PoolOwnKinds /\ ~Unwitnessed(t.certs[j])}}
  <2>1. PICK i \in DOMAIN t.certs : t.certs[i].kind \notin PoolOwnKinds /\ p = <<"cert", i - 1, t.certs[i].cred>>
    BY <1>6
  <2>2. Requires("cert", i - 1, t.certs[i].cred, None) \in CertScripts(t)
    BY <2>1 DEF CertScripts
  <2>3. p[1] = "cert" /\ p[2] = i - 1 /\ p[3] = t.certs[i].cred
    BY <2>1
  <2> QED
    BY <1>1, <1>2, <2>1, <2>2, <2>3
<1>7. CASE p \in {<<"propose", i - 1, t.proposals[i].policy>> :
                   i \in {j \in DOMAIN t.proposals : t.proposals[j].kind \in GuardedKinds}}
  <2>1. PICK i \in DOMAIN t.proposals : /\ t.proposals[i].kind \in GuardedKinds
                                        /\ p = <<"propose", i - 1, t.proposals[i].policy>>
    BY <1>7
  <2>2. Requires("propose", i - 1, t.proposals[i].policy, None) \in ProposalScripts(t)
    BY <2>1 DEF ProposalScripts
  <2>3. p[1] = "propose" /\ p[2] = i - 1 /\ p[3] = t.proposals[i].policy
    BY <2>1
  <2> QED
    BY <1>1, <1>2, <2>1, <2>2, <2>3
<1>8. CASE p \in {<<"vote", i - 1, t.votes[i].cred>> : i \in {j \in DOMAIN t.votes : t.votes[j].role # "pool"}}
  <2>1. PICK i \in DOMAIN t.votes : t.votes[i].role # "pool" /\ p = <<"vote", i - 1, t.votes[i].cred>>
    BY <1>8
  <2>2. Requires("vote", i - 1, t.votes[i].cred, None) \in VoteScripts(t)
    BY <2>1 DEF VoteScripts
  <2>3. p[1] = "vote" /\ p[2] = i - 1 /\ p[3] = t.votes[i].cred
    BY <2>1
  <2> QED
    BY <1>1, <1>2, <2>1, <2>2, <2>3
<1> HIDE DEF All
<1> QED
  BY <1>1, <1>3, <1>4, <1>5, <1>6, <1>7, <1>8 DEF Purposes

\* ---- what is required and what the ledger needs, set by set ----

\* A registration of before Conway whose credential is the script.
Unasked(t, s) == \E c \in Certs(t) : Unwitnessed(c) /\ c.cred = s

\* The scripts required are those needed; what is required beyond them a registration of
\* before Conway names.
LEMMA ScriptsNeeded ==
  ASSUME NEW t, NEW ctx, NEW chain, Setting(t, ctx, chain)
  PROVE  /\ NeededScripts(t, chain) \subseteq {q.script : q \in Required(t, ctx)}
         /\ \A q \in Required(t, ctx) : q.script \in NeededScripts(t, chain) \/ (q.tag = "cert" /\ Unasked(t, q.script))
         /\ NeededScripts(t, chain) \subseteq Scripts
<1>1. ASSUME NEW s \in NeededScripts(t, chain) PROVE s \in Scripts /\ \E q \in Required(t, ctx) : q.script = s
  <2>1. PICK p \in Needed(t, chain) : p[3] = s
    BY DEF NeededScripts
  <2>2. CASE p[1] # "mint"
    BY <2>1, <2>2, NeededIsRequired
  <2>3. CASE p[1] = "mint"
    <3>1. p[3] \in Range(t.mint)
      BY <2>3, NeededIsRequired
    <3>2. PICK i \in DOMAIN t.mint : t.mint[i] = p[3]
      BY <3>1 DEF Range
    <3> QED
      BY <2>1, <2>3, <3>2, NeededIsRequired
  <2> QED
    BY <2>2, <2>3
<1>2. ASSUME NEW q \in Required(t, ctx)
      PROVE  q.script \in NeededScripts(t, chain) \/ (q.tag = "cert" /\ Unasked(t, q.script))
  <2>1. \/ <<q.tag, q.index, q.script>> \in Needed(t, chain)
        \/ <<"mint", Rank(Range(t.mint), q.script), q.script>> \in Needed(t, chain)
        \/ q.tag = "cert" /\ Unasked(t, q.script)
    BY RequiredIsNeeded DEF Unasked
  <2> QED
    BY <2>1 DEF NeededScripts
<1> QED
  BY <1>1, <1>2

\* Who has to sign.
LEMMA KeysAreNeeded ==
  ASSUME NEW t, NEW ctx, NEW chain, Setting(t, ctx, chain)
  PROVE  /\ KeysNeeded(t, chain) \subseteq RequiredKeys(t, ctx)
         /\ (\A c \in Certs(t) : ~Unwitnessed(c)) => RequiredKeys(t, ctx) \subseteq KeysNeeded(t, chain)
<1>1. Known(t.inputs \cup t.collateral, ctx) = t.inputs \cup t.collateral /\ t.inputs \cup t.collateral \subseteq Named(t)
  BY Seen
<1>2. \A r \in Named(t) : ctx.utxo[r] = chain.utxo[r]
  BY OnChain
<1>3. Owners(t, ctx) = {chain.utxo[r].owner : r \in t.inputs \cup t.collateral}
  BY <1>1, <1>2 DEF Owners
<1> DEFINE own == {p[3] : p \in {q \in Purposes(t, chain) : q[1] \notin {"mint", "propose"}}}
           pools == UNION {IF c.kind \in PoolOwnKinds THEN CertSigners(c) ELSE {} : c \in Range(t.certs)}
           certs == UNION {CertSigners(c) : c \in Range(t.certs)}
           voters == {v.cred : v \in Range(t.votes)}
<1>4. ASSUME NEW k \in own PROVE k \in Owners(t, ctx) \cup t.withdrawals \cup certs \cup voters
  <2>1. PICK p \in Purposes(t, chain) : p[1] \notin {"mint", "propose"} /\ p[3] = k
    OBVIOUS
  <2>2. CASE p \in {<<"spend", Rank(t.inputs, r), chain.utxo[r].owner>> : r \in t.inputs}
    BY <2>1, <2>2, <1>3
  <2>3. CASE p \in {<<"reward", Rank(t.withdrawals, a), a>> : a \in t.withdrawals}
    BY <2>1, <2>3
  <2>4. CASE p \in {<<"cert", i - 1, t.certs[i].cred>> :
                     i \in {j \in DOMAIN t.certs : t.certs[j].kind \notin PoolOwnKinds /\ ~Unwitnessed(t.certs[j])}}
    <3>1. PICK i \in DOMAIN t.certs : t.certs[i].kind \notin PoolOwnKinds /\ t.certs[i].cred = k
      BY <2>1, <2>4
    <3>2. k \in CertSigners(t.certs[i])
      BY <3>1 DEF CertSigners, PoolOwnKinds
    <3> QED
      BY <3>2 DEF Range
  <2>5. CASE p \in {<<"vote", i - 1, t.votes[i].cred>> : i \in {j \in DOMAIN t.votes : t.votes[j].role # "pool"}}
    BY <2>1, <2>5 DEF Range
  <2> QED
    BY <2>1, <2>2, <2>3, <2>4, <2>5 DEF Purposes
<1>5. pools \subseteq certs
  OBVIOUS
<1>6. KeysNeeded(t, chain) = Keys \cap (Owners(t, ctx) \cup own \cup pools \cup voters \cup t.signers)
  BY <1>3, Zenon DEF KeysNeeded
<1>7. RequiredKeys(t, ctx) = Keys \cap (Owners(t, ctx) \cup t.withdrawals \cup certs \cup voters \cup t.signers)
  BY Zenon DEF RequiredKeys
<1>8. t.withdrawals \subseteq own
  <2> SUFFICES ASSUME NEW a \in t.withdrawals PROVE a \in own
    OBVIOUS
  <2> DEFINE p == <<"reward", Rank(t.withdrawals, a), a>>
  <2>1. p \in Purposes(t, chain) /\ p[3] = a /\ p[1] \notin {"mint", "propose"}
    BY DEF Purposes
  <2> HIDE DEF p
  <2> QED
    BY <2>1
<1>9. ASSUME \A c \in Certs(t) : ~Unwitnessed(c), NEW k \in certs PROVE k \in own \cup pools
  <2>1. PICK i \in DOMAIN t.certs : k \in CertSigners(t.certs[i])
    BY DEF Range
  <2>2. t.certs[i] \in Range(t.certs) /\ ~Unwitnessed(t.certs[i])
    BY <1>9 DEF Range, Certs
  <2>3. CASE t.certs[i].kind \in PoolOwnKinds
    BY <2>1, <2>2, <2>3
  <2>4. CASE t.certs[i].kind \notin PoolOwnKinds
    <3> DEFINE p == <<"cert", i - 1, t.certs[i].cred>>
    <3>1. k = t.certs[i].cred
      BY <2>1, <2>4 DEF CertSigners, PoolOwnKinds
    <3>2. p \in Purposes(t, chain)
      BY <2>2, <2>4 DEF Purposes
    <3>3. p[3] = k /\ p[1] \notin {"mint", "propose"}
      BY <3>1
    <3> HIDE DEF p
    <3> QED
      BY <3>2, <3>3
  <2> QED
    BY <2>3, <2>4
<1> HIDE DEF own, pools, certs, voters
<1>10. KeysNeeded(t, chain) \subseteq RequiredKeys(t, ctx)
  BY <1>4, <1>5, <1>6, <1>7
<1>11. (\A c \in Certs(t) : ~Unwitnessed(c)) => RequiredKeys(t, ctx) \subseteq KeysNeeded(t, chain)
  BY <1>6, <1>7, <1>8, <1>9
<1> QED
  BY <1>10, <1>11

\* Which datums have to be given, and which outputs show.
LEMMA DatumsAreNeeded ==
  ASSUME NEW t, NEW ctx, NEW chain, Setting(t, ctx, chain)
  PROVE  /\ RequiredDatums(t, ctx) = DatumsOf(PlutusInputs(t, chain))
         /\ \A d : d # None => (d \in OutputDatums(t) <=> d \in DatumsOf(Range(t.outputs)))
<1>1. ASSUME NEW d \in RequiredDatums(t, ctx) PROVE d \in DatumsOf(PlutusInputs(t, chain))
  <2>1. PICK q \in RequiredPlutus(t, ctx) : q.datum = d /\ d # None
    BY DEF RequiredDatums
  <2>2. q \in Required(t, ctx) /\ IsPlutus(q.script) /\ q.script \in Sources(t, ctx)
    BY DEF RequiredPlutus
  <2>3. PICK r \in t.inputs : q.script = chain.utxo[r].owner /\ d = DatumHash(chain.utxo[r])
    BY <2>1, <2>2, RequiredIsNeeded
  <2>4. q.script \in t.scripts \cup Referenced(t, chain)
    BY <2>2, AtHand DEF IsPlutus
  <2>5. chain.utxo[r] \in PlutusInputs(t, chain)
    BY <2>2, <2>3, <2>4 DEF PlutusInputs
  <2>6. ~chain.utxo[r].inline /\ chain.utxo[r].datum = d
    BY <2>1, <2>3 DEF DatumHash
  <2> QED
    BY <2>1, <2>5, <2>6 DEF DatumsOf
<1>2. ASSUME NEW d \in DatumsOf(PlutusInputs(t, chain)) PROVE d \in RequiredDatums(t, ctx)
  <2>1. PICK o \in PlutusInputs(t, chain) : ~o.inline /\ o.datum = d /\ d # None
    BY DEF DatumsOf
  <2>2. PICK r \in t.inputs : /\ o = chain.utxo[r] /\ IsPlutus(chain.utxo[r].owner)
                              /\ chain.utxo[r].owner \in t.scripts \cup Referenced(t, chain)
    BY DEF PlutusInputs
  <2> DEFINE q == Requires("spend", SortedIndex(t.inputs, r), o.owner, DatumHash(o))
  <2>3. q.script = o.owner /\ q.datum = d
    BY <2>1 DEF Requires, DatumHash
  <2>4. r \in Known(t.inputs, ctx) /\ ctx.utxo[r] = o
    <3>1. r \in Named(t) /\ Known(t.inputs, ctx) = t.inputs
      BY Seen
    <3> QED
      BY <2>2, <3>1, OnChain
  <2>5. q \in InputScripts(t, ctx)
    BY <2>4 DEF InputScripts
  <2>6. q \in Required(t, ctx)
    BY <2>2, <2>3, <2>5 DEF Required, IsPlutus
  <2>7. q.script \in Sources(t, ctx)
    BY <2>2, <2>3, AtHand DEF IsPlutus
  <2> HIDE DEF q
  <2>8. q \in RequiredPlutus(t, ctx)
    BY <2>2, <2>3, <2>6, <2>7 DEF RequiredPlutus
  <2> QED
    BY <2>1, <2>3, <2>8 DEF RequiredDatums
<1>3. ASSUME NEW d, d # None PROVE d \in OutputDatums(t) <=> d \in DatumsOf(Range(t.outputs))
  BY <1>3 DEF OutputDatums, DatumsOf, DatumHash
<1> QED
  BY <1>1, <1>2, <1>3

\* The Plutus scripts that run, when no registration of before Conway names one.
LEMMA PlutusIsNeeded ==
  ASSUME NEW t, NEW ctx, NEW chain, Setting(t, ctx, chain),
         \A c \in Certs(t) : Unwitnessed(c) => ~(IsPlutus(c.cred) /\ c.cred \in Sources(t, ctx))
  PROVE  /\ {q.script : q \in RequiredPlutus(t, ctx)} = {p[3] : p \in PlutusNeeded(t, chain)}
         /\ UsedVersions(t, ctx) = {Language[p[3]] : p \in PlutusNeeded(t, chain)}
<1>1. ASSUME NEW q \in RequiredPlutus(t, ctx) PROVE \E p \in PlutusNeeded(t, chain) : p[3] = q.script
  <2>1. q \in Required(t, ctx) /\ IsPlutus(q.script) /\ q.script \in Sources(t, ctx)
    BY DEF RequiredPlutus
  <2>2. q.script \in NeededScripts(t, chain)
    BY <2>1, ScriptsNeeded DEF Unasked
  <2>3. q.script \in t.scripts \cup Referenced(t, chain)
    BY <2>1, AtHand DEF IsPlutus
  <2>4. PICK p \in Needed(t, chain) : p[3] = q.script
    BY <2>2 DEF NeededScripts
  <2> QED
    BY <2>1, <2>3, <2>4 DEF PlutusNeeded
<1>2. ASSUME NEW p \in PlutusNeeded(t, chain) PROVE \E q \in RequiredPlutus(t, ctx) : q.script = p[3]
  <2>1. p \in Needed(t, chain) /\ IsPlutus(p[3]) /\ p[3] \in t.scripts \cup Referenced(t, chain)
    BY DEF PlutusNeeded
  <2>2. PICK q \in Required(t, ctx) : q.script = p[3]
    BY <2>1, ScriptsNeeded DEF NeededScripts
  <2>3. p[3] \in Sources(t, ctx)
    BY <2>1, AtHand DEF IsPlutus
  <2> QED
    BY <2>1, <2>2, <2>3 DEF RequiredPlutus
<1>3. {q.script : q \in RequiredPlutus(t, ctx)} = {p[3] : p \in PlutusNeeded(t, chain)}
  BY <1>1, <1>2
<1>4. UsedVersions(t, ctx) = {Language[p[3]] : p \in PlutusNeeded(t, chain)}
  BY <1>1, <1>2 DEF UsedVersions
<1> QED
  BY <1>3, <1>4

\* ---- sizes and sums ----

\* The reference scripts' bytes, and the least fee.
LEMMA SizesAgree ==
  ASSUME NEW t, NEW ctx, NEW chain, Setting(t, ctx, chain)
  PROVE  RefBytes(t, ctx) = ScriptBytes(t, chain) /\ MinFee(t, ctx) = LeastFee(t, chain)
<1>1. Known(t.inputs \cup t.references, ctx) = t.inputs \cup t.references /\ t.inputs \cup t.references \subseteq Named(t)
  BY Seen
<1>2. \A r \in Named(t) : ctx.utxo[r] = chain.utxo[r]
  BY OnChain
<1>3. [r \in t.inputs \cup t.references |-> RefSize[ctx.utxo[r].script]]
        = [r \in t.inputs \cup t.references |-> RefSize[chain.utxo[r].script]]
  BY <1>1, <1>2
<1>4. RefBytes(t, ctx) = ScriptBytes(t, chain)
  BY <1>1, <1>3 DEF RefBytes, ScriptBytes
<1> QED
  BY <1>4 DEF MinFee, LeastFee

\* The collateral is the same to both, and no less than what any of its inputs holds.
LEMMA CollateralIsASum ==
  ASSUME NEW t, NEW ctx, NEW chain, Setting(t, ctx, chain), NEW part \in {"coin", "assets"}
  PROVE  /\ Balance(t, ctx, part) = Balance(t, chain, part) /\ Balance(t, ctx, part) \in Int
         /\ ~HasReturn(t) =>
              /\ (\A r \in t.collateral : chain.utxo[r][part] = 0) => Balance(t, ctx, part) = 0
              /\ \A r \in t.collateral : Balance(t, ctx, part) >= chain.utxo[r][part] /\ chain.utxo[r][part] \in Nat
<1>1. Known(t.collateral, ctx) = t.collateral /\ t.collateral \subseteq Named(t)
  BY Seen
<1>2. \A r \in Named(t) : r \in DOMAIN chain.utxo /\ ctx.utxo[r] = chain.utxo[r]
  BY OnChain
<1>3. Known(t.collateral, chain) = t.collateral
  BY <1>1, <1>2 DEF Known
<1>4. \A r \in t.collateral : chain.utxo[r][part] \in Nat
  <2> SUFFICES ASSUME NEW r \in t.collateral PROVE chain.utxo[r][part] \in Nat
    OBVIOUS
  <2>1. chain.utxo[r] \in UtxoOutput
    BY <1>1, OutputsTyped
  <2> QED
    BY <2>1 DEF UtxoOutput
<1> DEFINE held == [r \in t.collateral |-> chain.utxo[r][part]]
<1>5. held = [r \in t.collateral |-> ctx.utxo[r][part]]
  BY <1>1, <1>2
<1>6. CollateralTotal(t, ctx, part) = Total(held) /\ CollateralTotal(t, chain, part) = Total(held)
  BY <1>1, <1>3, <1>5 DEF CollateralTotal
<1>7. held \in [t.collateral -> Int] /\ \A r \in t.collateral : held[r] = chain.utxo[r][part] /\ held[r] >= 0
  BY <1>4
<1>8. IsFiniteSet(t.collateral)
  BY DEF Setting, IsTransaction
<1> HIDE DEF held
<1>9. /\ Total(held) \in Int
      /\ (\A r \in t.collateral : held[r] = 0) => Total(held) = 0
      /\ \A r \in t.collateral : Total(held) >= held[r]
  BY <1>7, <1>8, TotalIsASum
<1>10. HasReturn(t) => t.collateralReturn[1][part] \in Nat
  <2> SUFFICES ASSUME HasReturn(t) PROVE t.collateralReturn[1][part] \in Nat
    OBVIOUS
  <2>1. /\ Len(t.collateralReturn) <= 1 /\ DOMAIN t.collateralReturn = 1..Len(t.collateralReturn)
        /\ \A o \in Range(t.collateralReturn) : o.coin \in Nat /\ o.assets \in Nat
    BY DEF Setting, IsTransaction
  <2>2. 1 \in DOMAIN t.collateralReturn
    BY <2>1 DEF HasReturn, Setting, IsTransaction
  <2> QED
    BY <2>1, <2>2 DEF Range
<1>11. Balance(t, ctx, part) = Balance(t, chain, part) /\ Balance(t, ctx, part) \in Int
  BY <1>6, <1>9, <1>10 DEF Balance
<1>12. ~HasReturn(t) => Balance(t, ctx, part) = Total(held)
  BY <1>6, <1>9 DEF Balance
<1> QED
  BY <1>4, <1>7, <1>9, <1>11, <1>12

\* A script's context can be built for both or for neither.
LEMMA BuildersAgree ==
  ASSUME NEW t, NEW ctx, NEW chain, Setting(t, ctx, chain), NEW s
  PROVE  BuilderRefuses(t, ctx, s) = BuilderRefuses(t, chain, s)
<1>1. t.inputs \cup t.references \subseteq Named(t)
  BY Seen
<1>2. \A r \in Named(t) : ctx.utxo[r] = chain.utxo[r]
  BY OnChain
<1>3. {ctx.utxo[r] : r \in t.inputs \cup t.references} = {chain.utxo[r] : r \in t.inputs \cup t.references}
  BY <1>1, <1>2
<1> QED
  BY <1>3, Zenon DEF BuilderRefuses

\* ---- what a redeemer points at ----

\* What a redeemer's index points at is a purpose of its tag and index.
LEMMA PointedIsNeeded ==
  ASSUME NEW t, NEW ctx, NEW chain, Setting(t, ctx, chain), NEW tag \in Tags, NEW n \in Nat,
         NEW s \in Pointed(t, ctx, tag, n), s \in Scripts
  PROVE  <<tag, n, s>> \in Needed(t, chain)
<1>1. SUFFICES <<tag, n, s>> \in Purposes(t, chain)
  BY <1>1 DEF Needed
<1>2. CASE tag = "spend"
  <2>1. PICK r \in t.inputs : n = Rank(t.inputs, r) /\ s = ctx.utxo[r].owner
    BY <1>2 DEF Pointed, NthOfSet, SortedIndex, Rank
  <2>a. t.inputs \subseteq Named(t)
    BY Seen
  <2>b. \A u \in Named(t) : ctx.utxo[u] = chain.utxo[u]
    BY OnChain
  <2>2. ctx.utxo[r] = chain.utxo[r]
    BY <2>a, <2>b
  <2> QED
    BY <1>2, <2>1, <2>2 DEF Purposes
<1>3. CASE tag = "reward"
  <2>1. s \in t.withdrawals /\ n = Rank(t.withdrawals, s)
    BY <1>3 DEF Pointed, NthOfSet, SortedIndex, Rank
  <2> QED
    BY <1>3, <2>1 DEF Purposes
<1>4. CASE tag = "mint"
  <2>1. s \in Range(t.mint) /\ n = Rank(Range(t.mint), s)
    BY <1>4 DEF Pointed, NthOfSet, SortedIndex, Rank
  <2> QED
    BY <1>4, <2>1 DEF Purposes
<1>5. CASE tag = "cert"
  <2>1. PICK i \in DOMAIN t.certs \cap {n + 1} :
          t.certs[i].kind \notin PoolOwnKinds /\ ~Unwitnessed(t.certs[i]) /\ s = t.certs[i].cred
    BY <1>5 DEF Pointed, NthListed
  <2>2. n = i - 1
    OBVIOUS
  <2> QED
    BY <1>5, <2>1, <2>2 DEF Purposes
<1>6. CASE tag = "propose"
  <2>1. PICK i \in DOMAIN t.proposals \cap {n + 1} : t.proposals[i].kind \in GuardedKinds /\ s = t.proposals[i].policy
    BY <1>6 DEF Pointed, NthListed
  <2>2. n = i - 1
    OBVIOUS
  <2> QED
    BY <1>6, <2>1, <2>2 DEF Purposes
<1>7. CASE tag = "vote"
  <2>1. PICK i \in DOMAIN t.votes \cap {n + 1} : s = t.votes[i].cred
    BY <1>7 DEF Pointed, NthListed
  <2>2. n = i - 1
    OBVIOUS
  <2>3. t.votes[i].role # "pool"
    <3>1. \A v \in Range(t.votes) : IsVote(v)
      BY DEF Setting, IsTransaction
    <3>2. IsVote(t.votes[i])
      BY <3>1 DEF Range
    <3> QED
      BY <2>1, <3>2, HashesApart DEF IsVote
  <2> QED
    BY <1>7, <2>1, <2>2, <2>3 DEF Purposes
<1> QED
  BY <1>2, <1>3, <1>4, <1>5, <1>6, <1>7 DEF Tags

\* At a member's own rank the set has that member and no other.
LEMMA NthIsIt ==
  ASSUME NEW S, IsFiniteSet(S), S \subseteq Nat, NEW e \in S
  PROVE  NthOfSet(S, Rank(S, e)) = {e}
<1>0. S \subseteq Int
  OBVIOUS
<1>1. \A x \in S : SortedIndex(S, x) = SortedIndex(S, e) => x = e
  BY <1>0, RankTells
<1> QED
  BY <1>1 DEF NthOfSet, Rank, SortedIndex

\* A purpose's redeemer points at its script and at nothing else; an input's at that input.
LEMMA NeededIsPointed ==
  ASSUME NEW t, NEW ctx, NEW chain, Setting(t, ctx, chain), NEW p \in Needed(t, chain)
  PROVE  /\ p[1] \in Tags /\ p[2] \in Nat /\ Pointed(t, ctx, p[1], p[2]) = {p[3]}
         /\ p[1] = "spend" => \E r \in t.inputs : NthOfSet(t.inputs, p[2]) = {r} /\ p[3] = chain.utxo[r].owner
<1>1. p \in Purposes(t, chain)
  BY DEF Needed
<1>t. /\ \A set \in {t.inputs, t.withdrawals} : set \subseteq Nat /\ IsFiniteSet(set)
      /\ t.certs \in Seq(CertificateOf) /\ t.mint \in Seq(Nat)
      /\ DOMAIN t.votes = 1..Len(t.votes) /\ DOMAIN t.proposals = 1..Len(t.proposals)
  BY DEF Setting, IsTransaction
<1>f. \A set : IsFiniteSet(set) /\ set \subseteq Nat => \A e \in set : Rank(set, e) \in Nat
  <2> SUFFICES ASSUME NEW set, IsFiniteSet(set), NEW e PROVE Rank(set, e) \in Nat
    OBVIOUS
  <2>1. {x \in set : x < e} \in SUBSET set
    OBVIOUS
  <2> QED
    BY <2>1, FS_Subset, FS_CardinalityType DEF Rank
<1>l. \A list, i : i \in Nat \ {0} /\ i \in DOMAIN list => NthListed(list, i - 1) = {list[i]}
  BY DEF NthListed
<1>2. CASE p \in {<<"spend", Rank(t.inputs, r), chain.utxo[r].owner>> : r \in t.inputs}
  <2>1. PICK r \in t.inputs : p = <<"spend", Rank(t.inputs, r), chain.utxo[r].owner>>
    BY <1>2
  <2>2. p[1] = "spend" /\ p[2] = Rank(t.inputs, r) /\ p[3] = chain.utxo[r].owner
    BY <2>1
  <2>3. NthOfSet(t.inputs, p[2]) = {r} /\ p[2] \in Nat
    BY <1>f, <1>t, <2>2, NthIsIt
  <2>a. t.inputs \subseteq Named(t)
    BY Seen
  <2>b. \A u \in Named(t) : ctx.utxo[u] = chain.utxo[u]
    BY OnChain
  <2>4. ctx.utxo[r] = chain.utxo[r]
    BY <2>a, <2>b
  <2>5. Pointed(t, ctx, p[1], p[2]) = {p[3]}
    BY <2>2, <2>3, <2>4 DEF Pointed
  <2> QED
    BY <2>2, <2>3, <2>5 DEF Tags
<1>3. CASE p \in {<<"reward", Rank(t.withdrawals, a), a>> : a \in t.withdrawals}
  <2>1. PICK a \in t.withdrawals : p = <<"reward", Rank(t.withdrawals, a), a>>
    BY <1>3
  <2>2. p[1] = "reward" /\ p[2] = Rank(t.withdrawals, a) /\ p[3] = a
    BY <2>1
  <2>3. NthOfSet(t.withdrawals, p[2]) = {a} /\ p[2] \in Nat
    BY <1>f, <1>t, <2>2, NthIsIt
  <2> QED
    BY <2>2, <2>3 DEF Tags, Pointed
<1>4. CASE p \in {<<"mint", Rank(Range(t.mint), x), x>> : x \in Range(t.mint)}
  <2>1. PICK x \in Range(t.mint) : p = <<"mint", Rank(Range(t.mint), x), x>>
    BY <1>4
  <2>2. p[1] = "mint" /\ p[2] = Rank(Range(t.mint), x) /\ p[3] = x
    BY <2>1
  <2>3. IsFiniteSet(Range(t.mint)) /\ Range(t.mint) \subseteq Nat
    <3>1. DOMAIN t.mint = 1..Len(t.mint) /\ Len(t.mint) \in Nat /\ \A i \in DOMAIN t.mint : t.mint[i] \in Nat
      BY <1>t
    <3>2. IsFiniteSet(DOMAIN t.mint)
      BY <3>1, FS_Interval
    <3>3. [i \in DOMAIN t.mint |-> t.mint[i]] \in Surjection(DOMAIN t.mint, Range(t.mint))
      BY DEF Surjection, Range
    <3>4. IsFiniteSet(Range(t.mint))
      BY <3>2, <3>3, FS_Surjection
    <3> QED
      BY <3>1, <3>4 DEF Range
  <2>4. NthOfSet(Range(t.mint), p[2]) = {x} /\ p[2] \in Nat
    BY <1>f, <2>2, <2>3, NthIsIt
  <2> QED
    BY <2>2, <2>4 DEF Tags, Pointed
<1>5. CASE p \in {<<"cert", i - 1, t.certs[i].cred>> :
                   i \in {j \in DOMAIN t.certs : t.certs[j].kind \notin PoolOwnKinds /\ ~Unwitnessed(t.certs[j])}}
  <2>1. PICK i \in DOMAIN t.certs : /\ t.certs[i].kind \notin PoolOwnKinds /\ ~Unwitnessed(t.certs[i])
                                    /\ p = <<"cert", i - 1, t.certs[i].cred>>
    BY <1>5
  <2>2. p[1] = "cert" /\ p[2] = i - 1 /\ p[3] = t.certs[i].cred /\ i \in Nat \ {0}
    BY <1>t, <2>1
  <2>3. NthListed(t.certs, p[2]) = {t.certs[i]} /\ p[2] \in Nat
    BY <1>l, <2>2
  <2> QED
    BY <2>1, <2>2, <2>3 DEF Tags, Pointed
<1>6. CASE p \in {<<"propose", i - 1, t.proposals[i].policy>> :
                   i \in {j \in DOMAIN t.proposals : t.proposals[j].kind \in GuardedKinds}}
  <2>1. PICK i \in DOMAIN t.proposals : /\ t.proposals[i].kind \in GuardedKinds
                                        /\ p = <<"propose", i - 1, t.proposals[i].policy>>
    BY <1>6
  <2>2. p[1] = "propose" /\ p[2] = i - 1 /\ p[3] = t.proposals[i].policy /\ i \in Nat \ {0}
    BY <1>t, <2>1
  <2>3. NthListed(t.proposals, p[2]) = {t.proposals[i]} /\ p[2] \in Nat
    BY <1>l, <2>2
  <2> QED
    BY <2>1, <2>2, <2>3 DEF Tags, Pointed
<1>7. CASE p \in {<<"vote", i - 1, t.votes[i].cred>> : i \in {j \in DOMAIN t.votes : t.votes[j].role # "pool"}}
  <2>1. PICK i \in DOMAIN t.votes : p = <<"vote", i - 1, t.votes[i].cred>>
    BY <1>7
  <2>2. p[1] = "vote" /\ p[2] = i - 1 /\ p[3] = t.votes[i].cred /\ i \in Nat \ {0}
    BY <1>t, <2>1
  <2>3. NthListed(t.votes, p[2]) = {t.votes[i]} /\ p[2] \in Nat
    BY <1>l, <2>2
  <2> QED
    BY <2>2, <2>3 DEF Tags, Pointed
<1> QED
  BY <1>1, <1>2, <1>3, <1>4, <1>5, <1>6, <1>7 DEF Purposes

\* So the lookup finds a Plutus script that is needed and nothing else, and finds it, when
\* its input's datum is there.
LEMMA FoundIsNeeded ==
  ASSUME NEW t, NEW ctx, NEW chain, Setting(t, ctx, chain), NEW d \in t.redeemers, NEW s \in FindScript(t, ctx, d)
  PROVE  <<d[1], d[2], s>> \in Needed(t, chain) /\ IsPlutus(s) /\ d = <<d[1], d[2]>>
<1>1. d \in Tags \X Nat
  BY DEF Setting, IsTransaction
<1>2. s \in Pointed(t, ctx, d[1], d[2]) /\ IsPlutus(s)
  BY DEF FindScript
<1> QED
  BY <1>1, <1>2, PointedIsNeeded DEF IsPlutus

\* The same from the purpose's side: at its redeemer its script is found, or nothing is.
LEMMA NeededIsFound ==
  ASSUME NEW t, NEW ctx, NEW chain, Setting(t, ctx, chain), NEW p \in PlutusNeeded(t, chain)
  PROVE  /\ FindScript(t, ctx, <<p[1], p[2]>>) \subseteq {p[3]}
         /\ (\A o \in PlutusInputs(t, chain) : HasDatum(t, o, o.owner)) => FindScript(t, ctx, <<p[1], p[2]>>) = {p[3]}
<1>1. p \in Needed(t, chain) /\ IsPlutus(p[3]) /\ p[3] \in t.scripts \cup Referenced(t, chain)
  BY DEF PlutusNeeded
<1>2. Pointed(t, ctx, p[1], p[2]) = {p[3]}
  BY <1>1, NeededIsPointed
<1> DEFINE d == <<p[1], p[2]>>
<1>d. d[1] = p[1] /\ d[2] = p[2]
  OBVIOUS
<1>3. FindScript(t, ctx, d) \subseteq {p[3]}
  BY <1>2, <1>d DEF FindScript
<1>4. ASSUME \A o \in PlutusInputs(t, chain) : HasDatum(t, o, o.owner)
      PROVE  p[3] \in FindScript(t, ctx, d)
  <2>1. p[3] \in t.scripts \cup ScriptRefs(Named(t), ctx)
    BY <1>1, AtHand DEF IsPlutus
  <2>2. ASSUME d[1] = "spend", NEW u \in NthOfSet(t.inputs, d[2]) PROVE HasDatum(t, ctx.utxo[u], p[3])
    <3>1. PICK r \in t.inputs : NthOfSet(t.inputs, p[2]) = {r} /\ p[3] = chain.utxo[r].owner
      BY <1>1, <1>d, <2>2, NeededIsPointed
    <3>2. u = r
      BY <1>d, <3>1
    <3>a. t.inputs \subseteq Named(t)
      BY Seen
    <3>b. \A w \in Named(t) : ctx.utxo[w] = chain.utxo[w]
      BY OnChain
    <3>3. ctx.utxo[u] = chain.utxo[r] /\ chain.utxo[r] \in PlutusInputs(t, chain)
      BY <1>1, <3>1, <3>2, <3>a, <3>b DEF PlutusInputs
    <3> QED
      BY <1>4, <3>1, <3>3
  <2> HIDE DEF d
  <2> QED
    BY <1>1, <1>2, <1>d, <2>1, <2>2 DEF FindScript
<1> QED
  BY <1>3, <1>4

\* ---- what no error says ----

\* An error is not raised when its condition is false, or its set empty.
LEMMA Empty ==
  /\ \A name, set : Errors(name, set) = {} => set = {}
  /\ \A condition, name : When(condition, name) = {} => ~condition
BY DEF Errors, When

\* No validator has an error for an accepted transaction,
LEMMA AcceptedParts ==
  ASSUME NEW t, NEW ctx, Accepts(Validated(t, ctx))
  PROVE  /\ FeeErrors(t, ctx) = {} /\ WitnessErrors(t, ctx) = {} /\ CollateralErrors(t, ctx) = {}
         /\ AuxiliaryErrors(t) = {} /\ OutputErrors(t) = {} /\ LimitErrors(t, ctx) = {} /\ NetworkErrors(t) = {}
         /\ VoteErrors(t, ctx) = {} /\ ProposalErrors(t, ctx) = {} /\ PhaseTwoErrors(t, ctx) = {}
         /\ Names(WitnessWarnings(t, ctx)) \cap {"NativeScriptNotExamined"} = {}
         /\ Names(PhaseTwoWarnings(t, ctx)) \cap {"ScriptContextNotExamined"} = {}
<1>1. ~Refused(t, ctx)
  BY DEF Accepts, Validated, Refusal
<1>2. PhaseOneErrors(t, ctx) = {} /\ PhaseTwoErrors(t, ctx) = {}
  BY <1>1 DEF Accepts, Validated
<1>3. GovernanceErrors(t, ctx) = {}
  BY <1>2 DEF PhaseOneErrors
<1>4. Names(FeeWarnings(t, ctx) \cup WitnessWarnings(t, ctx) \cup CollateralWarnings(t) \cup PhaseTwoWarnings(t, ctx))
        \cap {"NativeScriptNotExamined", "ScriptContextNotExamined"} = {}
  BY <1>1 DEF Accepts, Validated
<1>5. /\ Names(WitnessWarnings(t, ctx)) \cap {"NativeScriptNotExamined"} = {}
      /\ Names(PhaseTwoWarnings(t, ctx)) \cap {"ScriptContextNotExamined"} = {}
  BY <1>4 DEF Names
<1> QED
  BY <1>2, <1>3, <1>5 DEF PhaseOneErrors, GovernanceErrors

\* no part of the witness validator has,
LEMMA AcceptedWitnesses ==
  ASSUME NEW t, NEW ctx, Accepts(Validated(t, ctx))
  PROVE  /\ RequiredKeys(t, ctx) \subseteq ProvidedKeys(t) /\ \A v \in t.vkeys : v.valid
         /\ InvalidNative(t, ctx) = {} /\ RequiredUnknown(t, ctx) = {}
         /\ \A q \in RequiredPlutus(t, ctx) : <<q.tag, q.index>> \in t.redeemers
         /\ RequiredDatums(t, ctx) \subseteq t.datums
         /\ FromWitnessSet(t, ctx) \subseteq {q.script : q \in Required(t, ctx)}
         /\ t.datums \subseteq RequiredDatums(t, ctx) \cup OutputDatums(t)
         /\ t.scriptDataHash = ExpectedHash(t, ctx)
         /\ {q.script : q \in RequiredNative(t, ctx)} \cap Unexamined(t, ctx) = {}
<1>1. WitnessErrors(t, ctx) = {}
  BY AcceptedParts
<1>2. /\ Errors("MissingVKeyWitnesses", RequiredKeys(t, ctx) \ ProvidedKeys(t)) = {}
      /\ Errors("InvalidSignature", {v.key : v \in {w \in t.vkeys : ~w.valid}}) = {}
      /\ Errors("NativeScriptIsUnsuccessful", InvalidNative(t, ctx)) = {}
      /\ Errors("MissingScriptWitnesses", {q.script : q \in RequiredUnknown(t, ctx)}) = {}
      /\ Errors("MissingRedeemer", {<<q.tag, q.index>> : q \in RequiredPlutus(t, ctx)} \ t.redeemers) = {}
      /\ Errors("MissingDatum", RequiredDatums(t, ctx) \ t.datums) = {}
      /\ Errors("ExtraneousScriptWitnesses", FromWitnessSet(t, ctx) \ {q.script : q \in Required(t, ctx)}) = {}
      /\ Errors("ExtraneousDatumWitnesses", ExtraneousDatums(t, ctx)) = {}
      /\ (IF t.scriptDataHash = ExpectedHash(t, ctx) THEN {} ELSE {<<"ScriptDataHashMismatch", None>>}) = {}
  BY <1>1 DEF WitnessErrors
<1>3. /\ RequiredKeys(t, ctx) \ ProvidedKeys(t) = {} /\ {v.key : v \in {w \in t.vkeys : ~w.valid}} = {}
      /\ InvalidNative(t, ctx) = {} /\ {q.script : q \in RequiredUnknown(t, ctx)} = {}
      /\ {<<q.tag, q.index>> : q \in RequiredPlutus(t, ctx)} \ t.redeemers = {}
      /\ RequiredDatums(t, ctx) \ t.datums = {}
      /\ FromWitnessSet(t, ctx) \ {q.script : q \in Required(t, ctx)} = {} /\ ExtraneousDatums(t, ctx) = {}
  BY <1>2, Empty
<1>4. t.scriptDataHash = ExpectedHash(t, ctx)
  BY <1>2
<1>5. Names(WitnessWarnings(t, ctx)) \cap {"NativeScriptNotExamined"} = {}
  BY AcceptedParts
<1>6. {q.script : q \in RequiredNative(t, ctx)} \cap Unexamined(t, ctx) = {}
  <2> SUFFICES ASSUME NEW s \in {q.script : q \in RequiredNative(t, ctx)} \cap Unexamined(t, ctx) PROVE FALSE
    OBVIOUS
  <2>1. <<"NativeScriptNotExamined", s>> \in WitnessWarnings(t, ctx)
    BY DEF WitnessWarnings, Errors
  <2>2. <<"NativeScriptNotExamined", s>>[1] = "NativeScriptNotExamined"
    OBVIOUS
  <2> QED
    BY <1>5, <2>1, <2>2 DEF Names
<1>7. RequiredUnknown(t, ctx) = {} /\ \A v \in t.vkeys : v.valid
  BY <1>3
<1>8. t.datums \subseteq RequiredDatums(t, ctx) \cup OutputDatums(t)
  BY <1>3 DEF ExtraneousDatums
<1> QED
  BY <1>3, <1>4, <1>6, <1>7, <1>8

\* and each redeemer's run ended well, within its units.
LEMMA AcceptedRuns ==
  ASSUME NEW t, NEW ctx, Accepts(Validated(t, ctx)), NEW d \in t.redeemers
  PROVE  RedeemerError(t, ctx, d) = "none" /\ ~(t.units < Cost)
<1>1. PhaseTwoErrors(t, ctx) = {} /\ Names(PhaseTwoWarnings(t, ctx)) \cap {"ScriptContextNotExamined"} = {}
  BY AcceptedParts
<1>2. NotExamined(t, ctx) = {}
  <2> SUFFICES ASSUME NEW r \in NotExamined(t, ctx) PROVE FALSE
    OBVIOUS
  <2>1. <<"ScriptContextNotExamined", <<r, d>> >> \in PhaseTwoWarnings(t, ctx)
    BY DEF PhaseTwoWarnings, Errors
  <2>2. <<"ScriptContextNotExamined", <<r, d>> >>[1] = "ScriptContextNotExamined"
    OBVIOUS
  <2> QED
    BY <1>1, <2>1, <2>2 DEF Names
<1> DEFINE found(r) == Errors(RedeemerError(t, ctx, r), IF RedeemerError(t, ctx, r) = "none" THEN {} ELSE {r})
                         \cup BudgetErrors(t, RedeemerError(t, ctx, r))
<1>3. PhaseTwoErrors(t, ctx) = UNION {found(r) : r \in t.redeemers}
  BY <1>2 DEF PhaseTwoErrors
<1>4. found(d) = {}
  <2> HIDE DEF found
  <2> QED
    BY <1>1, <1>3
<1>5. (IF RedeemerError(t, ctx, d) = "none" THEN {} ELSE {d}) = {} /\ BudgetErrors(t, RedeemerError(t, ctx, d)) = {}
  BY <1>4, Empty
<1>6. RedeemerError(t, ctx, d) = "none"
  BY <1>5
<1>7. ~(Ran(RedeemerError(t, ctx, d)) /\ t.units < Cost)
  BY <1>5, Empty DEF BudgetErrors
<1> QED
  BY <1>6, <1>7 DEF Ran

\* A redeemer whose run ended well points at a script whose context there is.
LEMMA RunsWell ==
  ASSUME NEW t, NEW ctx, NEW d, RedeemerError(t, ctx, d) = "none"
  PROVE  /\ t.odd = "nothing" /\ \A o \in Range(t.outputs) : o.address \notin {"byron", "unreadable"}
         /\ FindScript(t, ctx, d) # {} /\ FindScript(t, ctx, d) \subseteq Succeeds
         /\ \A s \in FindScript(t, ctx, d) : ~LanguageRefusal(t, Language[s]) /\ ~BuilderRefuses(t, ctx, s)
<1> DEFINE found == FindScript(t, ctx, d)
           languages == {Language[s] : s \in found}
<1>1. RedeemerError(t, ctx, d) =
        IF WithdrawalRefusal(t) THEN "UnreadableTransactionField"
        ELSE IF TransactionRefusal(t) THEN "ContextRefused"
        ELSE IF found = {} THEN "ScriptLookupError"
        ELSE IF \E l \in languages : LanguageRefusal(t, l) THEN "ContextRefused"
        ELSE IF ~(languages \subseteq ctx.costModels) THEN "CostModelNotFound"
        ELSE IF \E s \in found : BuilderRefuses(t, ctx, s) THEN "BuildTxContextError"
        ELSE IF ~(found \subseteq Succeeds) THEN "MachineError"
        ELSE "none"
  BY DEF RedeemerError
<1> HIDE DEF found
<1>2. /\ ~TransactionRefusal(t) /\ found # {} /\ ~(\E l \in languages : LanguageRefusal(t, l))
      /\ ~(\E s \in found : BuilderRefuses(t, ctx, s)) /\ found \subseteq Succeeds
  <2> DEFINE a == WithdrawalRefusal(t)  b == TransactionRefusal(t)  c == found = {}
             e == \E l \in languages : LanguageRefusal(t, l)  f == languages \subseteq ctx.costModels
             g == \E s \in found : BuilderRefuses(t, ctx, s)  h == found \subseteq Succeeds
  <2> HIDE DEF a, b, c, e, f, g, h
  <2> QED
    BY <1>1 DEF a, b, c, e, f, g, h
<1> QED
  BY <1>2 DEF found, TransactionRefusal

\* What an accepted transaction's UTxOs are: there and unspent.
LEMMA AcceptedKnown ==
  ASSUME NEW t, NEW ctx, Accepts(Validated(t, ctx))
  PROVE  Named(t) \subseteq DOMAIN ctx.utxo /\ \A r \in Named(t) : ~ctx.utxo[r].spent
<1>1. LimitErrors(t, ctx) = {}
  BY AcceptedParts
<1>2. Errors("BadInputsUTxO", Spent(t.inputs \cup t.collateral \cup t.references, ctx)) = {}
  BY <1>1 DEF LimitErrors
<1>3. Spent(t.inputs \cup t.collateral \cup t.references, ctx) = {}
  BY <1>2, Empty
<1> QED
  BY <1>3 DEF Spent, Named, NecessaryUtxos

\* Found valid in a context of a chain that has what the assumptions say.
Sound(t, ctx, chain) ==
  /\ IsTransaction(t) /\ ScriptsStand(t) /\ IsPartOf(ctx, chain)
  /\ chain.utxo \in [DOMAIN chain.utxo -> UtxoOutput]
  /\ \A m, n \in chain.committee : m.hot = n.hot /\ m.hot # None => m = n
Found(t, ctx, chain) == Sound(t, ctx, chain) /\ Accepts(Validated(t, ctx))

\* An accepted transaction has the setting: its UTxOs are all in the context.
LEMMA FoundIsSetting ==
  ASSUME NEW t, NEW ctx, NEW chain, Found(t, ctx, chain)
  PROVE  Setting(t, ctx, chain) /\ Accepts(Validated(t, ctx))
BY AcceptedKnown DEF Found, Sound, Setting

\* A script that is required runs at its redeemer; nothing runs for a registration of
\* before Conway, so none of those names a Plutus script that is there.
LEMMA NothingUnasked ==
  ASSUME NEW t, NEW ctx, NEW chain, Found(t, ctx, chain)
  PROVE  \A c \in Certs(t) : Unwitnessed(c) => ~(IsPlutus(c.cred) /\ c.cred \in Sources(t, ctx))
<1> SUFFICES ASSUME NEW c \in Certs(t), Unwitnessed(c), IsPlutus(c.cred), c.cred \in Sources(t, ctx) PROVE FALSE
  OBVIOUS
<1>1. PICK i \in DOMAIN t.certs : t.certs[i] = c
  BY DEF Certs, Range
<1>i. i \in Nat \ {0}
  BY FoundIsSetting DEF Setting, IsTransaction
<1> DEFINE q == Requires("cert", i - 1, c.cred, None)
<1>2. q.tag = "cert" /\ q.index = i - 1 /\ q.script = c.cred
  BY DEF Requires
<1>3. q \in CertScripts(t)
  BY <1>1 DEF CertScripts, Unwitnessed, PoolOwnKinds
<1> HIDE DEF q
<1>4. q \in RequiredPlutus(t, ctx)
  BY <1>2, <1>3 DEF RequiredPlutus, Required, IsPlutus
<1>5. <<"cert", i - 1>> \in t.redeemers
  BY <1>2, <1>4, FoundIsSetting, AcceptedWitnesses
<1>6. RedeemerError(t, ctx, <<"cert", i - 1>>) = "none"
  BY <1>5, FoundIsSetting, AcceptedRuns
<1>7. FindScript(t, ctx, <<"cert", i - 1>>) # {}
  BY <1>6, RunsWell
<1>8. Pointed(t, ctx, "cert", i - 1) # {}
  BY <1>7 DEF FindScript
<1>9. NthListed(t.certs, i - 1) = {c}
  BY <1>1, <1>i DEF NthListed
<1> QED
  BY <1>8, <1>9 DEF Pointed

\* The redeemers are those of the Plutus scripts needed, and each finds its script.
LEMMA AcceptedRedeemers ==
  ASSUME NEW t, NEW ctx, NEW chain, Found(t, ctx, chain)
  PROVE  {<<p[1], p[2]>> : p \in PlutusNeeded(t, chain)} = t.redeemers
<1>s. Setting(t, ctx, chain) /\ Accepts(Validated(t, ctx))
  BY FoundIsSetting
<1>w. RequiredUnknown(t, ctx) = {} /\ \A q \in RequiredPlutus(t, ctx) : <<q.tag, q.index>> \in t.redeemers
  BY <1>s, AcceptedWitnesses
<1>1. ASSUME NEW d \in t.redeemers PROVE \E p \in PlutusNeeded(t, chain) : d = <<p[1], p[2]>>
  <2>1. FindScript(t, ctx, d) # {}
    BY <1>s, AcceptedRuns, RunsWell
  <2>2. PICK s : s \in FindScript(t, ctx, d)
    BY <2>1
  <2>3. <<d[1], d[2], s>> \in Needed(t, chain) /\ IsPlutus(s) /\ d = <<d[1], d[2]>>
    BY <1>s, <2>2, FoundIsNeeded
  <2>4. s \in NeededScripts(t, chain) /\ s \in Scripts
    BY <2>3 DEF NeededScripts, IsPlutus
  <2>5. PICK q \in Required(t, ctx) : q.script = s
    BY <1>s, <2>4, ScriptsNeeded
  <2>6. s \in Sources(t, ctx)
    BY <1>w, <2>5 DEF RequiredUnknown
  <2>7. s \in t.scripts \cup Referenced(t, chain)
    BY <1>s, <2>4, <2>6, AtHand
  <2> QED
    BY <2>3, <2>7 DEF PlutusNeeded
<1> DEFINE policies == {x \in Scripts : IsPlutus(x) /\ x \in Sources(t, ctx)}
<1>2. ASSUME NEW i \in DOMAIN t.mint, t.mint[i] \in policies PROVE <<"mint", i - 1>> \in t.redeemers
  <2> DEFINE q == Requires("mint", i - 1, t.mint[i], None)
  <2>1. q.tag = "mint" /\ q.index = i - 1 /\ q.script = t.mint[i]
    BY DEF Requires
  <2>2. q \in MintScripts(t)
    BY DEF MintScripts
  <2> HIDE DEF q
  <2>3. q \in RequiredPlutus(t, ctx)
    BY <1>2, <2>1, <2>2 DEF RequiredPlutus, Required
  <2> QED
    BY <1>w, <2>1, <2>3
<1>3. ASSUME NEW p \in PlutusNeeded(t, chain), p[1] = "mint"
      PROVE  p[2] = Rank(Range(t.mint), p[3]) /\ p[3] \in Range(t.mint) \cap policies
  <2>1. p \in Needed(t, chain) /\ IsPlutus(p[3]) /\ p[3] \in t.scripts \cup Referenced(t, chain)
    BY DEF PlutusNeeded
  <2>2. p[2] = Rank(Range(t.mint), p[3]) /\ p[3] \in Range(t.mint) /\ p[3] \in Scripts
    BY <1>s, <1>3, <2>1, NeededIsRequired
  <2>3. p[3] \in Sources(t, ctx)
    BY <1>s, <2>1, <2>2, AtHand
  <2> QED
    BY <2>1, <2>2, <2>3
<1>4. {i - 1 : i \in {j \in DOMAIN t.mint : t.mint[j] \in policies}}
        \subseteq {Rank(Range(t.mint), x) : x \in Range(t.mint) \cap policies}
  <2> SUFFICES ASSUME NEW i \in DOMAIN t.mint, t.mint[i] \in policies
               PROVE  \E x \in Range(t.mint) \cap policies : i - 1 = Rank(Range(t.mint), x)
    OBVIOUS
  <2>1. <<"mint", i - 1>> \in t.redeemers
    BY <1>2
  <2>2. PICK p \in PlutusNeeded(t, chain) : <<"mint", i - 1>> = <<p[1], p[2]>>
    BY <1>1, <2>1
  <2>3. p[1] = "mint" /\ p[2] = i - 1
    BY <2>2
  <2> QED
    BY <1>3, <2>3
<1>5. t.mint \in Seq(Nat)
  BY <1>s DEF Setting, IsTransaction
<1>6. \A x \in Range(t.mint) \cap policies :
        \E i \in DOMAIN t.mint : t.mint[i] \in policies /\ Rank(Range(t.mint), x) = i - 1
  <2> HIDE DEF policies
  <2> QED
    BY <1>4, <1>5, PlacesAreRanks
<1>7. ASSUME NEW p \in PlutusNeeded(t, chain) PROVE <<p[1], p[2]>> \in t.redeemers
  <2>1. CASE p[1] = "mint"
    <3>1. p[2] = Rank(Range(t.mint), p[3]) /\ p[3] \in Range(t.mint) \cap policies
      BY <1>3, <2>1
    <3>2. PICK i \in DOMAIN t.mint : t.mint[i] \in policies /\ Rank(Range(t.mint), p[3]) = i - 1
      BY <1>6, <3>1
    <3> QED
      BY <1>2, <2>1, <3>1, <3>2
  <2>2. CASE p[1] # "mint"
    <3>1. p \in Needed(t, chain) /\ IsPlutus(p[3]) /\ p[3] \in t.scripts \cup Referenced(t, chain)
      BY DEF PlutusNeeded
    <3>2. PICK q \in Required(t, ctx) : q.tag = p[1] /\ q.index = p[2] /\ q.script = p[3]
      BY <1>s, <2>2, <3>1, NeededIsRequired
    <3>3. p[3] \in Sources(t, ctx)
      BY <1>s, <3>1, AtHand DEF IsPlutus
    <3>4. q \in RequiredPlutus(t, ctx)
      BY <3>1, <3>2, <3>3 DEF RequiredPlutus
    <3> QED
      BY <1>w, <3>2, <3>4
  <2> QED
    BY <2>1, <2>2
<1> QED
  BY <1>1, <1>7

\* Each needed Plutus script is found at its redeemer, and ran.
LEMMA AcceptedScripts ==
  ASSUME NEW t, NEW ctx, NEW chain, Found(t, ctx, chain), NEW p \in PlutusNeeded(t, chain)
  PROVE  /\ FindScript(t, ctx, <<p[1], p[2]>>) = {p[3]} /\ p[3] \in Succeeds /\ ~(t.units < Cost)
         /\ ~LanguageRefusal(t, Language[p[3]]) /\ ~BuilderRefuses(t, chain, p[3])
         /\ \A o \in Range(t.outputs) : o.address \notin {"byron", "unreadable"}
<1> DEFINE d == <<p[1], p[2]>>
<1>s. Setting(t, ctx, chain) /\ Accepts(Validated(t, ctx))
  BY FoundIsSetting
<1>1. d \in t.redeemers
  BY AcceptedRedeemers
<1> HIDE DEF d
<1>2. RedeemerError(t, ctx, d) = "none" /\ ~(t.units < Cost)
  BY <1>s, <1>1, AcceptedRuns
<1>3. /\ \A o \in Range(t.outputs) : o.address \notin {"byron", "unreadable"}
      /\ FindScript(t, ctx, d) # {} /\ FindScript(t, ctx, d) \subseteq Succeeds
      /\ \A s \in FindScript(t, ctx, d) : ~LanguageRefusal(t, Language[s]) /\ ~BuilderRefuses(t, ctx, s)
  BY <1>2, RunsWell
<1>4. FindScript(t, ctx, d) \subseteq {p[3]}
  BY <1>s, NeededIsFound DEF d
<1>5. FindScript(t, ctx, d) = {p[3]}
  BY <1>3, <1>4
<1>6. BuilderRefuses(t, ctx, p[3]) = BuilderRefuses(t, chain, p[3])
  BY <1>s, BuildersAgree
<1> QED
  BY <1>2, <1>3, <1>5, <1>6 DEF d

\* ---- what is found valid, rule by rule ----

\* UTXOW, but for what is not looked at.
LEMMA WitnessesOfFound ==
  ASSUME NEW t, NEW ctx, NEW chain, Found(t, ctx, chain)
  PROVE  UtxowFailures(t, chain) \subseteq Unlooked(t)
<1>s. Setting(t, ctx, chain) /\ Accepts(Validated(t, ctx))
  BY FoundIsSetting
<1>w. /\ RequiredKeys(t, ctx) \subseteq ProvidedKeys(t) /\ \A v \in t.vkeys : v.valid
      /\ InvalidNative(t, ctx) = {} /\ RequiredUnknown(t, ctx) = {}
      /\ \A q \in RequiredPlutus(t, ctx) : <<q.tag, q.index>> \in t.redeemers
      /\ RequiredDatums(t, ctx) \subseteq t.datums
      /\ FromWitnessSet(t, ctx) \subseteq {q.script : q \in Required(t, ctx)}
      /\ t.datums \subseteq RequiredDatums(t, ctx) \cup OutputDatums(t)
      /\ t.scriptDataHash = ExpectedHash(t, ctx)
      /\ {q.script : q \in RequiredNative(t, ctx)} \cap Unexamined(t, ctx) = {}
  BY <1>s, AcceptedWitnesses
<1>n. \A c \in Certs(t) : Unwitnessed(c) => ~(IsPlutus(c.cred) /\ c.cred \in Sources(t, ctx))
  BY NothingUnasked
<1>t. t.scripts \subseteq Scripts \ Deep /\ None \notin t.datums /\ Signers(t) = ProvidedKeys(t)
  BY <1>s DEF Setting, IsTransaction, Signers, ProvidedKeys
<1>1. KeysNeeded(t, chain) \subseteq Signers(t)
  <2>1. KeysNeeded(t, chain) \subseteq RequiredKeys(t, ctx)
    BY <1>s, KeysAreNeeded
  <2> QED
    BY <1>w, <1>t, <2>1
<1>r. ASSUME NEW s \in NeededScripts(t, chain)
      PROVE  s \in Scripts /\ s \in Sources(t, ctx) /\ \E q \in Required(t, ctx) : q.script = s
  <2>1. s \in Scripts /\ \E q \in Required(t, ctx) : q.script = s
    BY <1>s, ScriptsNeeded
  <2> QED
    BY <1>w, <2>1 DEF RequiredUnknown
<1>2. ASSUME NEW s \in NeededScripts(t, chain) \cap (t.scripts \cup Referenced(t, chain)), IsNative(s)
      PROVE  Holds(Tree[s], Signers(t), Interval(t))
  <2>1. s \in {q.script : q \in RequiredNative(t, ctx)} /\ s \in Sources(t, ctx)
    BY <1>2, <1>r DEF RequiredNative
  <2>2. s \notin Deep
    BY <1>w, <1>t, <2>1 DEF Unexamined, Sources
  <2>3. s \in Examined(t, ctx)
    BY <1>2, <2>1, <2>2 DEF Examined
  <2>4. Evaluate(FlatForm[s], ProvidedKeys(t), Interval(t))
    BY <1>w, <2>1, <2>3 DEF InvalidNative
  <2>5. ScriptsStand(t)
    BY <1>s DEF Setting
  <2> QED
    BY <1>2, <1>t, <2>2, <2>4, <2>5 DEF ScriptsStand, IsNative
<1>3. NeededScripts(t, chain) \subseteq t.scripts \cup Referenced(t, chain)
  BY <1>s, <1>r, AtHand
<1>4. ASSUME NEW s \in t.scripts, s \notin NeededScripts(t, chain), s \notin Referenced(t, chain)
      PROVE  \E c \in Certs(t) : Unwitnessed(c) /\ IsNative(c.cred) /\ c.cred \in t.scripts
  <2>1. s \in Scripts /\ s \notin Offered(t, ctx)
    BY <1>4, <1>s, <1>t, AtHand
  <2>2. PICK q \in Required(t, ctx) : q.script = s
    BY <1>w, <2>1 DEF FromWitnessSet
  <2>3. PICK c \in Certs(t) : Unwitnessed(c) /\ c.cred = s
    BY <1>4, <1>s, <2>2, ScriptsNeeded DEF Unasked
  <2>4. ~IsPlutus(s)
    BY <1>n, <2>3 DEF Sources
  <2> QED
    BY <2>1, <2>3, <2>4 DEF IsPlutus, IsNative
<1>5. RequiredDatums(t, ctx) = DatumsOf(PlutusInputs(t, chain))
      /\ \A d : d # None => (d \in OutputDatums(t) <=> d \in DatumsOf(Range(t.outputs)))
  BY <1>s, DatumsAreNeeded
<1>6. ASSUME NEW o \in PlutusInputs(t, chain), o.datum = None, ~o.inline, Language[o.owner] # "v3" PROVE FALSE
  <2>1. PICK r \in t.inputs : /\ o = chain.utxo[r] /\ IsPlutus(chain.utxo[r].owner)
                              /\ chain.utxo[r].owner \in t.scripts \cup Referenced(t, chain)
    BY DEF PlutusInputs
  <2> DEFINE p == <<"spend", Rank(t.inputs, r), chain.utxo[r].owner>>
  <2>2. p[1] = "spend" /\ p[2] = Rank(t.inputs, r) /\ p[3] = o.owner
    BY <2>1
  <2>3. p \in Purposes(t, chain)
    BY DEF Purposes
  <2>4. p \in PlutusNeeded(t, chain)
    <3> HIDE DEF p
    <3> QED
      BY <2>1, <2>2, <2>3 DEF PlutusNeeded, Needed, IsPlutus
  <2> HIDE DEF p
  <2>5. FindScript(t, ctx, <<p[1], p[2]>>) = {p[3]}
    BY <2>4, AcceptedScripts
  <2>6. <<p[1], p[2]>>[1] = "spend" /\ <<p[1], p[2]>>[2] = Rank(t.inputs, r)
    BY <2>2
  <2>7. \A u \in NthOfSet(t.inputs, Rank(t.inputs, r)) : HasDatum(t, ctx.utxo[u], p[3])
    BY <2>5, <2>6 DEF FindScript
  <2>8. HasDatum(t, ctx.utxo[r], p[3])
    BY <2>7 DEF NthOfSet, Rank, SortedIndex
  <2>9. r \in Named(t)
    BY <1>s, Seen
  <2>10. ctx.utxo[r] = o
    BY <1>s, <2>1, <2>9, OnChain
  <2> QED
    BY <1>6, <1>t, <2>2, <2>8, <2>10 DEF HasDatum, DatumHash
<1>7. t.datums \subseteq DatumsOf(PlutusInputs(t, chain)) \cup AllowedDatums(t, chain)
  <2>1. DatumsOf(Range(t.outputs)) \subseteq AllowedDatums(t, chain)
    BY DEF DatumsOf, AllowedDatums
  <2> QED
    BY <1>w, <1>t, <1>5, <2>1
<1>8. {<<p[1], p[2]>> : p \in PlutusNeeded(t, chain)} = t.redeemers
  BY AcceptedRedeemers
<1>9. t.scriptDataHash = ScriptDataHash({Language[p[3]] : p \in PlutusNeeded(t, chain)}, t.redeemers, t.datums)
  <2>1. UsedVersions(t, ctx) = {Language[p[3]] : p \in PlutusNeeded(t, chain)}
    BY <1>s, <1>n, PlutusIsNeeded
  <2> QED
    BY <1>w, <2>1 DEF ExpectedHash
<1>10. t.auxiliary # None => t.auxiliaryHash = t.auxiliary
  <2>1. AuxiliaryErrors(t) = {}
    BY <1>s, AcceptedParts
  <2>2. /\ When(t.auxiliary # None /\ t.auxiliaryHash = None, "AuxiliaryDataHashMissing") = {}
        /\ When(t.auxiliary # None /\ t.auxiliaryHash \notin {None, t.auxiliary}, "AuxiliaryDataHashMismatch") = {}
    BY <2>1 DEF AuxiliaryErrors
  <2>3. /\ ~(t.auxiliary # None /\ t.auxiliaryHash = None)
        /\ ~(t.auxiliary # None /\ t.auxiliaryHash \notin {None, t.auxiliary})
    BY <2>2, Empty
  <2> QED
    BY <2>3
<1> DEFINE U == Unlooked(t)
<1>11. /\ "ScriptGivenTwice" \in U /\ "MissingBootstrap" \in U
       /\ (\E c \in Certs(t) : Unwitnessed(c) /\ IsNative(c.cred) /\ c.cred \in t.scripts) => "ExtraneousScript" \in U
       /\ t.auxiliary = None => "Auxiliary" \in U
  BY DEF Unlooked
<1> HIDE DEF U
<1>12. \A v \in t.vkeys : v.valid
  BY <1>w
<1>13. DatumsOf(PlutusInputs(t, chain)) \subseteq t.datums
  BY <1>w, <1>5
<1>14. ~\E s \in NeededScripts(t, chain) \cap (t.scripts \cup Referenced(t, chain)) :
           IsNative(s) /\ ~Holds(Tree[s], Signers(t), Interval(t))
  BY <1>2
<1>15. ~\E o \in PlutusInputs(t, chain) : o.datum = None /\ ~o.inline /\ Language[o.owner] # "v3"
  BY <1>6
<1>16. ~(t.scripts \subseteq NeededScripts(t, chain) \cup Referenced(t, chain)) => "ExtraneousScript" \in U
  BY <1>4, <1>11
<1>17. t.auxiliaryHash # t.auxiliary => "Auxiliary" \in U
  BY <1>10, <1>11
<1>18. UtxowFailures(t, chain) \subseteq U
  BY <1>1, <1>3, <1>7, <1>8, <1>9, <1>11, <1>12, <1>13, <1>14, <1>15, <1>16, <1>17 DEF UtxowFailures, Failure
<1> QED
  BY <1>18 DEF U

\* The scripts: success, units, context.
LEMMA ScriptsOfFound ==
  ASSUME NEW t, NEW ctx, NEW chain, Found(t, ctx, chain)
  PROVE  ScriptFailures(t, chain) = {}
<1> DEFINE languages == {Language[p[3]] : p \in PlutusNeeded(t, chain)}
           legacy == languages \cap {"v1", "v2"} # {}
<1>1. ASSUME NEW p \in PlutusNeeded(t, chain)
      PROVE  /\ p[3] \in Succeeds /\ ~(t.units < Cost) /\ ~BuilderRefuses(t, chain, p[3])
             /\ ~LanguageRefusal(t, Language[p[3]]) /\ \A o \in Range(t.outputs) : o.address # "byron"
  BY AcceptedScripts
<1>2. ASSUME NEW l \in languages PROVE ~LanguageRefusal(t, l) /\ ~(t.units < Cost) /\ \A o \in Range(t.outputs) : o.address # "byron"
  BY <1>1
<1>3. \A c \in Range(t.certs) :
        c.kind \notin PoolOwnKinds \cup {"StakeRegistration", "StakeDeregistration", "StakeDelegation"} => c.kind \in ConwayOnly
  <2>1. t.certs \in Seq(CertificateOf)
    BY FoundIsSetting DEF Setting, IsTransaction
  <2>2. \A c \in Range(t.certs) : c.kind \in StakeKinds \cup PoolKinds \cup DRepKinds \cup CommitteeKinds
    <3> SUFFICES ASSUME NEW i \in DOMAIN t.certs
                 PROVE  t.certs[i].kind \in StakeKinds \cup PoolKinds \cup DRepKinds \cup CommitteeKinds
      BY DEF Range
    <3>1. t.certs[i] \in CertificateOf
      BY <2>1
    <3> QED
      BY <3>1 DEF CertificateOf
  <2> QED
    BY <2>2 DEF ConwayOnly, StakeKinds, PoolKinds, PoolOwnKinds
<1>4. "v1" \in languages => ~\E o \in Range(t.outputs) : o.inline
  BY <1>2 DEF LanguageRefusal
<1>5. legacy => /\ ~(t.votes # <<>> \/ t.proposals # <<>> \/ t.donation)
                /\ ~\E c \in Range(t.certs) : c.kind \notin PoolOwnKinds \cup
                      {"StakeRegistration", "StakeDeregistration", "StakeDelegation"}
  <2> SUFFICES ASSUME NEW l \in languages, l \in {"v1", "v2"}
               PROVE  /\ ~(t.votes # <<>> \/ t.proposals # <<>> \/ t.donation)
                      /\ ~\E c \in Range(t.certs) : c.kind \notin PoolOwnKinds \cup
                            {"StakeRegistration", "StakeDeregistration", "StakeDelegation"}
    OBVIOUS
  <2>1. ~LanguageRefusal(t, l)
    BY <1>2
  <2> HIDE DEF languages
  <2> QED
    BY <1>3, <2>1 DEF LanguageRefusal
<1>6. languages # {} => ~(t.units < Cost) /\ ~\E o \in Range(t.outputs) : o.address = "byron"
  BY <1>2
<1> HIDE DEF languages
<1> QED
  BY <1>1, <1>4, <1>5, <1>6 DEF ScriptFailures, Failure, languages

\* The least collateral is a share of the fee, rounded up.
LEMMA RoundedUp ==
  ASSUME NEW x \in Int, NEW fee \in Nat, NEW share \in Nat, x >= (fee * share + 99) \div 100
  PROVE  ~(100 * x < share * fee)
<1> DEFINE y == fee * share
<1>1. y \in Nat /\ y = share * fee
  OBVIOUS
<1> HIDE DEF y
<1>2. x >= (y + 99) \div 100
  BY DEF y
<1> DEFINE z == (y + 99) \div 100
<1>3. z \in Int /\ 100 * z >= y
  BY <1>1
<1>z. x >= z
  BY <1>2
<1> HIDE DEF z
<1>4. 100 * x >= y
  BY <1>1, <1>3, <1>z
<1> QED
  BY <1>1, <1>4

\* The collateral, of a transaction that runs a script.
LEMMA CollateralOfFound ==
  ASSUME NEW t, NEW ctx, NEW chain, Found(t, ctx, chain), t.redeemers # {}
  PROVE  ~CollateralFails(t, chain)
<1>s. Setting(t, ctx, chain) /\ Accepts(Validated(t, ctx))
  BY FoundIsSetting
<1>1. CollateralErrors(t, ctx) = {}
  BY <1>s, AcceptedParts
<1>2. /\ When(NeedCollateral(t) /\ ~HasCollateral(t), "NoCollateralInputs") = {}
      /\ CollateralAmount(t, ctx) = {}
      /\ Errors("CollateralIsLockedByScript", {r \in Known(t.collateral, ctx) : ctx.utxo[r].owner \in Scripts}) = {}
  BY <1>1 DEF CollateralErrors
<1>3. t.collateral # {} /\ HasCollateral(t)
  BY <1>2, Empty DEF NeedCollateral, HasCollateral
<1>4. Known(t.collateral, ctx) = t.collateral /\ t.collateral \subseteq Named(t)
  BY <1>s, Seen
<1>5. \A r \in Named(t) : ctx.utxo[r] = chain.utxo[r]
  BY <1>s, OnChain
<1>6. ~\E r \in t.collateral : chain.utxo[r].owner \in Scripts
  <2>1. {r \in Known(t.collateral, ctx) : ctx.utxo[r].owner \in Scripts} = {}
    BY <1>2, Empty
  <2> QED
    BY <1>4, <1>5, <2>1
<1>7. Balance(t, chain, "assets") = 0
  <2>1. CASE HasReturn(t)
    <3>1. When(HasCollateral(t) /\ Balance(t, ctx, "assets") # 0, "CalculatedCollateralContainsNonAdaAssets") = {}
      BY <1>1, <2>1 DEF CollateralErrors
    <3>2. Balance(t, ctx, "assets") = 0
      BY <1>3, <3>1, Empty
    <3> QED
      BY <1>s, <3>2, CollateralIsASum
  <2>2. CASE ~HasReturn(t)
    <3>1. Errors("CollateralInputContainsNonAdaAssets", {r \in Known(t.collateral, ctx) : ctx.utxo[r].assets # 0}) = {}
      BY <1>1, <2>2 DEF CollateralErrors
    <3>2. {r \in Known(t.collateral, ctx) : ctx.utxo[r].assets # 0} = {}
      BY <3>1, Empty
    <3>3. \A r \in t.collateral : chain.utxo[r]["assets"] = 0
      BY <1>4, <1>5, <3>2
    <3>4. /\ Balance(t, ctx, "assets") = Balance(t, chain, "assets")
          /\ (\A r \in t.collateral : chain.utxo[r]["assets"] = 0) => Balance(t, ctx, "assets") = 0
      BY <1>s, <2>2, CollateralIsASum
    <3> QED
      BY <3>3, <3>4
  <2> QED
    BY <2>1, <2>2
<1> DEFINE coin == Balance(t, chain, "coin")
<1>8. coin \in Int /\ Balance(t, ctx, "coin") = coin
  BY <1>s, CollateralIsASum
<1> HIDE DEF coin
<1>9. coin >= MinCollateral(t) /\ t.totalCollateral \in {Absent, coin}
  <2>n. MinCollateral(t) \in Int /\ t.totalCollateral \in Int
    <3>1. t.fee \in Nat /\ t.totalCollateral \in Nat \cup {Absent}
      BY <1>s DEF Setting, IsTransaction
    <3>2. Params["percentage"] \in Nat
      BY ParamsTyped
    <3>3. t.fee * Params["percentage"] \in Nat
      BY <3>1, <3>2
    <3> QED
      BY <3>1, <3>3 DEF MinCollateral, Absent
  <2>1. CASE t.totalCollateral # Absent
    <3>1. /\ When(t.totalCollateral < MinCollateral(t), "InsufficientCollateral") = {}
          /\ When(HasCollateral(t) /\ Balance(t, ctx, "coin") # t.totalCollateral, "IncorrectTotalCollateralField") = {}
      BY <1>2, <2>1 DEF CollateralAmount
    <3>2. ~(t.totalCollateral < MinCollateral(t)) /\ Balance(t, ctx, "coin") = t.totalCollateral
      BY <1>3, <3>1, Empty
    <3> QED
      BY <1>8, <2>n, <3>2
  <2>2. CASE t.totalCollateral = Absent
    <3>1. When(HasCollateral(t) /\ Balance(t, ctx, "coin") < MinCollateral(t), "InsufficientCollateral") = {}
      BY <1>2, <2>2 DEF CollateralAmount
    <3>2. ~(Balance(t, ctx, "coin") < MinCollateral(t))
      BY <1>3, <3>1, Empty
    <3> QED
      BY <1>8, <2>n, <2>2, <3>2
  <2> QED
    BY <2>1, <2>2
<1>10. ~(100 * coin < Params.percentage * t.fee)
  <2>1. t.fee \in Nat /\ Params["percentage"] \in Nat
    BY <1>s, ParamsTyped DEF Setting, IsTransaction
  <2>2. coin >= (t.fee * Params["percentage"] + 99) \div 100
    BY <1>9 DEF MinCollateral, NeedCollateral
  <2>3. ~(100 * coin < Params["percentage"] * t.fee)
    BY <1>8, <2>1, <2>2, RoundedUp
  <2> QED
    BY <2>3
<1> QED
  BY <1>3, <1>6, <1>7, <1>9, <1>10 DEF CollateralFails, CollateralCoin, coin

\* UTXO, but for the network and the size of the collateral's return.
LEMMA BodyOfFound ==
  ASSUME NEW t, NEW ctx, NEW chain, Found(t, ctx, chain)
  PROVE  /\ Named(t) \subseteq DOMAIN chain.utxo
         /\ UtxoFailures(t, chain) \subseteq {"ReturnTooBig", "ReturnNetwork"}
<1>s. Setting(t, ctx, chain) /\ Accepts(Validated(t, ctx))
  BY FoundIsSetting
<1>p. /\ FeeErrors(t, ctx) = {} /\ CollateralErrors(t, ctx) = {} /\ OutputErrors(t) = {}
      /\ LimitErrors(t, ctx) = {} /\ NetworkErrors(t) = {}
  BY <1>s, AcceptedParts
<1>z. RefBytes(t, ctx) = ScriptBytes(t, chain) /\ MinFee(t, ctx) = LeastFee(t, chain) /\ ctx.slot = chain.slot
  BY <1>s, SizesAgree DEF Setting, IsPartOf
<1>l. /\ When(t.inputs = {}, "InputSetEmptyUTxO") = {}
      /\ When(t.size > Params.maxSize, "MaxTxSizeUTxO") = {}
      /\ When(TotalUnits(t) > Params.maxUnits, "ExUnitsTooBigUTxO") = {}
      /\ When(RefBytes(t, ctx) > Params.maxRefs, "RefScriptsSizeTooBig") = {}
      /\ When(Outside(t, ctx.slot), "OutsideValidityIntervalUTxO") = {}
      /\ Errors("ReferenceInputOverlapsWithInput", t.references \cap t.inputs) = {}
  BY <1>p DEF LimitErrors
<1>1. /\ t.inputs # {} /\ ~(t.size > Params.maxSize) /\ ~(TotalUnits(t) > Params.maxUnits)
      /\ ~(RefBytes(t, ctx) > Params.maxRefs) /\ ~Outside(t, ctx.slot) /\ t.references \cap t.inputs = {}
  BY <1>l, Empty
<1>2. ~((t.start # NoBound /\ chain.slot < t.start) \/ (t.ttl # NoBound /\ t.ttl <= chain.slot))
  BY <1>1, <1>z DEF Outside
<1>3. ~(t.fee < LeastFee(t, chain))
  BY <1>p, <1>z, Empty DEF FeeErrors
<1>4. ~(Cardinality(t.collateral) > Params.maxCollateral)
  <2>1. When(Cardinality(t.collateral) > Params.maxCollateral, "TooManyCollateralInputs") = {}
    BY <1>p DEF CollateralErrors
  <2> QED
    BY <2>1, Empty
<1>5. ~\E o \in Range(t.outputs) : o.coin < Params.minCoin \/ o.size > Params.maxValueSize
  <2>1. /\ Errors("OutputsValueTooBig", {i \in DOMAIN t.outputs : t.outputs[i].size > Params.maxValueSize}) = {}
        /\ Errors("OutputTooSmallUTxO", {i \in DOMAIN t.outputs : t.outputs[i].coin < Params.minCoin}) = {}
    BY <1>p DEF OutputErrors
  <2>2. /\ {i \in DOMAIN t.outputs : t.outputs[i].size > Params.maxValueSize} = {}
        /\ {i \in DOMAIN t.outputs : t.outputs[i].coin < Params.minCoin} = {}
    BY <2>1, Empty
  <2> QED
    BY <2>2 DEF Range
<1>6. ~\E o \in Range(t.collateralReturn) : o.coin < Params.minCoin
  <2> SUFFICES ASSUME NEW i \in DOMAIN t.collateralReturn PROVE ~(t.collateralReturn[i].coin < Params.minCoin)
    BY DEF Range
  <2>1. DOMAIN t.collateralReturn = 1..Len(t.collateralReturn) /\ Len(t.collateralReturn) <= 1
    BY <1>s DEF Setting, IsTransaction
  <2>2. i = 1
    BY <2>1
  <2>3. HasReturn(t)
    BY <2>1 DEF HasReturn
  <2>4. When(t.collateralReturn[1].coin < Params.minCoin, "CollateralReturnTooSmall") = {}
    BY <1>p, <2>3 DEF CollateralErrors
  <2> QED
    BY <2>2, <2>4, Empty
<1>7. /\ ~\E o \in Range(t.outputs) : o.net \notin {Network, "untold"}
      /\ ~(t.withdrawals # {} /\ t.withdrawalNet # Network) /\ ~(t.net \notin {Network, "untold"})
  <2>1. /\ When(\E o \in Range(t.outputs) : o.net \notin {Network, "untold"}, "WrongNetwork") = {}
        /\ When(t.withdrawals # {} /\ t.withdrawalNet # Network, "WrongNetworkWithdrawal") = {}
        /\ When(t.net \notin {Network, "untold"}, "WrongNetworkInTxBody") = {}
    BY <1>p DEF NetworkErrors
  <2> QED
    BY <2>1, Empty
<1>8. t.redeemers # {} => ~CollateralFails(t, chain)
  BY CollateralOfFound
<1>9. \A r \in Named(t) : r \in DOMAIN chain.utxo /\ ctx.utxo[r] = chain.utxo[r]
  BY <1>s, OnChain
<1>10. ~\E r \in Named(t) : chain.utxo[r].spent
  <2>1. \A r \in Named(t) : ~ctx.utxo[r].spent
    BY <1>s, AcceptedKnown
  <2> QED
    BY <1>9, <2>1
<1>11. ~\E o \in AllOutputs(t) : o.coin < Params.minCoin
  BY <1>5, <1>6 DEF AllOutputs
<1>12. ~\E o \in Range(t.outputs) : o.size > Params.maxValueSize
  BY <1>5
<1>13. UtxoFailures(t, chain) \subseteq {"ReturnTooBig", "ReturnNetwork"}
  BY <1>1, <1>2, <1>3, <1>4, <1>7, <1>8, <1>10, <1>11, <1>12, <1>z DEF UtxoFailures, Failure
<1> QED
  BY <1>9, <1>13

\* ---- governance ----

\* Kinds of certificates that change who may vote, or which accounts there are.
Standing == DRepKinds \cup CommitteeKinds \cup {"PoolRegistration", "StakeDeregistration"} \cup Registering

\* What no error of a vote, and none of a proposal, says.
LEMMA VotesOfFound ==
  ASSUME NEW t, NEW ctx, Accepts(Validated(t, ctx))
  PROVE  /\ \A v \in Range(t.votes) : Exists(t, v, ctx) /\ ~Resigned(v, ctx)
         /\ \A v \in Range(t.votes) : \A a \in v.actions :
              a \in DOMAIN ctx.actions /\ ctx.actions[a].active /\ ~Disallowed(v, ctx.actions[a])
<1> DEFINE on == {p \in Range(t.votes) \X NecessaryActions(t) : p[2] \in p[1].actions}
           known == {p \in on : p[2] \in DOMAIN ctx.actions}
<1>1. VoteErrors(t, ctx) = {}
  BY AcceptedParts
<1>2. /\ Errors("VoterDoNotExist", {v.cred : v \in {w \in Range(t.votes) : ~Exists(t, w, ctx)}}) = {}
      /\ Errors("InvalidCommitteeVote", {v.cred : v \in {w \in Range(t.votes) : Resigned(w, ctx)}}) = {}
      /\ Errors("GovActionsDoNotExist", {p[2] : p \in on \ known}) = {}
      /\ Errors("VotingOnExpiredGovAction", {p[2] : p \in {q \in known : ~ctx.actions[q[2]].active}}) = {}
      /\ Errors("DisallowedVoters", {p[2] : p \in {q \in known : Disallowed(q[1], ctx.actions[q[2]])}}) = {}
  BY <1>1 DEF VoteErrors
<1> HIDE DEF known, on
<1>3. /\ {v.cred : v \in {w \in Range(t.votes) : ~Exists(t, w, ctx)}} = {}
      /\ {v.cred : v \in {w \in Range(t.votes) : Resigned(w, ctx)}} = {}
      /\ {p[2] : p \in on \ known} = {}
      /\ {p[2] : p \in {q \in known : ~ctx.actions[q[2]].active}} = {}
      /\ {p[2] : p \in {q \in known : Disallowed(q[1], ctx.actions[q[2]])}} = {}
  BY <1>2, Empty
<1>4. \A v \in Range(t.votes) : Exists(t, v, ctx) /\ ~Resigned(v, ctx)
  BY <1>3
<1>5. ASSUME NEW v \in Range(t.votes), NEW a \in v.actions
      PROVE  a \in DOMAIN ctx.actions /\ ctx.actions[a].active /\ ~Disallowed(v, ctx.actions[a])
  <2> DEFINE p == <<v, a>>
  <2>1. p[1] = v /\ p[2] = a
    OBVIOUS
  <2>2. p \in on
    BY DEF on, NecessaryActions
  <2> HIDE DEF p
  <2>3. p \in known
    BY <1>3, <2>2
  <2>4. ctx.actions[p[2]].active /\ ~Disallowed(p[1], ctx.actions[p[2]])
    BY <1>3, <2>3
  <2>5. p[2] \in DOMAIN ctx.actions
    BY <2>3 DEF known
  <2> QED
    BY <2>1, <2>4, <2>5
<1> QED
  BY <1>4, <1>5

LEMMA ProposalsOfFound ==
  ASSUME NEW t, NEW ctx, Accepts(Validated(t, ctx))
  PROVE  /\ \A p \in Proposals(t) : p.account \in ctx.accounts /\ ~WrongGuardrail(p, ctx)
                                    /\ p.net = Network
         /\ \A p \in Proposals(t) : p.kind = "TreasuryWithdrawalsAction" =>
              /\ p.amount * Cardinality(p.targets) # 0 /\ p.targets \subseteq ctx.accounts
              /\ p.targetNet = Network \/ p.targets = {}
         /\ \A p \in Proposals(t) : p.kind = "UpdateCommitteeAction" => p.add \cap p.remove = {}
         /\ PreviousActions(t) \subseteq DOMAIN ctx.actions
<1> DEFINE treasury == {p \in Proposals(t) : p.kind = "TreasuryWithdrawalsAction"}
           committee == {p \in Proposals(t) : p.kind = "UpdateCommitteeAction"}
<1>1. ProposalErrors(t, ctx) = {} /\ NetworkErrors(t) = {}
  BY AcceptedParts
<1>2. /\ Errors("ProposalReturnAccountDoesNotExist", {p.account : p \in Proposals(t)} \ ctx.accounts) = {}
      /\ Errors("InvalidConstitutionPolicyHash", {p.policy : p \in {q \in Proposals(t) : WrongGuardrail(q, ctx)}}) = {}
      /\ When(\E p \in treasury : p.amount * Cardinality(p.targets) = 0, "ZeroTreasuryWithdrawals") = {}
      /\ Errors("TreasuryWithdrawalReturnAccountsDoNotExist", (UNION {p.targets : p \in treasury}) \ ctx.accounts) = {}
      /\ Errors("ConflictingCommitteeUpdate", UNION {p.add \cap p.remove : p \in committee}) = {}
      /\ Errors("GovActionsDoNotExist", PreviousActions(t) \ DOMAIN ctx.actions) = {}
  BY <1>1 DEF ProposalErrors
<1>3. /\ Errors("ProposalProcedureNetworkIdMismatch", {i \in DOMAIN t.proposals : t.proposals[i].net # Network}) = {}
      /\ Errors("TreasuryWithdrawalsNetworkIdMismatch", ForeignTargets(t)) = {}
  BY <1>1 DEF NetworkErrors
<1> HIDE DEF treasury, committee
<1>4. /\ {p.account : p \in Proposals(t)} \ ctx.accounts = {}
      /\ {p.policy : p \in {q \in Proposals(t) : WrongGuardrail(q, ctx)}} = {}
      /\ ~(\E p \in treasury : p.amount * Cardinality(p.targets) = 0)
      /\ (UNION {p.targets : p \in treasury}) \ ctx.accounts = {}
      /\ (UNION {p.add \cap p.remove : p \in committee}) = {}
      /\ PreviousActions(t) \ DOMAIN ctx.actions = {}
  BY <1>2, Empty
<1>5. {i \in DOMAIN t.proposals : t.proposals[i].net # Network} = {} /\ ForeignTargets(t) = {}
  BY <1>3, Empty
<1>6. ASSUME NEW p \in Proposals(t) PROVE p.account \in ctx.accounts /\ ~WrongGuardrail(p, ctx)
  <2>1. {q.account : q \in Proposals(t)} \ ctx.accounts = {}
    BY <1>4
  <2>2. {q.policy : q \in {r \in Proposals(t) : WrongGuardrail(r, ctx)}} = {}
    BY <1>4
  <2>3. p.account \in ctx.accounts
    BY <2>1
  <2>4. ~WrongGuardrail(p, ctx)
    BY <2>2
  <2> QED
    BY <2>3, <2>4
<1>7. \A p \in Proposals(t) : p.net = Network
  BY <1>5 DEF Proposals, Range
<1>8. ASSUME NEW p \in Proposals(t), p.kind = "TreasuryWithdrawalsAction"
      PROVE  /\ p.amount * Cardinality(p.targets) # 0 /\ p.targets \subseteq ctx.accounts
             /\ p.targetNet = Network \/ p.targets = {}
  <2>1. p \in treasury
    BY <1>8 DEF treasury
  <2>2. p.targets \subseteq UNION {q.targets : q \in treasury}
    BY <2>1
  <2>3. p.targetNet = Network \/ p.targets = {}
    BY <1>5, <1>8 DEF ForeignTargets, Proposals, Range
  <2> QED
    BY <1>4, <2>1, <2>2, <2>3
<1>9. ASSUME NEW p \in Proposals(t), p.kind = "UpdateCommitteeAction" PROVE p.add \cap p.remove = {}
  <2>1. p \in committee
    BY <1>9 DEF committee
  <2>2. (p.add \cap p.remove) \subseteq UNION {q.add \cap q.remove : q \in committee}
    BY <2>1
  <2> QED
    BY <1>4, <2>2
<1> QED
  BY <1>4, <1>6, <1>7, <1>8, <1>9

\* GOV, when no certificate of the transaction changes the standing of whom it names.
LEMMA GovernanceOfFound ==
  ASSUME NEW t, NEW ctx, NEW chain, Found(t, ctx, chain)
  PROVE  /\ (\A c \in Certs(t) : c.kind \notin Standing) => GovFailures(t, chain) \subseteq {"Guardrail"}
         /\ ctx.constitution # NoConstitution => "Guardrail" \notin GovFailures(t, chain)
<1>s. IsPartOf(ctx, chain) /\ IsTransaction(t) /\ Accepts(Validated(t, ctx))
  BY DEF Found, Sound
<1>c. /\ DOMAIN ctx.actions \subseteq DOMAIN chain.actions
      /\ \A a \in DOMAIN ctx.actions : ctx.actions[a] = chain.actions[a]
      /\ ctx.accounts \subseteq chain.accounts /\ ctx.pools \subseteq chain.pools /\ ctx.dreps \subseteq chain.dreps
      /\ ctx.committee \subseteq chain.committee
      /\ ctx.constitution # NoConstitution => ctx.constitution = chain.constitution
  BY <1>s DEF IsPartOf
<1>v. /\ \A v \in Range(t.votes) : Exists(t, v, ctx) /\ ~Resigned(v, ctx)
      /\ \A v \in Range(t.votes) : \A a \in v.actions :
           a \in DOMAIN ctx.actions /\ ctx.actions[a].active /\ ~Disallowed(v, ctx.actions[a])
  BY <1>s, VotesOfFound
<1>p. /\ \A p \in Proposals(t) : p.account \in ctx.accounts /\ ~WrongGuardrail(p, ctx)
                                 /\ p.net = Network
      /\ \A p \in Proposals(t) : p.kind = "TreasuryWithdrawalsAction" =>
           /\ p.amount * Cardinality(p.targets) # 0 /\ p.targets \subseteq ctx.accounts
           /\ p.targetNet = Network \/ p.targets = {}
      /\ \A p \in Proposals(t) : p.kind = "UpdateCommitteeAction" => p.add \cap p.remove = {}
      /\ PreviousActions(t) \subseteq DOMAIN ctx.actions
  BY <1>s, ProposalsOfFound
<1> DEFINE votedOn == (UNION {v.actions : v \in Range(t.votes)}) \cap DOMAIN chain.actions
           votes == {p \in Range(t.votes) \X votedOn : p[2] \in p[1].actions}
           treasury == {p \in Proposals(t) : p.kind = "TreasuryWithdrawalsAction"}
           disallowed(p) == LET action == chain.actions[p[2]] IN
             \/ p[1].role = "pool" /\ action.kind \in {"NewConstitutionAction", "TreasuryWithdrawalsAction"}
             \/ p[1].role = "pool" /\ action.kind = "ParameterChangeAction" /\ ~action.security
             \/ p[1].role = "committee" /\ action.kind \in {"NoConfidenceAction", "UpdateCommitteeAction"}
<1>1. ~\E v \in Range(t.votes) : ~(v.actions \subseteq DOMAIN chain.actions)
  BY <1>c, <1>v
<1>2. ~\E a \in votedOn : ~chain.actions[a].active
  BY <1>c, <1>v
<1>3. ~\E p \in votes : disallowed(p)
  <2> SUFFICES ASSUME NEW v \in Range(t.votes), NEW a \in v.actions PROVE ~disallowed(<<v, a>>)
    OBVIOUS
  <2>1. ~Disallowed(v, ctx.actions[a]) /\ ctx.actions[a] = chain.actions[a]
    BY <1>c, <1>v
  <2> QED
    BY <2>1 DEF Disallowed
<1>4. ~\E p \in treasury : p.targets = {} \/ p.amount = 0
  <2> SUFFICES ASSUME NEW p \in Proposals(t), p.kind = "TreasuryWithdrawalsAction" PROVE ~(p.targets = {} \/ p.amount = 0)
    OBVIOUS
  <2>1. p.amount * Cardinality(p.targets) # 0
    BY <1>p
  <2>2. p.amount \in Nat /\ IsFiniteSet(p.targets)
    BY <1>s DEF IsTransaction, Proposals
  <2>3. Cardinality(p.targets) \in Nat /\ (p.targets = {} => Cardinality(p.targets) = 0)
    BY <2>2, FS_CardinalityType, FS_EmptySet
  <2> QED
    BY <2>1, <2>2, <2>3
<1>5. ~\E p \in Proposals(t) : p.net # Network
  BY <1>p
<1>6. ~\E p \in treasury : p.targetNet # Network /\ p.targets # {}
  BY <1>p
<1>7. ~\E p \in Proposals(t) : p.kind = "UpdateCommitteeAction" /\ p.add \cap p.remove # {}
  BY <1>p
<1>8. PreviousActions(t) \subseteq DOMAIN chain.actions
  BY <1>c, <1>p
<1>9. ASSUME \A c \in Certs(t) : c.kind \notin Standing PROVE GovFailures(t, chain) \subseteq {"Guardrail"}
  <2>1. \A i \in DOMAIN t.certs : t.certs[i].kind \notin Standing
    BY <1>9 DEF Certs, Range
  <2>2. ~\E v \in Range(t.votes) : ~VoterExists(t, chain, v)
    <3> SUFFICES ASSUME NEW v \in Range(t.votes) PROVE VoterExists(t, chain, v)
      OBVIOUS
    <3>1. v.role \in {"drep", "pool", "committee"}
      BY <1>s DEF IsTransaction, IsVote
    <3>2. CASE v.role = "drep"
      <4>1. v.cred \in chain.dreps
        BY <1>c, <1>v, <3>2 DEF Exists
      <4>2. IsDRep(t, chain, v.cred)
        BY <2>1, <4>1 DEF IsDRep, Standing, DRepKinds
      <4> QED
        BY <3>2, <4>2 DEF VoterExists
    <3>3. CASE v.role = "pool"
      BY <1>c, <1>v, <3>3 DEF Exists, VoterExists
    <3>4. CASE v.role = "committee"
      <4>1. HotInTx(t) = {}
        BY <1>9 DEF HotInTx, Standing, CommitteeKinds
      <4>2. Seated(v.cred, ctx) # {} /\ ~\E m \in Seated(v.cred, ctx) : m.resigned
        BY <1>v, <3>4, <4>1 DEF Exists, Resigned
      <4>3. PICK m \in ctx.committee : m.hot = v.cred /\ ~m.resigned
        BY <4>2 DEF Seated
      <4>4. SpeaksFor(t, m, v.cred)
        BY <2>1, <4>3 DEF SpeaksFor, Standing, CommitteeKinds
      <4> QED
        BY <1>c, <3>4, <4>3, <4>4 DEF VoterExists
    <3> QED
      BY <3>1, <3>2, <3>3, <3>4
  <2>3. \A a \in chain.accounts : IsAccount(t, chain, a)
    BY <2>1 DEF IsAccount, Standing
  <2>4. ~\E p \in Proposals(t) : ~IsAccount(t, chain, p.account)
    BY <1>c, <1>p, <2>3
  <2>5. ~\E p \in treasury : \E a \in p.targets : ~IsAccount(t, chain, a)
    BY <1>c, <1>p, <2>3
  <2>6. ~\E p \in votes : disallowed(p)
    BY <1>3
  <2> QED
    BY <1>1, <1>2, <2>6, <1>4, <1>5, <1>6, <1>7, <1>8, <2>2, <2>4, <2>5 DEF GovFailures, Failure
<1>10. ASSUME ctx.constitution # NoConstitution PROVE "Guardrail" \notin GovFailures(t, chain)
  <2>1. ~\E p \in Proposals(t) : p.kind \in GuardedKinds /\ p.policy # chain.constitution[1]
    BY <1>c, <1>p, <1>10 DEF WrongGuardrail
  <2> QED
    BY <2>1 DEF GovFailures, Failure
<1> QED
  BY <1>9, <1>10

\* ---- what the name of an error tells ----

\* Which validator an error comes from.
LEMMA ErrorsOfParts ==
  ASSUME NEW t, NEW ctx, ~Validated(t, ctx).refused, NEW n \in Names(Validated(t, ctx).errors)
  PROVE  \/ n \in Names(FeeErrors(t, ctx)) \/ n \in Names(WitnessErrors(t, ctx)) \/ n \in Names(CollateralErrors(t, ctx))
         \/ n \in Names(AuxiliaryErrors(t)) \/ n \in Names(OutputErrors(t)) \/ n \in Names(LimitErrors(t, ctx))
         \/ n \in Names(NetworkErrors(t)) \/ n \in Names(VoteErrors(t, ctx)) \/ n \in Names(ProposalErrors(t, ctx))
         \/ n \in Names(PhaseTwoErrors(t, ctx))
<1>1. Validated(t, ctx).errors = PhaseOneErrors(t, ctx) \cup PhaseTwoErrors(t, ctx)
  BY DEF Validated, Refusal
<1> QED
  BY <1>1 DEF PhaseOneErrors, GovernanceErrors, Names

\* The condition behind each name: of the witnesses,
LEMMA WitnessNames ==
  ASSUME NEW t, NEW ctx, NEW n \in Names(WitnessErrors(t, ctx))
  PROVE  \/ n = "MissingVKeyWitnesses" /\ RequiredKeys(t, ctx) \ ProvidedKeys(t) # {}
         \/ n = "InvalidSignature" /\ {v.key : v \in {w \in t.vkeys : ~w.valid}} # {}
         \/ n = "NativeScriptIsUnsuccessful" /\ InvalidNative(t, ctx) # {}
         \/ n = "MissingScriptWitnesses" /\ {q.script : q \in RequiredUnknown(t, ctx)} # {}
         \/ n = "MissingRedeemer" /\ {<<q.tag, q.index>> : q \in RequiredPlutus(t, ctx)} \ t.redeemers # {}
         \/ n = "MissingDatum" /\ RequiredDatums(t, ctx) \ t.datums # {}
         \/ n = "ExtraneousScriptWitnesses" /\ FromWitnessSet(t, ctx) \ {q.script : q \in Required(t, ctx)} # {}
         \/ n = "ExtraneousDatumWitnesses" /\ ExtraneousDatums(t, ctx) # {}
         \/ n = "ExtraneousSignature"
         \/ n = "ScriptDataHashMismatch" /\ t.scriptDataHash # ExpectedHash(t, ctx)
<1> DEFINE hash == IF t.scriptDataHash = ExpectedHash(t, ctx) THEN {} ELSE {<<"ScriptDataHashMismatch", None>>}
<1>1. n \in Names(hash) => n = "ScriptDataHashMismatch" /\ t.scriptDataHash # ExpectedHash(t, ctx)
  BY DEF Names
<1> HIDE DEF hash
<1> QED
  BY <1>1 DEF Names, Errors, When, WitnessErrors, hash

\* of the collateral,
LEMMA CollateralNames ==
  ASSUME NEW t, NEW ctx, NEW n \in Names(CollateralErrors(t, ctx))
  PROVE  \/ n = "TooManyCollateralInputs" /\ Cardinality(t.collateral) > Params.maxCollateral
         \/ n = "NoCollateralInputs" /\ ~HasCollateral(t)
         \/ /\ n = "InsufficientCollateral"
            /\ IF t.totalCollateral # Absent THEN t.totalCollateral < MinCollateral(t)
               ELSE HasCollateral(t) /\ Balance(t, ctx, "coin") < MinCollateral(t)
         \/ /\ n = "IncorrectTotalCollateralField" /\ t.totalCollateral # Absent
            /\ Balance(t, ctx, "coin") # t.totalCollateral
         \/ n = "CalculatedCollateralContainsNonAdaAssets" /\ Balance(t, ctx, "assets") # 0
         \/ n = "CollateralReturnTooSmall" /\ HasReturn(t) /\ t.collateralReturn[1].coin < Params.minCoin
         \/ /\ n = "CollateralInputContainsNonAdaAssets" /\ ~HasReturn(t)
            /\ {r \in Known(t.collateral, ctx) : ctx.utxo[r].assets # 0} # {}
         \/ /\ n = "CollateralIsLockedByScript"
            /\ {r \in Known(t.collateral, ctx) : ctx.utxo[r].owner \in Scripts} # {}
<1> DEFINE amount == CollateralAmount(t, ctx)
           back == IF HasReturn(t)
             THEN When(HasCollateral(t) /\ Balance(t, ctx, "assets") # 0, "CalculatedCollateralContainsNonAdaAssets")
                  \cup When(t.collateralReturn[1].coin < Params.minCoin, "CollateralReturnTooSmall")
             ELSE Errors("CollateralInputContainsNonAdaAssets", {r \in Known(t.collateral, ctx) : ctx.utxo[r].assets # 0})
<1>1. n \in Names(amount) =>
        \/ /\ n = "InsufficientCollateral"
           /\ IF t.totalCollateral # Absent THEN t.totalCollateral < MinCollateral(t)
              ELSE HasCollateral(t) /\ Balance(t, ctx, "coin") < MinCollateral(t)
        \/ /\ n = "IncorrectTotalCollateralField" /\ t.totalCollateral # Absent
           /\ Balance(t, ctx, "coin") # t.totalCollateral
  <2>1. CASE t.totalCollateral # Absent
    BY <2>1 DEF Names, Errors, When, CollateralAmount
  <2>2. CASE t.totalCollateral = Absent
    BY <2>2 DEF Names, Errors, When, CollateralAmount
  <2> QED
    BY <2>1, <2>2
<1>2. n \in Names(back) =>
        \/ n = "CalculatedCollateralContainsNonAdaAssets" /\ Balance(t, ctx, "assets") # 0
        \/ n = "CollateralReturnTooSmall" /\ HasReturn(t) /\ t.collateralReturn[1].coin < Params.minCoin
        \/ /\ n = "CollateralInputContainsNonAdaAssets" /\ ~HasReturn(t)
           /\ {r \in Known(t.collateral, ctx) : ctx.utxo[r].assets # 0} # {}
  <2>1. CASE HasReturn(t)
    BY <2>1 DEF Names, Errors, When
  <2>2. CASE ~HasReturn(t)
    BY <2>2 DEF Names, Errors, When
  <2> QED
    BY <2>1, <2>2
<1> HIDE DEF amount, back
<1>3. \/ n = "TooManyCollateralInputs" /\ Cardinality(t.collateral) > Params.maxCollateral
      \/ n = "NoCollateralInputs" /\ ~HasCollateral(t)
      \/ n \in Names(amount) \/ n \in Names(back)
      \/ /\ n = "CollateralIsLockedByScript"
         /\ {r \in Known(t.collateral, ctx) : ctx.utxo[r].owner \in Scripts} # {}
  BY DEF Names, Errors, When, CollateralErrors, amount, back
<1> QED
  BY <1>1, <1>2, <1>3

\* of fee, auxiliary data, outputs, limits and networks,
LEMMA BodyNames ==
  ASSUME NEW t, NEW ctx, NEW n
  PROVE  /\ n \in Names(FeeErrors(t, ctx)) => n = "FeeTooSmallUTxO" /\ t.fee < MinFee(t, ctx)
         /\ n \in Names(AuxiliaryErrors(t)) =>
              \/ n = "AuxiliaryDataHashMissing" /\ t.auxiliary # None /\ t.auxiliaryHash = None
              \/ n = "AuxiliaryDataHashMismatch" /\ t.auxiliaryHash \notin {None, t.auxiliary}
         /\ n \in Names(OutputErrors(t)) =>
              \/ n = "OutputsValueTooBig" /\ {i \in DOMAIN t.outputs : t.outputs[i].size > Params.maxValueSize} # {}
              \/ n = "OutputTooSmallUTxO" /\ {i \in DOMAIN t.outputs : t.outputs[i].coin < Params.minCoin} # {}
         /\ n \in Names(LimitErrors(t, ctx)) =>
              \/ n = "InputSetEmptyUTxO" /\ t.inputs = {}
              \/ n = "MaxTxSizeUTxO" /\ t.size > Params.maxSize
              \/ n = "ExUnitsTooBigUTxO" /\ TotalUnits(t) > Params.maxUnits
              \/ n = "RefScriptsSizeTooBig" /\ RefBytes(t, ctx) > Params.maxRefs
              \/ n = "OutsideValidityIntervalUTxO" /\ Outside(t, ctx.slot)
              \/ n = "BadInputsUTxO" /\ Spent(t.inputs \cup t.collateral \cup t.references, ctx) # {}
              \/ n = "ReferenceInputOverlapsWithInput" /\ t.references \cap t.inputs # {}
         /\ n \in Names(NetworkErrors(t)) =>
              \/ n = "WrongNetwork" /\ \E o \in Range(t.outputs) : o.net \notin {Network, "untold"}
              \/ n = "WrongNetworkWithdrawal" /\ t.withdrawals # {} /\ t.withdrawalNet # Network
              \/ n = "WrongNetworkInTxBody" /\ t.net \notin {Network, "untold"}
              \/ /\ n = "ProposalProcedureNetworkIdMismatch"
                 /\ {i \in DOMAIN t.proposals : t.proposals[i].net # Network} # {}
              \/ n = "TreasuryWithdrawalsNetworkIdMismatch" /\ ForeignTargets(t) # {}
<1>1. n \in Names(FeeErrors(t, ctx)) => n = "FeeTooSmallUTxO" /\ t.fee < MinFee(t, ctx)
  BY DEF Names, Errors, When, FeeErrors
<1>2. n \in Names(AuxiliaryErrors(t)) =>
        \/ n = "AuxiliaryDataHashMissing" /\ t.auxiliary # None /\ t.auxiliaryHash = None
        \/ n = "AuxiliaryDataHashMismatch" /\ t.auxiliaryHash \notin {None, t.auxiliary}
  BY DEF Names, Errors, When, AuxiliaryErrors
<1>3. n \in Names(OutputErrors(t)) =>
        \/ n = "OutputsValueTooBig" /\ {i \in DOMAIN t.outputs : t.outputs[i].size > Params.maxValueSize} # {}
        \/ n = "OutputTooSmallUTxO" /\ {i \in DOMAIN t.outputs : t.outputs[i].coin < Params.minCoin} # {}
  BY DEF Names, Errors, When, OutputErrors
<1>4. n \in Names(LimitErrors(t, ctx)) =>
        \/ n = "InputSetEmptyUTxO" /\ t.inputs = {}
        \/ n = "MaxTxSizeUTxO" /\ t.size > Params.maxSize
        \/ n = "ExUnitsTooBigUTxO" /\ TotalUnits(t) > Params.maxUnits
        \/ n = "RefScriptsSizeTooBig" /\ RefBytes(t, ctx) > Params.maxRefs
        \/ n = "OutsideValidityIntervalUTxO" /\ Outside(t, ctx.slot)
        \/ n = "BadInputsUTxO" /\ Spent(t.inputs \cup t.collateral \cup t.references, ctx) # {}
        \/ n = "ReferenceInputOverlapsWithInput" /\ t.references \cap t.inputs # {}
  BY DEF Names, Errors, When, LimitErrors
<1>5. n \in Names(NetworkErrors(t)) =>
        \/ n = "WrongNetwork" /\ \E o \in Range(t.outputs) : o.net \notin {Network, "untold"}
        \/ n = "WrongNetworkWithdrawal" /\ t.withdrawals # {} /\ t.withdrawalNet # Network
        \/ n = "WrongNetworkInTxBody" /\ t.net \notin {Network, "untold"}
        \/ n = "ProposalProcedureNetworkIdMismatch" /\ {i \in DOMAIN t.proposals : t.proposals[i].net # Network} # {}
        \/ n = "TreasuryWithdrawalsNetworkIdMismatch" /\ ForeignTargets(t) # {}
  BY DEF Names, Errors, When, NetworkErrors
<1> QED
  BY <1>1, <1>2, <1>3, <1>4, <1>5

\* of votes and proposals,
LEMMA GovernanceNames ==
  ASSUME NEW t, NEW ctx, NEW n
  PROVE  /\ n \in Names(VoteErrors(t, ctx)) =>
              \E v \in Range(t.votes) :
                \/ n = "VoterDoNotExist" /\ ~Exists(t, v, ctx)
                \/ n = "InvalidCommitteeVote" /\ Resigned(v, ctx)
                \/ \E a \in v.actions :
                     \/ n = "GovActionsDoNotExist" /\ a \notin DOMAIN ctx.actions
                     \/ n = "VotingOnExpiredGovAction" /\ a \in DOMAIN ctx.actions /\ ~ctx.actions[a].active
                     \/ n = "DisallowedVoters" /\ a \in DOMAIN ctx.actions /\ Disallowed(v, ctx.actions[a])
         /\ n \in Names(ProposalErrors(t, ctx)) =>
              \/ \E p \in Proposals(t) :
                   \/ n = "ProposalReturnAccountDoesNotExist" /\ p.account \notin ctx.accounts
                   \/ n = "InvalidConstitutionPolicyHash" /\ WrongGuardrail(p, ctx)
                   \/ /\ n = "ZeroTreasuryWithdrawals" /\ p.kind = "TreasuryWithdrawalsAction"
                      /\ p.amount * Cardinality(p.targets) = 0
                   \/ /\ n = "TreasuryWithdrawalReturnAccountsDoNotExist" /\ p.kind = "TreasuryWithdrawalsAction"
                      /\ \E a \in p.targets : a \notin ctx.accounts
                   \/ n = "ConflictingCommitteeUpdate" /\ p.kind = "UpdateCommitteeAction" /\ p.add \cap p.remove # {}
              \/ n = "GovActionsDoNotExist" /\ PreviousActions(t) \ DOMAIN ctx.actions # {}
<1>1. ASSUME n \in Names(VoteErrors(t, ctx))
      PROVE  \E v \in Range(t.votes) :
                \/ n = "VoterDoNotExist" /\ ~Exists(t, v, ctx)
                \/ n = "InvalidCommitteeVote" /\ Resigned(v, ctx)
                \/ \E a \in v.actions :
                     \/ n = "GovActionsDoNotExist" /\ a \notin DOMAIN ctx.actions
                     \/ n = "VotingOnExpiredGovAction" /\ a \in DOMAIN ctx.actions /\ ~ctx.actions[a].active
                     \/ n = "DisallowedVoters" /\ a \in DOMAIN ctx.actions /\ Disallowed(v, ctx.actions[a])
  <2> DEFINE on == {p \in Range(t.votes) \X NecessaryActions(t) : p[2] \in p[1].actions}
             known == {p \in on : p[2] \in DOMAIN ctx.actions}
  <2>1. \A p \in on : p[1] \in Range(t.votes) /\ p[2] \in p[1].actions
    OBVIOUS
  <2>2. \A p \in on : p \in known <=> p[2] \in DOMAIN ctx.actions
    OBVIOUS
  <2> HIDE DEF on, known
  <2>3. \/ n = "VoterDoNotExist" /\ {v.cred : v \in {w \in Range(t.votes) : ~Exists(t, w, ctx)}} # {}
        \/ n = "InvalidCommitteeVote" /\ {v.cred : v \in {w \in Range(t.votes) : Resigned(w, ctx)}} # {}
        \/ n = "GovActionsDoNotExist" /\ {p[2] : p \in on \ known} # {}
        \/ n = "VotingOnExpiredGovAction" /\ {p[2] : p \in {q \in known : ~ctx.actions[q[2]].active}} # {}
        \/ n = "DisallowedVoters" /\ {p[2] : p \in {q \in known : Disallowed(q[1], ctx.actions[q[2]])}} # {}
    BY <1>1 DEF Names, Errors, When, VoteErrors, on, known
  <2>4. known \subseteq on
    BY DEF known
  <2>5. \/ \E v \in Range(t.votes) : \/ n = "VoterDoNotExist" /\ ~Exists(t, v, ctx)
                                     \/ n = "InvalidCommitteeVote" /\ Resigned(v, ctx)
        \/ \E p \in on : \/ n = "GovActionsDoNotExist" /\ p \notin known
                         \/ n = "VotingOnExpiredGovAction" /\ p \in known /\ ~ctx.actions[p[2]].active
                         \/ n = "DisallowedVoters" /\ p \in known /\ Disallowed(p[1], ctx.actions[p[2]])
    BY <2>3, <2>4
  <2> QED
    BY <2>1, <2>2, <2>5
<1>2. ASSUME n \in Names(ProposalErrors(t, ctx))
      PROVE  \/ \E p \in Proposals(t) :
                   \/ n = "ProposalReturnAccountDoesNotExist" /\ p.account \notin ctx.accounts
                   \/ n = "InvalidConstitutionPolicyHash" /\ WrongGuardrail(p, ctx)
                   \/ /\ n = "ZeroTreasuryWithdrawals" /\ p.kind = "TreasuryWithdrawalsAction"
                      /\ p.amount * Cardinality(p.targets) = 0
                   \/ /\ n = "TreasuryWithdrawalReturnAccountsDoNotExist" /\ p.kind = "TreasuryWithdrawalsAction"
                      /\ \E a \in p.targets : a \notin ctx.accounts
                   \/ n = "ConflictingCommitteeUpdate" /\ p.kind = "UpdateCommitteeAction" /\ p.add \cap p.remove # {}
             \/ n = "GovActionsDoNotExist" /\ PreviousActions(t) \ DOMAIN ctx.actions # {}
  <2> DEFINE treasury == {p \in Proposals(t) : p.kind = "TreasuryWithdrawalsAction"}
             committee == {p \in Proposals(t) : p.kind = "UpdateCommitteeAction"}
  <2>1. /\ \A p \in treasury : p \in Proposals(t) /\ p.kind = "TreasuryWithdrawalsAction"
        /\ \A p \in committee : p \in Proposals(t) /\ p.kind = "UpdateCommitteeAction"
    OBVIOUS
  <2> HIDE DEF treasury, committee
  <2>2. \/ n = "ProposalReturnAccountDoesNotExist" /\ {p.account : p \in Proposals(t)} \ ctx.accounts # {}
        \/ n = "InvalidConstitutionPolicyHash" /\ {p.policy : p \in {q \in Proposals(t) : WrongGuardrail(q, ctx)}} # {}
        \/ n = "ZeroTreasuryWithdrawals" /\ \E p \in treasury : p.amount * Cardinality(p.targets) = 0
        \/ /\ n = "TreasuryWithdrawalReturnAccountsDoNotExist"
           /\ (UNION {p.targets : p \in treasury}) \ ctx.accounts # {}
        \/ n = "ConflictingCommitteeUpdate" /\ (UNION {p.add \cap p.remove : p \in committee}) # {}
        \/ n = "GovActionsDoNotExist" /\ PreviousActions(t) \ DOMAIN ctx.actions # {}
    BY <1>2 DEF Names, Errors, When, ProposalErrors, treasury, committee
  <2>3. (UNION {p.targets : p \in treasury}) \ ctx.accounts # {} =>
          \E p \in treasury : \E a \in p.targets : a \notin ctx.accounts
    OBVIOUS
  <2>4. (UNION {p.add \cap p.remove : p \in committee}) # {} => \E p \in committee : p.add \cap p.remove # {}
    OBVIOUS
  <2>5. {p.account : p \in Proposals(t)} \ ctx.accounts # {} => \E p \in Proposals(t) : p.account \notin ctx.accounts
    OBVIOUS
  <2>6. {p.policy : p \in {q \in Proposals(t) : WrongGuardrail(q, ctx)}} # {} => \E p \in Proposals(t) : WrongGuardrail(p, ctx)
    OBVIOUS
  <2> QED
    BY <2>1, <2>2, <2>3, <2>4, <2>5, <2>6
<1> QED
  BY <1>1, <1>2

\* and of the scripts that run.
LEMMA PhaseTwoNames ==
  ASSUME NEW t, NEW ctx, NEW n \in Names(PhaseTwoErrors(t, ctx))
  PROVE  \E d \in t.redeemers : \/ n = RedeemerError(t, ctx, d) /\ n # "none"
                                \/ n = "NoEnoughBudget" /\ t.units < Cost
<1> DEFINE found(r) == Errors(RedeemerError(t, ctx, r), IF RedeemerError(t, ctx, r) = "none" THEN {} ELSE {r})
                         \cup BudgetErrors(t, RedeemerError(t, ctx, r))
<1>1. NotExamined(t, ctx) = {} /\ PhaseTwoErrors(t, ctx) = UNION {found(r) : r \in t.redeemers}
  <2>1. NotExamined(t, ctx) # {} => PhaseTwoErrors(t, ctx) = {}
    BY DEF PhaseTwoErrors
  <2>2. PhaseTwoErrors(t, ctx) # {}
    BY DEF Names
  <2> QED
    BY <2>1, <2>2 DEF PhaseTwoErrors
<1>2. PICK d \in t.redeemers : n \in Names(found(d))
  <2> HIDE DEF found
  <2> QED
    BY <1>1 DEF Names
<1>3. \/ n = RedeemerError(t, ctx, d) /\ (IF RedeemerError(t, ctx, d) = "none" THEN {} ELSE {d}) # {}
      \/ n = "NoEnoughBudget" /\ t.units < Cost
  BY <1>2 DEF Names, Errors, When, BudgetErrors
<1> QED
  BY <1>3

\* ---- what the ledger says too, error by error ----

\* A rule of UTXOW that is broken is among the failures.
LEMMA UtxowTells ==
  ASSUME NEW t, NEW chain, Named(t) \subseteq DOMAIN chain.utxo
  PROVE  /\ ~(KeysNeeded(t, chain) \subseteq Signers(t)) => "MissingVKey" \in LedgerFailures(t, chain)
         /\ (\E v \in t.vkeys : ~v.valid) => "InvalidWitness" \in LedgerFailures(t, chain)
         /\ (\E s \in NeededScripts(t, chain) \cap (t.scripts \cup Referenced(t, chain)) :
               IsNative(s) /\ ~Holds(Tree[s], Signers(t), Interval(t))) => "ScriptFails" \in LedgerFailures(t, chain)
         /\ ~(NeededScripts(t, chain) \subseteq t.scripts \cup Referenced(t, chain)) => "MissingScript" \in LedgerFailures(t, chain)
         /\ ~(t.scripts \subseteq NeededScripts(t, chain) \cup Referenced(t, chain)) => "ExtraneousScript" \in LedgerFailures(t, chain)
         /\ ~(DatumsOf(PlutusInputs(t, chain)) \subseteq t.datums) => "MissingDatum" \in LedgerFailures(t, chain)
         /\ (\E o \in PlutusInputs(t, chain) : o.datum = None /\ ~o.inline /\ Language[o.owner] # "v3")
              => "NoDatumHash" \in LedgerFailures(t, chain)
         /\ ~(t.datums \subseteq DatumsOf(PlutusInputs(t, chain)) \cup AllowedDatums(t, chain))
              => "ExtraneousDatum" \in LedgerFailures(t, chain)
         /\ {<<p[1], p[2]>> : p \in PlutusNeeded(t, chain)} # t.redeemers => "Redeemers" \in LedgerFailures(t, chain)
         /\ t.scriptDataHash # ScriptDataHash({Language[p[3]] : p \in PlutusNeeded(t, chain)}, t.redeemers, t.datums)
              => "ScriptDataHash" \in LedgerFailures(t, chain)
         /\ t.auxiliaryHash # t.auxiliary => "Auxiliary" \in LedgerFailures(t, chain)
<1>1. UtxowFailures(t, chain) \subseteq LedgerFailures(t, chain)
  BY DEF LedgerFailures
<1> DEFINE F == LedgerFailures(t, chain)
<1>2. UtxowFailures(t, chain) \subseteq F
  BY <1>1
<1> HIDE DEF F
<1>3. /\ ~(KeysNeeded(t, chain) \subseteq Signers(t)) => "MissingVKey" \in F
      /\ (\E v \in t.vkeys : ~v.valid) => "InvalidWitness" \in F
      /\ (\E s \in NeededScripts(t, chain) \cap (t.scripts \cup Referenced(t, chain)) :
            IsNative(s) /\ ~Holds(Tree[s], Signers(t), Interval(t))) => "ScriptFails" \in F
      /\ ~(NeededScripts(t, chain) \subseteq t.scripts \cup Referenced(t, chain)) => "MissingScript" \in F
      /\ ~(t.scripts \subseteq NeededScripts(t, chain) \cup Referenced(t, chain)) => "ExtraneousScript" \in F
  BY <1>2 DEF UtxowFailures, Failure
<1>4. /\ ~(DatumsOf(PlutusInputs(t, chain)) \subseteq t.datums) => "MissingDatum" \in F
      /\ (\E o \in PlutusInputs(t, chain) : o.datum = None /\ ~o.inline /\ Language[o.owner] # "v3") => "NoDatumHash" \in F
      /\ ~(t.datums \subseteq DatumsOf(PlutusInputs(t, chain)) \cup AllowedDatums(t, chain)) => "ExtraneousDatum" \in F
      /\ {<<p[1], p[2]>> : p \in PlutusNeeded(t, chain)} # t.redeemers => "Redeemers" \in F
      /\ t.scriptDataHash # ScriptDataHash({Language[p[3]] : p \in PlutusNeeded(t, chain)}, t.redeemers, t.datums)
           => "ScriptDataHash" \in F
      /\ t.auxiliaryHash # t.auxiliary => "Auxiliary" \in F
  BY <1>2 DEF UtxowFailures, Failure
<1> QED
  BY <1>3, <1>4 DEF F

\* What Stricter names, case by case.
LEMMA StricterTells ==
  ASSUME NEW t, NEW chain
  PROVE  /\ (t.datums \cap DatumsOf(Range(t.collateralReturn) \cup {chain.utxo[r] : r \in t.references}) # {}
               => "ExtraneousDatumWitnesses" \in Stricter(t, chain))
         /\ (\E c \in Certs(t) : Unwitnessed(c)) =>
              {"MissingVKeyWitnesses", "NativeScriptIsUnsuccessful", "MissingScriptWitnesses", "MissingRedeemer",
               "ScriptDataHashMismatch"} \subseteq Stricter(t, chain)
         /\ (\E i \in DOMAIN t.mint : \E j \in 1..(i - 1) : t.mint[i] <= t.mint[j])
              => "MissingRedeemer" \in Stricter(t, chain)
         /\ ~(t.odd = "nothing" /\ \A o \in Range(t.outputs) : o.address # "unreadable")
              => "ContextRefused" \in Stricter(t, chain)
         /\ (\E c \in Certs(t) : c.kind \in {"DRepRegistration", "PoolRegistration"})
              => "VoterDoNotExist" \in Stricter(t, chain)
         /\ Kinds(t, "CommitteeHotAuth") # {} => "InvalidCommitteeVote" \in Stricter(t, chain)
         /\ (\E c \in Certs(t) : c.kind \in Registering) =>
              {"ProposalReturnAccountDoesNotExist", "TreasuryWithdrawalReturnAccountsDoNotExist"} \subseteq Stricter(t, chain)
BY DEF Stricter

\* The script errors, of what is needed in a transaction without the older registrations.
LEMMA AskedFor ==
  ASSUME NEW t, NEW chain, Setting(t, chain, chain), \A c \in Certs(t) : ~Unwitnessed(c), NEW q \in Required(t, chain)
  PROVE  q.script \in NeededScripts(t, chain) /\ q.script \in Scripts
BY ScriptsNeeded DEF Unasked

\* Every error of the witnesses is a failure of UTXOW; an extraneous signature is advice.
LEMMA WitnessErrorsStand ==
  ASSUME NEW t, NEW chain, Setting(t, chain, chain),
         NEW n \in Names(WitnessErrors(t, chain)), n \notin Stricter(t, chain)
  PROVE  \/ n = "MissingVKeyWitnesses" /\ "MissingVKey" \in LedgerFailures(t, chain)
         \/ n = "InvalidSignature" /\ "InvalidWitness" \in LedgerFailures(t, chain)
         \/ n = "NativeScriptIsUnsuccessful" /\ "ScriptFails" \in LedgerFailures(t, chain)
         \/ n = "MissingScriptWitnesses" /\ "MissingScript" \in LedgerFailures(t, chain)
         \/ n = "MissingRedeemer" /\ "Redeemers" \in LedgerFailures(t, chain)
         \/ n = "MissingDatum" /\ "MissingDatum" \in LedgerFailures(t, chain)
         \/ n = "ExtraneousScriptWitnesses" /\ "ExtraneousScript" \in LedgerFailures(t, chain)
         \/ n = "ExtraneousDatumWitnesses" /\ "ExtraneousDatum" \in LedgerFailures(t, chain)
         \/ n = "ScriptDataHashMismatch" /\ "ScriptDataHash" \in LedgerFailures(t, chain)
         \/ n = "ExtraneousSignature"
<1> DEFINE F == LedgerFailures(t, chain)
<1>d. Named(t) \subseteq DOMAIN chain.utxo
  BY DEF Setting
<1>t. t.scripts \subseteq Scripts \ Deep /\ None \notin t.datums /\ Signers(t) = ProvidedKeys(t) /\ t.mint \in Seq(Nat)
  BY DEF Setting, IsTransaction, Signers, ProvidedKeys
<1>u. n \in {"MissingVKeyWitnesses", "NativeScriptIsUnsuccessful", "MissingScriptWitnesses", "MissingRedeemer",
             "ScriptDataHashMismatch"} => \A c \in Certs(t) : ~Unwitnessed(c)
  BY StricterTells
<1>1. CASE n = "MissingVKeyWitnesses" /\ RequiredKeys(t, chain) \ ProvidedKeys(t) # {}
  <2>1. RequiredKeys(t, chain) \subseteq KeysNeeded(t, chain)
    BY <1>1, <1>u, KeysAreNeeded
  <2>2. ~(KeysNeeded(t, chain) \subseteq Signers(t))
    BY <1>1, <1>t, <2>1
  <2> QED
    BY <1>1, <1>d, <2>2, UtxowTells
<1>2. CASE n = "InvalidSignature" /\ {v.key : v \in {w \in t.vkeys : ~w.valid}} # {}
  <2>1. \E v \in t.vkeys : ~v.valid
    BY <1>2
  <2> QED
    BY <1>2, <1>d, <2>1, UtxowTells
<1>3. CASE n = "NativeScriptIsUnsuccessful" /\ InvalidNative(t, chain) # {}
  <2>1. PICK q \in RequiredNative(t, chain) : /\ q.script \in Examined(t, chain)
                                              /\ ~Evaluate(FlatForm[q.script], ProvidedKeys(t), Interval(t))
    BY <1>3 DEF InvalidNative
  <2>2. q \in Required(t, chain) /\ IsNative(q.script) /\ q.script \in Sources(t, chain) /\ q.script \notin Deep
    BY <2>1 DEF RequiredNative, Examined
  <2>3. q.script \in NeededScripts(t, chain) /\ q.script \in Scripts
    BY <1>3, <1>u, <2>2, AskedFor
  <2>4. q.script \in t.scripts \cup Referenced(t, chain)
    BY <2>2, <2>3, AtHand
  <2>5. ~Holds(Tree[q.script], Signers(t), Interval(t))
    BY <1>t, <2>1, <2>2, <2>3 DEF Setting, ScriptsStand
  <2>6. \E s \in NeededScripts(t, chain) \cap (t.scripts \cup Referenced(t, chain)) :
          IsNative(s) /\ ~Holds(Tree[s], Signers(t), Interval(t))
    BY <2>2, <2>3, <2>4, <2>5
  <2> QED
    BY <1>3, <1>d, <2>6, UtxowTells
<1>4. CASE n = "MissingScriptWitnesses" /\ {q.script : q \in RequiredUnknown(t, chain)} # {}
  <2>1. PICK q \in Required(t, chain) : q.script \notin Sources(t, chain)
    BY <1>4 DEF RequiredUnknown
  <2>2. q.script \in NeededScripts(t, chain) /\ q.script \in Scripts
    BY <1>4, <1>u, AskedFor
  <2>3. q.script \notin t.scripts \cup Referenced(t, chain)
    BY <2>1, <2>2, AtHand
  <2> QED
    BY <1>4, <1>d, <2>2, <2>3, UtxowTells
<1>5. CASE n = "MissingRedeemer" /\ {<<q.tag, q.index>> : q \in RequiredPlutus(t, chain)} \ t.redeemers # {}
  <2>1. PICK q \in RequiredPlutus(t, chain) : <<q.tag, q.index>> \notin t.redeemers
    BY <1>5
  <2>2. q \in Required(t, chain) /\ IsPlutus(q.script) /\ q.script \in Sources(t, chain)
    BY DEF RequiredPlutus
  <2>3. q.script \in t.scripts \cup Referenced(t, chain)
    BY <2>2, AtHand DEF IsPlutus
  <2>4. <<q.tag, q.index, q.script>> \in Needed(t, chain)
    <3>1. \/ <<q.tag, q.index, q.script>> \in Needed(t, chain)
          \/ /\ q.tag = "mint"
             /\ \E i \in DOMAIN t.mint : /\ q.index = i - 1 /\ q.script = t.mint[i]
                                         /\ <<"mint", Rank(Range(t.mint), q.script), q.script>> \in Needed(t, chain)
      BY <1>5, <1>u, <2>2, RequiredIsNeeded
    <3>2. ASSUME q.tag = "mint", NEW i \in DOMAIN t.mint, q.index = i - 1, q.script = t.mint[i],
                 <<"mint", Rank(Range(t.mint), q.script), q.script>> \in Needed(t, chain)
          PROVE  <<q.tag, q.index, q.script>> \in Needed(t, chain)
      <4>1. \A k \in DOMAIN t.mint : \A j \in 1..(k - 1) : ~(t.mint[k] <= t.mint[j])
        BY <1>5, StricterTells
      <4>2. Rank(Range(t.mint), t.mint[i]) = i - 1
        BY <1>t, <4>1, RanksOfMint
      <4> QED
        BY <3>2, <4>2
    <3> QED
      BY <3>1, <3>2
  <2> DEFINE p == <<q.tag, q.index, q.script>>
  <2>5. p[1] = q.tag /\ p[2] = q.index /\ p[3] = q.script
    OBVIOUS
  <2>6. p \in PlutusNeeded(t, chain)
    BY <2>2, <2>3, <2>4 DEF PlutusNeeded
  <2> HIDE DEF p
  <2>7. {<<x[1], x[2]>> : x \in PlutusNeeded(t, chain)} # t.redeemers
    BY <2>1, <2>5, <2>6
  <2> QED
    BY <1>5, <1>d, <2>7, UtxowTells
<1>6. CASE n = "MissingDatum" /\ RequiredDatums(t, chain) \ t.datums # {}
  <2>1. RequiredDatums(t, chain) = DatumsOf(PlutusInputs(t, chain))
    BY DatumsAreNeeded
  <2> QED
    BY <1>6, <1>d, <2>1, UtxowTells
<1>7. CASE n = "ExtraneousScriptWitnesses" /\ FromWitnessSet(t, chain) \ {q.script : q \in Required(t, chain)} # {}
  <2>1. PICK s \in FromWitnessSet(t, chain) : s \notin {q.script : q \in Required(t, chain)}
    BY <1>7
  <2>2. s \in t.scripts /\ s \in Scripts /\ s \notin Offered(t, chain)
    BY <1>t DEF FromWitnessSet
  <2>3. s \notin Referenced(t, chain)
    BY <2>2, AtHand
  <2>4. s \notin NeededScripts(t, chain)
    BY <2>1, ScriptsNeeded
  <2> QED
    BY <1>7, <1>d, <2>2, <2>3, <2>4, UtxowTells
<1>8. CASE n = "ExtraneousDatumWitnesses" /\ ExtraneousDatums(t, chain) # {}
  <2>1. PICK d \in t.datums : d \notin RequiredDatums(t, chain) /\ d \notin OutputDatums(t)
    BY <1>8 DEF ExtraneousDatums
  <2>2. d # None
    BY <1>t
  <2>3. d \notin DatumsOf(PlutusInputs(t, chain)) /\ d \notin DatumsOf(Range(t.outputs))
    BY <2>1, <2>2, DatumsAreNeeded
  <2>4. d \notin DatumsOf(Range(t.collateralReturn) \cup {chain.utxo[r] : r \in t.references})
    BY <1>8, StricterTells
  <2> DEFINE others == Range(t.collateralReturn) \cup {chain.utxo[r] : r \in t.references}
  <2>5. \A a, b : DatumsOf(a \cup b) = DatumsOf(a) \cup DatumsOf(b)
    BY DEF DatumsOf
  <2>6. AllowedDatums(t, chain) = DatumsOf(Range(t.outputs) \cup others)
    <3>1. Range(t.outputs) \cup Range(t.collateralReturn) \cup {chain.utxo[r] : r \in t.references} = Range(t.outputs) \cup others
      OBVIOUS
    <3> HIDE DEF others
    <3> QED
      BY <3>1 DEF AllowedDatums
  <2>7. d \notin AllowedDatums(t, chain)
    <3> HIDE DEF others
    <3>1. d \notin DatumsOf(others)
      BY <2>4 DEF others
    <3> QED
      BY <2>3, <2>5, <2>6, <3>1
  <2> QED
    BY <1>8, <1>d, <2>3, <2>7, UtxowTells
<1>9. CASE n = "ScriptDataHashMismatch" /\ t.scriptDataHash # ExpectedHash(t, chain)
  <2>1. UsedVersions(t, chain) = {Language[p[3]] : p \in PlutusNeeded(t, chain)}
    BY <1>9, <1>u, PlutusIsNeeded
  <2>2. t.scriptDataHash # ScriptDataHash({Language[p[3]] : p \in PlutusNeeded(t, chain)}, t.redeemers, t.datums)
    BY <1>9, <2>1 DEF ExpectedHash
  <2> QED
    BY <1>9, <1>d, <2>2, UtxowTells
<1> QED
  BY <1>1, <1>2, <1>3, <1>4, <1>5, <1>6, <1>7, <1>8, <1>9, WitnessNames

\* A needed Plutus script that fails, costs too much or has no context is among the failures.
LEMMA ScriptsTell ==
  ASSUME NEW t, NEW chain, Named(t) \subseteq DOMAIN chain.utxo, NEW p \in PlutusNeeded(t, chain)
  PROVE  /\ p[3] \notin Succeeds => "ScriptFails" \in LedgerFailures(t, chain)
         /\ t.units < Cost => "Units" \in LedgerFailures(t, chain)
         /\ Language[p[3]] = "v1" /\ (\E o \in Range(t.outputs) : o.inline) => "Context" \in LedgerFailures(t, chain)
         /\ Language[p[3]] \in {"v1", "v2"} /\ (t.votes # <<>> \/ t.proposals # <<>> \/ t.donation)
              => "Context" \in LedgerFailures(t, chain)
         /\ Language[p[3]] \in {"v1", "v2"}
              /\ (\E c \in Range(t.certs) : c.kind \notin PoolOwnKinds \cup
                    {"StakeRegistration", "StakeDeregistration", "StakeDelegation"})
              => "Context" \in LedgerFailures(t, chain)
         /\ (\E o \in Range(t.outputs) : o.address = "byron") => "Context" \in LedgerFailures(t, chain)
         /\ BuilderRefuses(t, chain, p[3]) => "Context" \in LedgerFailures(t, chain)
<1> DEFINE F == LedgerFailures(t, chain)
           languages == {Language[x[3]] : x \in PlutusNeeded(t, chain)}
<1>1. ScriptFailures(t, chain) \subseteq F
  BY DEF LedgerFailures
<1>2. Language[p[3]] \in languages
  OBVIOUS
<1> HIDE DEF F, languages
<1>3. Language[p[3]] \in {"v1", "v2"} => languages \cap {"v1", "v2"} # {}
  BY <1>2
<1>4. languages # {}
  BY <1>2
<1>5. /\ Failure(\E x \in PlutusNeeded(t, chain) : x[3] \notin Succeeds, "ScriptFails") \subseteq F
      /\ Failure(languages # {} /\ t.units < Cost, "Units") \subseteq F
      /\ Failure("v1" \in languages /\ \E o \in Range(t.outputs) : o.inline, "Context") \subseteq F
      /\ Failure(languages \cap {"v1", "v2"} # {} /\ (t.votes # <<>> \/ t.proposals # <<>> \/ t.donation), "Context") \subseteq F
      /\ Failure(languages \cap {"v1", "v2"} # {} /\ \E c \in Range(t.certs) : c.kind \notin PoolOwnKinds \cup
                   {"StakeRegistration", "StakeDeregistration", "StakeDelegation"}, "Context") \subseteq F
      /\ Failure(languages # {} /\ \E o \in Range(t.outputs) : o.address = "byron", "Context") \subseteq F
      /\ Failure(\E x \in PlutusNeeded(t, chain) : BuilderRefuses(t, chain, x[3]), "Context") \subseteq F
  BY <1>1 DEF ScriptFailures, languages
<1>6. p[3] \notin Succeeds => "ScriptFails" \in F
  BY <1>5 DEF Failure
<1>7. t.units < Cost => "Units" \in F
  BY <1>4, <1>5 DEF Failure
<1>8. Language[p[3]] = "v1" /\ (\E o \in Range(t.outputs) : o.inline) => "Context" \in F
  BY <1>2, <1>5 DEF Failure
<1>9. Language[p[3]] \in {"v1", "v2"} /\ (t.votes # <<>> \/ t.proposals # <<>> \/ t.donation) => "Context" \in F
  BY <1>3, <1>5 DEF Failure
<1>10. Language[p[3]] \in {"v1", "v2"}
          /\ (\E c \in Range(t.certs) : c.kind \notin PoolOwnKinds \cup
                {"StakeRegistration", "StakeDeregistration", "StakeDelegation"})
          => "Context" \in F
  BY <1>3, <1>5 DEF Failure
<1>11. (\E o \in Range(t.outputs) : o.address = "byron") => "Context" \in F
  BY <1>4, <1>5 DEF Failure
<1>12. BuilderRefuses(t, chain, p[3]) => "Context" \in F
  BY <1>5 DEF Failure
<1> QED
  BY <1>6, <1>7, <1>8, <1>9, <1>10, <1>11, <1>12 DEF F

\* What stopped a redeemer.
LEMMA Stopped ==
  ASSUME NEW t, NEW ctx, NEW d, NEW n, n = RedeemerError(t, ctx, d), n # "none"
  PROVE  \/ n = "UnreadableTransactionField"
         \/ n = "CostModelNotFound"
         \/ n = "ContextRefused" /\ TransactionRefusal(t)
         \/ n = "ScriptLookupError" /\ FindScript(t, ctx, d) = {}
         \/ n = "ContextRefused" /\ \E s \in FindScript(t, ctx, d) : LanguageRefusal(t, Language[s])
         \/ n = "BuildTxContextError" /\ \E s \in FindScript(t, ctx, d) : BuilderRefuses(t, ctx, s)
         \/ n = "MachineError" /\ ~(FindScript(t, ctx, d) \subseteq Succeeds)
<1> DEFINE found == FindScript(t, ctx, d)
           languages == {Language[s] : s \in found}
<1>1. n = IF WithdrawalRefusal(t) THEN "UnreadableTransactionField"
          ELSE IF TransactionRefusal(t) THEN "ContextRefused"
          ELSE IF found = {} THEN "ScriptLookupError"
          ELSE IF \E l \in languages : LanguageRefusal(t, l) THEN "ContextRefused"
          ELSE IF ~(languages \subseteq ctx.costModels) THEN "CostModelNotFound"
          ELSE IF \E s \in found : BuilderRefuses(t, ctx, s) THEN "BuildTxContextError"
          ELSE IF ~(found \subseteq Succeeds) THEN "MachineError"
          ELSE "none"
  BY DEF RedeemerError
<1>2. (\E l \in languages : LanguageRefusal(t, l)) => \E s \in found : LanguageRefusal(t, Language[s])
  OBVIOUS
<1> HIDE DEF found
<1>3. \/ n = "UnreadableTransactionField"
      \/ n = "CostModelNotFound"
      \/ n = "ContextRefused" /\ TransactionRefusal(t)
      \/ n = "ScriptLookupError" /\ found = {}
      \/ n = "ContextRefused" /\ \E l \in languages : LanguageRefusal(t, l)
      \/ n = "BuildTxContextError" /\ \E s \in found : BuilderRefuses(t, ctx, s)
      \/ n = "MachineError" /\ ~(found \subseteq Succeeds)
  <2> DEFINE a == WithdrawalRefusal(t)  b == TransactionRefusal(t)  c == found = {}
             e == \E l \in languages : LanguageRefusal(t, l)  f == languages \subseteq ctx.costModels
             g == \E s \in found : BuilderRefuses(t, ctx, s)  h == found \subseteq Succeeds
  <2> HIDE DEF a, b, c, e, f, g, h
  <2> QED
    BY <1>1 DEF a, b, c, e, f, g, h
<1> QED
  BY <1>2, <1>3 DEF found

\* What a redeemer is stopped by is a failure, unless the ledger has no use for the redeemer;
\* fields and cost models that are not there are nobody's failure.
LEMMA ScriptErrorsStand ==
  ASSUME NEW t, NEW chain, Setting(t, chain, chain),
         NEW n \in Names(PhaseTwoErrors(t, chain)), n \notin Stricter(t, chain)
  PROVE  \/ /\ n = "ScriptLookupError"
            /\ \E f \in {"Redeemers", "MissingDatum", "NoDatumHash"} : f \in LedgerFailures(t, chain)
         \/ n \in {"ContextRefused", "BuildTxContextError"} /\ \E f \in {"Context", "Redeemers"} : f \in LedgerFailures(t, chain)
         \/ n = "MachineError" /\ \E f \in {"ScriptFails", "Redeemers"} : f \in LedgerFailures(t, chain)
         \/ n = "NoEnoughBudget" /\ \E f \in {"Units", "Redeemers"} : f \in LedgerFailures(t, chain)
         \/ n \in {"UnreadableTransactionField", "CostModelNotFound"}
<1>d. Named(t) \subseteq DOMAIN chain.utxo
  BY DEF Setting
<1>1. PICK d \in t.redeemers : \/ n = RedeemerError(t, chain, d) /\ n # "none"
                               \/ n = "NoEnoughBudget" /\ t.units < Cost
  BY PhaseTwoNames
<1>2. {<<p[1], p[2]>> : p \in PlutusNeeded(t, chain)} # t.redeemers => "Redeemers" \in LedgerFailures(t, chain)
  BY <1>d, UtxowTells
<1>3. SUFFICES ASSUME {<<p[1], p[2]>> : p \in PlutusNeeded(t, chain)} = t.redeemers
      PROVE  \/ /\ n = "ScriptLookupError"
                /\ \E f \in {"MissingDatum", "NoDatumHash"} : f \in LedgerFailures(t, chain)
             \/ n \in {"ContextRefused", "BuildTxContextError"} /\ "Context" \in LedgerFailures(t, chain)
             \/ n = "MachineError" /\ "ScriptFails" \in LedgerFailures(t, chain)
             \/ n = "NoEnoughBudget" /\ "Units" \in LedgerFailures(t, chain)
             \/ n \in {"UnreadableTransactionField", "CostModelNotFound"}
  <2>1. CASE n = "NoEnoughBudget"
    BY <1>2, <1>3, <2>1
  <2>2. CASE n # "NoEnoughBudget"
    <3>1. n = RedeemerError(t, chain, d) /\ n # "none"
      BY <1>1, <2>2
    <3>2. n \in {"UnreadableTransactionField", "CostModelNotFound", "ContextRefused", "ScriptLookupError",
                 "BuildTxContextError", "MachineError"}
      BY <3>1, Stopped
    <3> QED
      BY <1>2, <1>3, <3>2
  <2> QED
    BY <2>1, <2>2
<1>4. PICK p \in PlutusNeeded(t, chain) : d = <<p[1], p[2]>>
  BY <1>3
<1> DEFINE found == FindScript(t, chain, d)
<1>5. /\ found \subseteq {p[3]}
      /\ (\A o \in PlutusInputs(t, chain) : HasDatum(t, o, o.owner)) => found = {p[3]}
  BY <1>4, NeededIsFound
<1> HIDE DEF found
<1>6. CASE n = "NoEnoughBudget" /\ t.units < Cost
  BY <1>6, <1>d, ScriptsTell
<1>7. CASE n = RedeemerError(t, chain, d) /\ n # "none"
  <2>0. \/ n = "UnreadableTransactionField"
        \/ n = "CostModelNotFound"
        \/ n = "ContextRefused" /\ TransactionRefusal(t)
        \/ n = "ScriptLookupError" /\ found = {}
        \/ n = "ContextRefused" /\ \E s \in found : LanguageRefusal(t, Language[s])
        \/ n = "BuildTxContextError" /\ \E s \in found : BuilderRefuses(t, chain, s)
        \/ n = "MachineError" /\ ~(found \subseteq Succeeds)
    BY <1>7, Stopped DEF found
  <2>1. CASE n = "ContextRefused" /\ TransactionRefusal(t)
    <3>1. t.odd = "nothing" /\ \A o \in Range(t.outputs) : o.address # "unreadable"
      BY <2>1, StricterTells
    <3>2. \E o \in Range(t.outputs) : o.address = "byron"
      BY <2>1, <3>1 DEF TransactionRefusal
    <3> QED
      BY <1>d, <2>1, <3>2, ScriptsTell
  <2>2. CASE n = "ScriptLookupError" /\ found = {}
    <3>1. PICK o \in PlutusInputs(t, chain) : ~HasDatum(t, o, o.owner)
      BY <1>5, <2>2
    <3>2. ~o.inline /\ o.datum \notin t.datums /\ ~(Language[o.owner] = "v3" /\ o.datum = None)
      BY <3>1 DEF HasDatum, DatumHash
    <3>3. CASE o.datum = None
      BY <1>d, <2>2, <3>2, <3>3, UtxowTells
    <3>4. CASE o.datum # None
      <4>1. o.datum \in DatumsOf(PlutusInputs(t, chain))
        BY <3>2, <3>4 DEF DatumsOf
      <4> QED
        BY <1>d, <2>2, <3>2, <4>1, UtxowTells
    <3> QED
      BY <3>3, <3>4
  <2>3. CASE n = "ContextRefused" /\ \E s \in found : LanguageRefusal(t, Language[s])
    <3>1. LanguageRefusal(t, Language[p[3]])
      BY <1>5, <2>3
    <3>2. \/ Language[p[3]] = "v1" /\ \E o \in Range(t.outputs) : o.inline
          \/ Language[p[3]] \in {"v1", "v2"} /\ (t.votes # <<>> \/ t.proposals # <<>> \/ t.donation)
          \/ Language[p[3]] \in {"v1", "v2"} /\ \E c \in Range(t.certs) : c.kind \notin PoolOwnKinds \cup
                {"StakeRegistration", "StakeDeregistration", "StakeDelegation"}
      <4>1. \A kind \in ConwayOnly : kind \notin PoolOwnKinds \cup
              {"StakeRegistration", "StakeDeregistration", "StakeDelegation"}
        BY DEF ConwayOnly, PoolOwnKinds, StakeKinds, DRepKinds, CommitteeKinds
      <4> QED
        BY <3>1, <4>1 DEF LanguageRefusal
    <3> QED
      BY <1>d, <2>3, <3>2, ScriptsTell
  <2>4. CASE n = "BuildTxContextError" /\ \E s \in found : BuilderRefuses(t, chain, s)
    <3>1. BuilderRefuses(t, chain, p[3])
      BY <1>5, <2>4
    <3> QED
      BY <1>d, <2>4, <3>1, ScriptsTell
  <2>5. CASE n = "MachineError" /\ ~(found \subseteq Succeeds)
    <3>1. p[3] \notin Succeeds
      BY <1>5, <2>5
    <3> QED
      BY <1>d, <2>5, <3>1, ScriptsTell
  <2> QED
    BY <2>0, <2>1, <2>2, <2>3, <2>4, <2>5
<1> QED
  BY <1>1, <1>6, <1>7

\* A rule of UTXO that is broken is among the failures,
LEMMA UtxoTells ==
  ASSUME NEW t, NEW chain, Named(t) \subseteq DOMAIN chain.utxo
  PROVE  /\ (t.start # NoBound /\ chain.slot < t.start) \/ (t.ttl # NoBound /\ t.ttl <= chain.slot)
              => "Validity" \in LedgerFailures(t, chain)
         /\ t.inputs = {} => "NoInput" \in LedgerFailures(t, chain)
         /\ (\E r \in Named(t) : chain.utxo[r].spent) => "BadInputs" \in LedgerFailures(t, chain)
         /\ t.references \cap t.inputs # {} => "Overlap" \in LedgerFailures(t, chain)
         /\ t.fee < LeastFee(t, chain) => "Fee" \in LedgerFailures(t, chain)
         /\ t.redeemers # {} /\ CollateralFails(t, chain) => "Collateral" \in LedgerFailures(t, chain)
         /\ Cardinality(t.collateral) > Params.maxCollateral => "TooManyCollateral" \in LedgerFailures(t, chain)
         /\ (\E o \in AllOutputs(t) : o.coin < Params.minCoin) => "OutputTooSmall" \in LedgerFailures(t, chain)
         /\ (\E o \in Range(t.outputs) : o.size > Params.maxValueSize) => "OutputTooBig" \in LedgerFailures(t, chain)
         /\ (\E o \in Range(t.outputs) : o.net \notin {Network, "untold"}) => "Network" \in LedgerFailures(t, chain)
         /\ t.withdrawals # {} /\ t.withdrawalNet # Network => "Network" \in LedgerFailures(t, chain)
         /\ t.net \notin {Network, "untold"} => "Network" \in LedgerFailures(t, chain)
         /\ t.size > Params.maxSize => "TxSize" \in LedgerFailures(t, chain)
         /\ ScriptBytes(t, chain) > Params.maxRefs => "RefScripts" \in LedgerFailures(t, chain)
         /\ TotalUnits(t) > Params.maxUnits => "Units" \in LedgerFailures(t, chain)
<1> DEFINE F == LedgerFailures(t, chain)
<1>1. UtxoFailures(t, chain) \subseteq F
  BY DEF LedgerFailures
<1> HIDE DEF F
<1>2. /\ (t.start # NoBound /\ chain.slot < t.start) \/ (t.ttl # NoBound /\ t.ttl <= chain.slot) => "Validity" \in F
      /\ t.inputs = {} => "NoInput" \in F
      /\ (\E r \in Named(t) : chain.utxo[r].spent) => "BadInputs" \in F
      /\ t.references \cap t.inputs # {} => "Overlap" \in F
      /\ t.fee < LeastFee(t, chain) => "Fee" \in F
  BY <1>1 DEF UtxoFailures, Failure
<1>3. /\ t.redeemers # {} /\ CollateralFails(t, chain) => "Collateral" \in F
      /\ Cardinality(t.collateral) > Params.maxCollateral => "TooManyCollateral" \in F
      /\ (\E o \in AllOutputs(t) : o.coin < Params.minCoin) => "OutputTooSmall" \in F
      /\ (\E o \in Range(t.outputs) : o.size > Params.maxValueSize) => "OutputTooBig" \in F
      /\ (\E o \in Range(t.outputs) : o.net \notin {Network, "untold"}) => "Network" \in F
  BY <1>1 DEF UtxoFailures, Failure
<1>4. /\ t.withdrawals # {} /\ t.withdrawalNet # Network => "Network" \in F
      /\ t.net \notin {Network, "untold"} => "Network" \in F
      /\ t.size > Params.maxSize => "TxSize" \in F
      /\ ScriptBytes(t, chain) > Params.maxRefs => "RefScripts" \in F
      /\ TotalUnits(t) > Params.maxUnits => "Units" \in F
  BY <1>1 DEF UtxoFailures, Failure
<1> QED
  BY <1>2, <1>3, <1>4 DEF F

\* and so is a rule of GOV.
LEMMA GovTells ==
  ASSUME NEW t, NEW chain, Named(t) \subseteq DOMAIN chain.utxo
  PROVE  /\ \A v \in Range(t.votes) :
              /\ ~VoterExists(t, chain, v) => "Voter" \in LedgerFailures(t, chain)
              /\ \A a \in v.actions :
                   /\ a \notin DOMAIN chain.actions => "UnknownAction" \in LedgerFailures(t, chain)
                   /\ a \in DOMAIN chain.actions /\ ~chain.actions[a].active => "ExpiredAction" \in LedgerFailures(t, chain)
                   /\ a \in DOMAIN chain.actions /\ Disallowed(v, chain.actions[a])
                        => "DisallowedVoter" \in LedgerFailures(t, chain)
         /\ \A p \in Proposals(t) :
              /\ ~IsAccount(t, chain, p.account) => "ReturnAccount" \in LedgerFailures(t, chain)
              /\ p.kind \in GuardedKinds /\ p.policy # chain.constitution[1] => "Guardrail" \in LedgerFailures(t, chain)
              /\ p.net # Network => "Network" \in LedgerFailures(t, chain)
              /\ p.kind = "UpdateCommitteeAction" /\ p.add \cap p.remove # {}
                   => "CommitteeConflict" \in LedgerFailures(t, chain)
              /\ p.kind = "TreasuryWithdrawalsAction" =>
                   /\ (\E a \in p.targets : ~IsAccount(t, chain, a)) => "TreasuryAccount" \in LedgerFailures(t, chain)
                   /\ p.targets = {} \/ p.amount = 0 => "ZeroTreasury" \in LedgerFailures(t, chain)
                   /\ p.targetNet # Network /\ p.targets # {} => "Network" \in LedgerFailures(t, chain)
         /\ ~(PreviousActions(t) \subseteq DOMAIN chain.actions) => "Lineage" \in LedgerFailures(t, chain)
<1> DEFINE F == LedgerFailures(t, chain)
           votedOn == (UNION {v.actions : v \in Range(t.votes)}) \cap DOMAIN chain.actions
           votes == {p \in Range(t.votes) \X votedOn : p[2] \in p[1].actions}
           treasury == {p \in Proposals(t) : p.kind = "TreasuryWithdrawalsAction"}
           disallowed(p) == LET action == chain.actions[p[2]] IN
             \/ p[1].role = "pool" /\ action.kind \in {"NewConstitutionAction", "TreasuryWithdrawalsAction"}
             \/ p[1].role = "pool" /\ action.kind = "ParameterChangeAction" /\ ~action.security
             \/ p[1].role = "committee" /\ action.kind \in {"NoConfidenceAction", "UpdateCommitteeAction"}
<1>1. GovFailures(t, chain) \subseteq F
  BY DEF LedgerFailures
<1> HIDE DEF F, votedOn, votes, treasury, disallowed
<1>2. /\ (\E v \in Range(t.votes) : ~VoterExists(t, chain, v)) => "Voter" \in F
      /\ (\E v \in Range(t.votes) : ~(v.actions \subseteq DOMAIN chain.actions)) => "UnknownAction" \in F
      /\ (\E a \in votedOn : ~chain.actions[a].active) => "ExpiredAction" \in F
      /\ (\E p \in votes : disallowed(p)) => "DisallowedVoter" \in F
  BY <1>1 DEF GovFailures, Failure, votedOn, votes, disallowed
<1>3. /\ (\E p \in Proposals(t) : ~IsAccount(t, chain, p.account)) => "ReturnAccount" \in F
      /\ (\E p \in treasury : \E a \in p.targets : ~IsAccount(t, chain, a)) => "TreasuryAccount" \in F
      /\ (\E p \in treasury : p.targets = {} \/ p.amount = 0) => "ZeroTreasury" \in F
      /\ (\E p \in Proposals(t) : p.kind \in GuardedKinds /\ p.policy # chain.constitution[1]) => "Guardrail" \in F
  BY <1>1 DEF GovFailures, Failure, treasury
<1>4. /\ (\E p \in Proposals(t) : p.net # Network) => "Network" \in F
      /\ (\E p \in treasury : p.targetNet # Network /\ p.targets # {}) => "Network" \in F
      /\ (\E p \in Proposals(t) : p.kind = "UpdateCommitteeAction" /\ p.add \cap p.remove # {}) => "CommitteeConflict" \in F
      /\ ~(PreviousActions(t) \subseteq DOMAIN chain.actions) => "Lineage" \in F
  BY <1>1 DEF GovFailures, Failure, treasury
<1>5. ASSUME NEW v \in Range(t.votes), NEW a \in v.actions, a \in DOMAIN chain.actions
      PROVE  a \in votedOn /\ (Disallowed(v, chain.actions[a]) => \E p \in votes : disallowed(p))
  <2>1. a \in votedOn
    BY <1>5 DEF votedOn
  <2> DEFINE p == <<v, a>>
  <2>2. p[1] = v /\ p[2] = a /\ p \in votes
    BY <2>1 DEF votes
  <2> HIDE DEF p
  <2>3. Disallowed(v, chain.actions[a]) => disallowed(p)
    BY <2>2 DEF Disallowed, disallowed
  <2> QED
    BY <2>1, <2>2, <2>3
<1>6. ASSUME NEW v \in Range(t.votes)
      PROVE  /\ ~VoterExists(t, chain, v) => "Voter" \in F
             /\ \A a \in v.actions :
                  /\ a \notin DOMAIN chain.actions => "UnknownAction" \in F
                  /\ a \in DOMAIN chain.actions /\ ~chain.actions[a].active => "ExpiredAction" \in F
                  /\ a \in DOMAIN chain.actions /\ Disallowed(v, chain.actions[a]) => "DisallowedVoter" \in F
  BY <1>2, <1>5
<1>7. ASSUME NEW p \in Proposals(t)
      PROVE  /\ ~IsAccount(t, chain, p.account) => "ReturnAccount" \in F
             /\ p.kind \in GuardedKinds /\ p.policy # chain.constitution[1] => "Guardrail" \in F
             /\ p.net # Network => "Network" \in F
             /\ p.kind = "UpdateCommitteeAction" /\ p.add \cap p.remove # {} => "CommitteeConflict" \in F
             /\ p.kind = "TreasuryWithdrawalsAction" =>
                  /\ (\E a \in p.targets : ~IsAccount(t, chain, a)) => "TreasuryAccount" \in F
                  /\ p.targets = {} \/ p.amount = 0 => "ZeroTreasury" \in F
                  /\ p.targetNet # Network /\ p.targets # {} => "Network" \in F
  <2>1. p.kind = "TreasuryWithdrawalsAction" => p \in treasury
    BY DEF treasury
  <2> QED
    BY <1>3, <1>4, <2>1
<1> QED
  BY <1>4, <1>6, <1>7 DEF F

\* ---- the body ----

\* Less than the share of the fee rounded up is less than the share.
LEMMA RoundedTooLow ==
  ASSUME NEW x \in Int, NEW fee \in Nat, NEW share \in Nat, x < (fee * share + 99) \div 100
  PROVE  100 * x < share * fee
<1> DEFINE y == fee * share
<1>1. y \in Nat /\ y = share * fee
  OBVIOUS
<1> HIDE DEF y
<1>2. x < (y + 99) \div 100
  BY DEF y
<1> DEFINE z == (y + 99) \div 100
<1>3. z \in Int /\ 100 * z <= y + 99
  BY <1>1
<1>z. x < z
  BY <1>2
<1> HIDE DEF z
<1>4. 100 * x < y
  BY <1>1, <1>3, <1>z
<1> QED
  BY <1>1, <1>4

\* Where a script runs, every error of the collateral is the ledger's.
LEMMA CollateralErrorsStand ==
  ASSUME NEW t, NEW chain, Setting(t, chain, chain), t.redeemers # {},
         NEW n \in Names(CollateralErrors(t, chain))
  PROVE  \/ n = "TooManyCollateralInputs"
         \/ n = "CollateralReturnTooSmall"
         \/ "Collateral" \in LedgerFailures(t, chain)
<1>d. Named(t) \subseteq DOMAIN chain.utxo
  BY DEF Setting
<1> SUFFICES ASSUME n \notin {"TooManyCollateralInputs", "CollateralReturnTooSmall"} PROVE CollateralFails(t, chain)
  BY <1>d, UtxoTells
<1> DEFINE coin == Balance(t, chain, "coin")
<1>1. coin \in Int
  BY CollateralIsASum
<1>2. Known(t.collateral, chain) = t.collateral
  BY Seen
<1>3. CASE ~HasCollateral(t)
  BY <1>3 DEF CollateralFails, HasCollateral
<1>4. CASE IF t.totalCollateral # Absent THEN t.totalCollateral < MinCollateral(t)
           ELSE HasCollateral(t) /\ coin < MinCollateral(t)
  <2>1. t.totalCollateral \notin {Absent, coin} \/ coin < MinCollateral(t)
    <3> HIDE DEF coin
    <3> QED
      BY <1>4
  <2>2. ASSUME coin < MinCollateral(t) PROVE 100 * coin < Params.percentage * t.fee
    <3>1. t.fee \in Nat /\ Params.percentage \in Nat
      BY ParamsTyped DEF Setting, IsTransaction
    <3>2. MinCollateral(t) = (t.fee * Params.percentage + 99) \div 100
      BY DEF MinCollateral, NeedCollateral
    <3> HIDE DEF coin
    <3> QED
      BY <1>1, <2>2, <3>1, <3>2, RoundedTooLow
  <2> QED
    BY <2>1, <2>2 DEF CollateralFails, CollateralCoin
<1>5. CASE t.totalCollateral # Absent /\ coin # t.totalCollateral
  BY <1>5 DEF CollateralFails, CollateralCoin
<1>6. CASE Balance(t, chain, "assets") # 0
  BY <1>6 DEF CollateralFails
<1>7. CASE ~HasReturn(t) /\ {r \in Known(t.collateral, chain) : chain.utxo[r].assets # 0} # {}
  <2>1. PICK r \in t.collateral : chain.utxo[r]["assets"] # 0
    BY <1>2, <1>7
  <2>2. Balance(t, chain, "assets") >= chain.utxo[r]["assets"] /\ chain.utxo[r]["assets"] \in Nat
        /\ Balance(t, chain, "assets") \in Int
    BY <1>7, CollateralIsASum
  <2>3. Balance(t, chain, "assets") # 0
    BY <2>1, <2>2
  <2> QED
    BY <2>3 DEF CollateralFails
<1>8. CASE {r \in Known(t.collateral, chain) : chain.utxo[r].owner \in Scripts} # {}
  <2>1. \E r \in t.collateral : chain.utxo[r].owner \in Scripts
    BY <1>2, <1>8
  <2> QED
    BY <2>1 DEF CollateralFails
<1> HIDE DEF coin
<1> QED
  BY <1>3, <1>4, <1>5, <1>6, <1>7, <1>8, CollateralNames DEF coin

\* Every error of the body is a failure of UTXO, UTXOW or GOV.
LEMMA BodyErrorsStand ==
  ASSUME NEW t, NEW chain, Setting(t, chain, chain),
         NEW n \in Names(FeeErrors(t, chain)) \cup Names(AuxiliaryErrors(t)) \cup Names(OutputErrors(t))
                   \cup Names(LimitErrors(t, chain)) \cup Names(NetworkErrors(t))
  PROVE  \/ n = "FeeTooSmallUTxO" /\ "Fee" \in LedgerFailures(t, chain)
         \/ n = "InputSetEmptyUTxO" /\ "NoInput" \in LedgerFailures(t, chain)
         \/ n = "MaxTxSizeUTxO" /\ "TxSize" \in LedgerFailures(t, chain)
         \/ n = "ExUnitsTooBigUTxO" /\ "Units" \in LedgerFailures(t, chain)
         \/ n = "RefScriptsSizeTooBig" /\ "RefScripts" \in LedgerFailures(t, chain)
         \/ n = "OutsideValidityIntervalUTxO" /\ "Validity" \in LedgerFailures(t, chain)
         \/ n = "BadInputsUTxO" /\ "BadInputs" \in LedgerFailures(t, chain)
         \/ n = "ReferenceInputOverlapsWithInput" /\ "Overlap" \in LedgerFailures(t, chain)
         \/ n = "OutputsValueTooBig" /\ "OutputTooBig" \in LedgerFailures(t, chain)
         \/ n = "OutputTooSmallUTxO" /\ "OutputTooSmall" \in LedgerFailures(t, chain)
         \/ /\ n \in {"WrongNetwork", "WrongNetworkWithdrawal", "WrongNetworkInTxBody",
                      "ProposalProcedureNetworkIdMismatch", "TreasuryWithdrawalsNetworkIdMismatch"}
            /\ "Network" \in LedgerFailures(t, chain)
         \/ /\ n \in {"AuxiliaryDataHashMissing", "AuxiliaryDataHashMismatch"}
            /\ "Auxiliary" \in LedgerFailures(t, chain)
<1>d. Named(t) \subseteq DOMAIN chain.utxo
  BY DEF Setting
<1>1. CASE n \in Names(FeeErrors(t, chain))
  <2>1. n = "FeeTooSmallUTxO" /\ t.fee < MinFee(t, chain)
    BY <1>1, BodyNames
  <2>2. t.fee < LeastFee(t, chain)
    BY <2>1, SizesAgree
  <2> QED
    BY <1>d, <2>1, <2>2, UtxoTells
<1>2. CASE n \in Names(AuxiliaryErrors(t))
  <2>1. n \in {"AuxiliaryDataHashMissing", "AuxiliaryDataHashMismatch"} /\ t.auxiliaryHash # t.auxiliary
    BY <1>2, BodyNames
  <2> QED
    BY <1>d, <2>1, UtxowTells
<1>3. CASE n \in Names(OutputErrors(t))
  <2>1. \/ n = "OutputsValueTooBig" /\ \E o \in Range(t.outputs) : o.size > Params.maxValueSize
        \/ n = "OutputTooSmallUTxO" /\ \E o \in Range(t.outputs) : o.coin < Params.minCoin
    <3>1. \/ n = "OutputsValueTooBig" /\ {i \in DOMAIN t.outputs : t.outputs[i].size > Params.maxValueSize} # {}
          \/ n = "OutputTooSmallUTxO" /\ {i \in DOMAIN t.outputs : t.outputs[i].coin < Params.minCoin} # {}
      BY <1>3, BodyNames
    <3> QED
      BY <3>1 DEF Range
  <2>2. (\E o \in Range(t.outputs) : o.coin < Params.minCoin) => \E o \in AllOutputs(t) : o.coin < Params.minCoin
    BY DEF AllOutputs
  <2> QED
    BY <1>d, <2>1, <2>2, UtxoTells
<1>4. CASE n \in Names(LimitErrors(t, chain))
  <2>1. \/ n = "InputSetEmptyUTxO" /\ t.inputs = {}
        \/ n = "MaxTxSizeUTxO" /\ t.size > Params.maxSize
        \/ n = "ExUnitsTooBigUTxO" /\ TotalUnits(t) > Params.maxUnits
        \/ n = "RefScriptsSizeTooBig" /\ RefBytes(t, chain) > Params.maxRefs
        \/ n = "OutsideValidityIntervalUTxO" /\ Outside(t, chain.slot)
        \/ n = "BadInputsUTxO" /\ Spent(t.inputs \cup t.collateral \cup t.references, chain) # {}
        \/ n = "ReferenceInputOverlapsWithInput" /\ t.references \cap t.inputs # {}
    BY <1>4, BodyNames
  <2>2. RefBytes(t, chain) = ScriptBytes(t, chain)
    BY SizesAgree
  <2>3. Outside(t, chain.slot) =>
          (t.start # NoBound /\ chain.slot < t.start) \/ (t.ttl # NoBound /\ t.ttl <= chain.slot)
    BY DEF Outside
  <2>4. Spent(t.inputs \cup t.collateral \cup t.references, chain) # {} => \E r \in Named(t) : chain.utxo[r].spent
    <3>1. t.inputs \cup t.collateral \cup t.references \subseteq Named(t)
      BY Seen
    <3> QED
      BY <1>d, <3>1 DEF Spent
  <2>5. CASE n = "RefScriptsSizeTooBig" /\ ScriptBytes(t, chain) > Params.maxRefs
    BY <1>d, <2>5, UtxoTells
  <2>6. CASE n = "OutsideValidityIntervalUTxO" /\ Outside(t, chain.slot)
    BY <1>d, <2>3, <2>6, UtxoTells
  <2>7. CASE n = "BadInputsUTxO" /\ \E r \in Named(t) : chain.utxo[r].spent
    BY <1>d, <2>7, UtxoTells
  <2>8. CASE \/ n = "InputSetEmptyUTxO" /\ t.inputs = {}
             \/ n = "MaxTxSizeUTxO" /\ t.size > Params.maxSize
             \/ n = "ExUnitsTooBigUTxO" /\ TotalUnits(t) > Params.maxUnits
             \/ n = "ReferenceInputOverlapsWithInput" /\ t.references \cap t.inputs # {}
    BY <1>d, <2>8, UtxoTells
  <2> QED
    BY <2>1, <2>2, <2>4, <2>5, <2>6, <2>7, <2>8
<1>5. CASE n \in Names(NetworkErrors(t))
  <2>1. \/ n = "WrongNetwork" /\ \E o \in Range(t.outputs) : o.net \notin {Network, "untold"}
        \/ n = "WrongNetworkWithdrawal" /\ t.withdrawals # {} /\ t.withdrawalNet # Network
        \/ n = "WrongNetworkInTxBody" /\ t.net \notin {Network, "untold"}
        \/ /\ n = "ProposalProcedureNetworkIdMismatch"
           /\ {i \in DOMAIN t.proposals : t.proposals[i].net # Network} # {}
        \/ n = "TreasuryWithdrawalsNetworkIdMismatch" /\ ForeignTargets(t) # {}
    BY <1>5, BodyNames
  <2>2. {i \in DOMAIN t.proposals : t.proposals[i].net # Network} # {} => \E p \in Proposals(t) : p.net # Network
    BY DEF Proposals, Range
  <2>3. ForeignTargets(t) # {} => \E p \in Proposals(t) : /\ p.kind = "TreasuryWithdrawalsAction"
                                                          /\ p.targetNet # Network /\ p.targets # {}
    BY DEF ForeignTargets, Proposals, Range
  <2>4. CASE n = "ProposalProcedureNetworkIdMismatch" /\ \E p \in Proposals(t) : p.net # Network
    BY <1>d, <2>4, GovTells
  <2>5. CASE n = "TreasuryWithdrawalsNetworkIdMismatch" /\ ForeignTargets(t) # {}
    BY <1>d, <2>3, <2>5, GovTells
  <2>6. CASE \/ n = "WrongNetwork" /\ \E o \in Range(t.outputs) : o.net \notin {Network, "untold"}
             \/ n = "WrongNetworkWithdrawal" /\ t.withdrawals # {} /\ t.withdrawalNet # Network
             \/ n = "WrongNetworkInTxBody" /\ t.net \notin {Network, "untold"}
    BY <1>d, <2>6, UtxoTells
  <2> QED
    BY <2>1, <2>2, <2>4, <2>5, <2>6
<1> QED
  BY <1>1, <1>2, <1>3, <1>4, <1>5

\* The two bounds of the collateral that hold whether or not a script runs.
LEMMA CollateralBoundsStand ==
  ASSUME NEW t, NEW chain, Setting(t, chain, chain), NEW n \in Names(CollateralErrors(t, chain))
  PROVE  /\ n = "TooManyCollateralInputs" => "TooManyCollateral" \in LedgerFailures(t, chain)
         /\ n = "CollateralReturnTooSmall" => "OutputTooSmall" \in LedgerFailures(t, chain)
<1>d. Named(t) \subseteq DOMAIN chain.utxo
  BY DEF Setting
<1>1. ASSUME n = "TooManyCollateralInputs" PROVE "TooManyCollateral" \in LedgerFailures(t, chain)
  <2>1. Cardinality(t.collateral) > Params.maxCollateral
    BY <1>1, CollateralNames
  <2> QED
    BY <1>d, <2>1, UtxoTells
<1>2. ASSUME n = "CollateralReturnTooSmall" PROVE "OutputTooSmall" \in LedgerFailures(t, chain)
  <2>1. HasReturn(t) /\ t.collateralReturn[1].coin < Params.minCoin
    BY <1>2, CollateralNames
  <2>2. 1 \in DOMAIN t.collateralReturn
    <3>1. DOMAIN t.collateralReturn = 1..Len(t.collateralReturn) /\ Len(t.collateralReturn) <= 1
      BY DEF Setting, IsTransaction
    <3>2. t.collateralReturn # <<>>
      BY <2>1 DEF HasReturn
    <3> QED
      BY <3>1, <3>2
  <2>3. \E o \in AllOutputs(t) : o.coin < Params.minCoin
    BY <2>1, <2>2 DEF AllOutputs, Range
  <2> QED
    BY <1>d, <2>3, UtxoTells
<1> QED
  BY <1>1, <1>2

\* Every error of a vote or a proposal is a failure of GOV.
LEMMA GovernanceErrorsStand ==
  ASSUME NEW t, NEW chain, Setting(t, chain, chain),
         NEW n \in Names(VoteErrors(t, chain)) \cup Names(ProposalErrors(t, chain)), n \notin Stricter(t, chain)
  PROVE  \/ n = "VoterDoNotExist" /\ "Voter" \in LedgerFailures(t, chain)
         \/ n = "InvalidCommitteeVote" /\ "Voter" \in LedgerFailures(t, chain)
         \/ n = "GovActionsDoNotExist" /\ \E f \in {"UnknownAction", "Lineage"} : f \in LedgerFailures(t, chain)
         \/ n = "VotingOnExpiredGovAction" /\ "ExpiredAction" \in LedgerFailures(t, chain)
         \/ n = "DisallowedVoters" /\ "DisallowedVoter" \in LedgerFailures(t, chain)
         \/ n = "ProposalReturnAccountDoesNotExist" /\ "ReturnAccount" \in LedgerFailures(t, chain)
         \/ n = "InvalidConstitutionPolicyHash" /\ "Guardrail" \in LedgerFailures(t, chain)
         \/ n = "ZeroTreasuryWithdrawals" /\ "ZeroTreasury" \in LedgerFailures(t, chain)
         \/ n = "TreasuryWithdrawalReturnAccountsDoNotExist" /\ "TreasuryAccount" \in LedgerFailures(t, chain)
         \/ n = "ConflictingCommitteeUpdate" /\ "CommitteeConflict" \in LedgerFailures(t, chain)
<1>d. Named(t) \subseteq DOMAIN chain.utxo
  BY DEF Setting
<1>c. \A i \in DOMAIN t.certs : t.certs[i] \in Certs(t)
  BY DEF Certs, Range
<1>1. CASE n \in Names(VoteErrors(t, chain))
  <2>1. PICK v \in Range(t.votes) :
          \/ n = "VoterDoNotExist" /\ ~Exists(t, v, chain)
          \/ n = "InvalidCommitteeVote" /\ Resigned(v, chain)
          \/ \E a \in v.actions :
               \/ n = "GovActionsDoNotExist" /\ a \notin DOMAIN chain.actions
               \/ n = "VotingOnExpiredGovAction" /\ a \in DOMAIN chain.actions /\ ~chain.actions[a].active
               \/ n = "DisallowedVoters" /\ a \in DOMAIN chain.actions /\ Disallowed(v, chain.actions[a])
    BY <1>1, GovernanceNames
  <2>2. IsVote(v)
    BY DEF Setting, IsTransaction
  <2>3. v.role \in {"drep", "pool", "committee"} /\ v.cred # None
    BY <2>2, HashesApart DEF IsVote, None
  <2>4. CASE n = "VoterDoNotExist" /\ ~Exists(t, v, chain)
    <3>1. \A c \in Certs(t) : c.kind \notin {"DRepRegistration", "PoolRegistration"}
      BY <2>4, StricterTells
    <3>2. CASE v.role = "drep"
      <4>1. v.cred \notin chain.dreps
        BY <2>4, <3>2 DEF Exists
      <4>2. ~IsDRep(t, chain, v.cred)
        BY <1>c, <3>1, <4>1 DEF IsDRep
      <4>3. ~VoterExists(t, chain, v)
        BY <3>2, <4>2 DEF VoterExists
      <4> QED
        BY <1>d, <2>4, <4>3, GovTells
    <3>3. CASE v.role = "pool"
      <4>1. v.cred \notin chain.pools
        BY <2>4, <3>3 DEF Exists
      <4>2. ~VoterExists(t, chain, v)
        BY <3>1, <3>3, <4>1 DEF VoterExists, Kinds, Certs
      <4> QED
        BY <1>d, <2>4, <4>2, GovTells
    <3>4. CASE v.role = "committee"
      <4>1. v.cred \notin HotInTx(t) /\ \A m \in chain.committee : m.hot # v.cred
        BY <2>4, <3>4 DEF Exists, Seated
      <4>2. \A c \in Certs(t) : ~(c.kind = "CommitteeHotAuth" /\ c.hot = v.cred)
        BY <4>1 DEF HotInTx
      <4>3. \A m \in chain.committee : ~SpeaksFor(t, m, v.cred)
        BY <1>c, <4>1, <4>2 DEF SpeaksFor
      <4>4. ~VoterExists(t, chain, v)
        BY <3>4, <4>3 DEF VoterExists
      <4> QED
        BY <1>d, <2>4, <4>4, GovTells
    <3> QED
      BY <2>3, <3>2, <3>3, <3>4
  <2>5. CASE n = "InvalidCommitteeVote" /\ Resigned(v, chain)
    <3>1. Kinds(t, "CommitteeHotAuth") = {}
      BY <2>5, StricterTells
    <3>2. \A i \in DOMAIN t.certs : t.certs[i].kind # "CommitteeHotAuth"
      BY <1>c, <3>1 DEF Kinds, Certs
    <3>3. v.role = "committee" /\ \E m \in chain.committee : m.hot = v.cred /\ m.resigned
      BY <2>5 DEF Resigned, Seated
    <3>4. \A m, o \in chain.committee : m.hot = o.hot /\ m.hot # None => m = o
      BY DEF Setting
    <3>5. \A m \in chain.committee : m.hot = v.cred => m.resigned
      BY <2>3, <3>3, <3>4
    <3>6. \A m \in chain.committee : ~SpeaksFor(t, m, v.cred)
      BY <3>2, <3>5 DEF SpeaksFor
    <3>7. ~VoterExists(t, chain, v)
      BY <3>3, <3>6 DEF VoterExists
    <3> QED
      BY <1>d, <2>5, <3>7, GovTells
  <2>6. ASSUME NEW a \in v.actions
        PROVE  /\ a \notin DOMAIN chain.actions => "UnknownAction" \in LedgerFailures(t, chain)
               /\ a \in DOMAIN chain.actions /\ ~chain.actions[a].active => "ExpiredAction" \in LedgerFailures(t, chain)
               /\ a \in DOMAIN chain.actions /\ Disallowed(v, chain.actions[a])
                    => "DisallowedVoter" \in LedgerFailures(t, chain)
    BY <1>d, GovTells
  <2> QED
    BY <2>1, <2>4, <2>5, <2>6
<1>2. CASE n \in Names(ProposalErrors(t, chain))
  <2>1. \/ \E p \in Proposals(t) :
             \/ n = "ProposalReturnAccountDoesNotExist" /\ p.account \notin chain.accounts
             \/ n = "InvalidConstitutionPolicyHash" /\ WrongGuardrail(p, chain)
             \/ /\ n = "ZeroTreasuryWithdrawals" /\ p.kind = "TreasuryWithdrawalsAction"
                /\ p.amount * Cardinality(p.targets) = 0
             \/ /\ n = "TreasuryWithdrawalReturnAccountsDoNotExist" /\ p.kind = "TreasuryWithdrawalsAction"
                /\ \E a \in p.targets : a \notin chain.accounts
             \/ n = "ConflictingCommitteeUpdate" /\ p.kind = "UpdateCommitteeAction" /\ p.add \cap p.remove # {}
        \/ n = "GovActionsDoNotExist" /\ PreviousActions(t) \ DOMAIN chain.actions # {}
    BY <1>2, GovernanceNames
  <2>2. CASE n = "GovActionsDoNotExist" /\ PreviousActions(t) \ DOMAIN chain.actions # {}
    <3>1. ~(PreviousActions(t) \subseteq DOMAIN chain.actions)
      BY <2>2
    <3> QED
      BY <1>d, <2>2, <3>1, GovTells
  <2>3. CASE \E p \in Proposals(t) :
             \/ n = "ProposalReturnAccountDoesNotExist" /\ p.account \notin chain.accounts
             \/ n = "InvalidConstitutionPolicyHash" /\ WrongGuardrail(p, chain)
             \/ /\ n = "ZeroTreasuryWithdrawals" /\ p.kind = "TreasuryWithdrawalsAction"
                /\ p.amount * Cardinality(p.targets) = 0
             \/ /\ n = "TreasuryWithdrawalReturnAccountsDoNotExist" /\ p.kind = "TreasuryWithdrawalsAction"
                /\ \E a \in p.targets : a \notin chain.accounts
             \/ n = "ConflictingCommitteeUpdate" /\ p.kind = "UpdateCommitteeAction" /\ p.add \cap p.remove # {}
    <3>1. PICK p \in Proposals(t) :
             \/ n = "ProposalReturnAccountDoesNotExist" /\ p.account \notin chain.accounts
             \/ n = "InvalidConstitutionPolicyHash" /\ WrongGuardrail(p, chain)
             \/ /\ n = "ZeroTreasuryWithdrawals" /\ p.kind = "TreasuryWithdrawalsAction"
                /\ p.amount * Cardinality(p.targets) = 0
             \/ /\ n = "TreasuryWithdrawalReturnAccountsDoNotExist" /\ p.kind = "TreasuryWithdrawalsAction"
                /\ \E a \in p.targets : a \notin chain.accounts
             \/ n = "ConflictingCommitteeUpdate" /\ p.kind = "UpdateCommitteeAction" /\ p.add \cap p.remove # {}
      BY <2>3
    <3>2. /\ ~IsAccount(t, chain, p.account) => "ReturnAccount" \in LedgerFailures(t, chain)
          /\ p.kind \in GuardedKinds /\ p.policy # chain.constitution[1] => "Guardrail" \in LedgerFailures(t, chain)
          /\ p.kind = "UpdateCommitteeAction" /\ p.add \cap p.remove # {}
               => "CommitteeConflict" \in LedgerFailures(t, chain)
          /\ p.kind = "TreasuryWithdrawalsAction" =>
               /\ (\E a \in p.targets : ~IsAccount(t, chain, a)) => "TreasuryAccount" \in LedgerFailures(t, chain)
               /\ p.targets = {} \/ p.amount = 0 => "ZeroTreasury" \in LedgerFailures(t, chain)
      BY <1>d, GovTells
    <3>3. ASSUME n \in {"ProposalReturnAccountDoesNotExist", "TreasuryWithdrawalReturnAccountsDoNotExist"},
                 NEW a, a \notin chain.accounts
          PROVE  ~IsAccount(t, chain, a)
      <4>1. \A c \in Certs(t) : c.kind \notin Registering
        BY <3>3, StricterTells
      <4> QED
        BY <1>c, <3>3, <4>1 DEF IsAccount
    <3>4. WrongGuardrail(p, chain) => p.kind \in GuardedKinds /\ p.policy # chain.constitution[1]
      BY DEF WrongGuardrail
    <3>5. p.amount * Cardinality(p.targets) = 0 => p.targets = {} \/ p.amount = 0
      <4>1. p.amount \in Nat /\ IsFiniteSet(p.targets)
        BY DEF Setting, IsTransaction, Proposals
      <4>2. Cardinality(p.targets) \in Nat /\ (Cardinality(p.targets) = 0 => p.targets = {})
        BY <4>1, FS_CardinalityType, FS_EmptySet
      <4> DEFINE size == Cardinality(p.targets)
      <4> HIDE DEF size
      <4>3. size \in Nat /\ p.amount \in Nat /\ p.amount * size = 0 => size = 0 \/ p.amount = 0
        OBVIOUS
      <4> QED
        BY <4>1, <4>2, <4>3 DEF size
    <3> QED
      BY <3>1, <3>2, <3>3, <3>4, <3>5
  <2> QED
    BY <2>1, <2>2, <2>3
<1> QED
  BY <1>1, <1>2

\* ---- every error but those Stricter names ----

\* One of the reasons of an error is a failure of the ledger's.
Stands(n, reasons, t, chain) ==
  \A r \in reasons : r[1] = n => r[2] \cap LedgerFailures(t, chain) # {}

\* An error of each validator stands by every table of reasons it is in.
LEMMA ReasonsOfWitnesses ==
  ASSUME NEW t, NEW chain, Setting(t, chain, chain),
         NEW n \in Names(WitnessErrors(t, chain)), n \notin Stricter(t, chain)
  PROVE  /\ Stands(n, WitnessReasons, t, chain) /\ Stands(n, ScriptReasons, t, chain)
         /\ Stands(n, BodyReasons, t, chain) /\ Stands(n, GovernanceReasons, t, chain)
         /\ Stands(n, CollateralReasons, t, chain)
BY WitnessErrorsStand DEF Stands, WitnessReasons, ScriptReasons, BodyReasons, GovernanceReasons, CollateralReasons

\* Of the scripts,
LEMMA ReasonsOfScripts ==
  ASSUME NEW t, NEW chain, Setting(t, chain, chain),
         NEW n \in Names(PhaseTwoErrors(t, chain)), n \notin Stricter(t, chain)
  PROVE  /\ Stands(n, WitnessReasons, t, chain) /\ Stands(n, ScriptReasons, t, chain)
         /\ Stands(n, BodyReasons, t, chain) /\ Stands(n, GovernanceReasons, t, chain)
         /\ Stands(n, CollateralReasons, t, chain)
BY ScriptErrorsStand DEF Stands, WitnessReasons, ScriptReasons, BodyReasons, GovernanceReasons, CollateralReasons

\* of the body,
LEMMA ReasonsOfBody ==
  ASSUME NEW t, NEW chain, Setting(t, chain, chain),
         NEW n \in Names(FeeErrors(t, chain)) \cup Names(AuxiliaryErrors(t)) \cup Names(OutputErrors(t))
                   \cup Names(LimitErrors(t, chain)) \cup Names(NetworkErrors(t))
  PROVE  /\ Stands(n, WitnessReasons, t, chain) /\ Stands(n, ScriptReasons, t, chain)
         /\ Stands(n, BodyReasons, t, chain) /\ Stands(n, GovernanceReasons, t, chain)
         /\ Stands(n, CollateralReasons, t, chain)
BY BodyErrorsStand DEF Stands, WitnessReasons, ScriptReasons, BodyReasons, GovernanceReasons, CollateralReasons

\* of votes and proposals,
LEMMA ReasonsOfGovernance ==
  ASSUME NEW t, NEW chain, Setting(t, chain, chain),
         NEW n \in Names(VoteErrors(t, chain)) \cup Names(ProposalErrors(t, chain)), n \notin Stricter(t, chain)
  PROVE  /\ Stands(n, WitnessReasons, t, chain) /\ Stands(n, ScriptReasons, t, chain)
         /\ Stands(n, BodyReasons, t, chain) /\ Stands(n, GovernanceReasons, t, chain)
         /\ Stands(n, CollateralReasons, t, chain)
BY GovernanceErrorsStand DEF Stands, WitnessReasons, ScriptReasons, BodyReasons, GovernanceReasons, CollateralReasons

\* and of the collateral, where a script runs.
LEMMA ReasonsOfCollateral ==
  ASSUME NEW t, NEW chain, Setting(t, chain, chain), NEW n \in Names(CollateralErrors(t, chain))
  PROVE  /\ Stands(n, WitnessReasons, t, chain) /\ Stands(n, ScriptReasons, t, chain)
         /\ Stands(n, BodyReasons, t, chain) /\ Stands(n, GovernanceReasons, t, chain)
         /\ t.redeemers # {} => Stands(n, CollateralReasons, t, chain)
<1>1. n \in {"TooManyCollateralInputs", "CollateralReturnTooSmall", "NoCollateralInputs", "InsufficientCollateral",
             "IncorrectTotalCollateralField", "CalculatedCollateralContainsNonAdaAssets",
             "CollateralInputContainsNonAdaAssets", "CollateralIsLockedByScript"}
  BY CollateralNames
<1>2. Stands(n, WitnessReasons, t, chain) /\ Stands(n, ScriptReasons, t, chain) /\ Stands(n, GovernanceReasons, t, chain)
  BY <1>1 DEF Stands, WitnessReasons, ScriptReasons, GovernanceReasons
<1>3. Stands(n, BodyReasons, t, chain)
  BY <1>1, CollateralBoundsStand DEF Stands, BodyReasons
<1>4. t.redeemers # {} => Stands(n, CollateralReasons, t, chain)
  BY CollateralErrorsStand DEF Stands, CollateralReasons
<1> QED
  BY <1>2, <1>3, <1>4

\* So every error of a verdict stands.
LEMMA ErrorsStand ==
  ASSUME NEW t, NEW chain, Setting(t, chain, chain), ~Validated(t, chain).refused,
         NEW n \in Names(Validated(t, chain).errors), n \notin Stricter(t, chain)
  PROVE  /\ Stands(n, WitnessReasons, t, chain) /\ Stands(n, ScriptReasons, t, chain)
         /\ Stands(n, BodyReasons, t, chain) /\ Stands(n, GovernanceReasons, t, chain)
         /\ t.redeemers # {} => Stands(n, CollateralReasons, t, chain)
BY ErrorsOfParts, ReasonsOfWitnesses, ReasonsOfScripts, ReasonsOfBody, ReasonsOfGovernance, ReasonsOfCollateral

\* ---- the calls with a context ----

\* A call with a context is judged in it, once, on the chain of the assumptions.
Called ==
  provider = "caller" =>
    /\ \E family \in Given : tx \in family.transactions /\ fetched \in family.contexts
    /\ chains = <<Ledger>> /\ now = 1 /\ stage = "validate" /\ pending = {}
    /\ result \in {<<>>, <<Validated(tx, fetched)>>}

\* It holds at first,
LEMMA CalledAtFirst == Init => Called
<1> SUFFICES ASSUME Init, provider = "caller" PROVE Called
  BY DEF Called
<1>1. \A f \in Fetches : f.provider # "caller"
  BY FetchesTyped
<1> QED
  BY <1>1 DEF Init, Called

\* and every step keeps it: a call with a context does nothing but validate.
LEMMA CalledStays == Called /\ [Next]_vars => Called'
<1> SUFFICES ASSUME Called, [Next]_vars, provider' = "caller" PROVE Called'
  BY DEF Called
<1>1. CASE UNCHANGED vars
  BY <1>1 DEF vars, Called
<1>2. CASE Next
  <2>1. provider = "caller" /\ tx' = tx /\ chains' = chains
    BY <1>2 DEF Next, NextStage, TipAnswered, ParamsAnswered, CommitteeAnswered, ActionsAnswered, ConstitutionAnswered,
       Answer, StageDone, RequestCaught, RequestRejected, UtxosAnswered, ScriptsAnswered, AccountAnswered,
       PoolsAnswered, DRepsAnswered, Validate, ChainMoves, call
  <2>2. stage = "validate" /\ pending = {} /\ chains = <<Ledger>> /\ now = 1
    BY <2>1 DEF Called
  <2>3. ~NextStage
    BY <2>2 DEF NextStage, Stages
  <2>4. ~(TipAnswered \/ ParamsAnswered \/ CommitteeAnswered \/ ActionsAnswered \/ ConstitutionAnswered)
    BY <2>2 DEF TipAnswered, ParamsAnswered, CommitteeAnswered, ActionsAnswered, ConstitutionAnswered, Answer
  <2>5. ~(RequestCaught \/ RequestRejected \/ UtxosAnswered \/ ScriptsAnswered \/ AccountAnswered \/ PoolsAnswered \/ DRepsAnswered)
    BY <2>2 DEF RequestCaught, RequestRejected, UtxosAnswered, ScriptsAnswered, AccountAnswered, PoolsAnswered, DRepsAnswered
  <2>6. ~ChainMoves
    BY <2>2 DEF ChainMoves
  <2>7. Validate
    BY <1>2, <2>3, <2>4, <2>5, <2>6 DEF Next
  <2>8. Context = fetched
    BY <2>1 DEF Context
  <2>9. /\ result' = <<Validated(tx, fetched)>> /\ fetched' = fetched
        /\ stage' = stage /\ pending' = pending /\ now' = now
    BY <2>7, <2>8 DEF Validate
  <2>10. \E family \in Given : tx \in family.transactions /\ fetched \in family.contexts
    BY <2>1 DEF Called
  <2> QED
    BY <2>1, <2>2, <2>9, <2>10 DEF Called
<1> QED
  BY <1>1, <1>2

\* It is sound: the transaction was decoded, its context is a part of the chain.
LEMMA CalledIsSound ==
  ASSUME Called, provider = "caller"
  PROVE  Sound(tx, fetched, Ledger) /\ Chain = Ledger /\ (Judged => Verdict = Validated(tx, fetched))
<1>1. PICK family \in Given : tx \in family.transactions /\ fetched \in family.contexts
  BY DEF Called
<1>2. IsTransaction(tx) /\ IsPartOf(fetched, Ledger)
  BY <1>1, GivenTyped
<1>3. ScriptsStand(tx)
  BY <1>1, FlatFormStands DEF ScriptsStand
<1>4. /\ Ledger.utxo \in [DOMAIN Ledger.utxo -> UtxoOutput]
      /\ \A m, n \in Ledger.committee : m.hot = n.hot /\ m.hot # None => m = n
  BY GivenTyped
<1>5. Chain = Ledger /\ (Judged => Verdict = Validated(tx, fetched))
  BY DEF Called, Chain, Judged, Verdict
<1> QED
  BY <1>2, <1>3, <1>4, <1>5 DEF Sound

\* So what it finds valid the ledger accepts.
LEMMA AcceptedByLedgerHolds ==
  ASSUME Called
  PROVE  AcceptedByLedger
<1> SUFFICES ASSUME Accepted PROVE WitnessesAccepted /\ BodyAccepted
  BY DEF AcceptedByLedger
<1>1. provider = "caller" /\ Judged /\ Accepts(Verdict)
  BY DEF Accepted
<1>2. Found(tx, fetched, Ledger) /\ Chain = Ledger
  BY <1>1, CalledIsSound DEF Found
<1>3. UtxowFailures(tx, Ledger) \subseteq Unlooked(tx)
  BY <1>2, WitnessesOfFound
<1>4. ScriptFailures(tx, Ledger) = {}
  BY <1>2, ScriptsOfFound
<1>5. /\ Named(tx) \subseteq DOMAIN Ledger.utxo
      /\ UtxoFailures(tx, Ledger) \subseteq {"ReturnTooBig", "ReturnNetwork"}
  BY <1>2, BodyOfFound
<1>6. /\ (\A c \in Certs(tx) : c.kind \notin Standing) => GovFailures(tx, Ledger) \subseteq {"Guardrail"}
      /\ fetched.constitution # NoConstitution => "Guardrail" \notin GovFailures(tx, Ledger)
  BY <1>2, GovernanceOfFound
<1>7. WitnessesAccepted
  BY <1>2, <1>3, <1>4, Zenon DEF WitnessesAccepted
<1>8. ~ChangesStanding => \A c \in Certs(tx) : c.kind \notin Standing
  BY DEF ChangesStanding, Standing
<1>9. BodyAccepted
  BY <1>2, <1>5, <1>6, <1>8 DEF BodyAccepted
<1> QED
  BY <1>7, <1>9

\* validateTransaction, given a context that is any part of the chain, finds no transaction
\* valid that breaks a rule of the ledger it looks at: whatever the transaction, the chain,
\* the scripts, the parameters and the part the context holds (validator.rs, and the
\* validators of phase 1 and phase 2 it calls).
THEOREM AcceptedOnlyIfLedgerAccepts == Spec => []AcceptedByLedger
<1>1. Called => AcceptedByLedger
  BY AcceptedByLedgerHolds
<1> QED
  BY <1>1, CalledAtFirst, CalledStays, PTL DEF Spec

\* So what it says is wrong the ledger finds wrong.
LEMMA ErrorsJustifiedHolds ==
  ASSUME Called
  PROVE  ErrorsJustified
<1> SUFFICES ASSUME Informed
             PROVE  /\ Justified(WitnessReasons) /\ Justified(ScriptReasons)
                    /\ Justified(BodyReasons) /\ Justified(GovernanceReasons)
                    /\ tx.redeemers # {} => Justified(CollateralReasons)
  BY DEF ErrorsJustified
<1>1. provider = "caller" /\ Judged /\ fetched = Chain /\ Named(tx) \subseteq DOMAIN Chain.utxo
  BY DEF Informed
<1>2. Sound(tx, fetched, Ledger) /\ Chain = Ledger /\ Verdict = Validated(tx, fetched)
  BY <1>1, CalledIsSound
<1>3. fetched = Ledger /\ Verdict = Validated(tx, Ledger) /\ Named(tx) \subseteq DOMAIN Ledger.utxo
  BY <1>1, <1>2
<1>4. Setting(tx, Ledger, Ledger)
  BY <1>2, <1>3 DEF Sound, Setting
<1>5. ~Validated(tx, Ledger).refused
  BY <1>1, <1>3 DEF Judged
<1>6. Stricter(tx, Chain) = Stricter(tx, Ledger)
  BY <1>2
<1>7. ASSUME NEW n \in Names(Verdict.errors) \ Stricter(tx, Chain)
      PROVE  /\ Stands(n, WitnessReasons, tx, Chain) /\ Stands(n, ScriptReasons, tx, Chain)
             /\ Stands(n, BodyReasons, tx, Chain) /\ Stands(n, GovernanceReasons, tx, Chain)
             /\ tx.redeemers # {} => Stands(n, CollateralReasons, tx, Chain)
  BY <1>2, <1>3, <1>4, <1>5, <1>6, ErrorsStand
<1>8. ASSUME NEW reasons, \A n \in Names(Verdict.errors) \ Stricter(tx, Chain) : Stands(n, reasons, tx, Chain)
      PROVE  Justified(reasons)
  BY <1>8 DEF Justified, Stands
<1> QED
  BY <1>7, <1>8

\* Given the whole chain, it says nothing is wrong that the ledger does not find wrong, but
\* where Stricter says it asks for more: whatever the transaction and the chain.
THEOREM ErrorsAreTheLedgers == Spec => []ErrorsJustified
<1>1. Called => ErrorsJustified
  BY ErrorsJustifiedHolds
<1> QED
  BY <1>1, CalledAtFirst, CalledStays, PTL DEF Spec
=================================================================================
