------------------------------ MODULE Transaction ------------------------------
\* The shapes the validators of src/src/validators work on: a decoded transaction
\* (the serialization library's types, as the validators call them) and the context
\* of its validation (src/src/validators/input_contexts.rs).
\*
\* Hashes are numbers. A credential is a key hash or a script hash, so that a number
\* of Keys or of Scripts is one; 0 stands for what is absent or has no credential. A
\* UTxO reference is its rank in the ledger's order of inputs, and an account, a DRep
\* and a committee member are their credential.
EXTENDS NativeScripts, SequencesExt

CONSTANTS
  Keys,       \* key hashes
  Scripts,    \* script hashes
  Language,   \* the language of each: "native", "v1", "v2" or "v3"
  Tree,       \* a native script as the ledger reads it
  FlatForm,   \* and as read_script reads it
  Deep,       \* native scripts nested too deep for the serialization library
  Garbled,    \* a script reference that does not decode
  Predefined  \* the DReps "abstain" and "no confidence"

ASSUME HashesApart == /\ Keys \cap Scripts = {} /\ 0 \notin Keys \cup Scripts
                      /\ Garbled \notin Keys \cup Scripts \cup {0}
                      /\ Deep \subseteq {s \in Scripts : Language[s] = "native"}

None == 0
IsNative(s) == s \in Scripts /\ Language[s] = "native"
IsPlutus(s) == s \in Scripts /\ Language[s] # "native"

\* Certificate kinds, by what they name.
StakeKinds == {"StakeRegistration", "StakeDeregistration", "StakeDelegation",
  "StakeRegistrationAndDelegation", "StakeAndVoteDelegation", "VoteDelegation",
  "StakeVoteRegistrationAndDelegation", "VoteRegistrationAndDelegation"}
PoolKinds == {"StakeDelegation", "PoolRegistration", "PoolRetirement",
  "StakeRegistrationAndDelegation", "StakeAndVoteDelegation", "StakeVoteRegistrationAndDelegation"}
VoteKinds == {"StakeAndVoteDelegation", "StakeVoteRegistrationAndDelegation",
  "VoteDelegation", "VoteRegistrationAndDelegation"}
DRepKinds == {"DRepRegistration", "DRepDeregistration", "DRepUpdate"}
CommitteeKinds == {"CommitteeHotAuth", "CommitteeColdResign"}
\* Kinds signed by the pool's operator and owners, not by the certificate's credential.
PoolOwnKinds == {"PoolRegistration", "PoolRetirement"}
\* The registration of before Conway, without a deposit, is signed by nobody.
Unwitnessed(c) == c.kind = "StakeRegistration" /\ ~c.deposit

\* Actions that name the one enacted before them, and those under the guardrails.
LineageKinds == {"ParameterChangeAction", "HardForkInitiationAction", "NoConfidenceAction",
  "UpdateCommitteeAction", "NewConstitutionAction"}
GuardedKinds == {"ParameterChangeAction", "TreasuryWithdrawalsAction"}

\* find_utxo: what the context holds of a reference, when it holds it.
Known(refs, ctx) == refs \cap DOMAIN ctx.utxo
\* Cardano sorts inputs and withdrawals before redeemers index them
\* (build_sorted_input_index_map, build_sorted_withdrawal_index_map).
SortedIndex(set, e) == Cardinality({x \in set : x < e})

\* ---- get_necessary_data_list (validator.rs): what the caller must fetch from the chain before
\* ---- validate_transaction can judge a transaction

Certs(tx) == Range(tx.certs)
Proposals(tx) == Range(tx.proposals)

NecessaryUtxos(tx) == tx.inputs \cup tx.collateral \cup tx.references
\* Slip: the targets of a treasury withdrawal are left to the ledger.
NecessaryAccounts_NoTargets(tx) ==
  tx.withdrawals \cup {c.cred : c \in {d \in Certs(tx) : d.kind \in StakeKinds}}
  \cup {p.account : p \in Proposals(tx)}
NecessaryAccounts(tx) ==
  tx.withdrawals
  \cup {c.cred : c \in {d \in Certs(tx) : d.kind \in StakeKinds}}
  \cup {p.account : p \in Proposals(tx)}
  \cup UNION {p.targets : p \in {q \in Proposals(tx) : q.kind = "TreasuryWithdrawalsAction"}}
Voters(tx, role) == {v.cred : v \in {w \in Range(tx.votes) : w.role = role}}
NecessaryPools(tx) ==
  {c.pool : c \in {d \in Certs(tx) : d.kind \in PoolKinds}} \cup Voters(tx, "pool")
\* A DRep a vote is delegated to may be one of the predefined ones.
NecessaryDReps(tx) ==
  {c.cred : c \in {d \in Certs(tx) : d.kind \in DRepKinds}}
  \cup {c.drep : c \in {d \in Certs(tx) : d.kind \in VoteKinds}}
  \cup Voters(tx, "drep")
PreviousActions(tx) ==
  {p.prev : p \in {q \in Proposals(tx) : q.kind \in LineageKinds /\ q.prev # None}}
NecessaryActions(tx) == PreviousActions(tx) \cup UNION {v.actions : v \in Range(tx.votes)}
NecessaryEnacted(tx) == {p.kind : p \in Proposals(tx)}
NecessaryCold(tx) == {c.cred : c \in {d \in Certs(tx) : d.kind \in CommitteeKinds}}
NecessaryHot(tx) == Voters(tx, "committee")

Necessary(tx) ==
  [utxos |-> NecessaryUtxos(tx), accounts |-> NecessaryAccounts(tx), pools |-> NecessaryPools(tx),
   dreps |-> NecessaryDReps(tx), actions |-> NecessaryActions(tx), enacted |-> NecessaryEnacted(tx),
   cold |-> NecessaryCold(tx), hot |-> NecessaryHot(tx)]
=============================================================================
