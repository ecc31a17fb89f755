------------------------------ MODULE Registry ------------------------------
(***************************************************************************)
(* The attestation side of the registry contract (contracts/registry):     *)
(* the entry of each asset, the permanent attestation history and the      *)
(* reserve observations.                                                   *)
(*                                                                         *)
(* A contract call is one atomic transaction: a call that returns an error *)
(* leaves no trace, so an action is enabled exactly when its call returns  *)
(* Ok, and its conjuncts are the call's checks in the order of the code.   *)
(*                                                                         *)
(* Hash functions are injective constructors: a context hash is the record *)
(* of what it hashes, a reserve set hash is the set, and a Merkle root is  *)
(* the set of identifiers of its leaves.                                   *)
(***************************************************************************)
EXTENDS Integers, Sequences, FiniteSets, Functions

CONSTANTS
  Asset,            \* token contracts that can register
  NativeAsset,      \* the asset contract of XLM
  Address,          \* accounts and contracts that hold balances and sign
  Signers,          \* the addresses that ever authorize a call
  ClassicIssuer,    \* the issuer of a classic asset, None for a contract token
  Admins,           \* the addresses a token ever names as its administrator
  ReserveLists,     \* the reserve vectors that a caller submits
  MaxReserves,      \* MAX_RESERVE_ADDRESSES
  Balances,         \* the balances that a token contract answers
  MaxI128,          \* the largest value of an i128
  MaxU32,           \* the largest ledger sequence
  MaxAge,           \* ATTESTATION_MAX_AGE_LEDGERS
  Modulus,          \* the scalar field has the elements 0 .. Modulus - 1
  LeafSets,         \* the liability trees that issuers prove
  Totals,           \* the liability totals that a proof carries
  MaxProofs,        \* bound: proofs made
  MaxAttestations,  \* bound: accepted attestations of one asset
  MaxObservations,  \* bound: observations of one asset
  None              \* no entry, no attestation, no balance, no issuer

ASSUME SignersAssumption == Signers \subseteq Address
ASSUME IssuerAssumption == /\ ClassicIssuer \in [Asset -> Address \cup {None}]
                           /\ Admins \in [Asset -> SUBSET Address]
                           /\ None \notin Address
ASSUME ListsAssumption == \A list \in ReserveLists : list \in Seq(Address)
ASSUME BalanceAssumption == Balances \subseteq Int /\ None \notin Balances
ASSUME WidthAssumption == MaxI128 \in Nat /\ MaxU32 \in Nat /\ MaxAge \in Nat
ASSUME FieldAssumption == /\ Modulus \in Nat \ {0, 1}
                          /\ LeafSets \subseteq SUBSET (0 .. Modulus - 1)
ASSUME BoundAssumption == /\ MaxReserves \in Nat
                          /\ MaxProofs \in Nat
                          /\ MaxAttestations \in Nat
                          /\ MaxObservations \in Nat

VARIABLES
  ledger,        \* the ledger sequence that the host answers
  proofs,        \* the terminal proofs that proving runs have made
  entry,         \* DataKey::Asset
  history,       \* DataKey::AttestationCount and DataKey::Attestation
  observations,  \* DataKey::Observation and the count of ObservationStatus
  firstLow       \* ObservationStatus::first_low_observation, 0 for none

registryVars == <<ledger, proofs, entry, history, observations, firstLow>>

-----------------------------------------------------------------------------
(* Values *)

Ledger == 0 .. MaxU32

\* The contract of a token can answer any balance, a negative one too.
I128 == -MaxI128 - 1 .. MaxI128

Fr == 0 .. Modulus - 1

\* A U256 argument. The range holds every field element and one alias of it,
\* which is the smallest range in which the host's reduction shows.
Word == 0 .. 2 * Modulus - 1

InField(word) == word < Modulus

\* What the host hashes for a word that is not a field element.
Reduce(word) == IF InField(word) THEN word ELSE word - Modulus

\* PADDING_LEAF_ID
Padding == 0

\* The leaves of the tree under a root, and whether the U256 that carries the
\* root is a field element.
Root == [leaves : LeafSets, in_field : BOOLEAN]

Tier == {"ClassicIssuer", "ContractAdministrator"}

Context == [authority : Address, asset : Asset,
            reserve_set_hash : SUBSET Address, snapshot_ledger : Ledger]

Attestation == [context_hash : Context, final_root : Root,
                total_liabilities : Totals, snapshot_ledger : Ledger,
                reserve_sum : I128, attested_ledger : Ledger]

\* A record or the empty AttestationSlot.
Slot == Attestation \cup {None}

Entry == [authority : Address, tier : Tier, reserves : Seq(Address),
          reserve_set_hash : SUBSET Address, attestation : Slot]

\* None is no record.
ASSUME NoneAssumption == None \notin Entry /\ None \notin Attestation

\* attestation_id is 0 when the reserve set has no attestation.
Observation == [observed_sum : I128, observed_ledger : Ledger,
                reserve_set_hash : SUBSET Address,
                attestation_id : Nat, below_attested : BOOLEAN]

\* The public inputs that a terminal proof proves.
Proof == [context : Context, leaves : LeafSets, total : Totals]

-----------------------------------------------------------------------------
(* Checks of the calls *)

Registered(a) == entry[a] # None

Authorized(address) == address \in Signers

\* reserve_set_hash: a set hash of 1 .. MaxReserves distinct addresses.
HashableReserves(reserves) ==
  /\ Len(reserves) \in 1 .. MaxReserves
  /\ IsInjective(reserves)

\* Faulty variant: the reserves do not sign.
ReservesUnsigned(reserves, authority) ==
  /\ authority \notin Range(reserves)
  /\ HashableReserves(reserves)
  /\ Authorized(authority)

AcceptableReserves(reserves, authority) ==
  /\ authority \notin Range(reserves)        \* reject_authority_as_reserve
  /\ HashableReserves(reserves)
  /\ Authorized(authority)
  /\ \A r \in Range(reserves) : Authorized(r)

\* The tier that register_asset verifies: the canonical contract of a classic
\* asset names its issuer, a token answers with its present administrator.
VerifiedTier(a, authority, tier) ==
  /\ a # NativeAsset
  /\ \/ tier = "ClassicIssuer" /\ ClassicIssuer[a] = authority
     \/ tier = "ContractAdministrator" /\ authority \in Admins[a]

\* context_hash, of the recorded authority and the recorded reserve set.
ContextHash(a, snapshot) ==
  [authority |-> entry[a].authority, asset |-> a,
   reserve_set_hash |-> entry[a].reserve_set_hash, snapshot_ledger |-> snapshot]

\* Faulty variant: the public inputs leave out the reserve set.
VerifyAnyReserves(context, root, total, proof) ==
  /\ proof.context.asset = context.asset
  /\ proof.context.snapshot_ledger = context.snapshot_ledger
  /\ proof.leaves = root.leaves
  /\ proof.total = total

\* verify: a proof of other public inputs is refused. The host reduces the
\* root, so the check cannot see whether the root is a field element.
Verify(context, root, total, proof) ==
  proof = [context |-> context, leaves |-> root.leaves, total |-> total]

\* The balances that the asset answers in this transaction; None is a failed
\* read. Tokens move freely between transactions.
BalanceReads(reserves) == [Range(reserves) -> Balances \cup {None}]

\* The total after the first n reserves.
PartialSum(reserves, reads, n) ==
  SumFunction([i \in 1 .. n |-> reads[reserves[i]]])

ReserveSum(reserves, reads) == PartialSum(reserves, reads, Len(reserves))

\* Faulty variant: an unchecked addition.
SumUnchecked(reserves, reads) == None \notin Range(reads)

\* A failed read and an addition that leaves an i128 fail the call.
SumAvailable(reserves, reads) ==
  /\ None \notin Range(reads)
  /\ \A n \in 0 .. Len(reserves) : PartialSum(reserves, reads, n) \in I128

\* saturating_add on a u32
SaturatingAdd(x, y) == IF x + y > MaxU32 THEN MaxU32 ELSE x + y

SnapshotInWindow(snapshot) ==
  /\ ledger >= snapshot
  /\ ledger <= SaturatingAdd(snapshot, MaxAge)

-----------------------------------------------------------------------------
(* Actions *)

Init ==
  /\ ledger = 0
  /\ proofs = {}
  /\ entry = [a \in Asset |-> None]
  /\ history = [a \in Asset |-> <<>>]
  /\ observations = [a \in Asset |-> <<>>]
  /\ firstLow = [a \in Asset |-> 0]

\* The network closes a ledger.
CloseLedger ==
  /\ ledger < MaxU32
  /\ ledger' = ledger + 1
  /\ UNCHANGED <<proofs, entry, history, observations, firstLow>>

\* A proving run of the issuer ends. It read the entry when it started, so its
\* proof can be stale when somebody submits it.
Prove(a, snapshot, leaves, total) ==
  /\ Registered(a)
  /\ Cardinality(proofs) < MaxProofs
  /\ proofs' = proofs \cup {[context |-> ContextHash(a, snapshot),
                             leaves |-> leaves, total |-> total]}
  /\ UNCHANGED <<ledger, entry, history, observations, firstLow>>

RegisterAsset(a, authority, tier, reserves) ==
  /\ ~Registered(a)
  /\ VerifiedTier(a, authority, tier)
  /\ AcceptableReserves(reserves, authority)
  /\ entry' = [entry EXCEPT ![a] =
       [authority |-> authority, tier |-> tier, reserves |-> reserves,
        reserve_set_hash |-> Range(reserves), attestation |-> None]]
  /\ UNCHANGED <<ledger, proofs, history, observations, firstLow>>

\* Faulty variant: the attestation survives the change of the set.
SetReservesKeepingSlot(a, reserves) ==
  /\ Registered(a)
  /\ AcceptableReserves(reserves, entry[a].authority)
  /\ entry' = [entry EXCEPT ![a] =
       [@ EXCEPT !.reserves = reserves, !.reserve_set_hash = Range(reserves)]]
  /\ UNCHANGED <<ledger, proofs, history, observations, firstLow>>

SetReserves(a, reserves) ==
  /\ Registered(a)
  /\ AcceptableReserves(reserves, entry[a].authority)
  /\ entry' = [entry EXCEPT ![a] =
       [@ EXCEPT !.reserves = reserves,
                 !.reserve_set_hash = Range(reserves),
                 !.attestation = None]]
  /\ UNCHANGED <<ledger, proofs, history, observations, firstLow>>

\* Faulty variant: a filled slot keeps its first attestation.
RecordFirst(a, attestation) ==
  /\ Len(history[a]) < MaxAttestations
  /\ history' = [history EXCEPT ![a] = Append(@, attestation)]
  /\ entry' = [entry EXCEPT ![a] = [@ EXCEPT !.attestation =
                                      IF @ = None THEN attestation ELSE @]]

\* The history append and the slot are written in the same transaction.
Record(a, attestation) ==
  /\ Len(history[a]) < MaxAttestations
  /\ history' = [history EXCEPT ![a] = Append(@, attestation)]
  /\ entry' = [entry EXCEPT ![a] = [@ EXCEPT !.attestation = attestation]]

SubmitAttestation(a, snapshot, root, total, proof) ==
  /\ Registered(a)
  /\ SnapshotInWindow(snapshot)
  /\ root.in_field
  /\ Authorized(entry[a].authority)
  /\ Verify(ContextHash(a, snapshot), root, total, proof)
  /\ \E reads \in BalanceReads(entry[a].reserves) :
       /\ SumAvailable(entry[a].reserves, reads)
       /\ Record(a, [context_hash |-> ContextHash(a, snapshot),
                     final_root |-> root,
                     total_liabilities |-> total,
                     snapshot_ledger |-> snapshot,
                     reserve_sum |-> ReserveSum(entry[a].reserves, reads),
                     attested_ledger |-> ledger])
  /\ UNCHANGED <<ledger, proofs, observations, firstLow>>

\* Faulty variant: the newest record, even of an earlier reserve set.
ComparedAlways(a) == Len(history[a])

\* The identifier of the attestation that an observation compares with.
ComparedAttestation(a) ==
  IF entry[a].attestation = None THEN 0 ELSE Len(history[a])

\* Faulty variant: every low observation replaces the first.
LatestLow(a, below, id) == IF below THEN id ELSE firstLow[a]

\* Faulty variant: a covered observation clears the mark.
ClearedLow(a, below, id) ==
  IF below THEN (IF firstLow[a] = 0 THEN id ELSE firstLow[a]) ELSE 0

FirstLow(a, below, id) == IF below /\ firstLow[a] = 0 THEN id ELSE firstLow[a]

ObserveReserves(a) ==
  LET id == Len(observations[a]) + 1
      compared == ComparedAttestation(a)
  IN /\ Registered(a)
     /\ id <= MaxObservations
     /\ \E reads \in BalanceReads(entry[a].reserves) :
          LET sum == ReserveSum(entry[a].reserves, reads)
              below == compared # 0 /\ sum < history[a][compared].reserve_sum
          IN /\ SumAvailable(entry[a].reserves, reads)
             /\ observations' = [observations EXCEPT ![a] = Append(@,
                  [observed_sum |-> sum, observed_ledger |-> ledger,
                   reserve_set_hash |-> entry[a].reserve_set_hash,
                   attestation_id |-> compared, below_attested |-> below])]
             /\ firstLow' = [firstLow EXCEPT ![a] = FirstLow(a, below, id)]
     /\ UNCHANGED <<ledger, proofs, entry, history>>

RegistryNext ==
  \/ CloseLedger
  \/ \E a \in Asset :
       \/ \E snapshot \in Ledger, leaves \in LeafSets, total \in Totals :
            Prove(a, snapshot, leaves, total)
       \/ \E authority \in Address, tier \in Tier, reserves \in ReserveLists :
            RegisterAsset(a, authority, tier, reserves)
       \/ \E reserves \in ReserveLists : SetReserves(a, reserves)
       \/ \E snapshot \in Ledger, root \in Root, total \in Totals,
             proof \in proofs :
            SubmitAttestation(a, snapshot, root, total, proof)
       \/ ObserveReserves(a)

RegistrySpec == Init /\ [][RegistryNext]_registryVars

-----------------------------------------------------------------------------
(* Properties *)

TypeOK ==
  /\ ledger \in Ledger
  /\ proofs \in SUBSET Proof
  /\ entry \in [Asset -> Entry \cup {None}]
  /\ history \in [Asset -> Seq(Attestation)]
  /\ observations \in [Asset -> Seq(Observation)]
  /\ firstLow \in [Asset -> Nat]

\* The slot of an entry, while it is filled, is the newest record of the
\* history, so observe_reserves, which looks only at the slot's tag and reads
\* history::count, compares with the attestation that entry() shows.
SlotIsNewestRecord ==
  \A a \in Asset :
    Registered(a) /\ entry[a].attestation # None =>
      /\ history[a] # <<>>
      /\ entry[a].attestation = history[a][Len(history[a])]

\* A filled slot speaks about the present reserve set: set_reserves empties
\* the slot, and a proof that was made before set_reserves is refused after
\* it, because submit_attestation derives the context from the entry.
SlotBindsReserves ==
  \A a \in Asset :
    Registered(a) /\ entry[a].attestation # None =>
      entry[a].attestation.context_hash =
        ContextHash(a, entry[a].attestation.snapshot_ledger)

\* What observe_reserves, entry() and a reader of the slot rely on.
SlotIsSound == SlotIsNewestRecord /\ SlotBindsReserves

\* Every accepted attestation states what some proof proves, for the declared
\* snapshot, under a canonical root, inside the age window of the snapshot.
AttestationsAreProved ==
  \A a \in Asset : \A n \in DOMAIN history[a] :
    LET h == history[a][n] IN
      /\ [context |-> h.context_hash, leaves |-> h.final_root.leaves,
          total |-> h.total_liabilities] \in proofs
      /\ h.context_hash.asset = a
      /\ h.context_hash.authority = entry[a].authority
      /\ h.context_hash.snapshot_ledger = h.snapshot_ledger
      /\ h.final_root.in_field
      /\ h.snapshot_ledger <= h.attested_ledger
      /\ h.attested_ledger - h.snapshot_ledger <= MaxAge

\* An observation compares like with like: its attestation exists, is not
\* younger, and summed the same reserve set, and the recorded comparison is
\* the comparison of the two recorded sums.
ObservationsCompareSameReserves ==
  \A a \in Asset : \A n \in DOMAIN observations[a] :
    LET o == observations[a][n] IN
      /\ o.attestation_id \in 0 .. Len(history[a])
      /\ o.attestation_id = 0 => ~o.below_attested
      /\ o.attestation_id # 0 =>
           LET h == history[a][o.attestation_id] IN
             /\ o.reserve_set_hash = h.context_hash.reserve_set_hash
             /\ h.attested_ledger <= o.observed_ledger
             /\ o.below_attested <=> o.observed_sum < h.reserve_sum

\* first_low_observation is the least low observation: it is set by the first
\* one and by no other, and it outlives later attestations and reserve sets.
FirstLowIsLeast ==
  \A a \in Asset :
    LET low == {n \in DOMAIN observations[a] :
                  observations[a][n].below_attested} IN
      /\ firstLow[a] = 0 <=> low = {}
      /\ firstLow[a] # 0 => firstLow[a] \in low /\ \A n \in low : firstLow[a] <= n

\* Only consenting addresses are bound: the authority and every reserve of an
\* entry signed, and the authority, who can create the asset, is no reserve.
EntriesAreConsented ==
  \A a \in Asset :
    Registered(a) =>
      /\ a # NativeAsset
      /\ entry[a].authority \in Signers \ entry[a].reserve_set_hash
      /\ entry[a].reserve_set_hash \subseteq Signers
      /\ entry[a].reserve_set_hash = Range(entry[a].reserves)
      /\ Cardinality(entry[a].reserve_set_hash) = Len(entry[a].reserves)

\* What a step keeps of the records of an asset.
KeepsRecords(a) ==
  /\ Registered(a) => /\ Registered(a)'
                      /\ entry'[a].authority = entry[a].authority
                      /\ entry'[a].tier = entry[a].tier
  /\ \A n \in DOMAIN history[a] :
       n \in DOMAIN history'[a] /\ history'[a][n] = history[a][n]
  /\ \A n \in DOMAIN observations[a] :
       n \in DOMAIN observations'[a] /\ observations'[a][n] = observations[a][n]
  /\ firstLow[a] # 0 => firstLow'[a] = firstLow[a]

\* What was recorded stays: an entry keeps its authority and its tier, and
\* attestations, observations and the first low observation are never
\* rewritten or removed, across every replacement of the reserve set.
RecordsArePermanent == [][\A a \in Asset : KeepsRecords(a)]_registryVars
=============================================================================
