--------------------------- MODULE ContractProofs ---------------------------
(***************************************************************************)
(* Theorems about the registry contract, for every number of assets,       *)
(* addresses, disputes and identifiers and every window, width and bound:  *)
(* first the attestation side alone, then the whole contract, the types    *)
(* and the names of the disputes, their settlement and the escrow that     *)
(* pays for it, the evidence that a dispute rests on, its outcome, its     *)
(* permanence, and the account of the contract, stroop by stroop.          *)
(*                                                                         *)
(* The sums of the escrow equations are cardinalities, so an equation is   *)
(* kept because a call adds or removes one block of elements. No bound on  *)
(* assets, addresses or disputes is needed: the sets are finite because    *)
(* every call adds a finite block.                                         *)
(***************************************************************************)
EXTENDS Disputes, FiniteSetTheorems, TLAPS

-----------------------------------------------------------------------------
(* The attestation side *)


\* The elements of an appended sequence, as all invariants on histories and
\* observations need them.
LEMMA AppendedElements ==
  ASSUME NEW S, NEW s \in Seq(S), NEW x \in S
  PROVE  /\ Append(s, x) \in Seq(S)
         /\ Len(Append(s, x)) = Len(s) + 1
         /\ DOMAIN Append(s, x) = 1 .. Len(s) + 1
         /\ DOMAIN s = 1 .. Len(s)
         /\ \A n \in DOMAIN s : Append(s, x)[n] = s[n]
         /\ Append(s, x)[Len(s) + 1] = x
  OBVIOUS

\* The addresses of a reserve vector are addresses.
LEMMA ReserveAddresses ==
  ASSUME NEW reserves \in ReserveLists
  PROVE  reserves \in Seq(Address) /\ Range(reserves) \in SUBSET Address
  <1>1. reserves \in Seq(Address)
    BY ListsAssumption
  <1>2. \A i \in DOMAIN reserves : reserves[i] \in Address
    BY <1>1
  <1>3. QED
    BY <1>1, <1>2 DEF Range

\* The context of a registered asset and a ledger is a context.
LEMMA ContextType ==
  ASSUME TypeOK, NEW a \in Asset, Registered(a), NEW snapshot \in Ledger
  PROVE  /\ entry[a] \in Entry
         /\ ContextHash(a, snapshot) \in Context
  <1>1. entry[a] \in Entry
    BY DEF TypeOK, Registered
  <1>2. QED
    BY <1>1 DEF Entry, Context, ContextHash

\* A sum that reserve_sum returns is an i128.
LEMMA SumType ==
  ASSUME TypeOK, NEW a \in Asset, Registered(a), NEW reads,
         SumAvailable(entry[a].reserves, reads)
  PROVE  ReserveSum(entry[a].reserves, reads) \in I128
  <1>1. entry[a].reserves \in Seq(Address)
    BY DEF TypeOK, Registered, Entry
  <1>2. Len(entry[a].reserves) \in 0 .. Len(entry[a].reserves)
    BY <1>1
  <1>3. QED
    BY <1>2 DEF SumAvailable, ReserveSum

\* Each call leaves storage well typed.
LEMMA TypeStep == TypeOK /\ [RegistryNext]_registryVars => TypeOK'
  <1> SUFFICES ASSUME TypeOK, [RegistryNext]_registryVars
               PROVE  TypeOK'
    OBVIOUS
  <1>1. CASE CloseLedger
    BY <1>1, WidthAssumption DEF CloseLedger, TypeOK, Ledger
  <1>2. ASSUME NEW a \in Asset, NEW snapshot \in Ledger, NEW leaves \in LeafSets,
               NEW total \in Totals, Prove(a, snapshot, leaves, total)
        PROVE  TypeOK'
    <2>1. ContextHash(a, snapshot) \in Context
      BY <1>2, ContextType DEF Prove
    <2>2. proofs' \in SUBSET Proof
      BY <1>2, <2>1 DEF Prove, TypeOK, Proof
    <2>3. QED
      BY <1>2, <2>2 DEF Prove, TypeOK
  <1>3. ASSUME NEW a \in Asset, NEW authority \in Address, NEW tier \in Tier,
               NEW reserves \in ReserveLists,
               RegisterAsset(a, authority, tier, reserves)
        PROVE  TypeOK'
    <2>1. [authority |-> authority, tier |-> tier, reserves |-> reserves,
           reserve_set_hash |-> Range(reserves), attestation |-> None] \in Entry
      BY ReserveAddresses DEF Entry, Slot
    <2>2. entry' \in [Asset -> Entry \cup {None}]
      BY <1>3, <2>1 DEF RegisterAsset, TypeOK
    <2>3. QED
      BY <1>3, <2>2 DEF RegisterAsset, TypeOK
  <1>4. ASSUME NEW a \in Asset, NEW reserves \in ReserveLists,
               SetReserves(a, reserves)
        PROVE  TypeOK'
    <2>1. entry[a] \in Entry
      BY <1>4 DEF SetReserves, TypeOK, Registered
    <2>2. [entry[a] EXCEPT !.reserves = reserves,
                           !.reserve_set_hash = Range(reserves),
                           !.attestation = None] \in Entry
      BY <2>1, ReserveAddresses DEF Entry, Slot
    <2>3. entry' \in [Asset -> Entry \cup {None}]
      BY <1>4, <2>2 DEF SetReserves, TypeOK
    <2>4. QED
      BY <1>4, <2>3 DEF SetReserves, TypeOK
  <1>5. ASSUME NEW a \in Asset, NEW snapshot \in Ledger, NEW root \in Root,
               NEW total \in Totals, NEW proof \in proofs,
               SubmitAttestation(a, snapshot, root, total, proof)
        PROVE  TypeOK'
    <2>1. entry[a] \in Entry /\ ContextHash(a, snapshot) \in Context
      BY <1>5, ContextType DEF SubmitAttestation
    <2>2. PICK reads \in BalanceReads(entry[a].reserves) :
            /\ SumAvailable(entry[a].reserves, reads)
            /\ Record(a, [context_hash |-> ContextHash(a, snapshot),
                          final_root |-> root,
                          total_liabilities |-> total,
                          snapshot_ledger |-> snapshot,
                          reserve_sum |-> ReserveSum(entry[a].reserves, reads),
                          attested_ledger |-> ledger])
      BY <1>5 DEF SubmitAttestation
    <2> DEFINE sum == ReserveSum(entry[a].reserves, reads)
               h == [context_hash |-> ContextHash(a, snapshot),
                     final_root |-> root, total_liabilities |-> total,
                     snapshot_ledger |-> snapshot, reserve_sum |-> sum,
                     attested_ledger |-> ledger]
    <2>3. h \in Attestation
      BY <1>5, <2>1, <2>2, SumType DEF SubmitAttestation, Attestation, TypeOK
    <2> HIDE DEF h
    <2>4. Record(a, h)
      BY <2>2 DEF h
    <2>5. history' \in [Asset -> Seq(Attestation)]
      BY <2>3, <2>4, AppendedElements DEF Record, TypeOK
    <2>6. [entry[a] EXCEPT !.attestation = h] \in Entry
      BY <2>1, <2>3 DEF Entry, Slot
    <2>7. entry' \in [Asset -> Entry \cup {None}]
      BY <2>4, <2>6 DEF Record, TypeOK
    <2>8. QED
      BY <1>5, <2>5, <2>7 DEF SubmitAttestation, TypeOK
  <1>6. ASSUME NEW a \in Asset, ObserveReserves(a)
        PROVE  TypeOK'
    <2>1. entry[a] \in Entry
      BY <1>6 DEF ObserveReserves, TypeOK, Registered
    <2>2. Len(history[a]) \in Nat /\ Len(observations[a]) \in Nat
      BY DEF TypeOK
    <2> DEFINE id == Len(observations[a]) + 1
               compared == ComparedAttestation(a)
    <2>3. compared \in Nat
      BY <2>2 DEF ComparedAttestation
    <2> HIDE DEF compared
    <2>4. PICK reads \in BalanceReads(entry[a].reserves) :
            LET sum == ReserveSum(entry[a].reserves, reads)
                below == compared # 0 /\ sum < history[a][compared].reserve_sum
            IN /\ SumAvailable(entry[a].reserves, reads)
               /\ observations' = [observations EXCEPT ![a] = Append(@,
                    [observed_sum |-> sum, observed_ledger |-> ledger,
                     reserve_set_hash |-> entry[a].reserve_set_hash,
                     attestation_id |-> compared, below_attested |-> below])]
               /\ firstLow' = [firstLow EXCEPT ![a] = FirstLow(a, below, id)]
      BY <1>6 DEF ObserveReserves, compared
    <2> DEFINE sum == ReserveSum(entry[a].reserves, reads)
               below == compared # 0 /\ sum < history[a][compared].reserve_sum
               o == [observed_sum |-> sum, observed_ledger |-> ledger,
                     reserve_set_hash |-> entry[a].reserve_set_hash,
                     attestation_id |-> compared, below_attested |-> below]
    <2>5. below \in BOOLEAN
      OBVIOUS
    <2> HIDE DEF below
    <2>6. o \in Observation
      <3>1. sum \in I128
        BY <1>6, <2>4, SumType DEF ObserveReserves
      <3>2. QED
        BY <2>1, <2>3, <2>5, <3>1 DEF Observation, Entry, TypeOK
    <2> HIDE DEF o
    <2>7. observations' \in [Asset -> Seq(Observation)]
      BY <2>4, <2>6, AppendedElements DEF TypeOK, o, below
    <2>8. firstLow' \in [Asset -> Nat]
      BY <2>2, <2>4 DEF TypeOK, FirstLow
    <2>9. QED
      BY <1>6, <2>7, <2>8 DEF ObserveReserves, TypeOK
  <1>7. CASE UNCHANGED registryVars
    BY <1>7 DEF registryVars, TypeOK
  <1>8. QED
    BY <1>1, <1>2, <1>3, <1>4, <1>5, <1>6, <1>7 DEF RegistryNext

\* Storage is well typed in every state of the attestation side.
THEOREM RegistryTypeCorrect == RegistrySpec => []TypeOK
  <1>1. Init => TypeOK
    BY WidthAssumption DEF Init, TypeOK, Ledger
  <1>2. QED
    BY <1>1, TypeStep, PTL DEF RegistrySpec

-----------------------------------------------------------------------------
(***************************************************************************)
(* What a step does to the recorded state, in four cases. The invariants   *)
(* below are proved from these cases instead of from the calls.            *)
(***************************************************************************)

\* A ledger closes or a proof is made.
Quiet ==
  /\ UNCHANGED <<entry, history, observations, firstLow>>
  /\ ledger' \in Ledger /\ ledger <= ledger'
  /\ proofs \subseteq proofs'

\* An entry gets a reserve set and an empty slot.
Rebinds(a, e) ==
  /\ e \in Entry
  /\ e.attestation = None
  /\ Registered(a) => e.authority = entry[a].authority
  /\ a = NativeAsset => Registered(a)
  /\ e.authority \in Signers \ e.reserve_set_hash
  /\ e.reserve_set_hash \subseteq Signers
  /\ e.reserve_set_hash = Range(e.reserves)
  /\ Cardinality(e.reserve_set_hash) = Len(e.reserves)
  /\ entry' = [entry EXCEPT ![a] = e]
  /\ UNCHANGED <<ledger, proofs, history, observations, firstLow>>

\* An attestation becomes the newest record and fills the slot.
Attests(a, h) ==
  /\ Registered(a)
  /\ h \in Attestation
  /\ h.context_hash = ContextHash(a, h.snapshot_ledger)
  /\ [context |-> h.context_hash, leaves |-> h.final_root.leaves,
      total |-> h.total_liabilities] \in proofs
  /\ h.final_root.in_field
  /\ h.attested_ledger = ledger
  /\ h.snapshot_ledger <= ledger /\ ledger - h.snapshot_ledger <= MaxAge
  /\ history' = [history EXCEPT ![a] = Append(@, h)]
  /\ entry' = [entry EXCEPT ![a] = [entry[a] EXCEPT !.attestation = h]]
  /\ UNCHANGED <<ledger, proofs, observations, firstLow>>

\* An observation is recorded.
Observes(a, o) ==
  /\ Registered(a)
  /\ o \in Observation
  /\ o.observed_ledger = ledger
  /\ o.reserve_set_hash = entry[a].reserve_set_hash
  /\ entry[a].attestation = None => o.attestation_id = 0 /\ ~o.below_attested
  /\ entry[a].attestation # None =>
       /\ o.attestation_id = Len(history[a])
       /\ Len(history[a]) # 0 =>
            (o.below_attested <=>
               o.observed_sum < history[a][Len(history[a])].reserve_sum)
  /\ observations' = [observations EXCEPT ![a] = Append(@, o)]
  /\ firstLow' = [firstLow EXCEPT
       ![a] = FirstLow(a, o.below_attested, Len(observations[a]) + 1)]
  /\ UNCHANGED <<ledger, proofs, entry, history>>

\* A vector of distinct addresses has as many elements as entries.
LEMMA DistinctReserves ==
  ASSUME NEW reserves \in Seq(Address), IsInjective(reserves)
  PROVE  Cardinality(Range(reserves)) = Len(reserves)
  <1> DEFINE n == Len(reserves)
  <1>1. n \in Nat /\ DOMAIN reserves = 1 .. n
    OBVIOUS
  <1>2. IsFiniteSet(1 .. n) /\ Cardinality(1 .. n) = n
    BY <1>1, FS_Interval
  <1>3. reserves \in [1 .. n -> Range(reserves)]
    BY <1>1 DEF Range
  <1>4. reserves \in Surjection(1 .. n, Range(reserves))
    BY <1>1, <1>3 DEF Surjection, Range
  <1>5. reserves \in Injection(1 .. n, Range(reserves))
    BY <1>3 DEF Injection
  <1>6. ExistsBijection(1 .. n, Range(reserves))
    BY <1>4, <1>5 DEF ExistsBijection, Bijection
  <1>7. QED
    BY <1>2, <1>6, FS_Bijection

\* The reserve checks that registration and replacement share.
LEMMA AcceptedReserves ==
  ASSUME NEW reserves \in ReserveLists, NEW authority \in Address,
         AcceptableReserves(reserves, authority)
  PROVE  /\ reserves \in Seq(Address)
         /\ Range(reserves) \in SUBSET Address
         /\ authority \in Signers \ Range(reserves)
         /\ Range(reserves) \subseteq Signers
         /\ Cardinality(Range(reserves)) = Len(reserves)
  BY ReserveAddresses, DistinctReserves
     DEF AcceptableReserves, HashableReserves, Authorized

\* Every step is one of the four cases.
LEMMA StepCases ==
  ASSUME TypeOK, [RegistryNext]_registryVars
  PROVE  \/ Quiet
         \/ \E a \in Asset : \E e : Rebinds(a, e)
         \/ \E a \in Asset : \E h : Attests(a, h)
         \/ \E a \in Asset : \E o : Observes(a, o)
  <1>1. CASE CloseLedger
    BY <1>1, WidthAssumption DEF CloseLedger, TypeOK, Ledger, Quiet
  <1>2. ASSUME NEW a \in Asset, NEW snapshot \in Ledger, NEW leaves \in LeafSets,
               NEW total \in Totals, Prove(a, snapshot, leaves, total)
        PROVE  Quiet
    BY <1>2 DEF Prove, TypeOK, Ledger, Quiet
  <1>3. ASSUME NEW a \in Asset, NEW authority \in Address, NEW tier \in Tier,
               NEW reserves \in ReserveLists,
               RegisterAsset(a, authority, tier, reserves)
        PROVE  \E e : Rebinds(a, e)
    <2> DEFINE e == [authority |-> authority, tier |-> tier,
                     reserves |-> reserves, reserve_set_hash |-> Range(reserves),
                     attestation |-> None]
    <2>1. AcceptableReserves(reserves, authority) /\ a # NativeAsset
      BY <1>3 DEF RegisterAsset, VerifiedTier
    <2>2. e \in Entry
      BY <2>1, AcceptedReserves DEF Entry, Slot
    <2>3. Rebinds(a, e)
      BY <1>3, <2>1, <2>2, AcceptedReserves DEF RegisterAsset, Rebinds
    <2>4. QED
      BY <2>3
  <1>4. ASSUME NEW a \in Asset, NEW reserves \in ReserveLists,
               SetReserves(a, reserves)
        PROVE  \E e : Rebinds(a, e)
    <2> DEFINE e == [entry[a] EXCEPT !.reserves = reserves,
                                     !.reserve_set_hash = Range(reserves),
                                     !.attestation = None]
    <2>1. entry[a] \in Entry
      BY <1>4 DEF SetReserves, TypeOK, Registered
    <2>2. entry[a].authority \in Address
      BY <2>1 DEF Entry
    <2>3. AcceptableReserves(reserves, entry[a].authority)
      BY <1>4 DEF SetReserves
    <2>4. /\ e \in Entry
          /\ e.authority = entry[a].authority
          /\ e.reserves = reserves
          /\ e.reserve_set_hash = Range(reserves)
          /\ e.attestation = None
      BY <2>1, <2>2, <2>3, AcceptedReserves DEF Entry, Slot
    <2>5. entry' = [entry EXCEPT ![a] = e] /\ Registered(a)
          /\ UNCHANGED <<ledger, proofs, history, observations, firstLow>>
      BY <1>4 DEF SetReserves
    <2> HIDE DEF e
    <2>6. Rebinds(a, e)
      BY <2>2, <2>3, <2>4, <2>5, AcceptedReserves DEF Rebinds
    <2>7. QED
      BY <2>6
  <1>5. ASSUME NEW a \in Asset, NEW snapshot \in Ledger, NEW root \in Root,
               NEW total \in Totals, NEW proof \in proofs,
               SubmitAttestation(a, snapshot, root, total, proof)
        PROVE  \E h : Attests(a, h)
    <2>1. ContextHash(a, snapshot) \in Context
      BY <1>5, ContextType DEF SubmitAttestation
    <2>2. PICK reads \in BalanceReads(entry[a].reserves) :
            /\ SumAvailable(entry[a].reserves, reads)
            /\ Record(a, [context_hash |-> ContextHash(a, snapshot),
                          final_root |-> root,
                          total_liabilities |-> total,
                          snapshot_ledger |-> snapshot,
                          reserve_sum |-> ReserveSum(entry[a].reserves, reads),
                          attested_ledger |-> ledger])
      BY <1>5 DEF SubmitAttestation
    <2> DEFINE h == [context_hash |-> ContextHash(a, snapshot),
                     final_root |-> root, total_liabilities |-> total,
                     snapshot_ledger |-> snapshot,
                     reserve_sum |-> ReserveSum(entry[a].reserves, reads),
                     attested_ledger |-> ledger]
    <2>3. h \in Attestation
      BY <1>5, <2>1, <2>2, SumType DEF SubmitAttestation, Attestation, TypeOK
    <2>4. snapshot <= ledger /\ ledger - snapshot <= MaxAge
      BY <1>5, WidthAssumption
         DEF SubmitAttestation, SnapshotInWindow, SaturatingAdd, TypeOK, Ledger
    <2>5. [context |-> ContextHash(a, snapshot), leaves |-> root.leaves,
           total |-> total] \in proofs
      BY <1>5 DEF SubmitAttestation, Verify
    <2>6. /\ h.context_hash = ContextHash(a, h.snapshot_ledger)
          /\ [context |-> h.context_hash, leaves |-> h.final_root.leaves,
              total |-> h.total_liabilities] \in proofs
          /\ h.final_root = root
          /\ h.attested_ledger = ledger /\ h.snapshot_ledger = snapshot
      BY <2>5
    <2>7. Record(a, h)
      BY <2>2
    <2>8. Registered(a) /\ root.in_field
          /\ UNCHANGED <<ledger, proofs, observations, firstLow>>
      BY <1>5 DEF SubmitAttestation
    <2> HIDE DEF h
    <2>9. Attests(a, h)
      BY <2>3, <2>4, <2>6, <2>7, <2>8 DEF Attests, Record
    <2>10. QED
      BY <2>9
  <1>6. ASSUME NEW a \in Asset, ObserveReserves(a)
        PROVE  \E o : Observes(a, o)
    <2> DEFINE id == Len(observations[a]) + 1
               compared == ComparedAttestation(a)
    <2>1. entry[a] \in Entry /\ Registered(a)
      BY <1>6 DEF ObserveReserves, TypeOK, Registered
    <2>2. /\ Len(history[a]) \in Nat
          /\ compared \in Nat
          /\ entry[a].attestation = None => compared = 0
          /\ entry[a].attestation # None => compared = Len(history[a])
      BY DEF TypeOK, ComparedAttestation
    <2>3. PICK reads \in BalanceReads(entry[a].reserves) :
            LET sum == ReserveSum(entry[a].reserves, reads)
                below == compared # 0 /\ sum < history[a][compared].reserve_sum
            IN /\ SumAvailable(entry[a].reserves, reads)
               /\ observations' = [observations EXCEPT ![a] = Append(@,
                    [observed_sum |-> sum, observed_ledger |-> ledger,
                     reserve_set_hash |-> entry[a].reserve_set_hash,
                     attestation_id |-> compared, below_attested |-> below])]
               /\ firstLow' = [firstLow EXCEPT ![a] = FirstLow(a, below, id)]
      BY <1>6 DEF ObserveReserves
    <2> HIDE DEF compared
    <2> DEFINE sum == ReserveSum(entry[a].reserves, reads)
               below == compared # 0 /\ sum < history[a][compared].reserve_sum
               o == [observed_sum |-> sum, observed_ledger |-> ledger,
                     reserve_set_hash |-> entry[a].reserve_set_hash,
                     attestation_id |-> compared, below_attested |-> below]
    <2>4. /\ below \in BOOLEAN
          /\ compared = 0 => ~below
          /\ compared # 0 => (below <=> sum < history[a][compared].reserve_sum)
          /\ sum \in I128
      BY <2>1, <2>3, SumType
    <2>5. /\ observations' = [observations EXCEPT ![a] = Append(@, o)]
          /\ firstLow' = [firstLow EXCEPT ![a] = FirstLow(a, below, id)]
      BY <2>3
    <2> HIDE DEF below, sum
    <2>6. /\ o \in Observation
          /\ o.observed_sum = sum /\ o.observed_ledger = ledger
          /\ o.reserve_set_hash = entry[a].reserve_set_hash
          /\ o.attestation_id = compared /\ o.below_attested = below
      BY <2>1, <2>2, <2>4 DEF Observation, Entry, TypeOK
    <2> HIDE DEF o
    <2>7. UNCHANGED <<ledger, proofs, entry, history>>
      BY <1>6 DEF ObserveReserves
    <2>8. entry[a].attestation = None => o.attestation_id = 0 /\ ~o.below_attested
      BY <2>2, <2>4, <2>6
    <2>9. entry[a].attestation # None =>
            /\ o.attestation_id = Len(history[a])
            /\ Len(history[a]) # 0 =>
                 (o.below_attested <=>
                    o.observed_sum < history[a][Len(history[a])].reserve_sum)
      BY <2>2, <2>4, <2>6
    <2>10. firstLow' = [firstLow EXCEPT
             ![a] = FirstLow(a, o.below_attested, Len(observations[a]) + 1)]
      BY <2>5, <2>6
    <2>11. Observes(a, o)
      BY <2>1, <2>5, <2>6, <2>7, <2>8, <2>9, <2>10 DEF Observes
    <2>12. QED
      BY <2>11
  <1>7. CASE UNCHANGED registryVars
    BY <1>7 DEF registryVars, TypeOK, Ledger, Quiet
  <1>8. QED
    BY <1>1, <1>2, <1>3, <1>4, <1>5, <1>6, <1>7 DEF RegistryNext

-----------------------------------------------------------------------------
(***************************************************************************)
(* The inductive invariant. SlotBindsReserves and SlotIsNewestRecord carry *)
(* the comparison that an observation records; HistoryIsPast says that a   *)
(* record is of a registered asset and not of a later ledger.              *)
(***************************************************************************)

HistoryIsPast ==
  \A a \in Asset :
    /\ ~Registered(a) => history[a] = <<>>
    /\ \A n \in DOMAIN history[a] : history[a][n].attested_ledger <= ledger

RegistryInv ==
  /\ TypeOK
  /\ HistoryIsPast
  /\ SlotIsNewestRecord
  /\ SlotBindsReserves
  /\ AttestationsAreProved
  /\ ObservationsCompareSameReserves
  /\ FirstLowIsLeast

\* What AttestationsAreProved says of one record h of the asset a.
ProvedRecord(a, h, made, authority) ==
  /\ [context |-> h.context_hash, leaves |-> h.final_root.leaves,
      total |-> h.total_liabilities] \in made
  /\ h.context_hash.asset = a
  /\ h.context_hash.authority = authority
  /\ h.context_hash.snapshot_ledger = h.snapshot_ledger
  /\ h.final_root.in_field
  /\ h.snapshot_ledger <= h.attested_ledger
  /\ h.attested_ledger - h.snapshot_ledger <= MaxAge

\* What ObservationsCompareSameReserves says of one observation.
SoundObservation(o, records) ==
  /\ o.attestation_id \in 0 .. Len(records)
  /\ o.attestation_id = 0 => ~o.below_attested
  /\ o.attestation_id # 0 =>
       LET h == records[o.attestation_id] IN
         /\ o.reserve_set_hash = h.context_hash.reserve_set_hash
         /\ h.attested_ledger <= o.observed_ledger
         /\ o.below_attested <=> o.observed_sum < h.reserve_sum

LEMMA ProvedRecords ==
  /\ AttestationsAreProved <=>
       \A a \in Asset : \A n \in DOMAIN history[a] :
         ProvedRecord(a, history[a][n], proofs, entry[a].authority)
  /\ AttestationsAreProved' <=>
       \A a \in Asset : \A n \in DOMAIN history'[a] :
         ProvedRecord(a, history'[a][n], proofs', entry'[a].authority)
  BY DEF AttestationsAreProved, ProvedRecord

LEMMA SoundObservations ==
  /\ ObservationsCompareSameReserves <=>
       \A a \in Asset : \A n \in DOMAIN observations[a] :
         SoundObservation(observations[a][n], history[a])
  /\ ObservationsCompareSameReserves' <=>
       \A a \in Asset : \A n \in DOMAIN observations'[a] :
         SoundObservation(observations'[a][n], history'[a])
  BY DEF ObservationsCompareSameReserves, SoundObservation

LEMMA RegistryInvInit == Init => RegistryInv
  <1> SUFFICES ASSUME Init PROVE RegistryInv
    OBVIOUS
  <1>1. TypeOK
    BY WidthAssumption DEF Init, TypeOK, Ledger
  <1>2. \A a \in Asset : /\ ~Registered(a)
                         /\ DOMAIN history[a] = {} /\ history[a] = <<>>
                         /\ DOMAIN observations[a] = {} /\ firstLow[a] = 0
    BY DEF Init, Registered
  <1>3. HistoryIsPast /\ SlotIsNewestRecord /\ SlotBindsReserves
    BY <1>2 DEF HistoryIsPast, SlotIsNewestRecord, SlotBindsReserves
  <1>4. AttestationsAreProved /\ ObservationsCompareSameReserves
    BY <1>2 DEF AttestationsAreProved, ObservationsCompareSameReserves
  <1>5. FirstLowIsLeast
    BY <1>2 DEF FirstLowIsLeast
  <1>6. QED
    BY <1>1, <1>3, <1>4, <1>5 DEF RegistryInv

\* A step without effect on the records keeps the invariant.
LEMMA QuietStep ==
  ASSUME RegistryInv, TypeOK', Quiet
  PROVE  RegistryInv'
  <1>1. HistoryIsPast'
    <2>1. ASSUME NEW a \in Asset, NEW n \in DOMAIN history[a]
          PROVE  history[a][n].attested_ledger <= ledger'
      <3>1. history[a][n] \in Attestation
        BY DEF RegistryInv, TypeOK
      <3>2. history[a][n].attested_ledger <= ledger
        BY DEF RegistryInv, HistoryIsPast
      <3>3. ledger \in Nat /\ ledger' \in Nat /\ ledger <= ledger'
        BY WidthAssumption DEF RegistryInv, TypeOK, Quiet, Ledger
      <3>4. QED
        BY <3>1, <3>2, <3>3 DEF Attestation, Ledger
    <2>2. QED
      BY <2>1 DEF RegistryInv, HistoryIsPast, Registered, Quiet
  <1>2. SlotIsNewestRecord'
    BY DEF RegistryInv, SlotIsNewestRecord, Registered, Quiet
  <1>3. SlotBindsReserves'
    BY DEF RegistryInv, SlotBindsReserves, Registered, ContextHash, Quiet
  <1>4. AttestationsAreProved'
    <2>1. ASSUME NEW a \in Asset, NEW n \in DOMAIN history[a]
          PROVE  ProvedRecord(a, history[a][n], proofs', entry[a].authority)
      BY ProvedRecords DEF RegistryInv, ProvedRecord, Quiet
    <2>2. QED
      BY <2>1, ProvedRecords DEF Quiet
  <1>5. ObservationsCompareSameReserves'
    BY DEF RegistryInv, ObservationsCompareSameReserves, Quiet
  <1>6. FirstLowIsLeast'
    BY DEF RegistryInv, FirstLowIsLeast, Quiet
  <1>7. QED
    BY <1>1, <1>2, <1>3, <1>4, <1>5, <1>6 DEF RegistryInv

\* A registration and a replacement of the reserves leave the slot empty.
LEMMA RebindStep ==
  ASSUME RegistryInv, TypeOK', NEW a \in Asset, NEW e, Rebinds(a, e)
  PROVE  RegistryInv'
  <1>1. /\ entry'[a] = e /\ e.attestation = None
        /\ \A b \in Asset \ {a} : entry'[b] = entry[b]
        /\ UNCHANGED <<ledger, proofs, history, observations, firstLow>>
        /\ Registered(a) => e.authority = entry[a].authority
    BY DEF RegistryInv, TypeOK, Rebinds
  <1>2. ~Registered(a) => history[a] = <<>> /\ DOMAIN history[a] = {}
    BY DEF RegistryInv, HistoryIsPast
  <1>3. Registered(a)' /\ \A b \in Asset \ {a} : Registered(b)' <=> Registered(b)
    BY <1>1, NoneAssumption DEF Registered, Rebinds
  <1>4. HistoryIsPast'
    BY <1>1, <1>3 DEF RegistryInv, HistoryIsPast
  <1>5. SlotIsNewestRecord'
    BY <1>1, <1>3 DEF RegistryInv, SlotIsNewestRecord
  <1>6. SlotBindsReserves'
    BY <1>1, <1>3 DEF RegistryInv, SlotBindsReserves, ContextHash
  <1>7. AttestationsAreProved'
    BY <1>1, <1>2 DEF RegistryInv, AttestationsAreProved
  <1>8. ObservationsCompareSameReserves'
    BY <1>1 DEF RegistryInv, ObservationsCompareSameReserves
  <1>9. FirstLowIsLeast'
    BY <1>1 DEF RegistryInv, FirstLowIsLeast
  <1>10. QED
    BY <1>4, <1>5, <1>6, <1>7, <1>8, <1>9 DEF RegistryInv

\* An attestation is the newest record and the slot at once.
LEMMA AttestStep ==
  ASSUME RegistryInv, TypeOK', NEW a \in Asset, NEW h, Attests(a, h)
  PROVE  RegistryInv'
  <1> DEFINE n == Len(history[a])
  <1>1. /\ entry[a] \in Entry /\ h \in Attestation /\ Registered(a)
        /\ history[a] \in Seq(Attestation) /\ n \in Nat
    BY DEF RegistryInv, TypeOK, Attests, Registered
  <1>2. /\ history'[a] = Append(history[a], h)
        /\ \A b \in Asset \ {a} : history'[b] = history[b] /\ entry'[b] = entry[b]
        /\ entry'[a] = [entry[a] EXCEPT !.attestation = h]
        /\ UNCHANGED <<ledger, proofs, observations, firstLow>>
    BY DEF RegistryInv, TypeOK, Attests
  <1>3. /\ entry'[a].attestation = h /\ h # None
        /\ entry'[a].authority = entry[a].authority
        /\ entry'[a].reserve_set_hash = entry[a].reserve_set_hash
        /\ entry'[a] \in Entry
    BY <1>1, <1>2, NoneAssumption DEF Entry, Slot
  <1>4. /\ DOMAIN history'[a] = 1 .. n + 1 /\ DOMAIN history[a] = 1 .. n
        /\ Len(history'[a]) = n + 1
        /\ \A i \in 1 .. n : history'[a][i] = history[a][i]
        /\ history'[a][n + 1] = h
    BY <1>1, <1>2, AppendedElements
  <1>5. \A b \in Asset : Registered(b)' <=> Registered(b)
    BY <1>1, <1>2, <1>3, NoneAssumption DEF Registered
  <1>6. /\ h.context_hash = ContextHash(a, h.snapshot_ledger)
        /\ [context |-> h.context_hash, leaves |-> h.final_root.leaves,
            total |-> h.total_liabilities] \in proofs
        /\ h.final_root.in_field
        /\ h.attested_ledger = ledger
        /\ h.snapshot_ledger <= ledger /\ ledger - h.snapshot_ledger <= MaxAge
    BY DEF Attests
  <1>7. HistoryIsPast'
    <2>1. ASSUME NEW i \in 1 .. n + 1
          PROVE  history'[a][i].attested_ledger <= ledger
      <3>1. CASE i = n + 1
        BY <3>1, <1>4, <1>6 DEF RegistryInv, TypeOK, Ledger
      <3>2. CASE i \in 1 .. n
        BY <3>2, <1>4 DEF RegistryInv, HistoryIsPast
      <3>3. QED
        BY <3>1, <3>2, <1>1
    <2>2. QED
      BY <2>1, <1>1, <1>2, <1>4, <1>5 DEF RegistryInv, HistoryIsPast
  <1>8. SlotIsNewestRecord'
    <2>1. history'[a] # <<>> /\ entry'[a].attestation = history'[a][Len(history'[a])]
      BY <1>1, <1>3, <1>4
    <2>2. QED
      BY <2>1, <1>2, <1>5 DEF RegistryInv, SlotIsNewestRecord
  <1>9. SlotBindsReserves'
    <2>1. ASSUME NEW b \in Asset, Registered(b)', entry'[b].attestation # None
          PROVE  entry'[b].attestation.context_hash =
                   [authority |-> entry'[b].authority, asset |-> b,
                    reserve_set_hash |-> entry'[b].reserve_set_hash,
                    snapshot_ledger |-> entry'[b].attestation.snapshot_ledger]
      <3>1. CASE b = a
        BY <3>1, <1>3, <1>6 DEF ContextHash
      <3>2. CASE b # a
        BY <3>2, <2>1, <1>2, <1>5
           DEF RegistryInv, SlotBindsReserves, ContextHash
      <3>3. QED
        BY <3>1, <3>2
    <2>2. QED
      BY <2>1 DEF SlotBindsReserves, ContextHash
  <1>10. AttestationsAreProved'
    <2>1. /\ h.context_hash.asset = a
          /\ h.context_hash.authority = entry[a].authority
          /\ h.context_hash.snapshot_ledger = h.snapshot_ledger
      BY <1>6 DEF ContextHash
    <2>2. ProvedRecord(a, h, proofs, entry[a].authority)
      BY <2>1, <1>6 DEF ProvedRecord
    <2>3. ASSUME NEW i \in 1 .. n + 1
          PROVE  ProvedRecord(a, history'[a][i], proofs, entry[a].authority)
      <3>1. CASE i = n + 1
        BY <3>1, <2>2, <1>4
      <3>2. CASE i \in 1 .. n
        BY <3>2, <1>4, ProvedRecords DEF RegistryInv
      <3>3. QED
        BY <3>1, <3>2, <1>1
    <2>4. ASSUME NEW b \in Asset \ {a}, NEW i \in DOMAIN history'[b]
          PROVE  ProvedRecord(b, history'[b][i], proofs', entry'[b].authority)
      BY <1>2, ProvedRecords DEF RegistryInv
    <2>5. ASSUME NEW i \in DOMAIN history'[a]
          PROVE  ProvedRecord(a, history'[a][i], proofs', entry'[a].authority)
      BY <2>3, <1>2, <1>3, <1>4
    <2>6. QED
      BY <2>4, <2>5, ProvedRecords
  <1>11. ObservationsCompareSameReserves'
    <2>1. ASSUME NEW i \in DOMAIN observations[a]
          PROVE  SoundObservation(observations[a][i], history'[a])
      <3> DEFINE o == observations[a][i]
      <3>1. SoundObservation(o, history[a])
        BY SoundObservations DEF RegistryInv
      <3> HIDE DEF o
      <3>2. o.attestation_id \in 0 .. n
        BY <3>1 DEF SoundObservation
      <3>3. o.attestation_id # 0 =>
              history'[a][o.attestation_id] = history[a][o.attestation_id]
        BY <3>2, <1>1, <1>4
      <3>4. o.attestation_id \in 0 .. Len(history'[a])
        BY <3>2, <1>1, <1>4
      <3>5. SoundObservation(o, history'[a])
        BY <3>1, <3>3, <3>4 DEF SoundObservation
      <3>6. QED
        BY <3>5 DEF o
    <2>2. ASSUME NEW b \in Asset, NEW i \in DOMAIN observations'[b]
          PROVE  SoundObservation(observations'[b][i], history'[b])
      <3>1. CASE b = a
        BY <3>1, <2>1, <1>2
      <3>2. CASE b # a
        BY <3>2, <1>2, SoundObservations DEF RegistryInv
      <3>3. QED
        BY <3>1, <3>2
    <2>3. QED
      BY <2>2, SoundObservations
  <1>12. FirstLowIsLeast'
    BY <1>2 DEF RegistryInv, FirstLowIsLeast
  <1>13. QED
    BY <1>7, <1>8, <1>9, <1>10, <1>11, <1>12 DEF RegistryInv

\* An observation compares with the newest record, and only while the slot
\* says that this record is of the present reserve set.
LEMMA ObserveStep ==
  ASSUME RegistryInv, TypeOK', NEW a \in Asset, NEW o, Observes(a, o)
  PROVE  RegistryInv'
  <1> DEFINE n == Len(observations[a])
             m == Len(history[a])
  <1>1. /\ entry[a] \in Entry /\ o \in Observation /\ Registered(a)
        /\ observations[a] \in Seq(Observation) /\ n \in Nat
        /\ history[a] \in Seq(Attestation) /\ m \in Nat
        /\ firstLow[a] \in Nat
    BY DEF RegistryInv, TypeOK, Observes, Registered
  <1>2. /\ observations'[a] = Append(observations[a], o)
        /\ firstLow'[a] = FirstLow(a, o.below_attested, n + 1)
        /\ \A b \in Asset \ {a} : /\ observations'[b] = observations[b]
                                  /\ firstLow'[b] = firstLow[b]
        /\ UNCHANGED <<ledger, proofs, entry, history>>
    BY DEF RegistryInv, TypeOK, Observes
  <1>3. /\ DOMAIN observations'[a] = 1 .. n + 1
        /\ DOMAIN observations[a] = 1 .. n
        /\ \A i \in 1 .. n : observations'[a][i] = observations[a][i]
        /\ observations'[a][n + 1] = o
    BY <1>1, <1>2, AppendedElements
  <1>4. HistoryIsPast'
    BY <1>2 DEF RegistryInv, HistoryIsPast, Registered
  <1>5. SlotIsNewestRecord'
    BY <1>2 DEF RegistryInv, SlotIsNewestRecord, Registered
  <1>6. SlotBindsReserves'
    BY <1>2 DEF RegistryInv, SlotBindsReserves, Registered, ContextHash
  <1>7. AttestationsAreProved'
    BY <1>2, ProvedRecords DEF RegistryInv
  <1>8. ObservationsCompareSameReserves'
    <2>1. SoundObservation(o, history[a])
      <3>1. CASE entry[a].attestation = None
        BY <3>1, <1>1 DEF Observes, SoundObservation
      <3>2. CASE entry[a].attestation # None
        <4>1. /\ m # 0 /\ m \in DOMAIN history[a]
              /\ entry[a].attestation = history[a][m]
          BY <3>2, <1>1 DEF RegistryInv, SlotIsNewestRecord
        <4>2. history[a][m].context_hash.reserve_set_hash =
                entry[a].reserve_set_hash
          <5>1. entry[a].attestation.context_hash =
                  ContextHash(a, entry[a].attestation.snapshot_ledger)
            BY <3>2, <1>1 DEF RegistryInv, SlotBindsReserves
          <5>2. entry[a].attestation.context_hash.reserve_set_hash =
                  entry[a].reserve_set_hash
            BY <5>1 DEF ContextHash
          <5>3. QED
            BY <5>2, <4>1
        <4>3. history[a][m].attested_ledger <= ledger
          BY <4>1 DEF RegistryInv, HistoryIsPast
        <4>4. /\ o.attestation_id = m
              /\ o.below_attested <=> o.observed_sum < history[a][m].reserve_sum
              /\ o.observed_ledger = ledger
              /\ o.reserve_set_hash = entry[a].reserve_set_hash
          BY <3>2, <4>1 DEF Observes
        <4>5. QED
          <5>1. o.attestation_id \in 0 .. m /\ o.attestation_id # 0
            BY <4>1, <4>4, <1>1
          <5>2. o.reserve_set_hash =
                  history[a][o.attestation_id].context_hash.reserve_set_hash
            BY <4>2, <4>4
          <5>3. history[a][o.attestation_id].attested_ledger <= o.observed_ledger
            BY <4>3, <4>4
          <5>4. o.below_attested <=>
                  o.observed_sum < history[a][o.attestation_id].reserve_sum
            BY <4>4
          <5>5. QED
            BY <5>1, <5>2, <5>3, <5>4 DEF SoundObservation
      <3>3. QED
        BY <3>1, <3>2
    <2>2. ASSUME NEW i \in 1 .. n + 1
          PROVE  SoundObservation(observations'[a][i], history[a])
      <3>1. CASE i = n + 1
        BY <3>1, <2>1, <1>3
      <3>2. CASE i \in 1 .. n
        BY <3>2, <1>3, SoundObservations DEF RegistryInv
      <3>3. QED
        BY <3>1, <3>2, <1>1
    <2>3. ASSUME NEW b \in Asset, NEW i \in DOMAIN observations'[b]
          PROVE  SoundObservation(observations'[b][i], history'[b])
      <3>1. CASE b = a
        BY <3>1, <2>2, <1>2, <1>3
      <3>2. CASE b # a
        BY <3>2, <1>2, SoundObservations DEF RegistryInv
      <3>3. QED
        BY <3>1, <3>2
    <2>4. QED
      BY <2>3, SoundObservations
  <1>9. FirstLowIsLeast'
    <2> DEFINE low == {i \in 1 .. n : observations[a][i].below_attested}
               low1 == {i \in 1 .. n + 1 : observations'[a][i].below_attested}
    <2>1. /\ firstLow[a] = 0 <=> low = {}
          /\ firstLow[a] # 0 =>
               firstLow[a] \in low /\ \A i \in low : firstLow[a] <= i
      BY <1>3 DEF RegistryInv, FirstLowIsLeast
    <2>2. low1 = IF o.below_attested THEN low \cup {n + 1} ELSE low
      BY <1>1, <1>3
    <2>3. \A i \in low : i <= n
      BY <1>1
    <2> HIDE DEF low, low1
    <2>4. /\ firstLow'[a] = 0 <=> low1 = {}
          /\ firstLow'[a] # 0 =>
               firstLow'[a] \in low1 /\ \A i \in low1 : firstLow'[a] <= i
      <3>1. CASE ~o.below_attested
        BY <3>1, <2>1, <2>2, <1>2 DEF FirstLow
      <3>2. CASE o.below_attested /\ firstLow[a] = 0
        BY <3>2, <2>1, <2>2, <1>1, <1>2 DEF FirstLow
      <3>3. CASE o.below_attested /\ firstLow[a] # 0
        <4>1. firstLow'[a] = firstLow[a] /\ firstLow[a] <= n
          BY <3>3, <2>1, <2>3, <1>2 DEF FirstLow
        <4>2. QED
          BY <3>3, <4>1, <2>1, <2>2, <1>1
      <3>4. QED
        BY <3>1, <3>2, <3>3
    <2>5. ASSUME NEW b \in Asset
          PROVE  LET all == {i \in DOMAIN observations'[b] :
                               observations'[b][i].below_attested} IN
                   /\ firstLow'[b] = 0 <=> all = {}
                   /\ firstLow'[b] # 0 =>
                        firstLow'[b] \in all /\ \A i \in all : firstLow'[b] <= i
      <3>1. CASE b = a
        BY <3>1, <2>4, <1>3 DEF low1
      <3>2. CASE b # a
        BY <3>2, <1>2 DEF RegistryInv, FirstLowIsLeast
      <3>3. QED
        BY <3>1, <3>2
    <2>6. QED
      BY <2>5 DEF FirstLowIsLeast
  <1>10. QED
    BY <1>4, <1>5, <1>6, <1>7, <1>8, <1>9 DEF RegistryInv

\* Every call keeps the invariant.
LEMMA RegistryInvStep == RegistryInv /\ [RegistryNext]_registryVars => RegistryInv'
  <1> SUFFICES ASSUME RegistryInv, [RegistryNext]_registryVars
               PROVE  RegistryInv'
    OBVIOUS
  <1>1. TypeOK /\ TypeOK'
    BY TypeStep DEF RegistryInv
  <1>2. QED
    BY <1>1, StepCases, QuietStep, RebindStep, AttestStep, ObserveStep

LEMMA RegistryInvariant == RegistrySpec => []RegistryInv
  BY RegistryInvInit, RegistryInvStep, PTL DEF RegistrySpec

\* entry() and the history never disagree about the newest attestation, and
\* what the slot holds was attested for the reserve set of the entry: no order
\* of proving, submitting and set_reserves makes an attestation of an earlier
\* reserve set look current.
THEOREM SlotIsCurrent == RegistrySpec => []SlotIsSound
  <1>1. RegistryInv => SlotIsSound
    BY DEF RegistryInv, SlotIsSound
  <1>2. QED
    BY <1>1, RegistryInvariant, PTL

\* Every record of submit_attestation is backed by a terminal proof of exactly
\* its public inputs, inside the age window, for every width of the ledger
\* sequence: the saturated end of the window never admits an older snapshot.
THEOREM RecordsAreProved == RegistrySpec => []AttestationsAreProved
  <1>1. RegistryInv => AttestationsAreProved
    BY DEF RegistryInv
  <1>2. QED
    BY <1>1, RegistryInvariant, PTL

\* observe_reserves compares with an attestation of the reserve set it sums.
THEOREM ObservationsAreSound == RegistrySpec => []ObservationsCompareSameReserves
  <1>1. RegistryInv => ObservationsCompareSameReserves
    BY DEF RegistryInv
  <1>2. QED
    BY <1>1, RegistryInvariant, PTL

\* first_low_observation is the least low observation of the asset.
THEOREM FirstLowCorrect == RegistrySpec => []FirstLowIsLeast
  <1>1. RegistryInv => FirstLowIsLeast
    BY DEF RegistryInv
  <1>2. QED
    BY <1>1, RegistryInvariant, PTL

-----------------------------------------------------------------------------

\* An entry keeps the consent of the addresses that it binds in every step.
LEMMA ConsentStep ==
  TypeOK /\ EntriesAreConsented /\ [RegistryNext]_registryVars
    => EntriesAreConsented'
  <1> SUFFICES ASSUME TypeOK, EntriesAreConsented, [RegistryNext]_registryVars
               PROVE  EntriesAreConsented'
    OBVIOUS
  <1>1. CASE UNCHANGED entry
    BY <1>1 DEF EntriesAreConsented, Registered
  <1>2. ASSUME NEW a \in Asset, NEW e, Rebinds(a, e)
        PROVE  EntriesAreConsented'
    <2>1. /\ entry'[a] = e
          /\ \A b \in Asset \ {a} : entry'[b] = entry[b]
      BY <1>2 DEF TypeOK, Rebinds
    <2>2. /\ a # NativeAsset
          /\ e.authority \in Signers \ e.reserve_set_hash
          /\ e.reserve_set_hash \subseteq Signers
          /\ e.reserve_set_hash = Range(e.reserves)
          /\ Cardinality(e.reserve_set_hash) = Len(e.reserves)
      BY <1>2 DEF EntriesAreConsented, Rebinds
    <2>3. QED
      BY <2>1, <2>2 DEF EntriesAreConsented, Registered
  <1>3. ASSUME NEW a \in Asset, NEW h, Attests(a, h)
        PROVE  EntriesAreConsented'
    <2>1. entry[a] \in Entry /\ Registered(a)
      BY <1>3 DEF TypeOK, Registered, Attests
    <2>2. /\ entry'[a] = [entry[a] EXCEPT !.attestation = h]
          /\ \A b \in Asset \ {a} : entry'[b] = entry[b]
      BY <1>3 DEF TypeOK, Attests
    <2>3. /\ entry'[a].authority = entry[a].authority
          /\ entry'[a].reserves = entry[a].reserves
          /\ entry'[a].reserve_set_hash = entry[a].reserve_set_hash
      BY <2>1, <2>2 DEF Entry
    <2>4. QED
      BY <2>1, <2>2, <2>3 DEF EntriesAreConsented, Registered
  <1>4. QED
    BY <1>1, <1>2, <1>3, StepCases DEF Quiet, Observes

\* register_asset and set_reserves bind an address only with its signature,
\* and no later call binds another one.
THEOREM ConsentIsKept == RegistrySpec => []EntriesAreConsented
  <1>1. Init => TypeOK /\ EntriesAreConsented
    BY WidthAssumption DEF Init, TypeOK, Ledger, EntriesAreConsented, Registered
  <1>2. QED
    BY <1>1, TypeStep, ConsentStep, PTL DEF RegistrySpec

\* What submit_attestation records is an attestation.
LEMMA SubmittedRecord ==
  ASSUME TypeOK, NEW a \in Asset, NEW snapshot \in Ledger, NEW root \in Root,
         NEW total \in Totals, NEW proof \in proofs,
         SubmitAttestation(a, snapshot, root, total, proof)
  PROVE  \E h \in Attestation : Record(a, h)
  <1>1. PICK reads \in BalanceReads(entry[a].reserves) :
          /\ SumAvailable(entry[a].reserves, reads)
          /\ Record(a, [context_hash |-> ContextHash(a, snapshot),
                        final_root |-> root,
                        total_liabilities |-> total,
                        snapshot_ledger |-> snapshot,
                        reserve_sum |-> ReserveSum(entry[a].reserves, reads),
                        attested_ledger |-> ledger])
    BY DEF SubmitAttestation
  <1>2. ContextHash(a, snapshot) \in Context
    BY ContextType DEF SubmitAttestation
  <1>3. [context_hash |-> ContextHash(a, snapshot), final_root |-> root,
         total_liabilities |-> total, snapshot_ledger |-> snapshot,
         reserve_sum |-> ReserveSum(entry[a].reserves, reads),
         attested_ledger |-> ledger] \in Attestation
    BY <1>1, <1>2, SumType DEF SubmitAttestation, Attestation, TypeOK
  <1>4. QED
    BY <1>1, <1>3

\* A step appends to the records of one asset at most and rewrites none.
LEMMA KeepStep ==
  ASSUME TypeOK, [RegistryNext]_registryVars, NEW b \in Asset
  PROVE  KeepsRecords(b)
  <1> USE DEF KeepsRecords, Registered
  <1>1. CASE UNCHANGED <<entry, history, observations, firstLow>>
    BY <1>1
  <1>2. ASSUME NEW a \in Asset, NEW authority \in Address, NEW tier \in Tier,
               NEW reserves \in ReserveLists,
               RegisterAsset(a, authority, tier, reserves)
        PROVE  KeepsRecords(b)
    BY <1>2 DEF RegisterAsset, TypeOK
  <1>3. ASSUME NEW a \in Asset, NEW reserves \in ReserveLists,
               SetReserves(a, reserves)
        PROVE  KeepsRecords(b)
    <2>1. entry[a] \in Entry
      BY <1>3 DEF SetReserves, TypeOK
    <2>2. /\ entry'[a] = [entry[a] EXCEPT !.reserves = reserves,
                           !.reserve_set_hash = Range(reserves),
                           !.attestation = None]
          /\ b # a => entry'[b] = entry[b]
          /\ UNCHANGED <<history, observations, firstLow>>
      BY <1>3 DEF SetReserves, TypeOK
    <2>3. /\ entry'[a].authority = entry[a].authority
          /\ entry'[a].tier = entry[a].tier
      BY <2>1, <2>2 DEF Entry
    <2>4. entry'[a] # None
      <3>1. [entry[a] EXCEPT !.reserves = reserves,
                             !.reserve_set_hash = Range(reserves),
                             !.attestation = None] \in Entry
        BY <2>1, ReserveAddresses DEF Entry, Slot
      <3>2. QED
        BY <3>1, <2>2, NoneAssumption
    <2>5. QED
      BY <2>2, <2>3, <2>4
  <1>4. ASSUME NEW a \in Asset, NEW snapshot \in Ledger, NEW root \in Root,
               NEW total \in Totals, NEW proof \in proofs,
               SubmitAttestation(a, snapshot, root, total, proof)
        PROVE  KeepsRecords(b)
    <2>1. entry[a] \in Entry /\ history[a] \in Seq(Attestation)
      BY <1>4 DEF SubmitAttestation, TypeOK
    <2>2. PICK h \in Attestation :
            /\ history' = [history EXCEPT ![a] = Append(@, h)]
            /\ entry' = [entry EXCEPT ![a] = [@ EXCEPT !.attestation = h]]
      BY <1>4, SubmittedRecord DEF Record
    <2>3. /\ entry'[a] = [entry[a] EXCEPT !.attestation = h]
          /\ history'[a] = Append(history[a], h)
          /\ b # a => entry'[b] = entry[b] /\ history'[b] = history[b]
          /\ UNCHANGED <<observations, firstLow>>
      BY <1>4, <2>2 DEF SubmitAttestation, TypeOK
    <2>4. /\ entry'[a].authority = entry[a].authority
          /\ entry'[a].tier = entry[a].tier
          /\ DOMAIN entry'[a] = DOMAIN entry[a]
      BY <2>1, <2>3 DEF Entry
    <2>5. [entry[a] EXCEPT !.attestation = h] \in Entry
      BY <2>1, <2>2 DEF Entry, Slot
    <2>6. entry'[a] # None
      BY <2>3, <2>5, NoneAssumption
    <2>7. \A n \in DOMAIN history[a] :
            n \in DOMAIN history'[a] /\ history'[a][n] = history[a][n]
      BY <2>1, <2>3
    <2>8. QED
      BY <2>3, <2>4, <2>6, <2>7
  <1>5. ASSUME NEW a \in Asset, ObserveReserves(a)
        PROVE  KeepsRecords(b)
    <2>1. observations[a] \in Seq(Observation)
      BY DEF TypeOK
    <2>2. PICK o, below :
            /\ observations' = [observations EXCEPT ![a] = Append(@, o)]
            /\ firstLow' = [firstLow EXCEPT
                 ![a] = FirstLow(a, below, Len(observations[a]) + 1)]
      BY <1>5 DEF ObserveReserves
    <2>3. /\ observations'[a] = Append(observations[a], o)
          /\ firstLow[a] # 0 => firstLow'[a] = firstLow[a]
          /\ b # a => observations'[b] = observations[b] /\ firstLow'[b] = firstLow[b]
          /\ UNCHANGED <<entry, history>>
      BY <1>5, <2>2 DEF ObserveReserves, FirstLow, TypeOK
    <2>4. \A n \in DOMAIN observations[a] :
            /\ n \in DOMAIN observations'[a]
            /\ observations'[a][n] = observations[a][n]
      BY <2>1, <2>3
    <2>5. QED
      BY <2>3, <2>4
  <1>6. QED
    BY <1>1, <1>2, <1>3, <1>4, <1>5
       DEF RegistryNext, registryVars, CloseLedger, Prove

\* No call of the attestation side rewrites or removes a record.
THEOREM RecordsStay == RegistrySpec => RecordsArePermanent
  <1>1. TypeOK /\ [RegistryNext]_registryVars
          => [\A a \in Asset : KeepsRecords(a)]_registryVars
    BY KeepStep
  <1>2. QED
    BY <1>1, RegistryTypeCorrect, PTL DEF RegistrySpec, RecordsArePermanent

-----------------------------------------------------------------------------
(* The disputes *)

\* No dispute call touches what the attestation side keeps.
LEMMA RegistryStep == [Next]_vars => [RegistryNext]_registryVars
  <1>1. ASSUME DisputeNext PROVE UNCHANGED registryVars
    <2>1. ASSUME NEW a, NEW disputer, NEW target, NEW evidence,
                 OpenDispute(a, disputer, target, evidence)
          PROVE  UNCHANGED registryVars
      BY <2>1 DEF OpenDispute
    <2>2. ASSUME NEW a, NEW target_id, NEW id, AnswerDispute(a, target_id, id)
          PROVE  UNCHANGED registryVars
      BY <2>2 DEF AnswerDispute
    <2>3. ASSUME NEW key, ResolveDispute(key)
          PROVE  UNCHANGED registryVars
      BY <2>3 DEF ResolveDispute
    <2>4. ASSUME NEW a, NEW amount, FundBond(a, amount)
          PROVE  UNCHANGED registryVars
      BY <2>4 DEF FundBond
    <2>5. ASSUME NEW a, RegisterDkimKey(a)
          PROVE  UNCHANGED registryVars
      BY <2>5 DEF RegisterDkimKey
    <2>6. QED
      BY <1>1, <2>1, <2>2, <2>3, <2>4, <2>5 DEF DisputeNext
  <1>2. UNCHANGED vars => UNCHANGED registryVars
    BY DEF vars
  <1>3. QED
    BY <1>1, <1>2 DEF Next

\* No dispute call touches what the attestation side keeps, so every theorem
\* about RegistrySpec holds of the whole contract.
THEOREM ContractKeepsRegistry == Spec => RegistrySpec
  <1>1. DisputesInit => Init
    BY DEF DisputesInit
  <1>2. QED
    BY <1>1, RegistryStep, PTL DEF Spec, RegistrySpec

-----------------------------------------------------------------------------

\* A transfer of the native asset leaves no negative balance.
LEMMA TransferType ==
  ASSUME xlm \in [Address \cup {Contract} -> Nat],
         NEW from \in Address \cup {Contract},
         NEW to \in Address \cup {Contract},
         NEW amount \in Nat, Transfer(from, to, amount)
  PROVE  xlm' \in [Address \cup {Contract} -> Nat]
  <1>1. xlm[from] \in Nat /\ xlm[from] >= amount /\ xlm[from] - amount \in Nat
    BY DEF Transfer
  <1>2. DOMAIN xlm' = Address \cup {Contract}
    BY DEF Transfer
  <1>3. ASSUME NEW x \in Address \cup {Contract}
        PROVE  xlm'[x] \in Nat
    BY <1>1 DEF Transfer
  <1>4. xlm' = [x \in Address \cup {Contract} |-> xlm'[x]]
    BY <1>2 DEF Transfer
  <1>5. QED
    BY <1>3, <1>4

\* The authority of a registered asset is an address.
LEMMA AuthorityType ==
  ASSUME TypeOK, NEW a \in Asset, Registered(a)
  PROVE  entry[a].authority \in Address
  BY DEF TypeOK, Registered, Entry

\* Evidence that open_dispute accepts names a field element.
LEMMA EvidenceCanonical ==
  ASSUME NEW a, NEW target, NEW evidence, EvidenceHolds(a, target, evidence)
  PROVE  evidence.id # Padding /\ InField(evidence.id)
  BY DEF EvidenceHolds, Inclusion, EmailVerify

\* What one step does to the dispute records: nothing, a new record under a
\* fresh key with a canonical identifier, or a new value under an old key.
Opens(key, d) ==
  /\ key \in DisputeKey
  /\ d \in Dispute
  /\ key[3] # Padding /\ InField(key[3])
  /\ DOMAIN disputes' = DOMAIN disputes \cup {key}
  /\ disputes'[key] = d
  /\ \A k \in DOMAIN disputes \ {key} : disputes'[k] = disputes[k]

Settles(key, d) ==
  /\ key \in DOMAIN disputes
  /\ d \in Dispute
  /\ DOMAIN disputes' = DOMAIN disputes
  /\ disputes'[key] = d
  /\ \A k \in DOMAIN disputes \ {key} : disputes'[k] = disputes[k]

LEMMA DisputeCases ==
  ASSUME DisputesTypeOK, [Next]_vars
  PROVE  \/ UNCHANGED disputes
         \/ \E key, d : Opens(key, d)
         \/ \E key, d : Settles(key, d)
  <1>1. CASE RegistryNext /\ UNCHANGED escrowVars
    BY <1>1 DEF escrowVars
  <1>2. ASSUME NEW a \in Asset, NEW disputer \in Disputers,
               NEW target \in 0 .. MaxAttestations,
               NEW kind \in {"Inclusion", "Email"},
               NEW number \in 0 .. MaxAttestations + MaxKeys, NEW id \in Word,
               OpenDispute(a, disputer, target,
                           [kind |-> kind, number |-> number, id |-> id])
        PROVE  \E key, d : Opens(key, d)
    <2> DEFINE target_id == IF target = Newest THEN Len(history[a]) ELSE target
               evidence == [kind |-> kind, number |-> number, id |-> id]
               key == <<a, target_id, id>>
               d == [disputer |-> disputer, origin |-> kind,
                     number |-> number, opened_ledger |-> ledger,
                     deadline |-> ledger + AnswerWindow, status |-> "Open",
                     closed_ledger |-> 0, burned_bond |-> 0]
    <2>1. Len(history[a]) \in Nat /\ target_id \in Nat
      BY BoundAssumption DEF DisputesTypeOK, TypeOK
    <2>2. EvidenceHolds(a, target_id, evidence)
      BY <1>2 DEF OpenDispute
    <2>3. id # Padding /\ InField(id)
      BY <2>2, EvidenceCanonical
    <2>4. ledger \in Ledger /\ ledger + AnswerWindow \in Ledger /\ 0 \in Ledger
          /\ 0 \in Stroops
      BY <1>2, WidthAssumption, DisputeWindowAssumption
         DEF OpenDispute, DisputesTypeOK, TypeOK, Ledger, Stroops
    <2>5. number \in Nat /\ disputer \in Address
      BY BoundAssumption, MaxDisputesAssumption, DisputersAssumption
    <2>6. d \in Dispute
      BY <2>4, <2>5 DEF Dispute, DisputeStatus
    <2>7. disputes' = [k \in DOMAIN disputes \cup {key} |->
                         IF k = key THEN d ELSE disputes[k]]
      BY <1>2 DEF OpenDispute
    <2> HIDE DEF d
    <2>8. key \in DisputeKey /\ key[3] = id
      BY <2>1 DEF DisputeKey
    <2> HIDE DEF key
    <2>9. Opens(key, d)
      BY <2>3, <2>6, <2>7, <2>8 DEF Opens
    <2>10. QED
      BY <2>9
  <1>3. ASSUME NEW key \in DOMAIN disputes,
               AnswerDispute(key[1], key[2], key[3])
        PROVE  \E k, d : Settles(k, d)
    <2>1. <<key[1], key[2], key[3]>> = key
      BY DEF DisputesTypeOK, DisputeKey
    <2> DEFINE d == [disputes[key] EXCEPT !.status = "Answered",
                                          !.closed_ledger = ledger]
    <2>2. d \in Dispute
      BY DEF DisputesTypeOK, TypeOK, Dispute, DisputeStatus
    <2>3. disputes' = [disputes EXCEPT ![key] = d]
      BY <1>3, <2>1 DEF AnswerDispute
    <2> HIDE DEF d
    <2>4. Settles(key, d)
      BY <2>2, <2>3 DEF Settles
    <2>5. QED
      BY <2>4
  <1>4. ASSUME NEW key \in DOMAIN disputes, ResolveDispute(key)
        PROVE  \E k, d : Settles(k, d)
    <2>1. key[1] \in Asset
      BY DEF DisputesTypeOK, DisputeKey
    <2> DEFINE d == [disputes[key] EXCEPT !.status = "OmissionProven",
                                          !.closed_ledger = ledger,
                                          !.burned_bond = bond[key[1]].available]
    <2>2. d \in Dispute
      BY <2>1 DEF DisputesTypeOK, TypeOK, Dispute, DisputeStatus, Bond
    <2>3. disputes' = [disputes EXCEPT ![key] = d]
      BY <1>4 DEF ResolveDispute
    <2> HIDE DEF d
    <2>4. Settles(key, d)
      BY <2>2, <2>3 DEF Settles
    <2>5. QED
      BY <2>4
  <1>5. ASSUME NEW a \in Asset, NEW amount \in BondAmounts, FundBond(a, amount)
        PROVE  UNCHANGED disputes
    BY <1>5 DEF FundBond
  <1>6. ASSUME NEW a \in Asset, RegisterDkimKey(a)
        PROVE  UNCHANGED disputes
    BY <1>6 DEF RegisterDkimKey
  <1>7. CASE UNCHANGED vars
    BY <1>7 DEF vars, escrowVars
  <1>8. QED
    BY <1>1, <1>2, <1>3, <1>4, <1>5, <1>6, <1>7 DEF Next, DisputeNext

\* Every call leaves the whole storage and the balances well typed.
LEMMA DisputesTypeStep == DisputesTypeOK /\ [Next]_vars => DisputesTypeOK'
  <1> SUFFICES ASSUME DisputesTypeOK, [Next]_vars
               PROVE  DisputesTypeOK'
    OBVIOUS
  <1>1. [RegistryNext]_registryVars
    BY RegistryStep
  <1>2. TypeOK'
    BY <1>1, TypeStep DEF DisputesTypeOK
  <1>3. (DOMAIN disputes \subseteq DisputeKey)'
        /\ (\A key \in DOMAIN disputes : disputes[key] \in Dispute)'
    BY DisputeCases DEF DisputesTypeOK, Opens, Settles
  <1>4. (bond \in [Asset -> Bond] /\ xlm \in [Address \cup {Contract} -> Nat])'
    <2>1. CASE RegistryNext /\ UNCHANGED escrowVars
      BY <2>1 DEF escrowVars, DisputesTypeOK
    <2>2. ASSUME NEW a \in Asset, NEW disputer \in Disputers, NEW target,
                 NEW evidence, OpenDispute(a, disputer, target, evidence)
          PROVE  (bond \in [Asset -> Bond]
                    /\ xlm \in [Address \cup {Contract} -> Nat])'
      BY <2>2, TransferType, DepositAssumption, DisputersAssumption
         DEF OpenDispute, DisputesTypeOK
    <2>3. ASSUME NEW key \in DOMAIN disputes,
                 AnswerDispute(key[1], key[2], key[3])
          PROVE  (bond \in [Asset -> Bond]
                    /\ xlm \in [Address \cup {Contract} -> Nat])'
      <3>1. key[1] \in Asset /\ Registered(key[1])
        BY <2>3 DEF DisputesTypeOK, DisputeKey, AnswerDispute
      <3>2. entry[key[1]].authority \in Address
        BY <3>1, AuthorityType DEF DisputesTypeOK
      <3>3. Transfer(Contract, entry[key[1]].authority, Deposit)
            /\ UNCHANGED bond
        BY <2>3 DEF AnswerDispute
      <3>4. QED
        BY <3>2, <3>3, TransferType, DepositAssumption DEF DisputesTypeOK
    <2>4. ASSUME NEW key \in DOMAIN disputes, ResolveDispute(key)
          PROVE  (bond \in [Asset -> Bond]
                    /\ xlm \in [Address \cup {Contract} -> Nat])'
      <3>1. key[1] \in Asset /\ disputes[key].disputer \in Address
        BY DEF DisputesTypeOK, DisputeKey, Dispute
      <3>2. xlm' \in [Address \cup {Contract} -> Nat]
        BY <2>4, <3>1, TransferType, DepositAssumption
           DEF DisputesTypeOK, ResolveDispute
      <3>3. Burn(bond[key[1]]) \in Bond
        <4>1. bond[key[1]] \in Bond
          BY <3>1 DEF DisputesTypeOK
        <4>2. bond[key[1]].burned + bond[key[1]].available <= MaxI128
          BY <2>4 DEF ResolveDispute
        <4>3. QED
          BY <4>1, <4>2, WidthAssumption DEF Burn, Bond, Stroops
      <3>4. QED
        BY <2>4, <3>2, <3>3 DEF ResolveDispute, DisputesTypeOK
    <2>5. ASSUME NEW a \in Asset, NEW amount \in BondAmounts, FundBond(a, amount)
          PROVE  (bond \in [Asset -> Bond]
                    /\ xlm \in [Address \cup {Contract} -> Nat])'
      <3>1. amount \in Nat /\ amount > 0
        BY <2>5, XlmAssumption DEF FundBond
      <3>2. xlm' \in [Address \cup {Contract} -> Nat]
        BY <2>5, <3>1, TransferType, AuthorityType
           DEF DisputesTypeOK, FundBond
      <3>3. [bond[a] EXCEPT !.available = bond[a].available + amount] \in Bond
        <4>1. bond[a] \in Bond
          BY DEF DisputesTypeOK
        <4>2. bond[a].available + amount <= MaxI128
          BY <2>5 DEF FundBond, BondFits
        <4>3. bond[a].available + amount \in Stroops
          BY <3>1, <4>1, <4>2, WidthAssumption DEF Bond, Stroops
        <4>4. QED
          BY <4>1, <4>3 DEF Bond
      <3>4. QED
        BY <2>5, <3>2, <3>3 DEF FundBond, DisputesTypeOK
    <2>6. ASSUME NEW a \in Asset, RegisterDkimKey(a)
          PROVE  (bond \in [Asset -> Bond]
                    /\ xlm \in [Address \cup {Contract} -> Nat])'
      BY <2>6 DEF RegisterDkimKey, DisputesTypeOK
    <2>7. CASE UNCHANGED vars
      BY <2>7 DEF vars, escrowVars, DisputesTypeOK
    <2>8. QED
      BY <2>1, <2>2, <2>3, <2>4, <2>5, <2>6, <2>7 DEF Next, DisputeNext
  <1>5. (keys \in [Asset -> Seq(DkimKey)])'
    <2>1. CASE UNCHANGED keys
      BY <2>1 DEF DisputesTypeOK
    <2>2. ASSUME NEW a \in Asset, RegisterDkimKey(a)
          PROVE  keys' \in [Asset -> Seq(DkimKey)]
      <3>1. /\ entry[a].authority \in Address
            /\ keys[a] \in Seq(DkimKey) /\ Len(keys[a]) \in Nat
        BY <2>2, AuthorityType DEF RegisterDkimKey, DisputesTypeOK
      <3>2. [authority |-> entry[a].authority, key_id |-> Len(keys[a]) + 1,
             registered_ledger |-> ledger] \in DkimKey
        BY <3>1 DEF DkimKey, DisputesTypeOK, TypeOK
      <3>3. QED
        BY <2>2, <3>1, <3>2, AppendedElements DEF RegisterDkimKey, DisputesTypeOK
    <2>3. UNCHANGED vars => UNCHANGED keys
      BY DEF vars, escrowVars
    <2>4. UNCHANGED escrowVars => UNCHANGED keys
      BY DEF escrowVars
    <2>5. ASSUME NEW a, NEW disputer, NEW target, NEW evidence,
                 OpenDispute(a, disputer, target, evidence)
          PROVE  UNCHANGED keys
      BY <2>5 DEF OpenDispute
    <2>6. ASSUME NEW a, NEW target_id, NEW id, AnswerDispute(a, target_id, id)
          PROVE  UNCHANGED keys
      BY <2>6 DEF AnswerDispute
    <2>7. ASSUME NEW key, ResolveDispute(key)
          PROVE  UNCHANGED keys
      BY <2>7 DEF ResolveDispute
    <2>8. ASSUME NEW a, NEW amount, FundBond(a, amount)
          PROVE  UNCHANGED keys
      BY <2>8 DEF FundBond
    <2>9. QED
      BY <2>1, <2>2, <2>3, <2>4, <2>5, <2>6, <2>7, <2>8 DEF Next, DisputeNext
  <1>6. QED
    BY <1>2, <1>3, <1>4, <1>5 DEF DisputesTypeOK

LEMMA DisputesTypeInit == DisputesInit => DisputesTypeOK
  <1> SUFFICES ASSUME DisputesInit PROVE DisputesTypeOK
    OBVIOUS
  <1>1. TypeOK
    BY WidthAssumption DEF DisputesInit, Init, TypeOK, Ledger
  <1>2. DOMAIN disputes = {}
    BY DEF DisputesInit
  <1>3. bond \in [Asset -> Bond]
    BY WidthAssumption DEF DisputesInit, Bond, Stroops
  <1>4. xlm \in [Address \cup {Contract} -> Nat]
    BY XlmAssumption DEF DisputesInit
  <1>5. keys \in [Asset -> Seq(DkimKey)]
    BY DEF DisputesInit
  <1>6. QED
    BY <1>1, <1>2, <1>3, <1>4, <1>5 DEF DisputesTypeOK

\* No sum of bonds leaves an i128, no ledger leaves a u32 and no balance of
\* the native asset goes below zero, in every state of the contract.
THEOREM DisputesTypeCorrect == Spec => []DisputesTypeOK
  BY DisputesTypeInit, DisputesTypeStep, PTL DEF Spec

-----------------------------------------------------------------------------

\* The strengthening of OneDisputePerCustomer: no key is an alias.
KeysAreCanonical ==
  \A key \in DOMAIN disputes : key[3] # Padding /\ InField(key[3])

LEMMA CanonicalStep ==
  DisputesTypeOK /\ KeysAreCanonical /\ [Next]_vars => KeysAreCanonical'
  BY DisputeCases DEF KeysAreCanonical, Opens, Settles

\* One dispute for each customer and target, for every modulus: the range
\* check of both evidence paths is what keeps an alias of an identifier, which
\* the host hashes to the same leaf, from a second dispute and deposit.
THEOREM DisputesAreUnique == Spec => []OneDisputePerCustomer
  <1>1. DisputesInit => KeysAreCanonical
    BY DEF DisputesInit, KeysAreCanonical
  <1>2. DisputesTypeOK /\ KeysAreCanonical => OneDisputePerCustomer
    <2> SUFFICES ASSUME DisputesTypeOK, KeysAreCanonical
                 PROVE  OneDisputePerCustomer
      OBVIOUS
    <2>1. \A k \in DOMAIN disputes : Reduce(k[3]) = k[3] /\ k[3] # Padding
      BY DEF KeysAreCanonical, Reduce
    <2>2. \A k \in DOMAIN disputes : k = <<k[1], k[2], k[3]>>
      BY DEF DisputesTypeOK, DisputeKey
    <2>3. QED
      BY <2>1, <2>2 DEF OneDisputePerCustomer
  <1>3. QED
    BY <1>1, <1>2, CanonicalStep, DisputesTypeCorrect, PTL DEF Spec

-----------------------------------------------------------------------------
(* What the calls do *)

\* A call or a step of the network that leaves the escrow alone.
Aside ==
  /\ UNCHANGED <<disputes, bond, xlm>>
  /\ [RegistryNext]_registryVars
  /\ \A a \in Asset : \A n \in DOMAIN keys[a] :
       n \in DOMAIN keys'[a] /\ keys'[a][n] = keys[a][n]
  /\ \A a \in Asset : keys'[a] = keys[a] \/ Registered(a)

\* The record of a dispute on the evidence that its call checked.
Opened(key, d) ==
  /\ key \in DisputeKey /\ key \notin DOMAIN disputes
  /\ d \in Dispute /\ d.status = "Open" /\ d.burned_bond = 0
  /\ d.opened_ledger = ledger /\ d.deadline = ledger + AnswerWindow
  /\ Registered(key[1]) /\ key[2] \in DOMAIN history[key[1]]
  /\ TargetInWindow(history[key[1]][key[2]].attested_ledger)
  /\ EvidenceHolds(key[1], key[2], [kind |-> d.origin, number |-> d.number, id |-> key[3]])
  /\ disputes' = [k \in DOMAIN disputes \cup {key} |-> IF k = key THEN d ELSE disputes[k]]
  /\ Transfer(d.disputer, Contract, Deposit)
  /\ UNCHANGED <<registryVars, keys, bond>>

Answers(key) ==
  /\ key \in OpenKeys /\ Registered(key[1])
  /\ ledger <= disputes[key].deadline
  /\ Inclusion(TargetRoot(key[1], key[2]), key[3])
  /\ disputes' = [disputes EXCEPT ![key] =
       [@ EXCEPT !.status = "Answered", !.closed_ledger = ledger]]
  /\ Transfer(Contract, entry[key[1]].authority, Deposit)
  /\ UNCHANGED <<registryVars, keys, bond>>

Resolves(key) ==
  /\ key \in OpenKeys
  /\ ledger > disputes[key].deadline
  /\ bond' = [bond EXCEPT ![key[1]] = Burn(@)]
  /\ disputes' = [disputes EXCEPT ![key] =
       [@ EXCEPT !.status = "OmissionProven", !.closed_ledger = ledger,
                 !.burned_bond = bond[key[1]].available]]
  /\ Transfer(Contract, disputes[key].disputer, Deposit)
  /\ UNCHANGED <<registryVars, keys>>

Funds(a, amount) ==
  /\ Registered(a) /\ amount \in Nat
  /\ bond[a].available + amount + bond[a].burned <= MaxI128
  /\ bond' = [bond EXCEPT ![a] = [@ EXCEPT !.available = bond[a].available + amount]]
  /\ Transfer(entry[a].authority, Contract, amount)
  /\ UNCHANGED <<registryVars, keys, disputes>>

\* A registered email key has the next number and moves no other.
LEMMA KeyAppended ==
  ASSUME DisputesTypeOK, NEW a \in Asset, RegisterDkimKey(a)
  PROVE  Aside
<1>1. keys[a] \in Seq(DkimKey) /\ Registered(a)
  BY DEF DisputesTypeOK, RegisterDkimKey
<1>2. PICK k : keys' = [keys EXCEPT ![a] = Append(keys[a], k)]
  BY DEF RegisterDkimKey
<1>3. ASSUME NEW b \in Asset, NEW n \in DOMAIN keys[b]
      PROVE  n \in DOMAIN keys'[b] /\ keys'[b][n] = keys[b][n]
  <2>1. CASE b = a
    <3>1. keys'[b] = Append(keys[a], k)
      BY <1>2, <2>1 DEF DisputesTypeOK
    <3> QED
      BY <1>1, <2>1, <3>1
  <2>2. CASE b # a
    BY <1>2, <2>2 DEF DisputesTypeOK
  <2> QED
    BY <2>1, <2>2
<1>4. \A b \in Asset : keys'[b] = keys[b] \/ Registered(b)
  BY <1>1, <1>2 DEF DisputesTypeOK
<1> QED
  BY <1>3, <1>4 DEF RegisterDkimKey, Aside

\* Every step is one of these.
LEMMA CallCases ==
  ASSUME DisputesTypeOK, [Next]_vars
  PROVE  \/ Aside
         \/ \E key, d : Opened(key, d)
         \/ \E key : Answers(key) \/ Resolves(key)
         \/ \E a \in Asset : \E amount : Funds(a, amount)
<1>1. CASE RegistryNext /\ UNCHANGED escrowVars
  BY <1>1 DEF escrowVars, Aside
<1>2. CASE UNCHANGED vars
  BY <1>2 DEF vars, escrowVars, Aside
<1>3. ASSUME NEW a \in Asset, NEW disputer \in Disputers,
             NEW target \in 0 .. MaxAttestations,
             NEW kind \in {"Inclusion", "Email"},
             NEW number \in 0 .. MaxAttestations + MaxKeys, NEW id \in Word,
             OpenDispute(a, disputer, target,
                         [kind |-> kind, number |-> number, id |-> id])
      PROVE  \E key, d : Opened(key, d)
  <2> DEFINE target_id == IF target = Newest THEN Len(history[a]) ELSE target
             evidence == [kind |-> kind, number |-> number, id |-> id]
             key == <<a, target_id, id>>
             d == [disputer |-> disputer, origin |-> kind, number |-> number,
                   opened_ledger |-> ledger, deadline |-> ledger + AnswerWindow,
                   status |-> "Open", closed_ledger |-> 0, burned_bond |-> 0]
  <2>1. Len(history[a]) \in Nat /\ target_id \in Nat
    BY BoundAssumption DEF DisputesTypeOK, TypeOK
  <2>2. ledger \in Ledger /\ ledger + AnswerWindow \in Ledger /\ 0 \in Ledger
        /\ 0 \in Stroops
    BY <1>3, WidthAssumption, DisputeWindowAssumption
       DEF OpenDispute, DisputesTypeOK, TypeOK, Ledger, Stroops
  <2>3. number \in Nat /\ disputer \in Address
    BY BoundAssumption, MaxDisputesAssumption, DisputersAssumption
  <2>4. d \in Dispute
    BY <2>2, <2>3 DEF Dispute, DisputeStatus
  <2>5. key \in DisputeKey
    BY <2>1 DEF DisputeKey
  <2>6. /\ Registered(a) /\ Exists(a, target_id)
        /\ TargetInWindow(history[a][target_id].attested_ledger)
        /\ EvidenceHolds(a, target_id, evidence)
        /\ key \notin DOMAIN disputes
        /\ disputes' = [k \in DOMAIN disputes \cup {key} |->
                          IF k = key THEN d ELSE disputes[k]]
        /\ Transfer(disputer, Contract, Deposit)
        /\ UNCHANGED <<registryVars, keys, bond>>
    BY <1>3 DEF OpenDispute
  <2>7. /\ d.disputer = disputer /\ d.status = "Open" /\ d.burned_bond = 0
        /\ d.opened_ledger = ledger /\ d.deadline = ledger + AnswerWindow
        /\ evidence = [kind |-> d.origin, number |-> d.number, id |-> key[3]]
        /\ key[1] = a /\ key[2] = target_id
    OBVIOUS
  <2> HIDE DEF d, key, evidence, target_id
  <2>8. Opened(key, d)
    BY <2>4, <2>5, <2>6, <2>7 DEF Opened, Exists
  <2> QED
    BY <2>8
<1>4. ASSUME NEW key \in DOMAIN disputes, AnswerDispute(key[1], key[2], key[3])
      PROVE  Answers(key)
  <2>1. <<key[1], key[2], key[3]>> = key
    BY DEF DisputesTypeOK, DisputeKey
  <2> QED
    BY <1>4, <2>1 DEF AnswerDispute, Answers, IsOpen, OpenKeys
<1>5. ASSUME NEW key \in DOMAIN disputes, ResolveDispute(key)
      PROVE  Resolves(key)
  BY <1>5 DEF ResolveDispute, Resolves, IsOpen, OpenKeys
<1>6. ASSUME NEW a \in Asset, NEW amount \in BondAmounts, FundBond(a, amount)
      PROVE  Funds(a, amount)
  <2>1. amount \in Nat
    BY <1>6, XlmAssumption DEF FundBond
  <2> QED
    BY <1>6, <2>1 DEF FundBond, Funds, BondFits
<1>7. ASSUME NEW a \in Asset, RegisterDkimKey(a)
      PROVE  Aside
  BY <1>7, KeyAppended
<1> QED
  BY <1>1, <1>2, <1>3, <1>4, <1>5, <1>6, <1>7 DEF Next, DisputeNext

-----------------------------------------------------------------------------
(* Permanence *)

\* What a call keeps of the disputes, the email keys and the bonds.
KeepsSettlements ==
  /\ \A key \in DOMAIN disputes :
       /\ key \in DOMAIN disputes'
       /\ disputes'[key].disputer = disputes[key].disputer
       /\ disputes'[key].deadline = disputes[key].deadline
       /\ key \notin OpenKeys => disputes'[key] = disputes[key]
  /\ \A a \in Asset :
       /\ \A n \in DOMAIN keys[a] :
            n \in DOMAIN keys'[a] /\ keys'[a][n] = keys[a][n]
       /\ bond'[a].burned >= bond[a].burned
       /\ bond'[a].available + bond'[a].burned >= bond[a].available + bond[a].burned

\* The bonds are numbers.
LEMMA BondNumbers ==
  ASSUME DisputesTypeOK, NEW a \in Asset
  PROVE  bond[a].available \in Nat /\ bond[a].burned \in Nat
<1>1. bond[a] \in Bond
  BY DEF DisputesTypeOK
<1>2. Stroops \subseteq Nat
  BY WidthAssumption DEF Stroops
<1> QED
  BY <1>1, <1>2 DEF Bond

LEMMA KeepSettlementsStep ==
  ASSUME DisputesTypeOK, [Next]_vars
  PROVE  KeepsSettlements
<1> DEFINE Kept(key) == /\ key \in DOMAIN disputes'
                        /\ disputes'[key].disputer = disputes[key].disputer
                        /\ disputes'[key].deadline = disputes[key].deadline
                        /\ key \notin OpenKeys => disputes'[key] = disputes[key]
           Named(a) == \A n \in DOMAIN keys[a] :
                         n \in DOMAIN keys'[a] /\ keys'[a][n] = keys[a][n]
           Held(a) == /\ bond'[a].burned >= bond[a].burned
                      /\ bond'[a].available + bond'[a].burned >=
                           bond[a].available + bond[a].burned
<1>1. UNCHANGED bond => \A a \in Asset : Held(a)
  BY BondNumbers
<1>2. UNCHANGED keys => \A a \in Asset : Named(a)
  OBVIOUS
<1>3. UNCHANGED disputes => \A key \in DOMAIN disputes : Kept(key)
  OBVIOUS
<1>4. CASE Aside
  <2>1. UNCHANGED bond /\ UNCHANGED disputes /\ \A a \in Asset : Named(a)
    BY <1>4 DEF Aside
  <2> QED
    BY <1>1, <1>3, <2>1 DEF KeepsSettlements
<1>5. ASSUME NEW key, NEW d, Opened(key, d)
      PROVE  KeepsSettlements
  <2>1. UNCHANGED bond /\ UNCHANGED keys
    BY <1>5 DEF Opened
  <2>2. \A k \in DOMAIN disputes : Kept(k)
    BY <1>5 DEF Opened
  <2> QED
    BY <1>1, <1>2, <2>1, <2>2 DEF KeepsSettlements
<1>6. ASSUME NEW key, Answers(key)
      PROVE  KeepsSettlements
  <2>1. UNCHANGED bond /\ UNCHANGED keys
    BY <1>6 DEF Answers
  <2>2. key \in OpenKeys /\ disputes[key] \in Dispute
    BY <1>6 DEF Answers, OpenKeys, DisputesTypeOK
  <2>3. ASSUME NEW k \in DOMAIN disputes PROVE Kept(k)
    BY <1>6, <2>2 DEF Answers, Dispute
  <2> QED
    BY <1>1, <1>2, <2>1, <2>3 DEF KeepsSettlements
<1>7. ASSUME NEW key, Resolves(key)
      PROVE  KeepsSettlements
  <2>1. UNCHANGED keys
    BY <1>7 DEF Resolves
  <2>2. key \in OpenKeys /\ disputes[key] \in Dispute
    BY <1>7 DEF Resolves, OpenKeys, DisputesTypeOK
  <2>3. ASSUME NEW k \in DOMAIN disputes PROVE Kept(k)
    BY <1>7, <2>2 DEF Resolves, Dispute
  <2>4. ASSUME NEW a \in Asset PROVE Held(a)
    <3>1. CASE a = key[1]
      <4>1. bond'[a] = Burn(bond[a])
        BY <1>7, <3>1 DEF Resolves, DisputesTypeOK
      <4> QED
        BY <4>1, BondNumbers DEF Burn
    <3>2. CASE a # key[1]
      <4>1. bond'[a] = bond[a]
        BY <1>7, <3>2 DEF Resolves, DisputesTypeOK
      <4> QED
        BY <4>1, BondNumbers
    <3> QED
      BY <3>1, <3>2
  <2> QED
    BY <1>2, <2>1, <2>3, <2>4 DEF KeepsSettlements
<1>8. ASSUME NEW a \in Asset, NEW amount, Funds(a, amount)
      PROVE  KeepsSettlements
  <2>1. UNCHANGED keys /\ UNCHANGED disputes /\ amount \in Nat
    BY <1>8 DEF Funds
  <2>2. ASSUME NEW b \in Asset PROVE Held(b)
    <3>1. CASE b = a
      <4>1. bond'[b] = [available |-> bond[a].available + amount, burned |-> bond[a].burned]
        <5>1. bond[a] \in Bond
          BY DEF DisputesTypeOK
        <5> QED
          BY <1>8, <3>1, <5>1 DEF Funds, DisputesTypeOK, Bond
      <4> QED
        BY <2>1, <3>1, <4>1, BondNumbers
    <3>2. CASE b # a
      <4>1. bond'[b] = bond[b]
        BY <1>8, <3>2 DEF Funds, DisputesTypeOK
      <4> QED
        BY <4>1, BondNumbers
    <3> QED
      BY <3>1, <3>2
  <2> QED
    BY <1>2, <1>3, <2>1, <2>2 DEF KeepsSettlements
<1> QED
  BY <1>4, <1>5, <1>6, <1>7, <1>8, CallCases

\* resolve_dispute and answer_dispute settle a dispute once: no later call
\* changes its record, an open record keeps its parties and its deadline, a
\* registered email key stays, and no call takes a stroop out of a bond.
THEOREM SettlementsStay == Spec => SettlementsArePermanent
<1>1. DisputesTypeOK /\ [Next]_vars => [KeepsSettlements]_vars
  BY KeepSettlementsStep
<1> QED
  BY <1>1, DisputesTypeCorrect, PTL DEF Spec, SettlementsArePermanent, KeepsSettlements

-----------------------------------------------------------------------------
(* Evidence and outcome *)

\* What a dispute is about never changes, whoever settles it.
SameClaim(d, e) ==
  /\ e.opened_ledger = d.opened_ledger /\ e.deadline = d.deadline
  /\ e.origin = d.origin /\ e.number = d.number

\* What a step does to one dispute: it stays, or it is settled.
Answered(key, d, e) ==
  /\ d.status = "Open" /\ e.status = "Answered" /\ e.burned_bond = d.burned_bond
  /\ e.closed_ledger = ledger /\ ledger <= d.deadline
  /\ Inclusion(TargetRoot(key[1], key[2]), key[3])

Omitted(key, d, e) ==
  /\ d.status = "Open" /\ e.status = "OmissionProven"
  /\ e.burned_bond = bond[key[1]].available
  /\ e.closed_ledger = ledger /\ ledger > d.deadline

LEMMA OldDisputes ==
  ASSUME DisputesTypeOK, [Next]_vars, NEW k \in DOMAIN disputes
  PROVE  /\ k \in DOMAIN disputes' /\ SameClaim(disputes[k], disputes'[k])
         /\ \/ disputes'[k] = disputes[k]
            \/ Answered(k, disputes[k], disputes'[k])
            \/ Omitted(k, disputes[k], disputes'[k])
<1>0. disputes[k] \in Dispute
  BY DEF DisputesTypeOK
<1>1. CASE UNCHANGED disputes
  BY <1>1 DEF SameClaim
<1>2. ASSUME NEW key, NEW d, Opened(key, d)
      PROVE  k \in DOMAIN disputes' /\ disputes'[k] = disputes[k]
  BY <1>2 DEF Opened
<1>3. ASSUME NEW key, Answers(key), k # key
      PROVE  k \in DOMAIN disputes' /\ disputes'[k] = disputes[k]
  BY <1>3 DEF Answers
<1>4. ASSUME NEW key, Resolves(key), k # key
      PROVE  k \in DOMAIN disputes' /\ disputes'[k] = disputes[k]
  BY <1>4 DEF Resolves
<1>5. CASE Answers(k)
  <2>1. /\ k \in DOMAIN disputes'
        /\ disputes'[k] = [disputes[k] EXCEPT !.status = "Answered", !.closed_ledger = ledger]
    BY <1>5 DEF Answers
  <2>2. /\ disputes[k].status = "Open" /\ ledger <= disputes[k].deadline
        /\ Inclusion(TargetRoot(k[1], k[2]), k[3])
    BY <1>5 DEF Answers, OpenKeys
  <2> HIDE <1>5
  <2>3. SameClaim(disputes[k], disputes'[k])
    BY <1>0, <2>1 DEF SameClaim, Dispute
  <2>4. /\ disputes'[k].status = "Answered" /\ disputes'[k].closed_ledger = ledger
        /\ disputes'[k].burned_bond = disputes[k].burned_bond
    BY <1>0, <2>1 DEF Dispute
  <2> QED
    BY <2>1, <2>2, <2>3, <2>4 DEF Answered
<1>6. CASE Resolves(k)
  <2>1. /\ k \in DOMAIN disputes'
        /\ disputes'[k] = [disputes[k] EXCEPT !.status = "OmissionProven",
                             !.closed_ledger = ledger, !.burned_bond = bond[k[1]].available]
    BY <1>6 DEF Resolves
  <2>2. disputes[k].status = "Open" /\ ledger > disputes[k].deadline
    BY <1>6 DEF Resolves, OpenKeys
  <2> HIDE <1>6
  <2>3. SameClaim(disputes[k], disputes'[k])
    BY <1>0, <2>1 DEF SameClaim, Dispute
  <2>4. /\ disputes'[k].status = "OmissionProven" /\ disputes'[k].closed_ledger = ledger
        /\ disputes'[k].burned_bond = bond[k[1]].available
    BY <1>0, <2>1 DEF Dispute
  <2> QED
    BY <2>1, <2>2, <2>3, <2>4 DEF Omitted
<1>7. Aside \/ (\E a \in Asset : \E amount : Funds(a, amount)) => UNCHANGED disputes
  BY DEF Aside, Funds
<1> QED
  BY <1>1, <1>2, <1>3, <1>4, <1>5, <1>6, <1>7, CallCases DEF SameClaim

\* The network never goes back, and the records of an asset stay.
LEMMA LedgerStep ==
  ASSUME DisputesTypeOK, [Next]_vars
  PROVE  ledger \in Nat /\ ledger' \in Nat /\ ledger' >= ledger
<1>1. ledger \in Nat
  BY WidthAssumption DEF DisputesTypeOK, TypeOK, Ledger
<1>2. [RegistryNext]_registryVars
  BY RegistryStep
<1>3. CloseLedger \/ UNCHANGED ledger
  <2>1. CASE RegistryNext
    BY <2>1 DEF RegistryNext, Prove, RegisterAsset, SetReserves, SubmitAttestation, ObserveReserves
  <2>2. CASE UNCHANGED registryVars
    BY <2>2 DEF registryVars
  <2> QED
    BY <1>2, <2>1, <2>2
<1> QED
  BY <1>1, <1>3 DEF CloseLedger

LEMMA RecordsKept ==
  ASSUME DisputesTypeOK, [Next]_vars, NEW a \in Asset
  PROVE  /\ \A n \in DOMAIN history[a] :
              n \in DOMAIN history'[a] /\ history'[a][n] = history[a][n]
         /\ Registered(a) => Registered(a)' /\ entry'[a].authority = entry[a].authority
         /\ \A n \in DOMAIN keys[a] : n \in DOMAIN keys'[a]
<1>1. KeepsRecords(a)
  BY RegistryStep, KeepStep DEF DisputesTypeOK
<1>2. KeepsSettlements
  BY KeepSettlementsStep
<1> QED
  BY <1>1, <1>2 DEF KeepsRecords, KeepsSettlements

\* The evidence of one dispute.
RestsOnEvidence(key, d) ==
  LET a == key[1] IN
    /\ key[2] \in DOMAIN history[a]
    /\ d.opened_ledger - history[a][key[2]].attested_ledger \in 0 .. TargetMaxAge
    /\ d.deadline = d.opened_ledger + AnswerWindow
    /\ d.origin = "Inclusion" =>
         /\ d.number \in 1 .. key[2] - 1
         /\ key[3] \in history[a][d.number].final_root.leaves
    /\ d.origin = "Email" =>
         /\ d.number \in DOMAIN keys[a]
         /\ <<a, d.number, key[3]>> \in EmailProofs

\* A dispute that opens rests on what its call read.
LEMMA OpensOnEvidence ==
  ASSUME DisputesTypeOK, NEW key, NEW d, Opened(key, d)
  PROVE  RestsOnEvidence(key, d)
<1> DEFINE a == key[1]
<1>1. /\ a \in Asset /\ key[2] \in Nat /\ d \in Dispute /\ d.number \in Nat
      /\ history[a] \in Seq(Attestation) /\ ledger \in Ledger
  BY DEF Opened, DisputesTypeOK, TypeOK, DisputeKey, Dispute
<1>2. key[2] \in DOMAIN history[a] /\ history[a][key[2]].attested_ledger \in Ledger
  <2>1. key[2] \in DOMAIN history[a]
    BY DEF Opened
  <2>2. history[a][key[2]] \in Attestation
    BY <1>1, <2>1
  <2> QED
    BY <2>1, <2>2 DEF Attestation
<1>3. d.opened_ledger - history[a][key[2]].attested_ledger \in 0 .. TargetMaxAge
  <2>1. /\ d.opened_ledger = ledger
        /\ TargetInWindow(history[a][key[2]].attested_ledger)
    BY DEF Opened
  <2> QED
    BY <1>1, <1>2, <2>1, WidthAssumption, DisputeWindowAssumption DEF TargetInWindow, Ledger
<1>4. d.deadline = d.opened_ledger + AnswerWindow
  BY DEF Opened
<1>5. EvidenceHolds(a, key[2], [kind |-> d.origin, number |-> d.number, id |-> key[3]])
  BY DEF Opened
<1>6. ASSUME d.origin = "Inclusion"
      PROVE  d.number \in 1 .. key[2] - 1 /\ key[3] \in history[a][d.number].final_root.leaves
  <2>1. /\ d.number < key[2] /\ d.number \in DOMAIN history[a]
        /\ Inclusion(history[a][d.number].final_root, key[3])
    BY <1>5, <1>6 DEF EvidenceHolds, Exists
  <2>2. d.number >= 1
    BY <1>1, <2>1
  <2> QED
    BY <1>1, <2>1, <2>2 DEF Inclusion, Reduce
<1>7. ASSUME d.origin = "Email"
      PROVE  d.number \in DOMAIN keys[a] /\ <<a, d.number, key[3]>> \in EmailProofs
  BY <1>5, <1>7 DEF EvidenceHolds, EmailVerify
<1> QED
  BY <1>2, <1>3, <1>4, <1>6, <1>7 DEF RestsOnEvidence

\* The evidence of a dispute that is there stays.
LEMMA EvidenceStep ==
  ASSUME DisputesTypeOK, DisputesRestOnEvidence, [Next]_vars
  PROVE  DisputesRestOnEvidence'
<1> SUFFICES ASSUME NEW key \in DOMAIN disputes'
             PROVE  RestsOnEvidence(key, disputes[key])'
  BY DEF DisputesRestOnEvidence, RestsOnEvidence
<1>1. PICK d : SameClaim(d, disputes'[key]) /\ RestsOnEvidence(key, d) /\ key[1] \in Asset /\ key[2] \in Nat
  <2>1. CASE key \in DOMAIN disputes
    <3>1. RestsOnEvidence(key, disputes[key])
      BY <2>1 DEF DisputesRestOnEvidence, RestsOnEvidence
    <3>2. key[1] \in Asset /\ key[2] \in Nat
      BY <2>1 DEF DisputesTypeOK, DisputeKey
    <3> QED
      BY <2>1, <3>1, <3>2, OldDisputes
  <2>2. CASE key \notin DOMAIN disputes
    <3>1. PICK d : Opened(key, d)
      <4>1. ASSUME NEW k, NEW d, Opened(k, d) PROVE k = key
        BY <2>2, <4>1 DEF Opened
      <4>2. DOMAIN disputes' = DOMAIN disputes \/ \E k, d : Opened(k, d)
        BY CallCases DEF Aside, Answers, Resolves, Funds
      <4> QED
        BY <2>2, <4>1, <4>2
    <3>2. disputes'[key] = d /\ key[1] \in Asset /\ key[2] \in Nat
      BY <3>1 DEF Opened, DisputeKey
    <3> QED
      BY <3>1, <3>2, OpensOnEvidence DEF SameClaim
  <2> QED
    BY <2>1, <2>2
<1>2. /\ key[2] \in DOMAIN history'[key[1]]
      /\ history'[key[1]][key[2]] = history[key[1]][key[2]]
  BY <1>1, RecordsKept DEF RestsOnEvidence
<1>3. ASSUME d.origin = "Inclusion"
      PROVE  d.number \in 1 .. key[2] - 1 /\ key[3] \in history'[key[1]][d.number].final_root.leaves
  <2>1. d.number \in 1 .. key[2] - 1 /\ key[3] \in history[key[1]][d.number].final_root.leaves
    BY <1>1, <1>3 DEF RestsOnEvidence
  <2>2. history[key[1]] \in Seq(Attestation) /\ key[2] \in DOMAIN history[key[1]]
    BY <1>1 DEF DisputesTypeOK, TypeOK, RestsOnEvidence
  <2>3. d.number \in DOMAIN history[key[1]]
    BY <1>1, <2>1, <2>2
  <2> QED
    BY <1>1, <2>1, <2>3, RecordsKept
<1>4. d.origin = "Email" =>
        d.number \in DOMAIN keys'[key[1]] /\ <<key[1], d.number, key[3]>> \in EmailProofs
  BY <1>1, RecordsKept DEF RestsOnEvidence
<1> QED
  BY <1>1, <1>2, <1>3, <1>4 DEF RestsOnEvidence, SameClaim

\* open_dispute: every dispute has a target in its window and older evidence,
\* and neither disappears; the contract never checks either again.
THEOREM EvidenceStays == Spec => []DisputesRestOnEvidence
<1>1. DisputesInit => DisputesRestOnEvidence
  BY DEF DisputesInit, DisputesRestOnEvidence
<1> QED
  BY <1>1, EvidenceStep, DisputesTypeCorrect, PTL DEF Spec

\* The outcome of one dispute.
OutcomeIsRight(key, d) ==
  /\ d.status = "Answered" =>
       /\ d.closed_ledger \in d.opened_ledger .. d.deadline
       /\ key[3] \in history[key[1]][key[2]].final_root.leaves
  /\ d.status = "OmissionProven" => d.closed_ledger > d.deadline
  /\ d.status # "OmissionProven" => d.burned_bond = 0

\* The strengthening of OutcomesAreRight: a dispute is not opened in the
\* future, so an answer in time is also an answer after the opening.
OutcomeInv ==
  /\ DisputesRestOnEvidence
  /\ OutcomesAreRight
  /\ \A key \in DOMAIN disputes : disputes[key].opened_ledger <= ledger

\* A dispute that a step adds is an opened one.
LEMMA NewDisputes ==
  ASSUME DisputesTypeOK, [Next]_vars, NEW key \in DOMAIN disputes', key \notin DOMAIN disputes
  PROVE  \E d : Opened(key, d) /\ disputes'[key] = d
<1>1. ASSUME NEW k, NEW d, Opened(k, d) PROVE k = key
  BY <1>1 DEF Opened
<1>2. DOMAIN disputes' = DOMAIN disputes \/ \E k, d : Opened(k, d)
  BY CallCases DEF Aside, Answers, Resolves, Funds
<1>3. PICK d : Opened(key, d)
  BY <1>1, <1>2
<1>4. disputes'[key] = d
  BY <1>3 DEF Opened
<1> QED
  BY <1>3, <1>4

\* A settlement in its time leaves a right outcome.
LEMMA SettledIsRight ==
  ASSUME DisputesTypeOK, NEW key, NEW d \in Dispute, NEW e,
         OutcomeIsRight(key, d), SameClaim(d, e), d.opened_ledger <= ledger,
         e = d \/ Answered(key, d, e) \/ Omitted(key, d, e)
  PROVE  OutcomeIsRight(key, e)
<1>1. CASE e = d
  BY <1>1
<1>2. CASE Answered(key, d, e)
  <2>1. key[3] \in history[key[1]][key[2]].final_root.leaves
    BY <1>2 DEF Answered, TargetRoot, Inclusion, Reduce
  <2>2. ledger \in Nat /\ d.opened_ledger \in Nat /\ d.deadline \in Nat
    BY WidthAssumption DEF DisputesTypeOK, TypeOK, Ledger, Dispute
  <2>3. /\ e.status = "Answered" /\ e.burned_bond = 0
        /\ e.closed_ledger = ledger /\ ledger <= d.deadline
    BY <1>2 DEF Answered, OutcomeIsRight
  <2>4. e.closed_ledger \in e.opened_ledger .. e.deadline
    BY <2>2, <2>3 DEF SameClaim
  <2> QED
    BY <2>1, <2>3, <2>4 DEF OutcomeIsRight
<1>3. CASE Omitted(key, d, e)
  BY <1>3 DEF Omitted, SameClaim, OutcomeIsRight
<1> QED
  BY <1>1, <1>2, <1>3

LEMMA OutcomeStep ==
  ASSUME DisputesTypeOK, OutcomeInv, [Next]_vars
  PROVE  OutcomeInv'
<1>1. DisputesRestOnEvidence'
  BY EvidenceStep DEF OutcomeInv
<1> SUFFICES ASSUME NEW key \in DOMAIN disputes'
             PROVE  /\ OutcomeIsRight(key, disputes[key])'
                    /\ disputes'[key].opened_ledger <= ledger'
  BY <1>1 DEF OutcomeInv, OutcomesAreRight, OutcomeIsRight
<1>2. ledger \in Nat /\ ledger' \in Nat /\ ledger' >= ledger
  BY LedgerStep
<1>3. CASE key \notin DOMAIN disputes
  <2>1. PICK d : Opened(key, d) /\ disputes'[key] = d
    BY <1>3, NewDisputes
  <2>2. d.status = "Open" /\ d.burned_bond = 0 /\ d.opened_ledger = ledger
    BY <2>1 DEF Opened
  <2> QED
    BY <1>2, <2>1, <2>2 DEF OutcomeIsRight
<1>4. CASE key \in DOMAIN disputes
  <2>1. /\ disputes[key] \in Dispute /\ key[1] \in Asset
        /\ OutcomeIsRight(key, disputes[key]) /\ disputes[key].opened_ledger <= ledger
    BY <1>4 DEF DisputesTypeOK, DisputeKey, OutcomeInv, OutcomesAreRight, OutcomeIsRight
  <2>2. OutcomeIsRight(key, disputes'[key]) /\ SameClaim(disputes[key], disputes'[key])
    BY <1>4, <2>1, OldDisputes, SettledIsRight
  <2>3. history'[key[1]][key[2]] = history[key[1]][key[2]]
    BY <1>4, <2>1, RecordsKept DEF OutcomeInv, DisputesRestOnEvidence
  <2>4. OutcomeIsRight(key, disputes[key])'
    BY <2>2, <2>3 DEF OutcomeIsRight
  <2>5. disputes[key].opened_ledger \in Nat
    BY <2>1, WidthAssumption DEF Dispute, Ledger
  <2> QED
    BY <1>2, <2>1, <2>2, <2>4, <2>5 DEF SameClaim
<1> QED
  BY <1>3, <1>4

LEMMA OutcomeInvariant == Spec => []OutcomeInv
<1>1. DisputesInit => OutcomeInv
  BY DEF DisputesInit, OutcomeInv, DisputesRestOnEvidence, OutcomesAreRight
<1> QED
  BY <1>1, OutcomeStep, DisputesTypeCorrect, PTL DEF Spec

\* answer_dispute and resolve_dispute: an answer came in time and shows the
\* customer under the root that the dispute fixed, an omission is proven only
\* after the deadline, and nothing else burns a bond.
THEOREM OutcomesStayRight == Spec => []OutcomesAreRight
<1>1. OutcomeInv => OutcomesAreRight
  BY DEF OutcomeInv
<1> QED
  BY <1>1, OutcomeInvariant, PTL

-----------------------------------------------------------------------------
(* Sums as cardinalities *)

\* A block of elements of one owner.
LEMMA BlockSize ==
  ASSUME NEW x, NEW lo \in Int, NEW hi \in Int, lo <= hi + 1
  PROVE  /\ IsFiniteSet({x} \X (lo .. hi))
         /\ Cardinality({x} \X (lo .. hi)) = hi - lo + 1
<1>1. IsFiniteSet({x}) /\ Cardinality({x}) = 1
  BY FS_Singleton
<1>2. IsFiniteSet(lo .. hi) /\ Cardinality(lo .. hi) = hi - lo + 1
  BY FS_Interval
<1>3. /\ IsFiniteSet({x} \X (lo .. hi))
      /\ Cardinality({x} \X (lo .. hi)) = Cardinality({x}) * Cardinality(lo .. hi)
  BY <1>1, <1>2, FS_Product
<1> QED
  BY <1>1, <1>2, <1>3

\* A block that is added to a set without it.
LEMMA BlockAdded ==
  ASSUME NEW S, IsFiniteSet(S), NEW T, IsFiniteSet(T), S \cap T = {}
  PROVE  /\ IsFiniteSet(S \cup T)
         /\ Cardinality(S \cup T) = Cardinality(S) + Cardinality(T)
<1>1. Cardinality(S) \in Nat /\ Cardinality(T) \in Nat /\ Cardinality({}) = 0
  BY FS_CardinalityType, FS_EmptySet
<1>2. /\ IsFiniteSet(S \cup T)
      /\ Cardinality(S \cup T) = Cardinality(S) + Cardinality(T) - Cardinality(S \cap T)
  BY FS_Union
<1>3. Cardinality(S \cap T) = 0
  BY <1>1
<1> QED
  BY <1>1, <1>2, <1>3

\* One more or one less deposit.
LEMMA DepositSums ==
  ASSUME NEW n \in Nat
  PROVE  /\ Deposit * n \in Nat
         /\ Deposit * (n + 1) = Deposit * n + Deposit
         /\ n > 0 => Deposit * (n - 1) = Deposit * n - Deposit /\ Deposit * n >= Deposit
<1>1. Deposit \in Nat
  BY DepositAssumption
<1>2. Deposit * n \in Nat /\ Deposit * (n + 1) = Deposit * n + Deposit
  BY <1>1
<1>3. ASSUME n > 0
      PROVE  Deposit * (n - 1) = Deposit * n - Deposit /\ Deposit * n >= Deposit
  <2>1. PICK m \in Nat : n = m + 1
    BY <1>3
  <2>2. Deposit * m \in Nat /\ Deposit * (m + 1) = Deposit * m + Deposit
    BY <1>1
  <2> QED
    BY <1>1, <2>1, <2>2
<1> QED
  BY <1>2, <1>3

\* A transfer moves its amount and nothing else.
LEMMA Moved ==
  ASSUME DisputesTypeOK, NEW from \in Address \cup {Contract},
         NEW to \in Address \cup {Contract}, NEW amount \in Nat,
         from # to, Transfer(from, to, amount)
  PROVE  /\ xlm'[from] = xlm[from] - amount /\ xlm'[to] = xlm[to] + amount
         /\ \A x \in (Address \cup {Contract}) \ {from, to} : xlm'[x] = xlm[x]
         /\ xlm[from] \in Nat /\ xlm[to] \in Nat
BY DEF DisputesTypeOK, Transfer

\* What a payment of the contract, and one to it, does to an address.
LEMMA Credited ==
  ASSUME DisputesTypeOK, NEW to \in Address, NEW amount \in Nat,
         Transfer(Contract, to, amount), NEW h \in Address
  PROVE  /\ h = to => xlm'[h] = xlm[h] + amount
         /\ h # to => xlm'[h] = xlm[h]
<1>1. to # Contract /\ h # Contract
  BY ContractAssumption
<1>2. xlm'[to] = xlm[to] + amount
  BY <1>1, Moved
<1>3. \A x \in (Address \cup {Contract}) \ {Contract, to} : xlm'[x] = xlm[x]
  BY <1>1, Moved
<1> QED
  BY <1>1, <1>2, <1>3

LEMMA Debited ==
  ASSUME DisputesTypeOK, NEW from \in Address, NEW amount \in Nat,
         Transfer(from, Contract, amount), NEW h \in Address
  PROVE  /\ h = from => xlm'[h] = xlm[h] - amount
         /\ h # from => xlm'[h] = xlm[h]
<1>1. from # Contract /\ h # Contract
  BY ContractAssumption
<1>2. xlm'[from] = xlm[from] - amount
  BY <1>1, Moved
<1>3. \A x \in (Address \cup {Contract}) \ {from, Contract} : xlm'[x] = xlm[x]
  BY <1>1, Moved
<1> QED
  BY <1>1, <1>2, <1>3

\* What the bonds of one asset sum up to.
Total(a) == bond[a].available + bond[a].burned

\* Bonds whose sums stay have the same stroops.
LEMMA BondsStay ==
  ASSUME NEW A, \A a \in A : Total(a)' = Total(a)
  PROVE  BondStroops(A)' = BondStroops(A)
BY DEF BondStroops, Total

\* A funded bond has the stroops of the amount in addition.
LEMMA BondsGrow ==
  ASSUME DisputesTypeOK, NEW A \in SUBSET Asset, IsFiniteSet(BondStroops(A)),
         NEW a \in A, NEW n \in Nat, Total(a)' = Total(a) + n,
         \A b \in A \ {a} : Total(b)' = Total(b)
  PROVE  /\ IsFiniteSet(BondStroops(A)')
         /\ Cardinality(BondStroops(A)') = Cardinality(BondStroops(A)) + n
<1> DEFINE m == Total(a)
           T == {a} \X (m + 1 .. m + n)
           S == BondStroops(A)
<1>1. m \in Nat
  BY BondNumbers DEF Total
<1> HIDE DEF m
<1>2. IsFiniteSet(T) /\ Cardinality(T) = n
  <2>1. m + 1 \in Int /\ m + n \in Int /\ m + 1 <= m + n + 1 /\ (m + n) - (m + 1) + 1 = n
    BY <1>1
  <2> QED
    BY <2>1, BlockSize
<1>3. S \cap T = {}
  <2> SUFFICES ASSUME NEW e \in S, e \in T PROVE FALSE
    OBVIOUS
  <2>1. PICK b \in A : e \in {b} \X (1 .. Total(b))
    BY DEF BondStroops, Total
  <2>2. b = a /\ e[2] \in 1 .. m /\ e[2] \in m + 1 .. m + n
    BY <2>1 DEF m
  <2> QED
    BY <1>1, <2>2
<1>4. BondStroops(A)' = S \cup T
  <2>1. BondStroops(A)' = UNION {{b} \X (1 .. Total(b)') : b \in A}
    BY DEF BondStroops, Total
  <2>2. S = UNION {{b} \X (1 .. Total(b)) : b \in A}
    BY DEF BondStroops, Total
  <2>3. {a} \X (1 .. m + n) = ({a} \X (1 .. m)) \cup T
    <3>1. 1 .. m + n = (1 .. m) \cup (m + 1 .. m + n)
      BY <1>1
    <3> QED
      BY <3>1
  <2> HIDE DEF T, S, m
  <2>4. ASSUME NEW e \in BondStroops(A)' PROVE e \in S \cup T
    <3>1. PICK b \in A : e \in {b} \X (1 .. Total(b)')
      BY <2>1
    <3>2. CASE b = a
      BY <2>2, <2>3, <3>1, <3>2 DEF m
    <3>3. CASE b # a
      BY <2>2, <3>1, <3>3
    <3> QED
      BY <3>2, <3>3
  <2>5. ASSUME NEW e \in S PROVE e \in BondStroops(A)'
    <3>1. PICK b \in A : e \in {b} \X (1 .. Total(b))
      BY <2>2
    <3>2. CASE b = a
      <4>1. e \in {a} \X (1 .. m + n)
        BY <2>3, <3>1, <3>2 DEF m
      <4> QED
        BY <2>1, <4>1 DEF m
    <3>3. CASE b # a
      BY <2>1, <3>1, <3>3
    <3> QED
      BY <3>2, <3>3
  <2>6. ASSUME NEW e \in T PROVE e \in BondStroops(A)'
    <3>1. e \in {a} \X (1 .. Total(a)')
      BY <2>3 DEF m
    <3> QED
      BY <2>1, <3>1
  <2> QED
    BY <2>4, <2>5, <2>6
<1> QED
  BY <1>2, <1>3, <1>4, BlockAdded

-----------------------------------------------------------------------------
(* The escrow *)

\* What the disputes of one asset record as burned, one element for a stroop.
BurnStroops(a) ==
  UNION {{key} \X (1 .. disputes[key].burned_bond) :
           key \in {k \in DOMAIN disputes : k[1] = a}}

\* The strengthening of EscrowIsSound: the sets behind the sums are finite,
\* and the sum of every bond fits, with an open dispute or without.
EscrowInv ==
  /\ EscrowBalanced
  /\ \A a \in Asset : bond[a].burned = Cardinality(BurnStroops(a))
  /\ \A a \in Asset : bond[a].burned + bond[a].available <= MaxI128
  /\ IsFiniteSet(DOMAIN disputes)
  /\ IsFiniteSet(BondStroops(Asset))
  /\ \A a \in Asset : IsFiniteSet(BurnStroops(a))

\* The open disputes are finitely many.
LEMMA OpenFinite ==
  ASSUME IsFiniteSet(DOMAIN disputes)
  PROVE  IsFiniteSet(OpenKeys) /\ Cardinality(OpenKeys) \in Nat
<1>1. OpenKeys \in SUBSET DOMAIN disputes
  BY DEF OpenKeys
<1>2. IsFiniteSet(OpenKeys)
  BY <1>1, FS_Subset
<1> QED
  BY <1>2, FS_CardinalityType

\* An opened dispute is one more.
LEMMA OpenAdded ==
  ASSUME IsFiniteSet(DOMAIN disputes), NEW key, NEW d, Opened(key, d)
  PROVE  /\ IsFiniteSet(DOMAIN disputes')
         /\ Cardinality(OpenKeys') = Cardinality(OpenKeys) + 1
<1>1. DOMAIN disputes' = DOMAIN disputes \cup {key}
  BY DEF Opened
<1>2. IsFiniteSet(DOMAIN disputes')
  BY <1>1, FS_AddElement
<1>3. OpenKeys' = OpenKeys \cup {key} /\ key \notin OpenKeys
  BY DEF Opened, OpenKeys
<1>4. Cardinality(OpenKeys \cup {key}) = Cardinality(OpenKeys) + 1
  BY <1>3, OpenFinite, FS_AddElement
<1> QED
  BY <1>2, <1>3, <1>4

\* A settled dispute is one less.
LEMMA OpenRemoved ==
  ASSUME DisputesTypeOK, IsFiniteSet(DOMAIN disputes), NEW key, Answers(key) \/ Resolves(key)
  PROVE  /\ DOMAIN disputes' = DOMAIN disputes
         /\ Cardinality(OpenKeys') = Cardinality(OpenKeys) - 1
         /\ Cardinality(OpenKeys) > 0
<1>1. key \in OpenKeys /\ DOMAIN disputes' = DOMAIN disputes
  BY DEF Answers, Resolves
<1>2. disputes[key] \in Dispute
  BY <1>1 DEF OpenKeys, DisputesTypeOK
<1>3. /\ disputes'[key].status # "Open"
      /\ \A k \in DOMAIN disputes \ {key} : disputes'[k] = disputes[k]
  BY <1>1, <1>2 DEF Answers, Resolves, OpenKeys, Dispute
<1>4. OpenKeys' = OpenKeys \ {key}
  BY <1>1, <1>3 DEF OpenKeys
<1>5. /\ Cardinality(OpenKeys \ {key}) = Cardinality(OpenKeys) - 1
      /\ Cardinality(OpenKeys \ {key}) \in Nat
  <2>1. Cardinality(OpenKeys \ {key}) = Cardinality(OpenKeys) - 1
    BY <1>1, OpenFinite, FS_RemoveElement
  <2>2. IsFiniteSet(OpenKeys \ {key})
    BY OpenFinite, FS_RemoveElement
  <2> QED
    BY <2>1, <2>2, FS_CardinalityType
<1> QED
  BY <1>1, <1>4, <1>5, OpenFinite

\* Disputes that keep what they burned have the same burned stroops.
LEMMA BurnsStay ==
  ASSUME NEW a, DOMAIN disputes \subseteq DOMAIN disputes',
         \A k \in DOMAIN disputes :
           k[1] = a => disputes'[k].burned_bond = disputes[k].burned_bond,
         \A k \in DOMAIN disputes' \ DOMAIN disputes : disputes'[k].burned_bond = 0
  PROVE  BurnStroops(a)' = BurnStroops(a)
<1>1. ASSUME NEW e \in BurnStroops(a)
      PROVE  e \in BurnStroops(a)'
  <2>1. PICK k \in DOMAIN disputes : k[1] = a /\ e \in {k} \X (1 .. disputes[k].burned_bond)
    BY <1>1 DEF BurnStroops
  <2> QED
    BY <2>1 DEF BurnStroops
<1>2. ASSUME NEW e \in BurnStroops(a)'
      PROVE  e \in BurnStroops(a)
  <2>1. PICK k \in DOMAIN disputes' : k[1] = a /\ e \in {k} \X (1 .. disputes'[k].burned_bond)
    BY <1>2 DEF BurnStroops
  <2>2. k \in DOMAIN disputes
    <3>1. disputes'[k].burned_bond # 0
      BY <2>1
    <3> QED
      BY <3>1
  <2> QED
    BY <2>1, <2>2 DEF BurnStroops
<1> QED
  BY <1>1, <1>2

\* A resolution records the available bond as burned, once.
LEMMA BurnsGrow ==
  ASSUME DisputesTypeOK, OutcomesAreRight, NEW key, Resolves(key), key[1] \in Asset,
         IsFiniteSet(BurnStroops(key[1]))
  PROVE  /\ IsFiniteSet(BurnStroops(key[1])')
         /\ Cardinality(BurnStroops(key[1])') =
              Cardinality(BurnStroops(key[1])) + bond[key[1]].available
<1> DEFINE n == bond[key[1]].available
           T == {key} \X (1 .. n)
           S == BurnStroops(key[1])
<1>1. n \in Nat
  BY BondNumbers
<1>2. /\ key \in DOMAIN disputes /\ disputes[key] \in Dispute /\ disputes[key].burned_bond = 0
  BY DEF Resolves, OpenKeys, DisputesTypeOK, OutcomesAreRight
<1>3. /\ DOMAIN disputes' = DOMAIN disputes /\ disputes'[key].burned_bond = n
      /\ \A k \in DOMAIN disputes \ {key} : disputes'[k] = disputes[k]
  BY <1>2 DEF Resolves, Dispute
<1> HIDE DEF n
<1>4. IsFiniteSet(T) /\ Cardinality(T) = n
  <2>1. \A lo, hi \in Int : lo <= hi + 1 =>
          IsFiniteSet({key} \X (lo .. hi)) /\ Cardinality({key} \X (lo .. hi)) = hi - lo + 1
    BY BlockSize
  <2>2. n \in Int /\ 1 <= n + 1 /\ n - 1 + 1 = n
    BY <1>1
  <2> QED
    BY <2>1, <2>2
<1>5. \A e \in S : e[1] # key
  <2> SUFFICES ASSUME NEW e \in S, e[1] = key PROVE FALSE
    OBVIOUS
  <2>1. PICK k \in DOMAIN disputes : e \in {k} \X (1 .. disputes[k].burned_bond)
    BY DEF BurnStroops
  <2>2. k = key
    BY <2>1
  <2> QED
    BY <1>2, <2>1, <2>2
<1>6. BurnStroops(key[1])' = S \cup T
  <2>1. ASSUME NEW e \in BurnStroops(key[1])' PROVE e \in S \cup T
    <3>1. PICK k \in DOMAIN disputes' : k[1] = key[1] /\ e \in {k} \X (1 .. disputes'[k].burned_bond)
      BY <2>1 DEF BurnStroops
    <3> QED
      BY <1>3, <3>1 DEF BurnStroops
  <2>2. ASSUME NEW e \in S PROVE e \in BurnStroops(key[1])'
    <3>1. PICK k \in DOMAIN disputes : k[1] = key[1] /\ e \in {k} \X (1 .. disputes[k].burned_bond)
      BY <2>2 DEF BurnStroops
    <3>2. k # key
      BY <1>2, <3>1
    <3> QED
      BY <1>3, <3>1, <3>2 DEF BurnStroops
  <2>3. ASSUME NEW e \in T PROVE e \in BurnStroops(key[1])'
    <3>1. e \in {key} \X (1 .. disputes'[key].burned_bond) /\ key \in DOMAIN disputes'
      BY <1>2, <1>3, <2>3
    <3>2. key \in {k \in DOMAIN disputes' : k[1] = key[1]}
      BY <3>1
    <3> QED
      BY <3>1, <3>2 DEF BurnStroops
  <2> QED
    BY <2>1, <2>2, <2>3
<1>7. S \cap T = {}
  BY <1>5
<1>8. IsFiniteSet(S \cup T) /\ Cardinality(S \cup T) = Cardinality(S) + Cardinality(T)
  <2> HIDE DEF S, T
  <2>1. IsFiniteSet(S)
    BY DEF S
  <2> QED
    BY <1>4, <1>7, <2>1, BlockAdded
<1> QED
  BY <1>4, <1>6, <1>8 DEF n

\* The escrow equation, in the terms of the lemmas.
LEMMA EscrowTerms ==
  ASSUME DisputesTypeOK, EscrowInv
  PROVE  /\ xlm[Contract] = Deposit * Cardinality(OpenKeys) + Cardinality(BondStroops(Asset))
         /\ Cardinality(OpenKeys) \in Nat /\ Deposit * Cardinality(OpenKeys) \in Nat
         /\ Cardinality(BondStroops(Asset)) \in Nat /\ xlm[Contract] \in Nat
<1>1. Cardinality(OpenKeys) \in Nat
  BY OpenFinite DEF EscrowInv
<1>2. Cardinality(BondStroops(Asset)) \in Nat
  BY FS_CardinalityType DEF EscrowInv
<1>3. Deposit * Cardinality(OpenKeys) \in Nat
  BY <1>1, DepositSums
<1> QED
  BY <1>1, <1>2, <1>3 DEF EscrowInv, EscrowBalanced, DisputesTypeOK

\* A deposit comes in.
LEMMA EscrowOpened ==
  ASSUME DisputesTypeOK, EscrowInv, NEW key, NEW d, Opened(key, d)
  PROVE  EscrowInv'
<1>1. /\ IsFiniteSet(DOMAIN disputes')
      /\ Cardinality(OpenKeys') = Cardinality(OpenKeys) + 1
  BY OpenAdded DEF EscrowInv
<1>2. UNCHANGED bond
  BY DEF Opened
<1>3. BondStroops(Asset)' = BondStroops(Asset)
  BY <1>2, BondsStay DEF Total
<1>4. \A a \in Asset : BurnStroops(a)' = BurnStroops(a)
  <2> TAKE a \in Asset
  <2>1. /\ DOMAIN disputes \subseteq DOMAIN disputes'
        /\ \A k \in DOMAIN disputes : disputes'[k] = disputes[k]
        /\ \A k \in DOMAIN disputes' \ DOMAIN disputes : disputes'[k].burned_bond = 0
    BY DEF Opened
  <2> QED
    BY <2>1, BurnsStay
<1>5. EscrowBalanced'
  <2>1. xlm'[Contract] = xlm[Contract] + Deposit
    <3>1. d.disputer \in Address /\ d.disputer # Contract /\ Transfer(d.disputer, Contract, Deposit)
      BY ContractAssumption DEF Opened, Dispute
    <3> QED
      BY <3>1, Moved, DepositAssumption
  <2>2. Deposit * Cardinality(OpenKeys') = Deposit * Cardinality(OpenKeys) + Deposit
    BY <1>1, EscrowTerms, DepositSums
  <2> QED
    BY <1>3, <2>1, <2>2, EscrowTerms, DepositAssumption DEF EscrowBalanced
<1> QED
  BY <1>1, <1>2, <1>3, <1>4, <1>5 DEF EscrowInv

\* A deposit goes out, to the authority or to the disputer.
LEMMA EscrowPaid ==
  ASSUME DisputesTypeOK, EscrowInv, NEW key, NEW to \in Address,
         Answers(key) \/ Resolves(key), Transfer(Contract, to, Deposit),
         BondStroops(Asset)' = BondStroops(Asset)
  PROVE  EscrowBalanced'
<1>1. /\ Cardinality(OpenKeys') = Cardinality(OpenKeys) - 1
      /\ Cardinality(OpenKeys) > 0
  BY OpenRemoved DEF EscrowInv
<1>2. xlm'[Contract] = xlm[Contract] - Deposit
  BY Moved, DepositAssumption, ContractAssumption
<1>3. Deposit * Cardinality(OpenKeys') = Deposit * Cardinality(OpenKeys) - Deposit
  BY <1>1, EscrowTerms, DepositSums
<1> QED
  BY <1>2, <1>3, EscrowTerms, DepositAssumption DEF EscrowBalanced

LEMMA EscrowAnswered ==
  ASSUME DisputesTypeOK, EscrowInv, NEW key, Answers(key)
  PROVE  EscrowInv'
<1>1. key[1] \in Asset /\ key \in DOMAIN disputes /\ disputes[key] \in Dispute
  BY DEF Answers, OpenKeys, DisputesTypeOK, DisputeKey
<1>2. UNCHANGED bond
  BY DEF Answers
<1>3. BondStroops(Asset)' = BondStroops(Asset)
  BY <1>2, BondsStay DEF Total
<1>4. DOMAIN disputes' = DOMAIN disputes
  BY OpenRemoved DEF EscrowInv
<1>5. \A a \in Asset : BurnStroops(a)' = BurnStroops(a)
  <2> TAKE a \in Asset
  <2>1. \A k \in DOMAIN disputes : disputes'[k].burned_bond = disputes[k].burned_bond
    BY <1>1 DEF Answers, Dispute
  <2> QED
    BY <1>4, <2>1, BurnsStay
<1>6. EscrowBalanced'
  <2>1. Transfer(Contract, entry[key[1]].authority, Deposit) /\ entry[key[1]].authority \in Address
    BY <1>1, AuthorityType DEF Answers, DisputesTypeOK
  <2> QED
    BY <1>3, <2>1, EscrowPaid
<1> QED
  BY <1>2, <1>3, <1>4, <1>5, <1>6 DEF EscrowInv

LEMMA EscrowResolved ==
  ASSUME DisputesTypeOK, OutcomesAreRight, EscrowInv, NEW key, Resolves(key)
  PROVE  EscrowInv'
<1> DEFINE a == key[1]
<1>1. a \in Asset /\ key \in DOMAIN disputes /\ disputes[key] \in Dispute
  BY DEF Resolves, OpenKeys, DisputesTypeOK, DisputeKey
<1>2. /\ bond'[a] = Burn(bond[a])
      /\ \A b \in Asset \ {a} : bond'[b] = bond[b]
  BY <1>1 DEF Resolves, DisputesTypeOK
<1>3. bond'[a].available = 0 /\ bond'[a].burned = bond[a].burned + bond[a].available
  BY <1>2 DEF Burn
<1>4. \A b \in Asset : bond[b].available \in Nat /\ bond[b].burned \in Nat
  BY BondNumbers
<1> HIDE DEF a
<1>5. \A b \in Asset : Total(b)' = Total(b)
  BY <1>1, <1>2, <1>3, <1>4 DEF Total
<1>6. BondStroops(Asset)' = BondStroops(Asset)
  BY <1>5, BondsStay
<1>7. DOMAIN disputes' = DOMAIN disputes
  BY OpenRemoved DEF EscrowInv
<1>8. /\ IsFiniteSet(BurnStroops(a)')
      /\ Cardinality(BurnStroops(a)') = Cardinality(BurnStroops(a)) + bond[a].available
  BY <1>1, BurnsGrow DEF EscrowInv, a
<1>9. \A b \in Asset \ {a} : BurnStroops(b)' = BurnStroops(b)
  <2> TAKE b \in Asset \ {a}
  <2>1. \A k \in DOMAIN disputes : k # key => disputes'[k] = disputes[k]
    BY DEF Resolves
  <2> QED
    BY <1>7, <2>1, BurnsStay DEF a
<1>10. EscrowBalanced'
  <2>1. Transfer(Contract, disputes[key].disputer, Deposit) /\ disputes[key].disputer \in Address
    BY <1>1 DEF Resolves, Dispute
  <2> QED
    BY <1>6, <2>1, EscrowPaid
<1>11. ASSUME NEW b \in Asset
       PROVE  /\ bond'[b].burned = Cardinality(BurnStroops(b)')
              /\ bond'[b].burned + bond'[b].available <= MaxI128
              /\ IsFiniteSet(BurnStroops(b)')
  <2>1. CASE b = a
    BY <1>3, <1>4, <1>8, <2>1 DEF EscrowInv
  <2>2. CASE b # a
    BY <1>2, <1>9, <2>2 DEF EscrowInv
  <2> QED
    BY <2>1, <2>2
<1> QED
  BY <1>6, <1>7, <1>10, <1>11 DEF EscrowInv

LEMMA EscrowFunded ==
  ASSUME DisputesTypeOK, EscrowInv, NEW a \in Asset, NEW amount, Funds(a, amount)
  PROVE  EscrowInv'
<1>1. amount \in Nat /\ bond[a] \in Bond /\ UNCHANGED disputes
  BY DEF Funds, DisputesTypeOK
<1>2. /\ bond'[a] = [bond[a] EXCEPT !.available = bond[a].available + amount]
      /\ \A b \in Asset \ {a} : bond'[b] = bond[b]
  BY DEF Funds, DisputesTypeOK
<1>3. bond'[a].available = bond[a].available + amount /\ bond'[a].burned = bond[a].burned
  BY <1>1, <1>2 DEF Bond
<1>4. bond[a].available \in Nat /\ bond[a].burned \in Nat
  BY BondNumbers
<1>5. Total(a)' = Total(a) + amount /\ \A b \in Asset \ {a} : Total(b)' = Total(b)
  BY <1>1, <1>2, <1>3, <1>4 DEF Total
<1>6. /\ IsFiniteSet(BondStroops(Asset)')
      /\ Cardinality(BondStroops(Asset)') = Cardinality(BondStroops(Asset)) + amount
  BY <1>1, <1>5, BondsGrow DEF EscrowInv
<1>7. EscrowBalanced'
  <2>1. /\ entry[a].authority \in Address /\ entry[a].authority # Contract
        /\ Transfer(entry[a].authority, Contract, amount)
    BY AuthorityType, ContractAssumption DEF Funds, DisputesTypeOK
  <2>2. xlm'[Contract] = xlm[Contract] + amount
    BY <1>1, <2>1, Moved
  <2>3. OpenKeys' = OpenKeys
    BY <1>1 DEF OpenKeys
  <2> QED
    BY <1>1, <1>6, <2>2, <2>3, EscrowTerms DEF EscrowBalanced
<1>8. \A b \in Asset : BurnStroops(b)' = BurnStroops(b)
  BY <1>1 DEF BurnStroops
<1>9. \A b \in Asset : bond'[b].burned = bond[b].burned
                       /\ bond'[b].burned + bond'[b].available <= MaxI128
  <2>1. bond[a].available + amount + bond[a].burned <= MaxI128
    BY DEF Funds
  <2>2. bond'[a].burned + bond'[a].available <= MaxI128
    BY <1>1, <1>3, <1>4, <2>1
  <2> QED
    BY <1>2, <1>3, <2>2 DEF EscrowInv
<1> QED
  BY <1>1, <1>6, <1>7, <1>8, <1>9 DEF EscrowInv

LEMMA EscrowAside ==
  ASSUME EscrowInv, Aside
  PROVE  EscrowInv'
<1>1. UNCHANGED <<disputes, bond, xlm>>
  BY DEF Aside
<1> QED
  BY <1>1 DEF EscrowInv, EscrowBalanced, OpenKeys, BondStroops, BurnStroops

\* The escrow invariant, step by step.
LEMMA EscrowStep ==
  ASSUME DisputesTypeOK, OutcomesAreRight, EscrowInv, [Next]_vars
  PROVE  EscrowInv'
BY CallCases, EscrowAside, EscrowOpened, EscrowAnswered, EscrowResolved, EscrowFunded

LEMMA EscrowInit ==
  ASSUME DisputesInit
  PROVE  EscrowInv
<1>1. DOMAIN disputes = {} /\ OpenKeys = {} /\ \A a \in Asset : BurnStroops(a) = {}
  BY DEF DisputesInit, OpenKeys, BurnStroops
<1>2. /\ \A a \in Asset : bond[a].available = 0 /\ bond[a].burned = 0
      /\ xlm[Contract] = 0
  BY DEF DisputesInit
<1>3. BondStroops(Asset) = {}
  <2>1. \A a \in Asset : {a} \X (1 .. bond[a].available + bond[a].burned) = {}
    BY <1>2
  <2> QED
    BY <2>1 DEF BondStroops
<1>4. IsFiniteSet({}) /\ Cardinality({}) = 0
  BY FS_EmptySet
<1>5. xlm[Contract] = Deposit * 0 + 0
  BY <1>2, DepositAssumption
<1>6. EscrowBalanced
  BY <1>1, <1>3, <1>4, <1>5 DEF EscrowBalanced
<1>7. ASSUME NEW a \in Asset
      PROVE  /\ bond[a].burned = Cardinality(BurnStroops(a))
             /\ bond[a].burned + bond[a].available <= MaxI128
             /\ IsFiniteSet(BurnStroops(a))
  BY <1>1, <1>2, <1>4, WidthAssumption
<1>8. IsFiniteSet(DOMAIN disputes) /\ IsFiniteSet(BondStroops(Asset))
  BY <1>1, <1>3, <1>4
<1> QED
  BY <1>6, <1>7, <1>8 DEF EscrowInv

LEMMA EscrowInvariant == Spec => []EscrowInv
<1>1. DisputesTypeOK /\ OutcomesAreRight /\ EscrowInv /\ [Next]_vars => EscrowInv'
  BY EscrowStep
<1>2. DisputesInit => EscrowInv
  BY EscrowInit
<1> QED
  BY <1>1, <1>2, DisputesTypeCorrect, OutcomesStayRight, PTL DEF Spec

\* The account of the contract holds the deposits of the open disputes and the
\* bonds of all assets, each stroop once; a bond burns once; and nothing but
\* the deadline keeps an open dispute from its resolution.
THEOREM EscrowStaysSound == Spec => []EscrowIsSound
<1>1. DisputesTypeOK /\ EscrowInv => EscrowIsSound
  <2> SUFFICES ASSUME DisputesTypeOK, EscrowInv PROVE EscrowIsSound
    OBVIOUS
  <2>1. BurnsAreRecorded
    BY DEF EscrowInv, BurnsAreRecorded, BurnStroops
  <2>2. ASSUME NEW key \in OpenKeys
        PROVE  /\ xlm[Contract] >= Deposit
               /\ bond[key[1]].burned + bond[key[1]].available <= MaxI128
    <3>1. key[1] \in Asset
      BY DEF OpenKeys, DisputesTypeOK, DisputeKey
    <3>2. Cardinality(OpenKeys) # 0
      BY OpenFinite, FS_EmptySet DEF EscrowInv
    <3>3. Deposit * Cardinality(OpenKeys) >= Deposit
      BY <3>2, EscrowTerms, DepositSums
    <3> QED
      BY <3>1, <3>3, EscrowTerms, DepositAssumption DEF EscrowInv
  <2> QED
    BY <2>1, <2>2 DEF EscrowIsSound, EscrowInv, OpenDisputesAreResolvable
<1> QED
  BY <1>1, EscrowInvariant, DisputesTypeCorrect, PTL

-----------------------------------------------------------------------------
(* The balances of the addresses *)

\* Money and disputes exist only for registered assets.
OnlyRegistered ==
  /\ \A a \in Asset : ~Registered(a) => Total(a) = 0
  /\ \A key \in DOMAIN disputes : Registered(key[1])

\* The strengthening of BalancesAreExplained. An asset without an entry has no
\* authority whose balance could explain a bond.
BalanceInv == BalancesAreExplained /\ OnlyRegistered

LEMMA OnlyRegisteredStep ==
  ASSUME DisputesTypeOK, OnlyRegistered, [Next]_vars
  PROVE  OnlyRegistered'
<1>1. \A a \in Asset : Registered(a) => Registered(a)'
  BY RecordsKept
<1>2. ASSUME NEW key \in DOMAIN disputes' PROVE Registered(key[1])'
  <2>1. key[1] \in Asset /\ Registered(key[1])
    <3>1. CASE key \in DOMAIN disputes
      BY <3>1 DEF OnlyRegistered, DisputesTypeOK, DisputeKey
    <3>2. CASE key \notin DOMAIN disputes
      BY <3>2, NewDisputes DEF Opened, DisputeKey
    <3> QED
      BY <3>1, <3>2
  <2> QED
    BY <1>1, <2>1
<1>3. ASSUME NEW a \in Asset, ~Registered(a)' PROVE Total(a)' = 0
  <2>1. ~Registered(a) /\ Total(a) = 0
    BY <1>1, <1>3 DEF OnlyRegistered
  <2>2. bond'[a] = bond[a]
    <3>1. UNCHANGED bond => bond'[a] = bond[a]
      OBVIOUS
    <3>2. ASSUME NEW key, Resolves(key)
          PROVE  bond'[a] = bond[a]
      <4>1. key[1] # a
        BY <2>1, <3>2 DEF Resolves, OpenKeys, OnlyRegistered
      <4> QED
        BY <3>2, <4>1 DEF Resolves, DisputesTypeOK
    <3>3. ASSUME NEW b \in Asset, NEW amount, Funds(b, amount)
          PROVE  bond'[a] = bond[a]
      BY <2>1, <3>3 DEF Funds, DisputesTypeOK
    <3> QED
      BY <3>1, <3>2, <3>3, CallCases DEF Aside, Opened, Answers
  <2> QED
    BY <2>1, <2>2 DEF Total
<1> QED
  BY <1>2, <1>3 DEF OnlyRegistered

\* The terms of the equation of one address are numbers.
LEMMA BalanceTerms ==
  ASSUME DisputesTypeOK, EscrowInv, NEW h \in Address
  PROVE  /\ xlm[h] \in Nat /\ InitialXlm[h] \in Nat
         /\ IsFiniteSet(Deposited(h)) /\ Cardinality(Deposited(h)) \in Nat
         /\ IsFiniteSet(Earned(h)) /\ Cardinality(Earned(h)) \in Nat
         /\ Deposit * Cardinality(Deposited(h)) \in Nat
         /\ Deposit * Cardinality(Earned(h)) \in Nat
         /\ AssetsOf(h) \in SUBSET Asset
         /\ IsFiniteSet(BondStroops(AssetsOf(h)))
         /\ Cardinality(BondStroops(AssetsOf(h))) \in Nat
<1>1. xlm[h] \in Nat /\ InitialXlm[h] \in Nat
  BY XlmAssumption DEF DisputesTypeOK
<1>2. /\ Deposited(h) \in SUBSET DOMAIN disputes
      /\ Earned(h) \in SUBSET DOMAIN disputes
      /\ AssetsOf(h) \in SUBSET Asset
  BY DEF Deposited, Earned, AssetsOf
<1>3. IsFiniteSet(Deposited(h)) /\ IsFiniteSet(Earned(h))
  BY <1>2, FS_Subset DEF EscrowInv
<1>4. BondStroops(AssetsOf(h)) \in SUBSET BondStroops(Asset)
  BY <1>2 DEF BondStroops
<1>5. IsFiniteSet(BondStroops(AssetsOf(h)))
  BY <1>4, FS_Subset DEF EscrowInv
<1>6. /\ Cardinality(Deposited(h)) \in Nat /\ Cardinality(Earned(h)) \in Nat
      /\ Cardinality(BondStroops(AssetsOf(h))) \in Nat
  BY <1>3, <1>5, FS_CardinalityType
<1>7. Deposit * Cardinality(Deposited(h)) \in Nat /\ Deposit * Cardinality(Earned(h)) \in Nat
  BY <1>6, DepositSums
<1> QED
  BY <1>1, <1>2, <1>3, <1>5, <1>6, <1>7

\* The equation of one address.
Explained(h) ==
  xlm[h] + Deposit * Cardinality(Deposited(h)) + Cardinality(BondStroops(AssetsOf(h)))
    = InitialXlm[h] + Deposit * Cardinality(Earned(h))

\* The assets of an address while no entry changes.
LEMMA SameAssets ==
  ASSUME UNCHANGED entry, NEW h
  PROVE  AssetsOf(h)' = AssetsOf(h)
BY DEF AssetsOf, Registered

\* The network and the attestation side move no XLM; a new entry has no bond.
LEMMA ExplainedAside ==
  ASSUME DisputesTypeOK, OnlyRegistered, [Next]_vars, Aside,
         NEW h \in Address, Explained(h)
  PROVE  Explained(h)'
<1>1. UNCHANGED <<disputes, bond, xlm>>
  BY DEF Aside
<1>2. \A a \in Asset : Registered(a) => Registered(a)' /\ entry'[a].authority = entry[a].authority
  BY RecordsKept
<1>3. Deposited(h)' = Deposited(h)
  BY <1>1 DEF Deposited
<1>4. Earned(h)' = Earned(h)
  <2>1. \A key \in DOMAIN disputes : key[1] \in Asset /\ Registered(key[1])
    BY DEF OnlyRegistered, DisputesTypeOK, DisputeKey
  <2>2. \A key \in DOMAIN disputes : entry'[key[1]].authority = entry[key[1]].authority
    BY <1>2, <2>1
  <2> QED
    BY <1>1, <2>2 DEF Earned
<1>5. BondStroops(AssetsOf(h))' = BondStroops(AssetsOf(h))
  <2>1. ASSUME NEW a \in AssetsOf(h)' PROVE a \in AssetsOf(h) \/ {a} \X (1 .. Total(a)) = {}
    <3>1. a \in Asset /\ entry'[a].authority = h
      BY <2>1 DEF AssetsOf
    <3>2. CASE Registered(a)
      BY <1>2, <3>1, <3>2 DEF AssetsOf
    <3>3. CASE ~Registered(a)
      BY <3>1, <3>3 DEF OnlyRegistered
    <3> QED
      BY <3>2, <3>3
  <2>2. AssetsOf(h) \subseteq AssetsOf(h)'
    BY <1>2 DEF AssetsOf
  <2>3. BondStroops(AssetsOf(h)) = UNION {{a} \X (1 .. Total(a)) : a \in AssetsOf(h)}
    BY DEF BondStroops, Total
  <2>4. BondStroops(AssetsOf(h))' = UNION {{a} \X (1 .. Total(a)) : a \in AssetsOf(h)'}
    BY <1>1 DEF BondStroops, Total
  <2> QED
    BY <2>1, <2>2, <2>3, <2>4
<1> QED
  BY <1>1, <1>3, <1>4, <1>5 DEF Explained

\* The disputer is short of a deposit.
LEMMA ExplainedOpened ==
  ASSUME DisputesTypeOK, EscrowInv, NEW key, NEW d, Opened(key, d),
         NEW h \in Address, Explained(h)
  PROVE  Explained(h)'
<1>1. UNCHANGED entry /\ UNCHANGED bond
  BY DEF Opened, registryVars
<1>2. BondStroops(AssetsOf(h))' = BondStroops(AssetsOf(h))
  BY <1>1, SameAssets, BondsStay DEF Total
<1>3. Earned(h)' = Earned(h)
  BY <1>1 DEF Opened, Earned
<1>4. /\ d.disputer \in Address /\ d.disputer # Contract /\ h # Contract
      /\ Transfer(d.disputer, Contract, Deposit) /\ Deposit \in Nat
  BY ContractAssumption, DepositAssumption DEF Opened, Dispute
<1>5. CASE h = d.disputer
  <2>1. xlm'[h] = xlm[h] - Deposit /\ xlm[h] - Deposit \in Nat
    <3>1. xlm[h] >= Deposit
      BY <1>4, <1>5 DEF Transfer
    <3> QED
      BY <1>4, <1>5, <3>1, Moved
  <2>2. Deposited(h)' = Deposited(h) \cup {key} /\ key \notin Deposited(h)
    BY <1>5 DEF Opened, Deposited
  <2>3. Cardinality(Deposited(h)') = Cardinality(Deposited(h)) + 1
    BY <2>2, BalanceTerms, FS_AddElement
  <2>4. Deposit * Cardinality(Deposited(h)') = Deposit * Cardinality(Deposited(h)) + Deposit
    BY <2>3, BalanceTerms, DepositSums
  <2> QED
    BY <1>2, <1>3, <1>4, <2>1, <2>4, BalanceTerms DEF Explained
<1>6. CASE h # d.disputer
  <2>1. xlm'[h] = xlm[h]
    BY <1>4, <1>6, Debited
  <2>2. Deposited(h)' = Deposited(h)
    BY <1>6 DEF Opened, Deposited
  <2> QED
    BY <1>2, <1>3, <2>1, <2>2 DEF Explained
<1> QED
  BY <1>5, <1>6

\* The authority is up by the deposit.
LEMMA ExplainedAnswered ==
  ASSUME DisputesTypeOK, EscrowInv, NEW key, Answers(key), NEW h \in Address, Explained(h)
  PROVE  Explained(h)'
<1> DEFINE to == entry[key[1]].authority
<1>1. UNCHANGED entry /\ UNCHANGED bond
  BY DEF Answers, registryVars
<1>2. BondStroops(AssetsOf(h))' = BondStroops(AssetsOf(h))
  BY <1>1, SameAssets, BondsStay DEF Total
<1>3. /\ key \in DOMAIN disputes /\ disputes[key] \in Dispute /\ disputes[key].status = "Open"
      /\ DOMAIN disputes' = DOMAIN disputes /\ key[1] \in Asset
      /\ \A k \in DOMAIN disputes \ {key} : disputes'[k] = disputes[k]
  BY DEF Answers, OpenKeys, DisputesTypeOK, DisputeKey
<1>4. disputes'[key].status = "Answered" /\ disputes'[key].disputer = disputes[key].disputer
  BY <1>3 DEF Answers, Dispute
<1>5. Deposited(h)' = Deposited(h)
  BY <1>3, <1>4 DEF Deposited
<1>6. /\ to \in Address /\ h # Contract /\ to # Contract
      /\ Transfer(Contract, to, Deposit) /\ Deposit \in Nat
  BY <1>3, AuthorityType, ContractAssumption, DepositAssumption DEF Answers, DisputesTypeOK
<1> HIDE DEF to
<1>7. CASE h = to
  <2>1. xlm'[h] = xlm[h] + Deposit
    BY <1>6, <1>7, Credited
  <2>2. Earned(h)' = Earned(h) \cup {key} /\ key \notin Earned(h)
    BY <1>1, <1>3, <1>4, <1>7 DEF Earned, to
  <2>3. Cardinality(Earned(h)') = Cardinality(Earned(h)) + 1
    BY <2>2, BalanceTerms, FS_AddElement
  <2>4. Deposit * Cardinality(Earned(h)') = Deposit * Cardinality(Earned(h)) + Deposit
    BY <2>3, BalanceTerms, DepositSums
  <2>5. xlm[h] + Deposit * Cardinality(Deposited(h)) + Cardinality(BondStroops(AssetsOf(h)))
          = InitialXlm[h] + Deposit * Cardinality(Earned(h))
    BY DEF Explained
  <2>6. xlm'[h] + Deposit * Cardinality(Deposited(h)) + Cardinality(BondStroops(AssetsOf(h)))
          = InitialXlm[h] + Deposit * Cardinality(Earned(h)')
    <3> DEFINE d == Deposit * Cardinality(Deposited(h))
               b == Cardinality(BondStroops(AssetsOf(h)))
               e == Deposit * Cardinality(Earned(h))
    <3>1. /\ xlm[h] \in Nat /\ InitialXlm[h] \in Nat /\ d \in Nat /\ b \in Nat /\ e \in Nat
          /\ xlm[h] + d + b = InitialXlm[h] + e
          /\ Deposit * Cardinality(Earned(h)') = e + Deposit
      BY <2>4, <2>5, BalanceTerms
    <3> HIDE DEF d, b, e
    <3>2. xlm'[h] + d + b = InitialXlm[h] + (e + Deposit)
      BY <1>6, <2>1, <3>1
    <3> QED
      BY <3>1, <3>2 DEF d, b
  <2> QED
    BY <1>2, <1>5, <2>6 DEF Explained
<1>8. CASE h # to
  <2>1. xlm'[h] = xlm[h]
    BY <1>6, <1>8, Credited
  <2>2. Earned(h)' = Earned(h)
    BY <1>1, <1>3, <1>4, <1>8 DEF Earned, to
  <2> QED
    BY <1>2, <1>5, <2>1, <2>2 DEF Explained
<1> QED
  BY <1>7, <1>8

\* The disputer has the deposit back; the bond burns inside the contract.
LEMMA ExplainedResolved ==
  ASSUME DisputesTypeOK, EscrowInv, NEW key, Resolves(key), NEW h \in Address, Explained(h)
  PROVE  Explained(h)'
<1>1. UNCHANGED entry /\ key[1] \in Asset
  BY DEF Resolves, registryVars, OpenKeys, DisputesTypeOK, DisputeKey
<1>2. \A b \in Asset : Total(b)' = Total(b)
  <2>1. /\ bond'[key[1]] = Burn(bond[key[1]])
        /\ \A b \in Asset \ {key[1]} : bond'[b] = bond[b]
    BY <1>1 DEF Resolves, DisputesTypeOK
  <2>2. \A b \in Asset : bond[b].available \in Nat /\ bond[b].burned \in Nat
    BY BondNumbers
  <2>3. /\ bond'[key[1]].available = 0
        /\ bond'[key[1]].burned = bond[key[1]].burned + bond[key[1]].available
    BY <2>1 DEF Burn
  <2> QED
    BY <1>1, <2>1, <2>2, <2>3 DEF Total
<1>3. BondStroops(AssetsOf(h))' = BondStroops(AssetsOf(h))
  <2>1. \A b \in AssetsOf(h) : Total(b)' = Total(b)
    BY <1>2 DEF AssetsOf
  <2> QED
    BY <1>1, <2>1, SameAssets, BondsStay
<1>4. /\ key \in DOMAIN disputes /\ disputes[key] \in Dispute /\ disputes[key].status = "Open"
      /\ DOMAIN disputes' = DOMAIN disputes
      /\ \A k \in DOMAIN disputes \ {key} : disputes'[k] = disputes[k]
  BY DEF Resolves, OpenKeys, DisputesTypeOK
<1>5. disputes'[key].status = "OmissionProven" /\ disputes'[key].disputer = disputes[key].disputer
  BY <1>4 DEF Resolves, Dispute
<1>6. Earned(h)' = Earned(h)
  BY <1>1, <1>4, <1>5 DEF Earned
<1>7. /\ disputes[key].disputer \in Address /\ h # Contract /\ disputes[key].disputer # Contract
      /\ Transfer(Contract, disputes[key].disputer, Deposit) /\ Deposit \in Nat
  BY <1>4, ContractAssumption, DepositAssumption DEF Resolves, Dispute
<1>8. CASE h = disputes[key].disputer
  <2>1. xlm'[h] = xlm[h] + Deposit
    BY <1>7, <1>8, Credited
  <2>2. Deposited(h)' = Deposited(h) \ {key} /\ key \in Deposited(h)
    BY <1>4, <1>5, <1>8 DEF Deposited
  <2>3. /\ Cardinality(Deposited(h)') = Cardinality(Deposited(h)) - 1
        /\ Cardinality(Deposited(h)) > 0
    <3>1. /\ IsFiniteSet(Deposited(h) \ {key})
          /\ Cardinality(Deposited(h) \ {key}) = Cardinality(Deposited(h)) - 1
      BY <2>2, BalanceTerms, FS_RemoveElement
    <3>2. Cardinality(Deposited(h) \ {key}) \in Nat
      BY <3>1, FS_CardinalityType
    <3> QED
      BY <2>2, <3>1, <3>2, BalanceTerms
  <2>4. /\ Deposit * Cardinality(Deposited(h)') = Deposit * Cardinality(Deposited(h)) - Deposit
        /\ Deposit * Cardinality(Deposited(h)) >= Deposit
    BY <2>3, BalanceTerms, DepositSums
  <2> QED
    BY <1>3, <1>6, <1>7, <2>1, <2>4, BalanceTerms DEF Explained
<1>9. CASE h # disputes[key].disputer
  <2>1. xlm'[h] = xlm[h]
    BY <1>7, <1>9, Credited
  <2>2. Deposited(h)' = Deposited(h)
    BY <1>4, <1>5, <1>9 DEF Deposited
  <2> QED
    BY <1>3, <1>6, <2>1, <2>2 DEF Explained
<1> QED
  BY <1>8, <1>9

\* What the authority pays is in its bond.
LEMMA ExplainedFunded ==
  ASSUME DisputesTypeOK, EscrowInv, NEW a \in Asset, NEW amount, Funds(a, amount),
         NEW h \in Address, Explained(h)
  PROVE  Explained(h)'
<1> DEFINE from == entry[a].authority
<1>1. amount \in Nat /\ UNCHANGED disputes /\ UNCHANGED entry
  BY DEF Funds, registryVars
<1>2. Total(a)' = Total(a) + amount /\ \A b \in Asset \ {a} : Total(b)' = Total(b)
  <2>1. /\ bond'[a] = [bond[a] EXCEPT !.available = bond[a].available + amount]
        /\ \A b \in Asset \ {a} : bond'[b] = bond[b]
    BY DEF Funds, DisputesTypeOK
  <2>2. bond[a] \in Bond
    BY DEF DisputesTypeOK
  <2>3. bond'[a].available = bond[a].available + amount /\ bond'[a].burned = bond[a].burned
    BY <2>1, <2>2 DEF Bond
  <2>4. bond[a].available \in Nat /\ bond[a].burned \in Nat
    BY BondNumbers
  <2> QED
    BY <1>1, <2>1, <2>3, <2>4 DEF Total
<1>3. Deposited(h)' = Deposited(h) /\ Earned(h)' = Earned(h)
  BY <1>1 DEF Deposited, Earned
<1>4. AssetsOf(h)' = AssetsOf(h) /\ (a \in AssetsOf(h) <=> from = h)
  BY <1>1, SameAssets DEF Funds, AssetsOf
<1>5. /\ from \in Address /\ h # Contract /\ from # Contract
      /\ Transfer(from, Contract, amount)
  BY AuthorityType, ContractAssumption DEF Funds, DisputesTypeOK
<1> HIDE DEF from
<1>6. CASE h = from
  <2>1. xlm'[h] = xlm[h] - amount /\ xlm[h] >= amount
    <3>1. xlm[h] >= amount
      BY <1>5, <1>6 DEF Transfer
    <3> QED
      BY <1>1, <1>5, <1>6, <3>1, Moved
  <2>2. /\ AssetsOf(h) \in SUBSET Asset /\ a \in AssetsOf(h)
        /\ IsFiniteSet(BondStroops(AssetsOf(h)))
        /\ \A b \in AssetsOf(h) \ {a} : Total(b)' = Total(b)
    BY <1>2, <1>4, <1>6, BalanceTerms
  <2>3. Cardinality(BondStroops(AssetsOf(h))') = Cardinality(BondStroops(AssetsOf(h))) + amount
    BY <1>1, <1>2, <1>4, <2>2, BondsGrow
  <2> QED
    BY <1>1, <1>3, <2>1, <2>3, BalanceTerms DEF Explained
<1>7. CASE h # from
  <2>1. xlm'[h] = xlm[h]
    BY <1>1, <1>5, <1>7, Debited
  <2>2. \A b \in AssetsOf(h) : Total(b)' = Total(b)
    BY <1>2, <1>4, <1>7 DEF AssetsOf
  <2>3. BondStroops(AssetsOf(h))' = BondStroops(AssetsOf(h))
    BY <1>4, <2>2, BondsStay
  <2> QED
    BY <1>3, <2>1, <2>3 DEF Explained
<1> QED
  BY <1>6, <1>7

LEMMA BalanceStep ==
  ASSUME DisputesTypeOK, EscrowInv, BalanceInv, [Next]_vars
  PROVE  BalanceInv'
<1>1. OnlyRegistered /\ OnlyRegistered'
  BY OnlyRegisteredStep DEF BalanceInv
<1>2. ASSUME NEW h \in Address PROVE Explained(h)'
  <2>1. Explained(h)
    BY DEF BalanceInv, BalancesAreExplained, Explained
  <2> QED
    BY <1>1, <2>1, CallCases, ExplainedAside, ExplainedOpened, ExplainedAnswered,
       ExplainedResolved, ExplainedFunded
<1> QED
  BY <1>1, <1>2 DEF BalanceInv, BalancesAreExplained, Explained

LEMMA BalanceInit ==
  ASSUME DisputesInit
  PROVE  BalanceInv
<1>1. DOMAIN disputes = {} /\ \A a \in Asset : ~Registered(a)
  BY DEF DisputesInit, Init, Registered
<1>2. \A a \in Asset : Total(a) = 0
  BY DEF DisputesInit, Total
<1>3. ASSUME NEW h \in Address PROVE Explained(h)
  <2>1. Deposited(h) = {} /\ Earned(h) = {} /\ BondStroops(AssetsOf(h)) = {}
    BY <1>1 DEF Deposited, Earned, AssetsOf, BondStroops
  <2>2. Cardinality({}) = 0
    BY FS_EmptySet
  <2>3. xlm[h] = InitialXlm[h] /\ InitialXlm[h] \in Nat
    BY XlmAssumption, ContractAssumption DEF DisputesInit
  <2>4. /\ Cardinality(Deposited(h)) = 0 /\ Cardinality(Earned(h)) = 0
        /\ Cardinality(BondStroops(AssetsOf(h))) = 0
    BY <2>1, <2>2
  <2> QED
    BY <2>3, <2>4, DepositAssumption DEF Explained
<1> QED
  BY <1>1, <1>2, <1>3 DEF BalanceInv, BalancesAreExplained, Explained, OnlyRegistered

\* No call creates, loses or misdirects XLM: what an address has differs from
\* what it began with by its open and lost deposits, the bonds that it funded
\* and the deposits that its answers won, and by nothing else.
THEOREM BalancesStayExplained == Spec => []BalancesAreExplained
<1>1. BalanceInv => BalancesAreExplained
  BY DEF BalanceInv
<1>2. DisputesTypeOK /\ EscrowInv /\ BalanceInv /\ [Next]_vars => BalanceInv'
  BY BalanceStep
<1>3. DisputesInit => BalanceInv
  BY BalanceInit
<1> QED
  BY <1>1, <1>2, <1>3, DisputesTypeCorrect, EscrowInvariant, PTL DEF Spec
===============================================================================
