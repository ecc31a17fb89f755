------------------------------ MODULE Disputes ------------------------------
(***************************************************************************)
(* The registry contract as a whole: the attestation side of Registry with *)
(* the email keys, the disputes, the bonds and the native XLM that the     *)
(* contract escrows.                                                       *)
(* The contract is one account of the native asset for all assets, so what *)
(* one asset pays out must never come from what another asset holds.       *)
(***************************************************************************)
EXTENDS Registry

CONSTANTS
  AnswerWindow,     \* ANSWER_WINDOW_LEDGERS
  TargetMaxAge,     \* TARGET_MAX_AGE_LEDGERS
  Deposit,          \* DISPUTE_DEPOSIT_STROOPS
  Contract,         \* env.current_contract_address()
  BondAmounts,      \* the amounts of fund_bond calls
  InitialXlm,       \* the XLM of each address before the first call
  Disputers,        \* the addresses that open disputes
  EmailProofs,      \* <<a, k, id>>: a mail names id under email key k of a
  MaxKeys,          \* bound: email keys of one asset
  MaxDisputes       \* bound: disputes opened

ASSUME DisputeWindowAssumption == AnswerWindow \in Nat /\ TargetMaxAge \in Nat
ASSUME DepositAssumption == Deposit \in Nat \ {0}
ASSUME ContractAssumption == Contract \notin Address
ASSUME XlmAssumption == InitialXlm \in [Address -> Nat] /\ BondAmounts \subseteq Int
ASSUME DisputersAssumption == Disputers \subseteq Address
ASSUME MaxDisputesAssumption == MaxDisputes \in Nat /\ MaxKeys \in Nat

VARIABLES
  keys,      \* DataKey::DkimKeyCount and DataKey::DkimKey
  disputes,  \* DataKey::Dispute, a partial function of the dispute key
  bond,      \* DataKey::Bond
  xlm        \* balances of the native asset contract

escrowVars == <<keys, disputes, bond, xlm>>
vars == <<registryVars, escrowVars>>

-----------------------------------------------------------------------------
(* Values *)

\* The target argument that selects the newest attestation.
Newest == 0

\* The key material is abstracted to its identifier; the context hash binds
\* the authority and the identifier.
DkimKey == [authority : Address, key_id : Nat, registered_ledger : Ledger]

Evidence == [kind : {"Inclusion", "Email"}, number : Nat, id : Word]

DisputeStatus == {"Open", "Answered", "OmissionProven"}

Stroops == 0 .. MaxI128

DisputeKey == Asset \X Nat \X Word

Dispute == [disputer : Address, origin : {"Inclusion", "Email"},
            number : Nat, opened_ledger : Ledger, deadline : Ledger,
            status : DisputeStatus, closed_ledger : Ledger, burned_bond : Stroops]

Bond == [available : Stroops, burned : Stroops]

-----------------------------------------------------------------------------
(* Checks of the calls *)

\* history::read
Exists(a, id) == id \in DOMAIN history[a]

\* Faulty variant: no range check of the identifier.
InclusionAnyWord(root, id) == id # Padding /\ Reduce(id) \in root.leaves

\* inclusion: a path exists for the identifiers of the leaves. The host hashes
\* the reduction of the identifier, so only the range check rejects an alias.
Inclusion(root, id) ==
  /\ id # Padding
  /\ InField(id)
  /\ Reduce(id) \in root.leaves

\* email::verify: the email proof carries the whole identifier, and its
\* public inputs bind the key record of this asset.
EmailVerify(a, key_id, id) ==
  /\ id # Padding
  /\ InField(id)
  /\ key_id \in DOMAIN keys[a]
  /\ <<a, key_id, id>> \in EmailProofs

\* Faulty variant: the target itself counts as older evidence.
EvidenceAnyAge(a, target_id, evidence) ==
  \/ /\ evidence.kind = "Inclusion"
     /\ evidence.number <= target_id
     /\ Exists(a, evidence.number)
     /\ Inclusion(history[a][evidence.number].final_root, evidence.id)
  \/ /\ evidence.kind = "Email"
     /\ EmailVerify(a, evidence.number, evidence.id)

EvidenceHolds(a, target_id, evidence) ==
  \/ /\ evidence.kind = "Inclusion"
     /\ evidence.number < target_id
     /\ Exists(a, evidence.number)
     /\ Inclusion(history[a][evidence.number].final_root, evidence.id)
  \/ /\ evidence.kind = "Email"
     /\ EmailVerify(a, evidence.number, evidence.id)

TargetInWindow(attested) ==
  /\ ledger >= attested
  /\ ledger - attested <= TargetMaxAge

\* Faulty variant: a settled dispute passes.
IsKnown(key) == key \in DOMAIN disputes

\* open_record
IsOpen(key) == key \in DOMAIN disputes /\ disputes[key].status = "Open"

\* Faulty variant: an answer under the newest root.
NewestRoot(a, target_id) == history[a][Len(history[a])].final_root

\* The root that a dispute fixed when it opened.
TargetRoot(a, target_id) == history[a][target_id].final_root

\* Faulty variant: the first checked addition of fund_bond alone.
AvailableFits(available, burned) == available <= MaxI128

\* Faulty variant: no checked addition.
BondUnchecked(available, burned) == TRUE

\* The two checked additions of fund_bond.
BondFits(available, burned) ==
  available <= MaxI128 /\ available + burned <= MaxI128

\* Faulty variant: the available bond is burned and kept.
BurnAndKeep(b) ==
  [available |-> b.available, burned |-> b.burned + b.available]

Burn(b) == [available |-> 0, burned |-> b.burned + b.available]

\* The native asset contract refuses a transfer above the sender's balance.
Transfer(from, to, amount) ==
  /\ xlm[from] >= amount
  /\ xlm' = [xlm EXCEPT ![from] = @ - amount, ![to] = @ + amount]

-----------------------------------------------------------------------------
(* Actions *)

DisputesInit ==
  /\ Init
  /\ keys = [a \in Asset |-> <<>>]
  /\ disputes = [key \in {} |-> None]
  /\ bond = [a \in Asset |-> [available |-> 0, burned |-> 0]]
  /\ xlm = [x \in Address \cup {Contract} |->
              IF x = Contract THEN 0 ELSE InitialXlm[x]]

RegisterDkimKey(a) ==
  /\ Registered(a)
  /\ Len(keys[a]) < MaxKeys
  /\ Authorized(entry[a].authority)
  /\ keys' = [keys EXCEPT ![a] = Append(@,
       [authority |-> entry[a].authority, key_id |-> Len(@) + 1,
        registered_ledger |-> ledger])]
  /\ UNCHANGED <<registryVars, disputes, bond, xlm>>

OpenDispute(a, disputer, target, evidence) ==
  LET target_id == IF target = Newest THEN Len(history[a]) ELSE target
      key == <<a, target_id, evidence.id>>
  IN /\ Registered(a)
     /\ Exists(a, target_id)
     /\ TargetInWindow(history[a][target_id].attested_ledger)
     /\ EvidenceHolds(a, target_id, evidence)
     /\ key \notin DOMAIN disputes
     /\ Cardinality(DOMAIN disputes) < MaxDisputes
     /\ ledger + AnswerWindow <= MaxU32
     /\ Authorized(disputer)
     /\ disputes' = [k \in DOMAIN disputes \cup {key} |->
          IF k = key
          THEN [disputer |-> disputer, origin |-> evidence.kind,
                number |-> evidence.number, opened_ledger |-> ledger,
                deadline |-> ledger + AnswerWindow, status |-> "Open",
                closed_ledger |-> 0, burned_bond |-> 0]
          ELSE disputes[k]]
     /\ Transfer(disputer, Contract, Deposit)
     /\ UNCHANGED <<registryVars, keys, bond>>

\* Faulty variant: an answer refunds the disputer.
AnswerRefunds(a, target_id, id) ==
  LET key == <<a, target_id, id>> IN
  /\ Registered(a)
  /\ IsOpen(key)
  /\ ledger <= disputes[key].deadline
  /\ Exists(a, target_id)
  /\ Inclusion(TargetRoot(a, target_id), id)
  /\ disputes' = [disputes EXCEPT ![key] =
       [@ EXCEPT !.status = "Answered", !.closed_ledger = ledger]]
  /\ Transfer(Contract, disputes[key].disputer, Deposit)
  /\ UNCHANGED <<registryVars, keys, bond>>

AnswerDispute(a, target_id, id) ==
  LET key == <<a, target_id, id>> IN
  /\ Registered(a)
  /\ IsOpen(key)
  /\ ledger <= disputes[key].deadline
  /\ Exists(a, target_id)
  /\ Inclusion(TargetRoot(a, target_id), id)
  /\ Authorized(entry[a].authority)
  /\ disputes' = [disputes EXCEPT ![key] =
       [@ EXCEPT !.status = "Answered", !.closed_ledger = ledger]]
  /\ Transfer(Contract, entry[a].authority, Deposit)
  /\ UNCHANGED <<registryVars, keys, bond>>

ResolveDispute(key) ==
  LET a == key[1] IN
  /\ IsOpen(key)
  /\ ledger > disputes[key].deadline
  /\ bond[a].burned + bond[a].available <= MaxI128
  /\ bond' = [bond EXCEPT ![a] = Burn(@)]
  /\ disputes' = [disputes EXCEPT ![key] =
       [@ EXCEPT !.status = "OmissionProven", !.closed_ledger = ledger,
                 !.burned_bond = bond[a].available]]
  /\ Transfer(Contract, disputes[key].disputer, Deposit)
  /\ UNCHANGED <<registryVars, keys>>

FundBond(a, amount) ==
  LET available == bond[a].available + amount IN
  /\ Registered(a)
  /\ amount > 0
  /\ BondFits(available, bond[a].burned)
  /\ Authorized(entry[a].authority)
  /\ bond' = [bond EXCEPT ![a] = [@ EXCEPT !.available = available]]
  /\ Transfer(entry[a].authority, Contract, amount)
  /\ UNCHANGED <<registryVars, keys, disputes>>

DisputeNext ==
  \/ \E a \in Asset : RegisterDkimKey(a)
  \/ \E a \in Asset, disputer \in Disputers, target \in 0 .. MaxAttestations,
        kind \in {"Inclusion", "Email"},
        number \in 0 .. MaxAttestations + MaxKeys, id \in Word :
       OpenDispute(a, disputer, target,
                   [kind |-> kind, number |-> number, id |-> id])
  \/ \E key \in DOMAIN disputes : AnswerDispute(key[1], key[2], key[3])
  \/ \E key \in DOMAIN disputes : ResolveDispute(key)
  \/ \E a \in Asset, amount \in BondAmounts : FundBond(a, amount)

Next ==
  \/ RegistryNext /\ UNCHANGED escrowVars
  \/ DisputeNext

Spec == DisputesInit /\ [][Next]_vars

\* Ledgers keep closing, and somebody calls resolve_dispute, which needs no
\* authorization, for a dispute that stays resolvable.
FairSpec ==
  /\ Spec
  /\ WF_vars(CloseLedger /\ UNCHANGED escrowVars)
  /\ \A key \in Asset \X (1 .. MaxAttestations) \X Word :
       WF_vars(ResolveDispute(key))

-----------------------------------------------------------------------------
(* Properties *)

DisputesTypeOK ==
  /\ TypeOK
  /\ keys \in [Asset -> Seq(DkimKey)]
  /\ DOMAIN disputes \subseteq DisputeKey
  /\ \A key \in DOMAIN disputes : disputes[key] \in Dispute
  /\ bond \in [Asset -> Bond]
  /\ xlm \in [Address \cup {Contract} -> Nat]

OpenKeys == {key \in DOMAIN disputes : disputes[key].status = "Open"}

\* The bonds of a set of assets, one element for each stroop.
BondStroops(assets) ==
  UNION {{a} \X (1 .. bond[a].available + bond[a].burned) : a \in assets}

\* The contract's XLM is exactly the deposits of the open disputes and the
\* bonds, available and burned, of all assets: every deposit is paid out once,
\* no settlement of one asset spends another asset's funds, and a burned bond
\* stays in the contract.
EscrowBalanced ==
  xlm[Contract] = Deposit * Cardinality(OpenKeys)
                    + Cardinality(BondStroops(Asset))

\* Nothing but the deadline keeps an open dispute from its resolution: the
\* contract can pay the refund, and the checked addition of resolve_dispute
\* cannot overflow, because fund_bond bounds available and burned together.
OpenDisputesAreResolvable ==
  \A key \in OpenKeys :
    /\ xlm[Contract] >= Deposit
    /\ bond[key[1]].burned + bond[key[1]].available <= MaxI128

\* The burned allocation of an asset is exactly what the disputes record as
\* burned, so no later resolution burns the same bond again.
BurnsAreRecorded ==
  \A a \in Asset :
    bond[a].burned =
      Cardinality(UNION {{key} \X (1 .. disputes[key].burned_bond) :
                           key \in {k \in DOMAIN disputes : k[1] = a}})

\* The shared account covers what every asset may claim from it, stroop by
\* stroop, so that no open dispute is stuck.
EscrowIsSound == EscrowBalanced /\ BurnsAreRecorded /\ OpenDisputesAreResolvable

Deposited(h) == {key \in DOMAIN disputes :
                   /\ disputes[key].disputer = h
                   /\ disputes[key].status # "OmissionProven"}

Earned(h) == {key \in DOMAIN disputes :
                /\ disputes[key].status = "Answered"
                /\ entry[key[1]].authority = h}

AssetsOf(h) == {a \in Asset : Registered(a) /\ entry[a].authority = h}

\* The records explain every balance: an address is short of exactly the
\* deposits that it has open or lost and the bonds that it funded, and up by
\* exactly the deposits that its assets' answers won.
BalancesAreExplained ==
  \A h \in Address :
    xlm[h] + Deposit * Cardinality(Deposited(h))
           + Cardinality(BondStroops(AssetsOf(h)))
      = InitialXlm[h] + Deposit * Cardinality(Earned(h))

\* A customer has one dispute for a target, on either evidence path and after
\* settlement too, although the host hashes an identifier and its alias above
\* the modulus to the same leaf; no dispute names the padding leaf.
OneDisputePerCustomer ==
  \A k \in DOMAIN disputes :
    /\ Reduce(k[3]) # Padding
    /\ \A l \in DOMAIN disputes :
         k[1] = l[1] /\ k[2] = l[2] /\ Reduce(k[3]) = Reduce(l[3]) => k = l

\* Every dispute rests on evidence that was there when it opened and is there
\* still: membership under an attestation older than the target or a mail
\* under a registered key; its target was inside the dispute window.
DisputesRestOnEvidence ==
  \A key \in DOMAIN disputes :
    LET a == key[1]
        d == disputes[key] IN
      /\ key[2] \in DOMAIN history[a]
      /\ d.opened_ledger - history[a][key[2]].attested_ledger \in 0 .. TargetMaxAge
      /\ d.deadline = d.opened_ledger + AnswerWindow
      /\ d.origin = "Inclusion" =>
           /\ d.number \in 1 .. key[2] - 1
           /\ key[3] \in history[a][d.number].final_root.leaves
      /\ d.origin = "Email" =>
           /\ d.number \in DOMAIN keys[a]
           /\ <<a, d.number, key[3]>> \in EmailProofs

\* The outcome is right: an answered dispute closed by its deadline and its
\* customer is under the fixed target root, an omission closed after the
\* deadline, and a bond burns only with an omission.
OutcomesAreRight ==
  \A key \in DOMAIN disputes :
    LET d == disputes[key] IN
      /\ d.status = "Answered" =>
           /\ d.closed_ledger \in d.opened_ledger .. d.deadline
           /\ key[3] \in history[key[1]][key[2]].final_root.leaves
      /\ d.status = "OmissionProven" => d.closed_ledger > d.deadline
      /\ d.status # "OmissionProven" => d.burned_bond = 0

\* A settled dispute never changes or disappears, an open one keeps its target,
\* its parties and its deadline, a registered email key stays valid, and no
\* XLM leaves a bond.
SettlementsArePermanent ==
  [][/\ \A key \in DOMAIN disputes :
          /\ key \in DOMAIN disputes'
          /\ disputes'[key].disputer = disputes[key].disputer
          /\ disputes'[key].deadline = disputes[key].deadline
          /\ key \notin OpenKeys => disputes'[key] = disputes[key]
     /\ \A a \in Asset :
          /\ \A n \in DOMAIN keys[a] :
               n \in DOMAIN keys'[a] /\ keys'[a][n] = keys[a][n]
          /\ bond'[a].burned >= bond[a].burned
          /\ bond'[a].available + bond'[a].burned >=
               bond[a].available + bond[a].burned]_vars

\* Every dispute is settled, unless its deadline is the last ledger of the
\* u32 sequence, after which nothing can happen.
DisputesAreSettled ==
  \A key \in Asset \X (1 .. MaxAttestations) \X Word :
    (key \in OpenKeys /\ disputes[key].deadline < MaxU32) ~> key \notin OpenKeys
=============================================================================
