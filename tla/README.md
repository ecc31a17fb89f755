# A TLA+ verification of zkPoR

zkPoR lets the issuer of a Stellar asset prove that its liabilities do not
exceed its reserves. A recursive proof commits to all customer balances; a
registry contract reads the reserve balances itself, checks the proof and keeps
permanent records; customers check their own inclusion and dispute an omission
on chain. This directory holds TLA+ models of the parts whose correctness
depends on the order of steps, TLC runs on small instances, and TLAPS proofs
for every value of the constants.

## 1. Inventory

| Part | State | Operations | What is hard |
|---|---|---|---|
| Registry, attestation side (`contracts/registry/src/lib.rs`, `history.rs`, `observations.rs`) | entry of each asset with its attestation slot, attestation history, observations, first low observation | `register_asset`, `set_reserves`, `submit_attestation`, `observe_reserves` | a proof takes minutes, so reserves change between snapshot and submission; two places hold the newest attestation; permanence; widths |
| Registry, dispute side (`disputes.rs`, `email.rs`) | email keys, disputes by (asset, target, identifier), bond of each asset, the native balance of the contract | `register_dkim_key`, `open_dispute`, `answer_dispute`, `resolve_dispute`, `fund_bond` | one account escrows for all assets; an answer races the deadline; new attestations while a dispute is open; identifiers above the field modulus |
| Context library (`contracts/context`) | none | `reserve_set_hash`, `context_hash`, `fr_in_range`, leaf and node hashes | the host reduces values outside the field |
| Verifier contracts | a key, fixed at deployment | `verify_proof` | cryptography |
| Run lock (`sdk/src/runlock.ts`) | a lock file | take, retry once, release | several processes, several system calls, kills |
| Run lifecycle (`runlifecycle.ts`, `children.ts`, `witnesses.ts`) | running children, witness files | stop, sweep, release, signal handlers | signals between any two steps; tools that outlive the sweep |
| Proving driver (`proving.ts`, `prior-generation.ts`) | files of a run, the retained packages | `prove`, `preparePriorGeneration`, `writeCustomerPackages` | minutes long, many processes; the file of the customers changes meanwhile |
| Clients (`attest.ts`, `registration.ts`, `consent.ts`, `disputes.ts`) | prepared calls, collected consent entries | prepare, sign, assemble, send and settle | lost answers, ageing signatures |
| Watchdog (`watchdog.ts`) | a state file for each target | `runWatchdog` | crash between sending and recording; retry after a timeout; two watchdogs |
| Readers (`registry.ts`, `resolve.ts`, `diagnose.ts`) | none | history, observations, resolution of an asset | paging over a moving chain; one answer from many reads |
| Inclusion (`inclusion.ts`, `tree.ts`, `tools/inclusion-verify`) | none | `verifyInclusion` | the order of the checks decides the verdict |
| Dashboard (`dashboard/src`) | remembered runs, the open run | start or join a run, answer a dispute | a failure after the submission; the limit of the store |
| Circuits and generator (`circuits`, `tools/recursion-gen`, `tools/package`) | witness and retained files | witness, prove, assemble, package | field arithmetic; generations of a tree |

Interactions: the driver takes the run lock and produces a proof; a client
submits it to the registry, which calls the verifier and the asset contract in
the same transaction; a customer's client or the watchdog opens a dispute with
a package of an older attestation or an email proof; the issuer's dashboard
answers it from the retained tree; anybody resolves it after the deadline.

Correct means, part by part: records agree with each other, with the proofs
and with the reserve set they are about (registry); one dispute per customer
and target, a right and final outcome, and an escrow in which every stroop is
accounted for (disputes); one run at a time and no lock that outlives its run
(run lock); no witness left behind (lifecycle); at most one deposit for a target
(watchdog); pages and reports that claim only what the chain holds (dashboard
and clients); a verdict that follows from the chain (readers and inclusion); no
customer lost from one attestation to the next (continuity).
`PROJECT.json` lists the hazards by line with the properties that cover them.

## 2. Plan

Done: the registry with its disputes and their proofs; the run lock; the run
lifecycle with the working tree that it implements; the dashboard; the
watchdog; the collection of consents; the readers; the check of an inclusion
package; the continuity of the customers over the attestations, with its proofs.

The proofs cover every safety invariant and action property that a passing run
checks, and the refinement of `WorkingTree`.

Left: liveness, which stays with TLC (section 6), and the parts of section 7.

## 3. Modules and the code

**`Registry`** is the attestation side of the contract. A Soroban call is one
atomic transaction and an error leaves no trace, so there is one action per call,
enabled exactly when the call returns `Ok`; the conjuncts follow the checks of
the code. `entry`, `history`, `observations` and `firstLow` are storage keys of
`DataKey`; a count and its records are one sequence. `Prove` is
the end of a proving run: it publishes a proof for the entry as it is, and
`SubmitAttestation` may use it any time later. `CloseLedger` is the network.

Abstractions: a hash is an injective constructor, so a context hash is the
record of what it hashes and a reserve set hash is the set; a root is the set of
identifiers of its leaves with a flag for a value above the modulus; a `Word` is
a U256 in a range that holds each field element and one alias; a balance is any
value the asset contract answers in that transaction, or a failed read; a
signature is membership in `Signers`; events and storage lifetimes are left
out.

**`Disputes`** extends `Registry` with the email `keys`, `disputes`, `bond` and
`xlm`, the balances of the native asset. `Transfer` fails below zero, as the asset contract
does. The target argument 0 stands for the absent one. `EmailProofs` relates key
records and identifiers for which a valid email proof exists. Payments to the
contract outside of the registry's calls are not modelled.

**`RunLock`** has one action for each system call of `takeRunLock` and its
release: exclusive creation, write (which can fail on a full disk), read of the
owner, probe, unlink. The file remembers its creator because a write goes
through the creator's handle and no longer reaches the path after an unlink. A
process can be killed before any call. `MCRunLock` instantiates it under names of
its own, so that one proof module can speak of the lock file and the lifecycle.

**`RunLifecycle`** is `withRunLifecycle` around the body of `prove`. `TakeLock`
is `takeRunLock` as one step (its own steps are in `RunLock`), `BeginFirstSweep`,
`SweepPath` and `SweepDone` are `clearWitnesses` path by path, `StartTool`,
`ToolWrites`, `LeaderExits` and `ToolEnds` are `runTool` and the process group,
`StopChildren`, `BeginLastSweep` and `ReleaseLock` the way out. `Signal` and the
steps after it are the handlers of `guardChildren` and `guardWitnesses`, `Kill` is
an end without any code. `disk` says which driver's file is at each path,
`used` whose files the tools of a run have read. `Stage` lists the tools with
the paths that each one reads and writes.

**`WorkingTree`** is the abstract specification of that lifecycle: a run claims
the tree, alone changes it, and returns it without a file of its own. It has no
lock file, guard, tool or sweep. `RunLifecycle!Tree` maps the lock to `owner` and
the creators of the files on disk to `writers`. Two things the operating system
decides appear in both: `blocked`, that a file cannot be removed, and `late`, the drivers
whose tools may write after the end of their driver.

**`Dashboard`** is the process with its store. A step is what happens between
two awaits. `req` is the progress of a post of the form (`startRun`,
`submitRun`), `rec`, `order` and `open` the store, `work` the step of a run
(`performRun`), `ans` an answer to a dispute, `tools` the one set of running
children of the process, `tx` the transactions. `Page` is what the page of a run
says.

**`Watchdog`** is `runWatchdog` with the client call that sends its deposit. `file`
is the state file of each target, `Torn` one that was created and not yet
written. `run` holds the location of each command run and what it has read. A
step ends where the code awaits an answer; an answer can be an error, and a run
can be killed at each step.

**`Consent`** is the collection of consents: `Prepare`, the signatures of the
holders on other machines, `SubmitPreparedCall` with the files it picks, `Send`
and `Poll`. A transaction keeps the sequence number and the time bounds of the
moment it was prepared, an entry keeps the call it was exported from.

**`History`** is `readAttestationHistory`, the command `history`, the history of the asset
page and the records read by ranges. An endpoint serves a moving window of
ledgers in pages, and a cursor is a ledger and a position in it. The endpoint reads
forward from the cursor it is given and may answer that cursor again, but no earlier
one: `registry.ts:825` compares with the last cursor alone, so the loop would follow
an endpoint that goes back or alternates between cursors for as long as it does.

**`AssetPage`** puts an answer about an asset together from its reads: the walk over
the generations (`locateAsset`), the ledger, the reserves, the diagnosis after
a failure, the observation status and its records. Each read is one step and
can fail; registries, balances and ledgers change in between. `recordAt`, `calm`
and `began` only serve the properties. **`MCReaders`** puts both readers side by side.

**`Inclusion`** is `verifyInclusion` and its callers. A hash is the list of its
inputs, a file is a genuine package in which at most one field differs, and the
check follows the order of the code, with its calls as separate steps. A tree
is the function of its levels, a path walks from a leaf up to the root. The checks
that throw in an order are chains of conditions (`parsePackageTrusting`,
`Compared`): which of two faults a file is refused for is decided by their order.

**`Continuity`** follows a run from the count of attestations and the retained manifest
(`preparePriorGeneration`, `check_prior` of the generator) over the proof and
the submission to the packages (`write_packages`), as the command line, the
dashboard or the package tool does it by hand. `kept` are the manifests,
`packed` the packages, `file` the file of the customers, which changes at any time.

The modules meet in these places. `Disputes` contains `Registry`. `RunLifecycle`
implements `WorkingTree` and uses the lock that `RunLock` details. The transactions in
`Dashboard`, `Watchdog`, `Consent` and `Continuity` execute by the rules of the
registry that matter there: the snapshot window, one dispute per target and identifier,
the footprint with its nonces.

Definitions that start with "Faulty variant" are plausible mistakes (a dropped guard, a
swapped order) used to confirm that the properties notice them; no specification
uses them.

## 4. Runs

A property that is listed with parts is their conjunction, defined in the
module under that name.

| Run | Specification | Checks |
|---|---|---|
| `registry_core` | `RegistrySpec` | `TypeOK`, `SlotIsSound` (`SlotIsNewestRecord`, `SlotBindsReserves`), `AttestationsAreProved`, `ObservationsCompareSameReserves`, `FirstLowIsLeast`, `EntriesAreConsented`, `RecordsArePermanent` |
| `dispute_evidence` | `FairSpec` | `DisputesTypeOK`, `OneDisputePerCustomer`, `DisputesRestOnEvidence`, `OutcomesAreRight`, `SettlementsArePermanent`, `DisputesAreSettled` |
| `dispute_escrow` | `Spec` | `EscrowIsSound` (`EscrowBalanced`, `BurnsAreRecorded`, `OpenDisputesAreResolvable`), `BalancesAreExplained` |
| `runlock` | `FairLockSpec` | `LockIsSound` (types, `LockNamesARun`), `StaleLockIsReplaced` |
| `lifecycle` | `Spec` | `TreeIsSound` (types, `EndingIsClean`, `DeadFilesAreSwept`), `ProofIsFromOwnFiles`, `ImplementsWorkingTree` |
| `dashboard` | `FairSpec` | `StoreIsSound` (types, `StoreFollowsWork`), `PagesAreTrue` (`AcceptedMeansRecorded`, `FinishedMeansDone`), `ResultsAreKept`, `EveryRunEnds` |
| `watchdog` | `Spec` | `JournalIsSound` (types, `EarlierTargetsAreSettled`, `RecordsAreTrue`), `LiveDepositIsJournaled`, `OnlyLatePackagesAreDisputed`, `RetryOnlyAfterDeadDeposit`, `QuietExitLeavesNothingInDoubt` |
| `consent` | `Spec` | `SubmissionsAreSound` (types, `SentIsComplete`), `AcceptedIsExecuted` |
| `readers` | `ReadersSpec` | of `AssetPage`: `ViewIsSound` (types, `CurrentIsNotStale`, `FirstLowIsTold`, `MarkerIsNeverLost`, `DiagnosisFindsTheAddress`), `WalkSkipsNothing`; of `History`: `CollectedIsSeamless` (types, `PagesAreSeamless`, `RangesAreSeamless`), `ClaimsAreTrue` (`SilenceIsAbsence`, `WindowIsStated`, `CoversMeansComplete`, `AnswerShowsTheWindow`), `RequestsAdvance` |
| `inclusion` | `Spec` | `IncludedMeansCommitted`, `CustomersAreAnswered` (types, `GenuineIsIncluded`, `InclusionIsPermanent`, `NoVerdictMeansNoAnswer`) |
| `continuity` | `Spec` | `PackagesAreSound` (types, `PackagesMatchTheRoot`, `PackagesContinue`), `RunsRestOnUnbrokenHistory` |
| `runlock_empty_file` | `LockSpec` | `OneHolder`, violated |

Each property of a passing run is broken by a mutant of a mapped definition,
listed in `PROJECT.json`.

Bounds. `registry_core`: one asset (assets share nothing on this side), four
addresses of which one never signs, reserve lists that are good, duplicated,
name the authority or name a stranger, balances -1 and 1 against an i128 of -2
.. 1 so that a sum can overflow, three ledgers with a window of one so that a
snapshot expires and the window saturates, two proofs, two attestations and two
observations, which is enough for an old proof after a reserve change and for a
second low observation. `dispute_evidence`: two attestations so that evidence
can be older than the target and the newest root is not the target's, two
disputes, a modulus of two with the alias 3 of the customer 1, an i128 of 0 .. 1
for bonds. `dispute_escrow`: two assets of two authorities with one
unit of XLM each, two deposits, and an email proof for two customers of the first asset, so that
two disputes burn one bond and those of the other asset share the account.

`runlock`: three processes (a dead owner, a winner and a late one), two
kills. `lifecycle`: two drivers, one kill, a tool that can end before a process
it started, and a path that cannot be removed; a third driver would meet
the files of either of two others, which are the same case. `dashboard`: two
posts on a store of one run so that a run is forgotten, one answer that runs
beside it, one restart, a window of one ledger that closes before, during and
after the proof. `watchdog`: three runs on two targets, so that the order of the
targets matters and a retry can meet an earlier deposit and a later run both;
five ledgers and an age limit of three let a target pass its grace, a deposit
expire and be sent again in time, and a target become too old. `consent`: two calls and two addresses, so that entries
of two calls mix; the time bounds and then the signatures expire.
`readers`: two generations of which the older stores no observations, two
addresses, two observations; pages of one record, a scan and a window of two
ledgers of four, and two attestations in one ledger. `inclusion`: trees of two and of
four leaves and a registry on another network, so that an index and a
path of one depth meet another, and one change of each field. `continuity`: two
processes, three runs, two changes of the file, two identifiers: the second of
three attestations can lose a customer, and a run can start before and end after it.

Fairness. `dispute_evidence` assumes that ledgers close and that a dispute that
stays resolvable is resolved by someone: `resolve_dispute` needs no
authorization and refunds the disputer. It assumes nothing of the issuer. The
end of the u32 sequence is excluded in the property. `runlock` assumes that
a live process takes its next system call and starts another run some time, and
that a write tried again and again does not always fail. `dashboard` assumes
that the event loop goes on and that each tool and each call of a run ends, with
or without success; it assumes nothing of the network, so a run may end by
failing. The other runs state safety alone.

`CHECK_DEADLOCK FALSE` stands where all processes may have ended or the bounds
are used up.

## 5. Findings

`runlock_empty_file` is in `sdk/src/runlock.ts`: `openSync` and `writeSync` are two
calls. A second process that reads the file in between finds no owner, unlinks
the file and takes the lock; the first then writes through its handle and also
holds it. Lines 88-93 describe this failure as the one that the code avoids.

The code and a text of the repository also differ in the following places. Each has a
definition in its module that states the text; put it in place of the
properties of the named cfg (as a PROPERTY when it is about a step) to see the counterexample. Paths are under `sdk/src` where no
other is given.

| Definition | Text | What the code does |
|---|---|---|
| `RunLock!RetryRefuses` (`MCRunLock`, through `L`) | `runlock.ts:76-78` | a process that read a dead owner unlinks the path later (line 111) and removes the live lock of the process that replaced it; both run |
| `RunLock!ReleaseTakesOwnLock` (`MCRunLock`, through `L`) | `runlock.ts:126-127` | the release reads the owner (line 128) and removes what the path names (line 130) in two calls; when a process that was about to unlink the path replaces the file in between, the release removes the lock of the run that followed |
| `RunLifecycle!DeadFilesDoNotOutliveNextStart` (`MCRunLifecycle`) | `witnesses.ts:21-24` | a tool of a killed driver writes after the first sweep of the next run (`proving.ts:190` starts it in a group of its own) |
| `RunLifecycle!EndingLeavesOnlyStuck` (`MCRunLifecycle`) | `runlifecycle.ts:66-68` | a path that cannot be removed ends the last sweep, and the paths after it stay (`witnesses.ts:88`) |
| `Dashboard!NothingMeansNothing` (`MCDashboard`) | `dashboard/src/views/run.tsx:155` | a submission whose answer was lost can be recorded although the page says that the run submitted nothing (`attestation.ts:106-109`) |
| `Dashboard!ProofOutlivesFailure` (`MCDashboard`) | `dashboard/src/attestation.ts:75-77` | when the ledger cannot be read after the proof, the proof is not recorded (line 228) |
| `Dashboard!AnswersWaitForRuns` (`MCDashboard`) | `dashboard/src/routes.tsx:365-367` | the open run is checked once; a run can start while the answer awaits |
| `Dashboard!RunsStopOwnTools` (`MCDashboard`) | `children.ts:185` | the end of a run stops every child of the process (line 193), the tool of an answer too |
| `Watchdog!MissingRecordIsMissing` (`MCWatchdog`) | `watchdog.ts:297` | the dispute is read before the transaction; a deposit that lands between is reported as one without a record |
| `Watchdog!RestartCanReadItsState` (`MCWatchdog`) | `sdk/README.md:167-168` | a kill between the creation and the write (`watchdog.ts:119`) leaves an empty state file, which every later run refuses |
| `Watchdog!GraceChangesOnlyTiming` (`MCWatchdog`, `Graces = {1, 2}`) | `sdk/README.md:160-162` | a state file of another grace is refused (`watchdog.ts:201`) |
| `Watchdog!RetryOnlyAfterDeadDeposit` (`MCWatchdog`, `Concurrent = 2`, `LastTarget = 1`, `MaxKills = 0`) | `sdk/README.md:169` | nothing keeps two runs on one state directory apart (`watchdog.ts:307`, `426`) |
| `Consent!CollectionStaysUsable` (`MCConsent`) | `registration.ts:168-171` | the time bounds of the prepared transaction (line 152) or a sequence number used elsewhere end the collection before the signatures do |
| `Consent!SignaturesExpireTogether` (`MCConsent`) | `registration.ts:47` | the expiration of an exported entry is that of the signing command (`cli.ts:599`) |
| `Consent!UnsuccessfulStaysUnsuccessful` (`MCConsent`) | `registration.ts:313` | a poll that gives up (307-313) leaves a transaction that can still execute |
| `History!CoversIsComplete` (`MCReaders`, through `H`) | `registry.ts:716-717` | a full page that ends inside the latest ledger ends the query (line 821) |
| `AssetPage!FailureNamesTheAddress` (`MCReaders`) | `dashboard/src/views/reserves.tsx:164` | a call without an answer also names its address (`diagnose.ts:66`) |
| `Continuity!NoIdentifierIsOmitted` (`MCContinuity`) | `prior-generation.ts:13` | two runs that read the same newest attestation (line 23) can both be accepted, the second without a customer of the first; `RunsRestOnUnbrokenHistory` says that no later run builds on it |
| `Continuity!RootIsStated` (`MCContinuity`) | `report.ts:145-148` | a failure of the submission ends the command before the report of the proof (line 108) |

`History!AnswerShowsTheWindow` holds with its condition `From = 0` alone: the sentence of
`cli.ts:499` names the window although a command with `--from` asked from a later ledger. `submitPreparedCall` of
the library, called without the command, also sends entries that carry no signature
(`consent.ts:258`, against 244-245); the model is of the command.

## 6. Proofs

Assumptions: the named `ASSUME`s of the modules that declare the constants
(addresses, widths and bounds are what their names say, `None` is no record and
no process, the contract is no caller, there is a customer, a page and a window
of the endpoint hold something, the calls of a collection and the runs of a
watchdog are finitely many; there is a registry, `NoAddress` is neither an asset
nor a customer, the fields that a file can alter are those listed). TLC evaluates them in every run. Nothing else is assumed, except that four theorems of `WatchdogProofs`
have the hypothesis `Concurrent = 1`.

`ContractProofs`, the attestation side

- `RegistryTypeCorrect`: `RegistrySpec => []TypeOK`, one step per action.
- `StepCases` reduces the actions to four effects: quiet, an entry gets a
  reserve set and an empty slot, a record is appended and fills the slot, an
  observation is appended. The other invariants are proved from these cases.
- `RegistryInv` is inductive. `ObservationsCompareSameReserves` is not inductive
  by itself: an observation compares with the newest record, so it needs that
  the slot is that record (`SlotIsNewestRecord`), that it is of the present
  reserve set (`SlotBindsReserves`) and that no record is of a later ledger
  (`HistoryIsPast`). `HistoryIsPast` also says that an unregistered asset has no
  record, which `AttestationsAreProved` needs at registration.
- Theorems from it: `SlotIsCurrent` (`SlotIsSound`), `RecordsAreProved`,
  `ObservationsAreSound`, `FirstLowCorrect`. `ConsentIsKept` is inductive with
  the types; `RecordsStay` is an action property, proved step by step.

`ContractProofs`, the disputes

- `ContractKeepsRegistry`: `Spec => RegistrySpec`; every theorem above holds of
  the whole contract.
- `DisputesTypeCorrect`: `Spec => []DisputesTypeOK`, which holds the absence of
  overflow and of negative balances.
- `DisputesAreUnique`: from the invariant `KeysAreCanonical`.
- `CallCases` reduces the calls to what they do to the disputes, the bonds and
  the balances: open, answer, resolve, fund, or none of it. `SettlementsStay`
  is proved from the cases alone.
- `EvidenceStays` needs more than the registry's `RecordsStay`: that the history
  and the keys only grow, so that what a dispute was opened with stays where
  it was (`RecordsKept`).
- `OutcomesStayRight` is inductive with the evidence and once no dispute was opened
  in the future (`OutcomeInv`).
- `EscrowStaysSound` counts: the sums of the equations are cardinalities, so
  `EscrowInv` says that the sets are finite, and each case adds or removes one block
  of their elements (`BlockAdded`, `BondsGrow`, `BurnsGrow`). No overflow locks a
  dispute because a bond was funded inside an i128 with what it had already burned.
- `BalancesStayExplained` is the same equation for each address (`BalanceInv`). It
  needs `OnlyRegistered`: only a registered asset has a bond or a dispute, so the
  authority that an equation names does not change under it.

`RunLifecycleProofs`, the lock file (`RunLock` is the instance `L` of `MCRunLock`)

- `LockStaysSound`: `LockIsSound` is inductive. A name reaches the path only while
  the path is the file of the writer, who enters its run in the same step. (That two
  processes can be inside is the finding of section 5; it does not contradict this:
  the file of one of them is no longer at the path.)

`RunLifecycleProofs`

- `TreeStaysSound` and `ProofsStayOwn` rest on `LifecycleInv`: the lock names the
  run between its first and its last step (`LockIsHeld`), a tool runs only where
  its driver waits for it or has lost it (`ToolsAreBound`), what the two sweeps have
  passed is empty or stuck (`EntryIsSwept`, `ExitIsSwept`), and what a run has read is its own or of a
  driver that a tool outlived (`ReadsAreOwn`).
- `LifecycleImplementsTree`: `TakeLock` is `Claim`; `SweepPath`, `StartTool` and the
  sweeps of the signal handlers are `Use`; `ToolWrites` is `Use` or `LateWrite`;
  `ReleaseLock` and the end by a signal are `Return`; the end of a leader, of a tool and a kill are
  `Fate`; every other step leaves the abstract state as it is.

`ConsentProofs`

- `ConsentInv`: the entries of a call expire after the call does (`CallsExpire`),
  a run that has picked its files picked one for each address (`PicksAreComplete`,
  `SentPicksAreComplete`), a run polls its own transaction (`PollsAreSent`), what
  succeeded did so with entries of the call itself (`SuccessIsOwn`), and a call
  that a run reports as accepted succeeded (`AcceptedSucceeded`). `SeqIsCounted`
  bounds the sequence number, which is what the types need.
- `SubmissionsStaySound`, `AcceptedStaysExecuted` follow.

`WatchdogProofs`

- `WatchdogInv` is inductive for any number of active runs. It says what each run
  knows at each of its steps (`RunOK`) and what is true of each transaction
  (`TxOK`): a package that a run found missing after its deadline was late and
  stays so (`LatePackage`, `LateStays`), because the ledger was read before the
  package; and what a record claims stays true of a chain that only grows
  (`Claims`, `Grows`). `OnlyLateStaysDisputed` and `RecordsStayTrue` need no more.
- The rest holds when runs follow one another (`Concurrent = 1`); with two active runs
  it does not (section 5). `AloneInv` says where the one active run stands: every
  target before it is settled, none after it has a file, its own file is missing,
  empty or pending, and no deposit for it can land until this run sends one
  (`NoLive`). A transaction that the network can take has the next sequence
  number, so it cannot be of a target with a dispute (`DisputedHasNoLive`), and a
  journal that is read finds the only one that can be of its target
  (`PendingKeepsAlone`).
- `JournalStaysSound`, `LiveDepositsStayJournaled`, and the action properties
  `RetriesStaySafe` and `QuietExitsStaySafe`.

`DashboardProofs`

- `DashboardInv` is local to a run (`RunOK`): a request that started nothing has
  sent nothing (`FreshOK`), and the record, the transaction and the step of a run
  that works are equally far (`WorkOK`, `RecordOK`). `StoreIsSound` and
  `PagesAreTrue` follow. `OneRun` says that a step of one run has only that run to
  answer for; `RunEnds` and `RunGoesOn` keep the open run with the work.
- `ForgetMakesRoom`: the store is cut to one below its limit and names no new run,
  so its length stays inside any limit and what stays is unchanged.
- `StoreStep` keeps the records (`KeepsResults`) with the invariant, which gives
  `ResultsStay`. `AnswersAreSigned` is needed for the types alone: an answer is
  signed before it is sent.

`ReadersProofs`

- `ViewInv` says from which moment each field of an answer is: the record is of the
  walk and the ledger is read after it (`TimesOK`), so an age that is inside the
  window was inside it at the record; the marker is the first low one of a history
  that only grows (`MarkerOK`); while an answer is calm, its reserves are those
  of the entry, and each address that cannot be read has failed or is still to be asked
  (`CalmOK`, `DiagnosisOK`). `RegistryStepKeeps` says what a step of the network owes
  to an answer in progress, `ReaderStep` what a step of the reader owes.
- `ViewStaysSound` (`ViewIsSound`) follows, and `WalkStaysWhole` (`WalkSkipsNothing`)
  from `WalkOK`: no generation above the present one held the asset as the walk began.
  Both are about `ReadersSpec`; `ReadersAreViews` takes them to `AssetPage`.
- `HistoryInv` says that a query has collected exactly the events between its start
  and its cursor (`CursorOK`, as a `Segment` of positions), and a walk the records
  before its next one (`RangesOK`). The events up to a ledger are an initial part
  of a sorted sequence, as long as their number (`PrefixCount`), so closing a
  ledger moves no position that was read (`UpToStays`), and a page joins the
  segment before it (`SegmentsJoin`, `PositionFacts`, `PageCursorFacts`).
- `CollectionStaysSeamless` (`CollectedIsSeamless`), `ClaimsStayTrue` (`ClaimsAreTrue`, by
  `CoveredFacts`: a covered query stands at the last event of its last ledger, or at
  one of several) and `RequestsStayAdvancing` (`RequestsAdvance`, by `PageKeeps`: each
  request after the first is strictly further and inside the stated window) follow,
  the last over an endpoint that reads forward (section 3).
  `OrderOK` is what the boundary needs that the command prints: the first
  generation is read last, so its limit is not before the start of any other query.

`ContinuityProofs`

- `ContinuityTypeCorrect`: `Spec => []TypeOK`, with the equivalence of holding
  the lock and proving. Most steps replace one run: `RunStepTypeOK` says what
  such a step owes, and one lemma per part of a run pays it.
- `PackagesStaySound` (`PackagesAreSound`) and `HistoryStaysUnbroken`
  (`RunsRestOnUnbrokenHistory`) rest on one inductive invariant, `Inv`. Neither
  is inductive: the comparison of `check_prior` is steps away from its effect. A
  run carries a proof that it compared before (`ProofsKeep`), a sent transaction
  carries it further (`FlightKeeps`), and the chain holds it for good
  (`ChainKeeps`). The manifests are without a gap (`KeptIsUnbroken`), because the
  run that writes one passed the gate of `write_packages` (`WritersKnow`), as the
  packages did before it (`PackedJoins`).
- `StepWriters` names the step that can write each variable and `StepGrows` says
  that the chain and the manifests only grow, so each conjunct has one step to
  look at; `Gate` is what passing `write_packages` establishes.

`InclusionProofs`, the tree

- `WalkBindsTheLeaf`: a walk that ends at the root of a tree of its depth began at
  the leaf of its index and took that leaf's own siblings (`OwnPath`); `OwnPathMeetsTheRoot`
  is the converse. The first goes from the root down to the leaf, the second from
  the leaf up: both are inductions on the level (`LevelInduction`, from the least
  element of a set of numbers), with the index of a node as the halved index of the
  leaf (`PositionHalves`, `PositionInLevel`, `PairOfPosition`) and the sizes of the
  levels as doublings (`CapacityDoubles`). `IterationExists` gives the recursive
  functions their defining equations.

`InclusionProofs`, the check

- `WrittenIsGenuine`, `AlteredFields`: what a file can be. `LocalVerdictFacts` and
  `RecordFacts`: what a file that passed the checks without the chain, and the
  comparison with a record, must be.
- `InclusionInv` carries this to the verdict, by `HistoryOK` (every attestation has
  a root of a tree of its registry), `CheckOK` (what each step of a check has
  established, and of which generation) and `AnswerOK` (what an answer owes).
  `IncludedMeansCommitted` is not inductive: the comparison is steps before the
  verdict, and attestations are appended and generations recorded in between, which
  `CheckOutlives` and `AttestExtends` show to change nothing a check relied on.
- `IncludedIsCommitted` (`IncludedMeansCommitted`) and `CustomersGetAnswers`
  (`CustomersAreAnswered`) follow.

Only model-checked: liveness under fairness (`DisputesAreSettled`,
`StaleLockIsReplaced`, `EveryRunEnds`), which is out of the prover's reach, and the
violated statements of section 5.

## 7. Not modelled

The cryptography of the proofs, the circuits' constraints and the vendored
verifier: their soundness is the assumption that a proof exists only for what
it states. Scripts, configuration, formatting and rendering: no state that
survives a call. The email tools run before a transaction and hold no state.

Four hazards are left out of `PROJECT.json` because no property can be about
them in these models, for a limit that the code documents or that the platform
sets: the administrator of a contract token is the one recorded at registration
(`contracts/registry/src/lib.rs:550`); an archived entry reads as absent to a
simulation (`lib.rs:468`); an identifier of a dead owner can be given to an
unrelated process, which blocks runs until that one ends (`runlock.ts:52`); two
watchdogs on one state directory (`watchdog.ts:307`, in section 5).
