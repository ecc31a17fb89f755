----------------------------- MODULE AssetPage ------------------------------
(***************************************************************************)
(* The answer about one asset: the asset page of the dashboard and the     *)
(* commands entry, observe-reserves and diagnose-reserves (sdk/src         *)
(* resolve.ts, registry.ts, diagnose.ts and cli.ts; dashboard/src chain.ts *)
(* and model.ts).                                                          *)
(*                                                                         *)
(* An answer is put together from many simulations, each of which reads    *)
(* the network at its own moment and may fail on its own: the walk over    *)
(* the generations, the latest ledger, the reserves, each reserve address  *)
(* after a failure, the status of the recorded observations and the        *)
(* records that it names. The registries change between any two of them.   *)
(***************************************************************************)
EXTENDS Naturals, Sequences, FiniteSets

CONSTANTS
  Generations,      \* number of recorded generations; the greatest is the newest
  Legacy,           \* the generations that store no observations
  ReserveSets,      \* the reserve sets that each generation may be given
  Kinds,            \* the answers asked for
  Window,           \* ATTESTATION_MAX_AGE_LEDGERS
  MaxLedger,        \* bound: ledgers
  MaxObservations   \* bound: stored observations of one generation

Generation == 1..Generations
Reserve == UNION UNION {ReserveSets[g] : g \in Generation}

ASSUME AssetPageAssumption ==
  /\ {Generations, MaxLedger} \subseteq Nat \ {0}
  /\ {Window, MaxObservations} \subseteq Nat
  /\ Legacy \subseteq Generation
  /\ \A g \in Generation : {} \notin ReserveSets[g]
  /\ Kinds \subseteq {"page", "entry", "observe", "diagnose"}

VARIABLES
  ledger,    \* the latest ledger
  entry,     \* the record of the asset in each generation
  low,       \* the below_attested flags of the stored observations
  broken,    \* the addresses whose balance the asset contract does not give
  job        \* the answer that is put together

vars == <<ledger, entry, low, broken, job>>

\* AssetRecord: an empty reserve set stands for no record, snapshot 0 for an
\* empty attestation slot.
Entry == [reserves : SUBSET Reserve, snapshot : 0..MaxLedger]
NoEntry == [reserves |-> {}, snapshot |-> 0]
Holders == {g \in Generation : entry[g].reserves # {}}

\* RecordedObservationView, none while it is not read
Stored == {"none", "unsupported", "failed", "available"}

\* AssetView while it is read: count and marker are the observation status,
\* latest and firstLow the records that it names. began, recordAt and calm
\* only serve the properties: the holders when the walk began, the ledger at
\* which the record was read, and whether the reserves and their balances have
\* been the same since.
NoJob == [kind |-> "none", pc |-> "idle", at |-> 0, record |-> NoEntry, now |-> 0,
          observed |-> "none", supports |-> "unknown", left |-> {}, failed |-> {},
          stored |-> "none", count |-> 0, marker |-> 0, latest |-> 0, firstLow |-> 0,
          began |-> {}, recordAt |-> 0, calm |-> TRUE]

Init ==
  /\ ledger = 1
  /\ entry = [g \in Generation |-> NoEntry]
  /\ low = [g \in Generation |-> <<>>]
  /\ broken = {}
  /\ job = NoJob

-----------------------------------------------------------------------------
(* The network and the registries *)

Close ==
  /\ ledger < MaxLedger
  /\ ledger' = ledger + 1
  /\ UNCHANGED <<entry, low, broken, job>>

\* What the reserves of a generation are changes while an answer is read.
Disturb(gs) ==
  job' = [job EXCEPT !.calm = @ /\ ~(job.pc \notin {"idle", "locate"} /\ job.at \in gs)]

\* register_asset, or set_reserves, which empties the attestation slot. The
\* contract also takes the set that the asset has already.
SetReserves(g, rs) ==
  /\ entry' = [entry EXCEPT ![g] = [reserves |-> rs, snapshot |-> 0]]
  /\ IF rs = entry[g].reserves THEN UNCHANGED job ELSE Disturb({g})
  /\ UNCHANGED <<ledger, low, broken>>

Readable(rs) == rs \cap broken = {}

Attest(g, s) ==
  /\ g \in Holders /\ Readable(entry[g].reserves)
  /\ s <= ledger /\ ledger <= s + Window
  /\ entry' = [entry EXCEPT ![g].snapshot = s]
  /\ UNCHANGED <<ledger, low, broken, job>>

\* A balance read of an address starts or stops to fail. (external)
Balances(a) ==
  /\ broken' = IF a \in broken THEN broken \ {a} ELSE broken \cup {a}
  /\ Disturb(Generation)
  /\ UNCHANGED <<ledger, entry, low>>

\* ObservationStatus of a registry: the count, and the first low observation.
Marker(g) ==
  LET lows == {n \in DOMAIN low[g] : low[g][n]} IN
  IF lows = {} THEN 0 ELSE CHOOSE n \in lows : \A m \in lows : n <= m

\* submitReserveObservation: the transaction reads the reserves again when it
\* executes and stores its own reading, or it reverts, whatever the simulation
\* before it answered.
RecordObservation(g) ==
  /\ g \in Holders \ Legacy /\ Readable(entry[g].reserves)
  /\ Len(low[g]) < MaxObservations
  /\ \E b \in BOOLEAN :
       /\ b => entry[g].snapshot # 0
       /\ low' = [low EXCEPT ![g] = Append(@, b)]
  /\ UNCHANGED <<ledger, entry, broken, job>>

-----------------------------------------------------------------------------
(* locateAsset *)

Begin(k) ==
  /\ job.pc = "idle"
  /\ job' = [NoJob EXCEPT !.kind = k, !.pc = "locate", !.at = Generations,
                          !.began = Holders]
  /\ UNCHANGED <<ledger, entry, low, broken>>

\* What is read after the record.
Located(j) ==
  CASE j.kind = "page" -> "ledger"
    [] j.kind = "entry" -> IF j.record.snapshot = 0 THEN "shown" ELSE "ledger"
    [] j.kind = "observe" -> "observe"
    [] j.kind = "diagnose" -> "diagnose"

\* AssetNotRegistered: the walk goes on with the generation before.
NotRegistered(j) ==
  IF j.at = 1 THEN [j EXCEPT !.pc = "absent", !.began = {}] ELSE [j EXCEPT !.at = @ - 1]

AskEntry ==
  /\ job.pc = "locate"
  /\ job' = IF job.at \notin Holders THEN NotRegistered(job)
            ELSE LET j == [job EXCEPT !.record = entry[job.at], !.recordAt = ledger, !.began = {},
                                      !.left = entry[job.at].reserves, !.calm = TRUE] IN
                 [j EXCEPT !.pc = Located(j)]
  /\ UNCHANGED <<ledger, entry, low, broken>>

-----------------------------------------------------------------------------
(* readAssetView and the commands *)

AskLedger ==
  /\ job.pc = "ledger"
  /\ job' = [job EXCEPT !.now = ledger,
                        !.pc = IF job.kind = "page" THEN "observe" ELSE "shown"]
  /\ UNCHANGED <<ledger, entry, low, broken>>

\* solvencyLapsed
Lapsed(j) == j.now > j.record.snapshot + Window

\* solvencyResult: what the answer says of the solvency claim.
Claim(j) ==
  IF j.record.snapshot = 0 THEN "none" ELSE IF Lapsed(j) THEN "lapsed" ELSE "current"

\* The simulation of observe_reserves: a sum with or without the fields of a
\* recorded observation, or the refusal ReserveBalanceUnavailable.
Observe ==
  /\ job.pc = "observe"
  /\ Readable(entry[job.at].reserves)
  /\ job' = [job EXCEPT
       !.observed = "sum",
       !.supports = IF job.at \in Legacy THEN "no" ELSE "yes",
       !.stored = IF job.kind = "page" /\ job.at \in Legacy THEN "unsupported" ELSE "none",
       !.pc = IF job.kind = "observe" \/ job.at \in Legacy THEN "shown" ELSE "status"]
  /\ UNCHANGED <<ledger, entry, low, broken>>

\* A failed observation stops the command; the page goes on address by address.
NoObservation(j, why) ==
  [j EXCEPT !.observed = why, !.pc = IF j.kind = "observe" THEN "failed" ELSE "diagnose"]

Refused ==
  /\ job.pc = "observe"
  /\ ~Readable(entry[job.at].reserves)
  /\ job' = NoObservation(job, "refused")
  /\ UNCHANGED <<ledger, entry, low, broken>>

\* diagnoseReserves: one balance read for each address of the record.
Diagnosed(j) ==
  IF j.left # {} THEN j ELSE [j EXCEPT !.pc = IF j.kind = "page" THEN "status" ELSE "shown"]

\* An address fails when the asset contract gives no balance, and when the
\* client gets no answer.
Failed(j, a, lost) == IF a \in broken \/ lost THEN j.failed \cup {a} ELSE j.failed

Diagnose(a, lost) ==
  /\ job.pc = "diagnose" /\ a \in job.left
  /\ job' = Diagnosed([job EXCEPT !.left = @ \ {a}, !.failed = Failed(job, a, lost)])
  /\ UNCHANGED <<ledger, entry, low, broken>>

-----------------------------------------------------------------------------
(* readRecordedObservations *)

\* The view is available once the records that the status names are read.
Available(j) == [j EXCEPT !.stored = "available", !.pc = "shown"]

\* Faulty variant: the identifier is taken once the records are read.
StoredFailedLate(j) == [j EXCEPT !.stored = "failed", !.marker = j.firstLow, !.pc = "shown"]

\* The view keeps the first-low identifier of a status that was read.
StoredFailed(j) == [j EXCEPT !.stored = "failed", !.pc = "shown"]

\* A registry without recorded observations has no such method.
AskStatus ==
  /\ job.pc = "status" /\ job.at \notin Legacy
  /\ LET j == [job EXCEPT !.count = Len(low[job.at]), !.marker = Marker(job.at)] IN
     job' = IF j.count = 0 THEN Available(j) ELSE [j EXCEPT !.pc = "latest"]
  /\ UNCHANGED <<ledger, entry, low, broken>>

\* The first-low record that needs no second read: none, or the latest one.
FirstLowKnown(j) == IF j.marker \in {0, j.count} THEN j.marker ELSE j.firstLow

NeedsFirstLow(j) == j.marker \notin {0, j.count}

\* The first-low record must be low.
Complete(j) ==
  IF j.firstLow # 0 /\ ~low[j.at][j.firstLow] THEN StoredFailed(j) ELSE Available(j)

AskLatest ==
  /\ job.pc = "latest"
  /\ LET j == [job EXCEPT !.latest = job.count, !.firstLow = FirstLowKnown(job)] IN
     job' = IF NeedsFirstLow(job) THEN [j EXCEPT !.pc = "first"] ELSE Complete(j)
  /\ UNCHANGED <<ledger, entry, low, broken>>

AskFirstLow ==
  /\ job.pc = "first"
  /\ job' = Complete([job EXCEPT !.firstLow = job.marker])
  /\ UNCHANGED <<ledger, entry, low, broken>>

\* Faulty variant: the walk goes on past a generation that failed.
LostWalkSkips(j) == NotRegistered(j)

\* A generation that fails to answer stops the walk.
LostWalk(j) == [j EXCEPT !.pc = "failed", !.began = {}]

\* One call of the client gets no answer.
Lost ==
  /\ \/ /\ job.pc = "locate"
        /\ job' = LostWalk(job)
     \/ /\ job.pc = "ledger"
        /\ job' = [job EXCEPT !.pc = "failed"]
     \/ /\ job.pc = "observe"
        /\ job' = NoObservation(job, "lost")
     \/ /\ job.pc \in {"status", "latest", "first"}
        /\ job' = StoredFailed(job)
  /\ UNCHANGED <<ledger, entry, low, broken>>

\* The exit code of a command: 0, 1 for addresses that failed, or no verdict.
Exit(j) ==
  CASE j.pc = "failed" -> "no verdict"
    [] j.pc = "absent" -> IF j.kind = "entry" THEN "0" ELSE "no verdict"
    [] OTHER -> IF j.kind = "diagnose" /\ j.failed # {} THEN "1" ELSE "0"

\* The reader has the answer, and may ask again.
Told ==
  /\ job.pc \in {"shown", "absent", "failed"}
  /\ job' = NoJob
  /\ UNCHANGED <<ledger, entry, low, broken>>

Next ==
  \/ Close
  \/ \E g \in Generation :
       \/ \E rs \in ReserveSets[g] : SetReserves(g, rs)
       \/ \E s \in 1..MaxLedger : Attest(g, s)
       \/ RecordObservation(g)
  \/ \E a \in Reserve : Balances(a)
  \/ \E k \in Kinds : Begin(k)
  \/ AskEntry \/ AskLedger \/ Observe \/ Refused
  \/ \E a \in Reserve : \E lost \in BOOLEAN : Diagnose(a, lost)
  \/ AskStatus \/ AskLatest \/ AskFirstLow
  \/ Lost \/ Told

Spec == Init /\ [][Next]_vars

-----------------------------------------------------------------------------
(* Properties *)

\* Types of the registries and of the answer in progress.
TypeOK ==
  /\ ledger \in 1..MaxLedger
  /\ entry \in [Generation -> Entry]
  /\ \A g \in Generation : low[g] \in Seq(BOOLEAN) /\ Len(low[g]) <= MaxObservations
  /\ broken \subseteq Reserve
  /\ job.pc \in {"idle", "locate", "ledger", "observe", "diagnose", "status",
                 "latest", "first", "shown", "absent", "failed"}
  /\ job.pc # "idle" => job.at \in Generation
  /\ job.record \in Entry /\ job.stored \in Stored
  /\ job.left \subseteq job.record.reserves /\ job.failed \subseteq job.record.reserves
  /\ (job.firstLow # 0 => job.firstLow <= job.latest) /\ job.latest <= job.count

Shown == job.pc = "shown"

\* An answer never comes from an older generation, and never says that no
\* generation holds the asset, when a newer one held it as the walk began
\* (locateAsset stops at a generation that fails instead of stepping past it).
WalkSkipsNothing ==
  [][job.pc = "locate" =>
       /\ job'.pc \notin {"locate", "absent", "failed"} => \A g \in job.began : g <= job'.at
       /\ job'.pc = "absent" => job.began = {}]_vars

\* A page or an entry that calls the solvency claim current is right about the
\* record it shows: the claim had not lapsed when the record was read, however
\* many ledgers closed during the request.
CurrentIsNotStale ==
  (Shown /\ job.now # 0 /\ Claim(job) = "current")
    => job.recordAt <= job.record.snapshot + Window

\* The page shows the first-low observation of the stored history that it
\* counts: the shown one is low and the first that is, and without one no
\* stored observation up to the count is low.
FirstLowIsTold ==
  (Shown /\ job.stored = "available") =>
    LET lows == {n \in 1..job.count : low[job.at][n]} IN
    /\ job.latest = job.count
    /\ job.firstLow = 0 => lows = {}
    /\ job.firstLow # 0 => job.firstLow \in lows /\ \A n \in lows : job.firstLow <= n

\* The marker that a status read found stays on the page when a later read of
\* the same request fails, that of the latest record or that of the first-low
\* one (dashboard/README.md: "the page still shows the known first-low
\* identifier"). A status that was not read has counted no observation.
MarkerIsNeverLost ==
  Shown /\ job.stored = "failed" =>
    \A n \in 1..job.count : low[job.at][n] => job.marker # 0 /\ job.marker <= n

\* While the reserves stay as they were, the diagnosis that follows a refused
\* observation names every address that the registry cannot read, and the
\* command exits with 0 only when the registry can read all of them.
DiagnosisFindsTheAddress ==
  (Shown /\ job.calm) =>
    /\ job.observed = "refused" =>
         job.failed # {} /\ job.record.reserves \cap broken \subseteq job.failed
    /\ (job.kind = "diagnose" /\ Exit(job) = "0") => Readable(entry[job.at].reserves)

\* Everything that an answer shows was so when it was read.
ViewIsSound ==
  TypeOK /\ CurrentIsNotStale /\ FirstLowIsTold /\ MarkerIsNeverLost /\ DiagnosisFindsTheAddress

\* An address that the diagnosis names as failed is one that the registry cannot
\* read (the sentence that the page prints above the table of diagnoseReserves).
\* This does not hold: a call that got no answer names its address too.
FailureNamesTheAddress == Shown /\ job.calm => job.failed \subseteq broken
=============================================================================
