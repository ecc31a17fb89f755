--------------------------- MODULE ReadersProofs ----------------------------
(***************************************************************************)
(* What the answers about one asset say is so, for any number of           *)
(* generations, reserve sets, ledgers and observations and any window: the *)
(* answer is put together from many reads, each of its own moment, and     *)
(* every one of them may fail.                                             *)
(*                                                                         *)
(* The strengthening says of each field of the answer from which moment it *)
(* is: the record from the walk, the ledger from after it, the marker from *)
(* a history that only grows, the failed addresses from balances that are  *)
(* still the same while the answer is calm.                                *)
(*                                                                         *)
(* The second half is about the history of an asset: what its queries and  *)
(* walks have collected, and what the answer claims of it, for any limit   *)
(* of a page, any window of the endpoint and any ledgers.                  *)
(***************************************************************************)
EXTENDS MCReaders, FiniteSetTheorems, SequenceTheorems, WellFoundedInduction, TLAPS

-----------------------------------------------------------------------------
(* The view of an asset *)

\* The steps before the observations are asked for, those that show a record,
\* and all of them.
EarlyStep == {"ledger", "observe", "diagnose", "status"}
HeldStep == EarlyStep \cup {"latest", "first", "shown"}
ViewStep == HeldStep \cup {"idle", "locate", "absent", "failed"}

Job ==
  [kind : Kinds \cup {"none"}, pc : ViewStep, at : 0..Generations, record : Entry, now : Nat,
   observed : {"none", "sum", "refused", "lost"}, supports : {"unknown", "no", "yes"},
   left : SUBSET Reserve, failed : SUBSET Reserve, stored : Stored, count : Nat, marker : Nat,
   latest : Nat, firstLow : Nat, began : SUBSET Generation, recordAt : Nat, calm : BOOLEAN]

RegistriesOK ==
  /\ ledger \in 1..MaxLedger /\ entry \in [Generation -> Entry]
  /\ low \in [Generation -> Seq(BOOLEAN)]
  /\ \A g \in Generation : Len(low[g]) <= MaxObservations
  /\ broken \subseteq Reserve

\* An answer j is in its types, and asks a generation unless it is idle.
JobOK(j) == j \in Job /\ (j.pc = "idle" \/ (j.at \in Generation /\ j.kind \in Kinds))

\* The fields that a step has not read yet are as they were at first, and what
\* is read of the observations is what their status names.
ReadsOK(j) ==
  /\ j.left \subseteq j.record.reserves /\ j.failed \subseteq j.record.reserves
  /\ j.pc \in EarlyStep \cup {"locate", "latest"} =>
       j.stored = "none" /\ j.latest = 0 /\ j.firstLow = 0
  /\ j.pc \in EarlyStep \cup {"idle", "locate"} => j.count = 0 /\ j.marker = 0
  /\ j.pc \in {"locate", "ledger", "observe"} => j.observed = "none"
  /\ j.pc = "locate" => j.now = 0 /\ j.failed = {}
  /\ j.pc = "first" => j.latest = j.count /\ j.firstLow = 0
  /\ j.latest \in {0, j.count} /\ j.firstLow \in {0, j.marker} /\ j.firstLow <= j.latest
  /\ j.stored = "available" => j.latest = j.count /\ j.firstLow = j.marker

\* After a refusal, and for the diagnosis command, an answer goes on only when
\* it has asked each address.
DiagnosisOK(j) ==
  /\ j.pc \in {"ledger", "observe", "status", "latest", "first"} => j.kind # "diagnose"
  /\ j.pc \in {"status", "latest", "first", "shown"} =>
       (j.observed = "refused" \/ j.kind = "diagnose" => j.left = {})

\* The marker is the first low observation of those that the status counted.
MarkerOK(j) ==
  IF j.count = 0 THEN j.marker = 0
  ELSE /\ j.count <= Len(low[j.at])
       /\ j.marker = 0 => \A n \in 1..j.count : ~low[j.at][n]
       /\ j.marker # 0 =>
            /\ j.marker \in 1..j.count /\ low[j.at][j.marker]
            /\ \A n \in 1..j.count : low[j.at][n] => j.marker <= n

\* The ledger is read after the record.
TimesOK(j) == j.recordAt <= ledger /\ (j.now # 0 => j.recordAt <= j.now)

\* While an answer is calm, the reserves are those of its record, each address
\* that cannot be read failed or is still to be asked, and a refusal had one.
CalmOK(j) ==
  j.pc \in HeldStep /\ j.calm =>
    /\ entry[j.at].reserves = j.record.reserves
    /\ j.record.reserves \cap broken \subseteq j.left \cup j.failed
    /\ j.observed = "refused" => j.record.reserves \cap broken # {}

\* The walk has asked each generation above the present one, and none of those
\* held the asset when it began.
WalkOK(j) ==
  j.pc = "locate" => j.began \subseteq Holders /\ \A g \in j.began : g <= j.at

AnswerOK(j) ==
  /\ JobOK(j) /\ ReadsOK(j) /\ DiagnosisOK(j) /\ MarkerOK(j)
  /\ TimesOK(j) /\ CalmOK(j) /\ WalkOK(j)

ViewInv == RegistriesOK /\ AnswerOK(job)

\* What the walk owes at a step: the condition of WalkSkipsNothing.
Skips ==
  job.pc = "locate" =>
    /\ job'.pc \notin {"locate", "absent", "failed"} => \A g \in job.began : g <= job'.at
    /\ job'.pc = "absent" => job.began = {}

-----------------------------------------------------------------------------
(* Shared facts *)

LEMMA ViewLimits ==
  /\ Generations \in Nat /\ Generations > 0 /\ MaxLedger \in Nat /\ MaxLedger > 0
  /\ Window \in Nat /\ MaxObservations \in Nat
  /\ \A g \in Generation : \A rs \in ReserveSets[g] : rs # {} /\ rs \subseteq Reserve
<1>1. ASSUME NEW g \in Generation, NEW rs \in ReserveSets[g]
      PROVE  rs # {} /\ rs \subseteq Reserve
  <2>1. rs \in UNION {ReserveSets[h] : h \in Generation}
    BY <1>1
  <2>2. rs \subseteq Reserve
    BY <2>1 DEF Reserve
  <2> QED
    BY <2>2, AssetPageAssumption
<1>2. /\ Generations \in Nat /\ Generations > 0 /\ MaxLedger \in Nat /\ MaxLedger > 0
      /\ Window \in Nat /\ MaxObservations \in Nat
  BY AssetPageAssumption
<1> QED
  BY <1>1, <1>2

LEMMA NoJobOK ==
  ASSUME RegistriesOK
  PROVE  AnswerOK(NoJob)
<1>1. NoEntry \in Entry
  BY ViewLimits DEF NoEntry, Entry
<1>2. NoJob \in Job
  BY <1>1, ViewLimits DEF NoJob, Job, ViewStep, Stored
<1> QED
  BY <1>1, <1>2 DEF AnswerOK, JobOK, ReadsOK, DiagnosisOK, MarkerOK, TimesOK, CalmOK, WalkOK,
     NoJob, NoEntry, EarlyStep, HeldStep, RegistriesOK

\* A step of the reader leaves the registries alone.
LEMMA ReaderStep ==
  ASSUME ViewInv, UNCHANGED <<ledger, entry, low, broken>>,
         AnswerOK(job')
  PROVE  ViewInv'
<1>1. RegistriesOK'
  BY DEF ViewInv, RegistriesOK
<1>2. AnswerOK(job)'
  BY DEF AnswerOK, JobOK, MarkerOK, TimesOK, CalmOK, WalkOK, Holders
<1> QED
  BY <1>1, <1>2 DEF ViewInv

-----------------------------------------------------------------------------
(* The network and the registries *)

\* What was stored stays, and an asset that is held stays held.
Grows ==
  /\ ledger <= ledger' /\ Holders \subseteq Holders'
  /\ \A g \in Generation :
       /\ Len(low[g]) <= Len(low'[g])
       /\ \A n \in 1..Len(low[g]) : low'[g][n] <=> low[g][n]

\* A step of the registries ends the calm of an answer, or leaves it and then
\* what it rests on.
LEMMA RegistryStepKeeps ==
  ASSUME ViewInv, RegistriesOK', Grows, NEW c \in BOOLEAN, job' = [job EXCEPT !.calm = c],
         c /\ job.pc \in HeldStep =>
           job.calm /\ entry'[job.at].reserves = entry[job.at].reserves /\ broken' = broken
  PROVE  ViewInv' /\ Skips
<1>1. job \in Job /\ AnswerOK(job) /\ RegistriesOK
  BY DEF ViewInv, AnswerOK, JobOK
<1>2. /\ job' \in Job /\ job'.pc = job.pc /\ job'.kind = job.kind /\ job'.at = job.at /\ job'.record = job.record
      /\ job'.now = job.now /\ job'.observed = job.observed /\ job'.left = job.left
      /\ job'.failed = job.failed /\ job'.stored = job.stored /\ job'.count = job.count
      /\ job'.marker = job.marker /\ job'.latest = job.latest /\ job'.firstLow = job.firstLow
      /\ job'.began = job.began /\ job'.recordAt = job.recordAt
  BY <1>1 DEF Job
<1>3. job'.calm <=> c
  BY <1>1 DEF Job
<1>4. JobOK(job)' /\ ReadsOK(job)' /\ DiagnosisOK(job)'
  BY <1>1, <1>2 DEF AnswerOK, JobOK, ReadsOK, DiagnosisOK
<1>5. TimesOK(job)'
  BY <1>1, <1>2 DEF AnswerOK, TimesOK, Grows, RegistriesOK, Job
<1>6. MarkerOK(job)'
  <2>1. MarkerOK(job)
    BY <1>1 DEF AnswerOK
  <2>2. CASE job'.count = 0
    BY <1>2, <2>1, <2>2 DEF MarkerOK
  <2>3. CASE job'.count # 0
    <3>1. job'.at \in Generation
      BY <1>1, <1>2, <2>3 DEF AnswerOK, JobOK, ReadsOK
    <3>2. /\ job.count <= Len(low[job.at]) /\ job.count \in Nat
          /\ Len(low[job.at]) \in Nat /\ Len(low'[job.at]) \in Nat
      BY <1>1, <1>2, <2>1, <2>3, <3>1, LenProperties DEF MarkerOK, Job, RegistriesOK
    <3>3. /\ Len(low[job.at]) <= Len(low'[job.at])
          /\ \A n \in 1..Len(low[job.at]) : low'[job.at][n] <=> low[job.at][n]
      BY <1>2, <3>1 DEF Grows
    <3>4. job.count <= Len(low'[job.at])
      BY <3>2, <3>3
    <3>5. \A n \in 1..job.count : low'[job.at][n] <=> low[job.at][n]
      BY <3>2, <3>3
    <3> QED
      BY <1>2, <2>1, <2>3, <3>4, <3>5 DEF MarkerOK
  <2> QED
    BY <2>2, <2>3
<1>7. CalmOK(job)'
  BY <1>1, <1>2, <1>3 DEF AnswerOK, CalmOK
<1>8. WalkOK(job)'
  BY <1>1, <1>2 DEF AnswerOK, WalkOK, Grows
<1>9. Skips
  BY <1>2 DEF Skips, HeldStep
<1> QED
  BY <1>4, <1>5, <1>6, <1>7, <1>8, <1>9 DEF ViewInv, AnswerOK, JobOK, ReadsOK, DiagnosisOK

\* Nothing disturbs an answer that was not asked for what changes.
LEMMA Undisturbed ==
  ASSUME ViewInv, UNCHANGED job
  PROVE  job.calm \in BOOLEAN /\ job' = [job EXCEPT !.calm = job.calm]
BY DEF ViewInv, AnswerOK, JobOK, Job

LEMMA CloseKeeps ==
  ASSUME ViewInv, Close
  PROVE  ViewInv' /\ Skips
<1>1. RegistriesOK'
  BY ViewLimits DEF ViewInv, RegistriesOK, Close
<1>2. Grows
  BY DEF ViewInv, RegistriesOK, Close, Grows, Holders
<1>3. job.calm \in BOOLEAN /\ job' = [job EXCEPT !.calm = job.calm]
  BY Undisturbed DEF Close
<1>4. UNCHANGED <<entry, broken>>
  BY DEF Close
<1> QED
  BY <1>1, <1>2, <1>3, <1>4, RegistryStepKeeps

LEMMA SetReservesKeeps ==
  ASSUME ViewInv, NEW g \in Generation, NEW rs \in ReserveSets[g], SetReserves(g, rs)
  PROVE  ViewInv' /\ Skips
<1>1. /\ entry' = [entry EXCEPT ![g] = [reserves |-> rs, snapshot |-> 0]]
      /\ UNCHANGED <<ledger, low, broken>>
  BY DEF SetReserves
<1>2. rs # {} /\ rs \subseteq Reserve
  BY ViewLimits
<1>3. entry \in [Generation -> Entry]
  BY DEF ViewInv, RegistriesOK
<1>4. entry' \in [Generation -> Entry]
  BY <1>1, <1>2, <1>3, ViewLimits DEF Entry
<1>5. RegistriesOK'
  BY <1>1, <1>4 DEF ViewInv, RegistriesOK
<1>6. Holders \subseteq Holders'
  BY <1>1, <1>2, <1>3 DEF Holders
<1>7. Grows
  BY <1>1, <1>6 DEF Grows, ViewInv, RegistriesOK
<1> DEFINE same == rs = entry[g].reserves
           c == job.calm /\ (same \/ ~(job.pc \notin {"idle", "locate"} /\ job.at \in {g}))
<1>8. c \in BOOLEAN /\ job' = [job EXCEPT !.calm = c]
  <2>1. job.calm \in BOOLEAN /\ job = [job EXCEPT !.calm = job.calm]
    BY DEF ViewInv, AnswerOK, JobOK, Job
  <2>2. CASE same
    BY <2>1, <2>2 DEF SetReserves
  <2>3. CASE ~same
    BY <2>1, <2>3 DEF SetReserves, Disturb
  <2> QED
    BY <2>2, <2>3
<1>9. c /\ job.pc \in HeldStep =>
        job.calm /\ entry'[job.at].reserves = entry[job.at].reserves /\ broken' = broken
  <2> SUFFICES ASSUME c, job.pc \in HeldStep
               PROVE  entry'[job.at].reserves = entry[job.at].reserves
    BY <1>1
  <2>1. job.at \in Generation /\ (job.at # g \/ same)
    BY DEF HeldStep, EarlyStep, ViewInv, AnswerOK, JobOK
  <2>2. CASE job.at # g
    BY <1>1, <1>3, <2>1, <2>2
  <2>3. CASE job.at = g
    BY <1>1, <1>3, <2>1, <2>3 DEF Entry
  <2> QED
    BY <2>2, <2>3
<1> HIDE DEF c
<1> QED
  BY <1>5, <1>7, <1>8, <1>9, RegistryStepKeeps

LEMMA AttestKeeps ==
  ASSUME ViewInv, NEW g \in Generation, NEW s \in 1..MaxLedger, Attest(g, s)
  PROVE  ViewInv' /\ Skips
<1>1. /\ entry' = [entry EXCEPT ![g] = [entry[g] EXCEPT !.snapshot = s]]
      /\ UNCHANGED <<ledger, low, broken, job>>
  BY DEF Attest
<1>2. entry \in [Generation -> Entry]
  BY DEF ViewInv, RegistriesOK
<1>3. entry'[g] \in Entry /\ entry'[g].reserves = entry[g].reserves
  BY <1>1, <1>2, ViewLimits DEF Entry
<1>4. /\ entry' \in [Generation -> Entry]
      /\ \A h \in Generation : entry'[h].reserves = entry[h].reserves
  BY <1>1, <1>2, <1>3
<1>5. RegistriesOK'
  BY <1>1, <1>4 DEF ViewInv, RegistriesOK
<1>6. Grows
  BY <1>1, <1>4 DEF Grows, Holders, ViewInv, RegistriesOK
<1>7. job.calm \in BOOLEAN /\ job' = [job EXCEPT !.calm = job.calm]
  BY <1>1, Undisturbed
<1>8. job.pc \in HeldStep => job.at \in Generation
  BY DEF HeldStep, EarlyStep, ViewInv, AnswerOK, JobOK
<1> QED
  BY <1>1, <1>4, <1>5, <1>6, <1>7, <1>8, RegistryStepKeeps

LEMMA BalancesKeeps ==
  ASSUME ViewInv, NEW a \in Reserve, Balances(a)
  PROVE  ViewInv' /\ Skips
<1>1. UNCHANGED <<ledger, entry, low>> /\ broken' \subseteq Reserve
  BY DEF Balances, ViewInv, RegistriesOK
<1>2. RegistriesOK'
  BY <1>1 DEF ViewInv, RegistriesOK
<1>3. Grows
  BY <1>1 DEF Grows, Holders, ViewInv, RegistriesOK
<1> DEFINE c == job.calm /\ ~(job.pc \notin {"idle", "locate"} /\ job.at \in Generation)
<1>4. c \in BOOLEAN /\ job' = [job EXCEPT !.calm = c]
  BY DEF Balances, Disturb, ViewInv, AnswerOK, JobOK, Job
<1>5. ~(c /\ job.pc \in HeldStep)
  BY DEF HeldStep, EarlyStep, ViewInv, AnswerOK, JobOK
<1> HIDE DEF c
<1> QED
  BY <1>2, <1>3, <1>4, <1>5, RegistryStepKeeps

LEMMA RecordObservationKeeps ==
  ASSUME ViewInv, NEW g \in Generation, RecordObservation(g)
  PROVE  ViewInv' /\ Skips
<1>1. UNCHANGED <<ledger, entry, broken, job>> /\ Len(low[g]) < MaxObservations
  BY DEF RecordObservation
<1>2. PICK b \in BOOLEAN : low' = [low EXCEPT ![g] = Append(low[g], b)]
  BY DEF RecordObservation
<1>3. low \in [Generation -> Seq(BOOLEAN)] /\ \A h \in Generation : Len(low[h]) <= MaxObservations
  BY DEF ViewInv, RegistriesOK
<1>4. /\ Append(low[g], b) \in Seq(BOOLEAN) /\ Len(Append(low[g], b)) = Len(low[g]) + 1
      /\ \A n \in 1..Len(low[g]) : Append(low[g], b)[n] = low[g][n]
      /\ Len(low[g]) \in Nat
  BY <1>3, AppendProperties, LenProperties
<1>5. low' \in [Generation -> Seq(BOOLEAN)]
  BY <1>2, <1>3, <1>4
<1>6. low'[g] = Append(low[g], b) /\ \A h \in Generation \ {g} : low'[h] = low[h]
  BY <1>2, <1>3
<1>7. ASSUME NEW h \in Generation
      PROVE  /\ Len(low'[h]) <= MaxObservations /\ Len(low[h]) <= Len(low'[h])
             /\ \A n \in 1..Len(low[h]) : low'[h][n] = low[h][n]
  <2>1. CASE h = g
    BY <1>1, <1>4, <1>6, <2>1, ViewLimits
  <2>2. CASE h # g
    <3>1. low'[h] = low[h] /\ Len(low[h]) \in Nat
      BY <1>3, <1>6, <2>2, LenProperties
    <3> QED
      BY <1>3, <3>1
  <2> QED
    BY <2>1, <2>2
<1>8. RegistriesOK'
  BY <1>1, <1>5, <1>7 DEF ViewInv, RegistriesOK
<1>9. Grows
  BY <1>1, <1>7 DEF Grows, Holders, ViewInv, RegistriesOK
<1>10. job.calm \in BOOLEAN /\ job' = [job EXCEPT !.calm = job.calm]
  BY <1>1, Undisturbed
<1> QED
  BY <1>1, <1>8, <1>9, <1>10, RegistryStepKeeps

-----------------------------------------------------------------------------
(* The walk *)

LEMMA BeginKeeps ==
  ASSUME ViewInv, NEW k \in Kinds, Begin(k)
  PROVE  ViewInv' /\ Skips
<1>1. /\ job.pc = "idle" /\ UNCHANGED <<ledger, entry, low, broken>>
      /\ job' = [NoJob EXCEPT !.kind = k, !.pc = "locate", !.at = Generations, !.began = Holders]
  BY DEF Begin
<1>2. Generations \in Generation /\ Holders \subseteq Generation /\ NoEntry \in Entry
  BY ViewLimits DEF Generation, Holders, NoEntry, Entry
<1>3. job' = [kind |-> k, pc |-> "locate", at |-> Generations, record |-> NoEntry, now |-> 0,
              observed |-> "none", supports |-> "unknown", left |-> {}, failed |-> {},
              stored |-> "none", count |-> 0, marker |-> 0, latest |-> 0, firstLow |-> 0,
              began |-> Holders, recordAt |-> 0, calm |-> TRUE]
  BY <1>1 DEF NoJob
<1>4. JobOK(job')
  BY <1>2, <1>3, ViewLimits DEF JobOK, Job, ViewStep, Stored
<1>5. ReadsOK(job') /\ DiagnosisOK(job')
  BY <1>3 DEF ReadsOK, DiagnosisOK
<1>6. MarkerOK(job') /\ TimesOK(job') /\ CalmOK(job')
  BY <1>3 DEF MarkerOK, TimesOK, CalmOK, HeldStep, EarlyStep, ViewInv, RegistriesOK
<1>7. WalkOK(job')
  <2>1. \A g \in Holders : g <= Generations
    BY <1>2, ViewLimits DEF Generation
  <2>2. job'.began = Holders /\ job'.at = Generations
    BY <1>3
  <2> QED
    BY <2>1, <2>2 DEF WalkOK
<1>8. ViewInv'
  BY <1>1, <1>4, <1>5, <1>6, <1>7, ReaderStep DEF AnswerOK
<1> QED
  BY <1>1, <1>8 DEF Skips

\* What the invariant says of an answer in its walk.
LEMMA Walking ==
  ASSUME ViewInv, job.pc = "locate"
  PROVE  /\ job \in Job /\ job.at \in Generation /\ job.kind \in Kinds
         /\ job.left \subseteq job.record.reserves /\ job.failed = {} /\ job.stored = "none"
         /\ job.latest = 0 /\ job.firstLow = 0 /\ job.count = 0 /\ job.marker = 0
         /\ job.observed = "none" /\ job.now = 0 /\ job.recordAt <= ledger
         /\ job.began \subseteq Holders /\ \A g \in job.began : g <= job.at
BY DEF ViewInv, AnswerOK, JobOK, ReadsOK, TimesOK, WalkOK

\* A generation without a record held none when the walk began either, so the
\* walk that goes on passes none that did.
LEMMA NotRegisteredKeeps ==
  ASSUME ViewInv, job.pc = "locate", job.at \notin Holders, job' = NotRegistered(job),
         UNCHANGED <<ledger, entry, low, broken>>
  PROVE  ViewInv' /\ Skips
<1>1. \A g \in job.began : g <= job.at /\ g # job.at
  BY Walking
<1>2. CASE job.at = 1
  <2>1. job' = [job EXCEPT !.pc = "absent", !.began = {}]
    BY <1>2 DEF NotRegistered
  <2>2. job.began = {}
    BY <1>1, <1>2, Walking DEF Holders, Generation
  <2>3. /\ job' \in Job /\ job'.pc = "absent" /\ job'.at = job.at /\ job'.began = {}
        /\ job'.left = job.left /\ job'.record = job.record /\ job'.failed = job.failed
        /\ job'.stored = job.stored /\ job'.latest = job.latest /\ job'.firstLow = job.firstLow
        /\ job'.count = job.count /\ job'.marker = job.marker /\ job'.now = job.now
        /\ job'.recordAt = job.recordAt /\ job'.kind = job.kind
    BY <2>1, Walking DEF Job, ViewStep
  <2>4. AnswerOK(job')
    BY <2>3, Walking DEF AnswerOK, JobOK, ReadsOK, DiagnosisOK, MarkerOK, TimesOK, CalmOK, WalkOK,
       HeldStep, EarlyStep
  <2>5. ViewInv'
    BY <2>4, ReaderStep
  <2> QED
    BY <2>2, <2>3, <2>5 DEF Skips
<1>3. CASE job.at # 1
  <2>1. job' = [job EXCEPT !.at = job.at - 1]
    BY <1>3 DEF NotRegistered
  <2>2. job.at - 1 \in Generation /\ job.at - 1 \in 0..Generations /\ job.at \in Nat
    BY <1>3, Walking, ViewLimits DEF Generation
  <2>3. /\ job' \in Job /\ job'.pc = "locate" /\ job'.at = job.at - 1 /\ job'.began = job.began
        /\ job'.left = job.left /\ job'.record = job.record /\ job'.failed = job.failed
        /\ job'.stored = job.stored /\ job'.latest = job.latest /\ job'.firstLow = job.firstLow
        /\ job'.count = job.count /\ job'.marker = job.marker /\ job'.now = job.now
        /\ job'.recordAt = job.recordAt /\ job'.observed = job.observed
        /\ job'.kind = job.kind
    BY <2>1, <2>2, Walking DEF Job
  <2>4. \A g \in job.began : g <= job.at - 1
    <3>1. \A g \in job.began : g \in Nat
      BY Walking, ViewLimits DEF Holders, Generation
    <3> QED
      BY <1>1, <2>2, <3>1
  <2>5. AnswerOK(job')
    BY <2>2, <2>3, <2>4, Walking DEF AnswerOK, JobOK, ReadsOK, DiagnosisOK, MarkerOK, TimesOK,
       CalmOK, WalkOK, HeldStep, EarlyStep
  <2>6. ViewInv'
    BY <2>5, ReaderStep
  <2> QED
    BY <2>3, <2>6 DEF Skips
<1> QED
  BY <1>2, <1>3

LEMMA AskEntryKeeps ==
  ASSUME ViewInv, AskEntry
  PROVE  ViewInv' /\ Skips
<1>1. job.pc = "locate" /\ UNCHANGED <<ledger, entry, low, broken>>
  BY DEF AskEntry
<1>2. CASE job.at \notin Holders
  BY <1>1, <1>2, NotRegisteredKeeps DEF AskEntry
<1>3. CASE job.at \in Holders
  <2> DEFINE j == [job EXCEPT !.record = entry[job.at], !.recordAt = ledger, !.began = {},
                              !.left = entry[job.at].reserves, !.calm = TRUE]
  <2>1. job' = [j EXCEPT !.pc = Located(j)]
    BY <1>3 DEF AskEntry
  <2>2. entry[job.at] \in Entry /\ entry[job.at].reserves \subseteq Reserve /\ ledger \in Nat
    BY <1>1, Walking, ViewLimits DEF ViewInv, RegistriesOK, Entry
  <2>3. /\ j \in Job /\ j.kind = job.kind /\ j.at = job.at /\ j.record = entry[job.at]
        /\ j.recordAt = ledger /\ j.left = entry[job.at].reserves /\ j.failed = job.failed
        /\ j.stored = job.stored /\ j.latest = job.latest /\ j.firstLow = job.firstLow
        /\ j.count = job.count /\ j.marker = job.marker /\ j.now = job.now
        /\ j.observed = job.observed
    BY <1>1, <2>2, Walking DEF Job
  <2> HIDE DEF j
  <2>4. j.kind \in {"page", "entry", "observe", "diagnose"}
    BY <1>1, <2>3, Walking, AssetPageAssumption
  <2>5. /\ Located(j) \in {"ledger", "shown", "observe", "diagnose"}
        /\ Located(j) \in {"ledger", "observe", "shown"} => j.kind # "diagnose"
    BY <2>4 DEF Located
  <2>6. /\ job' \in Job /\ job'.pc = Located(j) /\ job'.kind = j.kind /\ job'.at = j.at
        /\ job'.record = j.record /\ job'.recordAt = j.recordAt /\ job'.left = j.left
        /\ job'.failed = j.failed /\ job'.stored = j.stored /\ job'.latest = j.latest
        /\ job'.firstLow = j.firstLow /\ job'.count = j.count /\ job'.marker = j.marker
        /\ job'.now = j.now /\ job'.observed = j.observed
    BY <2>1, <2>3, <2>5 DEF Job, ViewStep, HeldStep, EarlyStep
  <2>7. JobOK(job')
    BY <1>1, <2>3, <2>6, Walking DEF JobOK
  <2>8. ReadsOK(job')
    BY <1>1, <2>3, <2>5, <2>6, Walking DEF ReadsOK, EarlyStep
  <2>9. DiagnosisOK(job')
    BY <1>1, <2>3, <2>5, <2>6, Walking DEF DiagnosisOK
  <2>10. MarkerOK(job') /\ TimesOK(job') /\ WalkOK(job')
    BY <1>1, <2>2, <2>3, <2>5, <2>6, Walking DEF MarkerOK, TimesOK, WalkOK
  <2>11. CalmOK(job')
    BY <1>1, <2>3, <2>6, Walking DEF CalmOK
  <2>12. ViewInv'
    BY <1>1, <2>7, <2>8, <2>9, <2>10, <2>11, ReaderStep DEF AnswerOK
  <2>13. Skips
    BY <1>1, <2>3, <2>5, <2>6, Walking DEF Skips
  <2> QED
    BY <2>12, <2>13
<1> QED
  BY <1>2, <1>3

-----------------------------------------------------------------------------
(* The reads after the walk *)

\* What the invariant says of any answer.
LEMMA Reading ==
  ASSUME ViewInv
  PROVE  /\ job \in Job /\ JobOK(job) /\ ReadsOK(job) /\ DiagnosisOK(job) /\ MarkerOK(job)
         /\ TimesOK(job) /\ CalmOK(job) /\ RegistriesOK
BY DEF ViewInv, AnswerOK, JobOK

LEMMA AskLedgerKeeps ==
  ASSUME ViewInv, AskLedger
  PROVE  ViewInv' /\ Skips
<1> DEFINE pc == IF job.kind = "page" THEN "observe" ELSE "shown"
<1>1. /\ job.pc = "ledger" /\ UNCHANGED <<ledger, entry, low, broken>>
      /\ job' = [job EXCEPT !.now = ledger, !.pc = pc]
  BY DEF AskLedger
<1>2. ledger \in Nat /\ pc \in {"observe", "shown"}
  BY ViewLimits DEF ViewInv, RegistriesOK
<1> HIDE DEF pc
<1>3. /\ job' \in Job /\ job'.pc = pc /\ job'.now = ledger
      /\ job'.kind = job.kind /\ job'.at = job.at /\ job'.record = job.record
      /\ job'.observed = job.observed /\ job'.left = job.left /\ job'.failed = job.failed
      /\ job'.stored = job.stored /\ job'.count = job.count /\ job'.marker = job.marker
      /\ job'.latest = job.latest /\ job'.firstLow = job.firstLow /\ job'.recordAt = job.recordAt
  BY <1>1, <1>2, Reading DEF Job, ViewStep, HeldStep, EarlyStep
<1>4. job'.calm <=> job.calm
  BY <1>1, <1>2, Reading DEF Job
<1>5. JobOK(job') /\ ReadsOK(job') /\ DiagnosisOK(job')
  BY <1>1, <1>2, <1>3, Reading DEF JobOK, ReadsOK, DiagnosisOK, EarlyStep
<1>6. MarkerOK(job') /\ TimesOK(job') /\ WalkOK(job')
  BY <1>1, <1>2, <1>3, Reading DEF MarkerOK, TimesOK, WalkOK
<1>7. CalmOK(job')
  BY <1>1, <1>2, <1>3, <1>4, Reading DEF CalmOK, HeldStep, EarlyStep
<1>8. ViewInv'
  BY <1>1, <1>5, <1>6, <1>7, ReaderStep DEF AnswerOK
<1> QED
  BY <1>1, <1>8 DEF Skips

LEMMA ObserveKeeps ==
  ASSUME ViewInv, Observe
  PROVE  ViewInv' /\ Skips
<1> DEFINE pc == IF job.kind = "observe" \/ job.at \in Legacy THEN "shown" ELSE "status"
           supports == IF job.at \in Legacy THEN "no" ELSE "yes"
           stored == IF job.kind = "page" /\ job.at \in Legacy THEN "unsupported" ELSE "none"
<1>1. /\ job.pc = "observe" /\ UNCHANGED <<ledger, entry, low, broken>>
      /\ job' = [job EXCEPT !.observed = "sum", !.supports = supports, !.stored = stored, !.pc = pc]
  BY DEF Observe
<1>2. /\ pc \in {"status", "shown"} /\ supports \in {"no", "yes"}
      /\ stored \in {"unsupported", "none"} /\ (pc = "status" => stored = "none")
  OBVIOUS
<1> HIDE DEF pc, supports, stored
<1>3. /\ job' \in Job /\ job'.pc = pc /\ job'.observed = "sum" /\ job'.stored = stored
      /\ job'.kind = job.kind /\ job'.at = job.at /\ job'.record = job.record
      /\ job'.now = job.now /\ job'.left = job.left /\ job'.failed = job.failed
      /\ job'.count = job.count /\ job'.marker = job.marker /\ job'.latest = job.latest
      /\ job'.firstLow = job.firstLow /\ job'.recordAt = job.recordAt
  BY <1>1, <1>2, Reading DEF Job, ViewStep, HeldStep, EarlyStep, Stored
<1>4. job'.calm <=> job.calm
  BY <1>1, <1>2, Reading DEF Job
<1>5. JobOK(job') /\ ReadsOK(job') /\ DiagnosisOK(job')
  BY <1>1, <1>2, <1>3, Reading DEF JobOK, ReadsOK, DiagnosisOK, EarlyStep
<1>6. MarkerOK(job') /\ TimesOK(job') /\ WalkOK(job')
  BY <1>1, <1>2, <1>3, Reading DEF MarkerOK, TimesOK, WalkOK
<1>7. CalmOK(job')
  BY <1>1, <1>2, <1>3, <1>4, Reading DEF CalmOK, HeldStep, EarlyStep
<1>8. ViewInv'
  BY <1>1, <1>5, <1>6, <1>7, ReaderStep DEF AnswerOK
<1> QED
  BY <1>1, <1>8 DEF Skips

\* A refusal of a calm answer comes from an address of its record.
LEMMA NoObservationKeeps ==
  ASSUME ViewInv, NEW why \in {"refused", "lost"}, job.pc = "observe",
         job' = NoObservation(job, why), UNCHANGED <<ledger, entry, low, broken>>,
         why = "refused" => ~Readable(entry[job.at].reserves)
  PROVE  ViewInv' /\ Skips
<1> DEFINE pc == IF job.kind = "observe" THEN "failed" ELSE "diagnose"
<1>1. job' = [job EXCEPT !.observed = why, !.pc = pc]
  BY DEF NoObservation
<1>2. pc \in {"failed", "diagnose"}
  OBVIOUS
<1> HIDE DEF pc
<1>3. /\ job' \in Job /\ job'.pc = pc /\ job'.observed = why
      /\ job'.kind = job.kind /\ job'.at = job.at /\ job'.record = job.record
      /\ job'.now = job.now /\ job'.left = job.left /\ job'.failed = job.failed
      /\ job'.stored = job.stored /\ job'.count = job.count /\ job'.marker = job.marker
      /\ job'.latest = job.latest /\ job'.firstLow = job.firstLow /\ job'.recordAt = job.recordAt
  BY <1>1, <1>2, Reading DEF Job, ViewStep, HeldStep, EarlyStep
<1>4. job'.calm <=> job.calm
  BY <1>1, <1>2, Reading DEF Job
<1>5. JobOK(job') /\ ReadsOK(job') /\ DiagnosisOK(job')
  BY <1>2, <1>3, Reading DEF JobOK, ReadsOK, DiagnosisOK, EarlyStep
<1>6. MarkerOK(job') /\ TimesOK(job') /\ WalkOK(job')
  BY <1>2, <1>3, Reading DEF MarkerOK, TimesOK, WalkOK
<1>7. CalmOK(job')
  BY <1>2, <1>3, <1>4, Reading DEF CalmOK, HeldStep, EarlyStep, Readable
<1>8. ViewInv'
  BY <1>5, <1>6, <1>7, ReaderStep DEF AnswerOK
<1> QED
  BY <1>8 DEF Skips

LEMMA RefusedKeeps ==
  ASSUME ViewInv, Refused
  PROVE  ViewInv' /\ Skips
BY NoObservationKeeps DEF Refused

\* An address that cannot be read is named as failed when it is asked.
LEMMA DiagnoseKeeps ==
  ASSUME ViewInv, NEW a \in Reserve, NEW lost \in BOOLEAN, Diagnose(a, lost)
  PROVE  ViewInv' /\ Skips
<1> DEFINE left == job.left \ {a}
           failed == Failed(job, a, lost)
           j == [job EXCEPT !.left = left, !.failed = failed]
           pc == IF left # {} THEN "diagnose" ELSE IF job.kind = "page" THEN "status" ELSE "shown"
<1>1. /\ job.pc = "diagnose" /\ a \in job.left /\ UNCHANGED <<ledger, entry, low, broken>>
      /\ job' = Diagnosed(j)
  BY DEF Diagnose
<1>2. /\ left \subseteq job.left /\ failed \subseteq job.failed \cup {a}
      /\ job.failed \subseteq failed /\ (a \in broken => a \in failed)
  BY DEF Failed
<1>3. left \subseteq Reserve /\ failed \subseteq Reserve
  BY <1>2, Reading DEF Job
<1>4. /\ pc \in {"diagnose", "status", "shown"} /\ (pc # "diagnose" => left = {})
      /\ (pc = "status" => job.kind = "page")
  OBVIOUS
<1>5. job' = [job EXCEPT !.left = left, !.failed = failed, !.pc = pc]
  <2>1. /\ j \in Job /\ j.left = left /\ j.pc = "diagnose" /\ j.kind = job.kind
    BY <1>1, <1>3, Reading DEF Job
  <2>2. job' = IF left # {} THEN j ELSE [j EXCEPT !.pc = IF job.kind = "page" THEN "status" ELSE "shown"]
    BY <1>1, <2>1 DEF Diagnosed
  <2>3. CASE left = {}
    BY <2>2, <2>3
  <2>4. CASE left # {}
    BY <1>1, <2>2, <2>4, Reading DEF Job
  <2> QED
    BY <2>3, <2>4
<1> HIDE DEF left, failed, j, pc
<1>6. /\ job' \in Job /\ job'.pc = pc /\ job'.left = left /\ job'.failed = failed
      /\ job'.kind = job.kind /\ job'.at = job.at /\ job'.record = job.record
      /\ job'.now = job.now /\ job'.observed = job.observed /\ job'.stored = job.stored
      /\ job'.count = job.count /\ job'.marker = job.marker /\ job'.latest = job.latest
      /\ job'.firstLow = job.firstLow /\ job'.recordAt = job.recordAt
  BY <1>3, <1>4, <1>5, Reading DEF Job, ViewStep, HeldStep, EarlyStep
<1>7. job'.calm <=> job.calm
  BY <1>3, <1>4, <1>5, Reading DEF Job
<1>8. JobOK(job') /\ ReadsOK(job') /\ DiagnosisOK(job')
  BY <1>1, <1>2, <1>4, <1>6, Reading DEF JobOK, ReadsOK, DiagnosisOK, EarlyStep
<1>9. MarkerOK(job') /\ TimesOK(job') /\ WalkOK(job')
  BY <1>1, <1>4, <1>6, Reading DEF MarkerOK, TimesOK, WalkOK
<1>10. CalmOK(job')
  BY <1>1, <1>2, <1>6, <1>7, Reading DEF CalmOK, HeldStep, EarlyStep, left
<1>11. ViewInv'
  BY <1>1, <1>8, <1>9, <1>10, ReaderStep DEF AnswerOK
<1> QED
  BY <1>1, <1>11 DEF Skips

-----------------------------------------------------------------------------
(* The recorded observations *)

\* Marker names the first low observation, and none when there is none: a set
\* of positions has a least element when one of them is in it.
LEMMA LeastPosition ==
  ASSUME NEW S, S \subseteq Nat, S # {}
  PROVE  \E n \in S : \A m \in S : n <= m
<1> DEFINE R == {ss \in Nat \X Nat : ss[1] < ss[2]}
<1>1. IsWellFoundedOn(R, Nat)
  BY NatLessThanWellFounded DEF OpToRel
<1> HIDE DEF R
<1>2. PICK n \in S : \A m \in S : ~ (<<m, n>> \in R)
  BY <1>1, WFMin
<1>3. \A m \in S : m < n => <<m, n>> \in R
  BY DEF R
<1>4. \A m \in S : ~(m < n)
  BY <1>2, <1>3
<1>5. \A m \in S : n <= m
  BY <1>4
<1> QED
  BY <1>5

LEMMA MarkerFacts ==
  ASSUME RegistriesOK, NEW g \in Generation
  PROVE  /\ Len(low[g]) \in Nat /\ Marker(g) \in Nat
         /\ Len(low[g]) = 0 => Marker(g) = 0
         /\ Marker(g) = 0 => \A n \in 1..Len(low[g]) : ~low[g][n]
         /\ Marker(g) # 0 => /\ Marker(g) \in 1..Len(low[g]) /\ low[g][Marker(g)]
                             /\ \A n \in 1..Len(low[g]) : low[g][n] => Marker(g) <= n
<1> DEFINE lows == {n \in DOMAIN low[g] : low[g][n]}
<1>1. Len(low[g]) \in Nat /\ DOMAIN low[g] = 1..Len(low[g])
  BY LenProperties DEF RegistriesOK
<1>2. Marker(g) = IF lows = {} THEN 0 ELSE CHOOSE n \in lows : \A m \in lows : n <= m
  BY DEF Marker
<1>3. /\ lows \subseteq 1..Len(low[g]) /\ lows \subseteq Nat
      /\ \A n \in lows : low[g][n]
      /\ \A n \in 1..Len(low[g]) : low[g][n] => n \in lows
  BY <1>1
<1> HIDE DEF lows
<1>4. CASE lows = {}
  BY <1>1, <1>2, <1>3, <1>4
<1>5. CASE lows # {}
  <2>1. \E n \in lows : \A m \in lows : n <= m
    BY <1>3, <1>5, LeastPosition
  <2>2. Marker(g) \in lows /\ \A m \in lows : Marker(g) <= m
    BY <1>2, <1>5, <2>1
  <2>3. Marker(g) \in 1..Len(low[g]) /\ low[g][Marker(g)]
    BY <1>3, <2>2
  <2>4. Marker(g) # 0 /\ Marker(g) \in Nat /\ Len(low[g]) # 0
    BY <1>1, <2>3
  <2> QED
    BY <1>1, <1>3, <2>2, <2>3, <2>4
<1> QED
  BY <1>4, <1>5

\* An answer whose reads of the observations end with all that their status named.
LEMMA AskStatusKeeps ==
  ASSUME ViewInv, AskStatus
  PROVE  ViewInv' /\ Skips
<1> DEFINE count == Len(low[job.at])
           marker == Marker(job.at)
           pc == IF count = 0 THEN "shown" ELSE "latest"
           stored == IF count = 0 THEN "available" ELSE "none"
           j == [job EXCEPT !.count = count, !.marker = marker]
<1>1. /\ job.pc = "status" /\ UNCHANGED <<ledger, entry, low, broken>>
      /\ job' = IF j.count = 0 THEN Available(j) ELSE [j EXCEPT !.pc = "latest"]
  BY DEF AskStatus
<1>2. job.at \in Generation /\ job.stored = "none" /\ job.latest = 0 /\ job.firstLow = 0
  BY <1>1, Reading DEF JobOK, ReadsOK, EarlyStep
<1>3. /\ count \in Nat /\ marker \in Nat
      /\ count = 0 => marker = 0
      /\ marker = 0 => \A n \in 1..count : ~low[job.at][n]
      /\ marker # 0 => /\ marker \in 1..count /\ low[job.at][marker]
                       /\ \A n \in 1..count : low[job.at][n] => marker <= n
  BY <1>2, MarkerFacts, Reading
<1>4. /\ pc \in {"shown", "latest"} /\ stored \in {"available", "none"}
      /\ pc = "latest" <=> count # 0
      /\ stored = "available" <=> count = 0
  OBVIOUS
<1> HIDE DEF count, marker
<1>5. j \in Job /\ j.count = count /\ j.marker = marker /\ j.stored = "none"
  BY <1>2, <1>3, Reading DEF Job
<1>6. job' = [j EXCEPT !.stored = stored, !.pc = pc]
  <2>1. CASE count = 0
    BY <1>1, <1>5, <2>1 DEF Available
  <2>2. CASE count # 0
    BY <1>1, <1>5, <2>2 DEF Job
  <2> QED
    BY <2>1, <2>2
<1>7. /\ j.kind = job.kind /\ j.at = job.at /\ j.record = job.record /\ j.now = job.now
      /\ j.observed = job.observed /\ j.left = job.left /\ j.failed = job.failed
      /\ j.latest = job.latest /\ j.firstLow = job.firstLow /\ j.recordAt = job.recordAt
  BY <1>2, <1>3, Reading DEF Job
<1>8. j.calm <=> job.calm
  BY <1>3, Reading DEF Job
<1> HIDE DEF j, pc, stored
<1>9. /\ job' \in Job /\ job'.pc = pc /\ job'.stored = stored
      /\ job'.count = count /\ job'.marker = marker
      /\ job'.kind = job.kind /\ job'.at = job.at /\ job'.record = job.record
      /\ job'.now = job.now /\ job'.observed = job.observed /\ job'.left = job.left
      /\ job'.failed = job.failed /\ job'.latest = job.latest /\ job'.firstLow = job.firstLow
      /\ job'.recordAt = job.recordAt
  BY <1>4, <1>5, <1>6, <1>7 DEF Job, ViewStep, HeldStep, EarlyStep, Stored
<1>10. job'.calm <=> job.calm
  BY <1>4, <1>5, <1>6, <1>8 DEF Job
<1>11. JobOK(job') /\ DiagnosisOK(job')
  BY <1>1, <1>4, <1>9, Reading DEF JobOK, DiagnosisOK
<1>12. ReadsOK(job')
  BY <1>1, <1>2, <1>3, <1>4, <1>9, Reading DEF ReadsOK, EarlyStep
<1>13. MarkerOK(job')
  BY <1>3, <1>9 DEF MarkerOK, count
<1>14. TimesOK(job') /\ WalkOK(job')
  BY <1>1, <1>4, <1>9, Reading DEF TimesOK, WalkOK
<1>15. CalmOK(job')
  BY <1>1, <1>4, <1>9, <1>10, Reading DEF CalmOK, HeldStep, EarlyStep
<1>16. ViewInv'
  BY <1>1, <1>11, <1>12, <1>13, <1>14, <1>15, ReaderStep DEF AnswerOK
<1> QED
  BY <1>1, <1>16 DEF Skips

LEMMA AskLatestKeeps ==
  ASSUME ViewInv, AskLatest
  PROVE  ViewInv' /\ Skips
<1> DEFINE needs == NeedsFirstLow(job)
           pc == IF needs THEN "first" ELSE "shown"
           j == [job EXCEPT !.latest = job.count, !.firstLow = FirstLowKnown(job)]
           isLow == ~(j.firstLow # 0 /\ ~low[j.at][j.firstLow])
           stored == IF needs THEN "none" ELSE IF isLow THEN "available" ELSE "failed"
<1>1. /\ job.pc = "latest" /\ UNCHANGED <<ledger, entry, low, broken>>
      /\ job' = IF needs THEN [j EXCEPT !.pc = "first"] ELSE Complete(j)
  BY DEF AskLatest
<1>2. /\ job.stored = "none" /\ job.firstLow = 0
      /\ job.count \in Nat /\ job.marker \in Nat
  BY <1>1, Reading DEF ReadsOK, Job
<1>3. /\ job.count = 0 => job.marker = 0
      /\ job.marker <= job.count
  BY <1>2, Reading DEF MarkerOK
<1>4. /\ FirstLowKnown(job) \in Nat /\ FirstLowKnown(job) <= job.count
      /\ needs => FirstLowKnown(job) = 0
      /\ ~needs => FirstLowKnown(job) = job.marker
  BY <1>2, <1>3 DEF FirstLowKnown, NeedsFirstLow
<1>5. /\ pc \in {"shown", "first"} /\ stored \in {"available", "failed", "none"}
      /\ (pc = "first" <=> needs) /\ (stored = "none" <=> needs)
  OBVIOUS
<1>6. /\ j \in Job /\ j.latest = job.count /\ j.firstLow = FirstLowKnown(job)
      /\ j.kind = job.kind /\ j.at = job.at /\ j.record = job.record /\ j.now = job.now
      /\ j.observed = job.observed /\ j.left = job.left /\ j.failed = job.failed
      /\ j.count = job.count /\ j.marker = job.marker /\ j.recordAt = job.recordAt
      /\ j.stored = "none"
  BY <1>2, <1>4, Reading DEF Job
<1>7. j.calm <=> job.calm
  BY <1>2, <1>4, Reading DEF Job
<1>8. job' = [j EXCEPT !.stored = stored, !.pc = pc]
  <2>1. CASE needs
    BY <1>1, <1>6, <2>1 DEF Job
  <2>2. CASE ~needs
    BY <1>1, <2>2 DEF Available, StoredFailed, Complete
  <2> QED
    BY <2>1, <2>2
<1> HIDE DEF j, pc, stored, needs, isLow
<1>9. /\ job' \in Job /\ job'.pc = pc /\ job'.stored = stored
      /\ job'.latest = job.count /\ job'.firstLow = FirstLowKnown(job)
      /\ job'.kind = job.kind /\ job'.at = job.at /\ job'.record = job.record
      /\ job'.now = job.now /\ job'.observed = job.observed /\ job'.left = job.left
      /\ job'.failed = job.failed /\ job'.count = job.count /\ job'.marker = job.marker
      /\ job'.recordAt = job.recordAt
  BY <1>5, <1>6, <1>8 DEF Job, ViewStep, HeldStep, EarlyStep, Stored
<1>10. job'.calm <=> job.calm
  BY <1>5, <1>6, <1>7, <1>8 DEF Job
<1>11. JobOK(job') /\ DiagnosisOK(job')
  BY <1>1, <1>5, <1>9, Reading DEF JobOK, DiagnosisOK
<1>12. ReadsOK(job')
  BY <1>1, <1>2, <1>4, <1>5, <1>9, Reading DEF ReadsOK, EarlyStep
<1>13. MarkerOK(job') /\ TimesOK(job') /\ WalkOK(job')
  BY <1>1, <1>5, <1>9, Reading DEF MarkerOK, TimesOK, WalkOK
<1>14. CalmOK(job')
  BY <1>1, <1>5, <1>9, <1>10, Reading DEF CalmOK, HeldStep, EarlyStep
<1>15. ViewInv'
  BY <1>1, <1>11, <1>12, <1>13, <1>14, ReaderStep DEF AnswerOK
<1> QED
  BY <1>1, <1>15 DEF Skips

\* A view that shows, with the identifier of its first low observation or not.
LEMMA StoredKeeps ==
  ASSUME ViewInv, job.pc \in {"status", "latest", "first"}, UNCHANGED <<ledger, entry, low, broken>>,
         NEW stored \in {"failed", "available"}, NEW first \in {job.firstLow, job.marker},
         job' = [job EXCEPT !.firstLow = first, !.stored = stored, !.pc = "shown"],
         first = job.firstLow \/ job.pc = "first",
         stored = "available" => job.pc = "first" /\ first = job.marker
  PROVE  ViewInv' /\ Skips
<1>1. first \in Nat /\ job.count \in Nat /\ job.marker \in Nat
  BY Reading DEF Job
<1>2. /\ job' \in Job /\ job'.pc = "shown" /\ job'.stored = stored /\ job'.firstLow = first
      /\ job'.kind = job.kind /\ job'.at = job.at /\ job'.record = job.record
      /\ job'.now = job.now /\ job'.observed = job.observed /\ job'.left = job.left
      /\ job'.failed = job.failed /\ job'.count = job.count /\ job'.marker = job.marker
      /\ job'.latest = job.latest /\ job'.recordAt = job.recordAt
  BY <1>1, Reading DEF Job, ViewStep, HeldStep, Stored
<1>3. job'.calm <=> job.calm
  BY <1>1, Reading DEF Job
<1>4. JobOK(job') /\ DiagnosisOK(job')
  BY <1>2, Reading DEF JobOK, DiagnosisOK
<1>5. job.marker <= job.count
  BY <1>1, Reading DEF MarkerOK
<1>6. ReadsOK(job')
  BY <1>1, <1>2, <1>5, Reading DEF ReadsOK, EarlyStep
<1>7. MarkerOK(job') /\ TimesOK(job') /\ WalkOK(job')
  BY <1>2, Reading DEF MarkerOK, TimesOK, WalkOK
<1>8. CalmOK(job')
  BY <1>2, <1>3, Reading DEF CalmOK, HeldStep, EarlyStep
<1>9. ViewInv'
  BY <1>4, <1>6, <1>7, <1>8, ReaderStep DEF AnswerOK
<1> QED
  BY <1>9 DEF Skips

LEMMA AskFirstLowKeeps ==
  ASSUME ViewInv, AskFirstLow
  PROVE  ViewInv' /\ Skips
<1>1. job.pc = "first" /\ UNCHANGED <<ledger, entry, low, broken>>
  BY DEF AskFirstLow
<1> DEFINE j == [job EXCEPT !.firstLow = job.marker]
<1>2. CASE job' = Available(j)
  <2>1. job' = [job EXCEPT !.firstLow = job.marker, !.stored = "available", !.pc = "shown"]
    BY <1>2 DEF Available
  <2> QED
    BY <1>1, <2>1, StoredKeeps
<1>3. CASE job' = StoredFailed(j)
  <2>1. job' = [job EXCEPT !.firstLow = job.marker, !.stored = "failed", !.pc = "shown"]
    BY <1>3 DEF StoredFailed
  <2> QED
    BY <1>1, <2>1, StoredKeeps
<1>4. job' = Available(j) \/ job' = StoredFailed(j)
  BY DEF AskFirstLow, Complete
<1> QED
  BY <1>2, <1>3, <1>4

-----------------------------------------------------------------------------
(* The ends of an answer *)

\* An answer that fails shows nothing.
LEMMA FailKeeps ==
  ASSUME ViewInv, job.pc \in {"locate", "ledger"}, UNCHANGED <<ledger, entry, low, broken>>,
         NEW began \in SUBSET Generation,
         job' = [job EXCEPT !.pc = "failed", !.began = began]
  PROVE  ViewInv' /\ Skips
<1>1. /\ job' \in Job /\ job'.pc = "failed"
      /\ job'.kind = job.kind /\ job'.at = job.at /\ job'.record = job.record
      /\ job'.now = job.now /\ job'.observed = job.observed /\ job'.left = job.left
      /\ job'.failed = job.failed /\ job'.stored = job.stored /\ job'.count = job.count
      /\ job'.marker = job.marker /\ job'.latest = job.latest /\ job'.firstLow = job.firstLow
      /\ job'.recordAt = job.recordAt
  BY Reading DEF Job, ViewStep
<1>2. JobOK(job') /\ DiagnosisOK(job') /\ ReadsOK(job')
  BY <1>1, Reading DEF JobOK, DiagnosisOK, ReadsOK, EarlyStep
<1>3. MarkerOK(job') /\ TimesOK(job') /\ WalkOK(job') /\ CalmOK(job')
  BY <1>1, Reading DEF MarkerOK, TimesOK, WalkOK, CalmOK, HeldStep, EarlyStep
<1>4. ViewInv'
  BY <1>2, <1>3, ReaderStep DEF AnswerOK
<1> QED
  BY <1>1, <1>4 DEF Skips

LEMMA LostKeeps ==
  ASSUME ViewInv, Lost
  PROVE  ViewInv' /\ Skips
<1>1. UNCHANGED <<ledger, entry, low, broken>>
  BY DEF Lost
<1>2. CASE job.pc = "locate" /\ job' = LostWalk(job)
  <2>1. job' = [job EXCEPT !.pc = "failed", !.began = {}]
    BY <1>2 DEF LostWalk
  <2> QED
    BY <1>1, <1>2, <2>1, FailKeeps
<1>3. CASE job.pc = "ledger" /\ job' = [job EXCEPT !.pc = "failed"]
  <2>1. job' = [job EXCEPT !.pc = "failed", !.began = job.began] /\ job.began \in SUBSET Generation
    BY <1>3, Reading DEF Job
  <2> QED
    BY <1>1, <1>3, <2>1, FailKeeps
<1>4. CASE job.pc = "observe" /\ job' = NoObservation(job, "lost")
  BY <1>1, <1>4, NoObservationKeeps
<1>5. CASE job.pc \in {"status", "latest", "first"} /\ job' = StoredFailed(job)
  <2>1. job' = [job EXCEPT !.firstLow = job.firstLow, !.stored = "failed", !.pc = "shown"]
    BY <1>5, Reading DEF Job, StoredFailed
  <2> QED
    BY <1>1, <1>5, <2>1, StoredKeeps
<1> QED
  BY <1>2, <1>3, <1>4, <1>5 DEF Lost

LEMMA ToldKeeps ==
  ASSUME ViewInv, Told
  PROVE  ViewInv' /\ Skips
<1>1. /\ job.pc \in {"shown", "absent", "failed"} /\ job' = NoJob
      /\ UNCHANGED <<ledger, entry, low, broken>>
  BY DEF Told
<1> QED
  BY <1>1, NoJobOK, ReaderStep, Reading DEF Skips

-----------------------------------------------------------------------------
(* The invariant, and what follows from it *)

LEMMA ViewInvInit ==
  ASSUME Init
  PROVE  ViewInv
<1>1. low \in [Generation -> Seq(BOOLEAN)] /\ \A g \in Generation : Len(low[g]) <= MaxObservations
  <2>1. << >> \in Seq(BOOLEAN) /\ Len(<< >>) = 0
    BY EmptySeq
  <2> QED
    BY <2>1, ViewLimits DEF Init
<1>2. NoEntry \in Entry
  BY ViewLimits DEF NoEntry, Entry
<1>3. RegistriesOK
  BY <1>1, <1>2, ViewLimits DEF Init, RegistriesOK
<1> QED
  BY <1>3, NoJobOK DEF Init, ViewInv

\* Each step of the network, of a registry or of the reader.
LEMMA ViewInvStep ==
  ASSUME ViewInv, Next
  PROVE  ViewInv' /\ Skips
<1>1. CASE Close
  BY <1>1, CloseKeeps
<1>2. CASE \E g \in Generation :
             \/ \E rs \in ReserveSets[g] : SetReserves(g, rs)
             \/ \E s \in 1..MaxLedger : Attest(g, s)
             \/ RecordObservation(g)
  <2>1. PICK g \in Generation :
               \/ \E rs \in ReserveSets[g] : SetReserves(g, rs)
               \/ \E s \in 1..MaxLedger : Attest(g, s)
               \/ RecordObservation(g)
    BY <1>2
  <2>2. CASE \E rs \in ReserveSets[g] : SetReserves(g, rs)
    BY <2>2, SetReservesKeeps
  <2>3. CASE \E s \in 1..MaxLedger : Attest(g, s)
    BY <2>3, AttestKeeps
  <2>4. CASE RecordObservation(g)
    BY <2>4, RecordObservationKeeps
  <2> QED
    BY <2>1, <2>2, <2>3, <2>4
<1>3. CASE \E a \in Reserve : Balances(a)
  BY <1>3, BalancesKeeps
<1>4. CASE \E k \in Kinds : Begin(k)
  BY <1>4, BeginKeeps
<1>5. CASE AskEntry \/ AskLedger \/ Observe \/ Refused
  BY <1>5, AskEntryKeeps, AskLedgerKeeps, ObserveKeeps, RefusedKeeps
<1>6. CASE \E a \in Reserve : \E lost \in BOOLEAN : Diagnose(a, lost)
  BY <1>6, DiagnoseKeeps
<1>7. CASE AskStatus \/ AskLatest \/ AskFirstLow
  BY <1>7, AskStatusKeeps, AskLatestKeeps, AskFirstLowKeeps
<1>8. CASE Lost \/ Told
  BY <1>8, LostKeeps, ToldKeeps
<1> QED
  BY <1>1, <1>2, <1>3, <1>4, <1>5, <1>6, <1>7, <1>8 DEF Next

LEMMA ViewInvStutter ==
  ASSUME ViewInv, UNCHANGED vars
  PROVE  ViewInv'
BY DEF vars, ViewInv, RegistriesOK, AnswerOK, JobOK, MarkerOK, TimesOK, CalmOK, WalkOK, Holders

LEMMA ViewInvSound ==
  ASSUME ViewInv
  PROVE  ViewIsSound
<1>1. job \in Job /\ AnswerOK(job) /\ RegistriesOK
  BY DEF ViewInv, AnswerOK, JobOK
<1>2. /\ job.now \in Nat /\ job.recordAt \in Nat /\ job.count \in Nat
      /\ job.latest \in Nat /\ job.firstLow \in Nat /\ job.marker \in Nat
      /\ job.record \in Entry /\ job.record.snapshot \in Nat /\ job.stored \in Stored
  BY <1>1, ViewLimits DEF Job, Entry
<1>3. TypeOK
  <2>1. job.latest <= job.count /\ (job.firstLow # 0 => job.firstLow <= job.latest)
    BY <1>1, <1>2 DEF AnswerOK, ReadsOK
  <2>2. /\ job.pc \in {"idle", "locate", "ledger", "observe", "diagnose", "status",
                       "latest", "first", "shown", "absent", "failed"}
        /\ job.pc # "idle" => job.at \in Generation
    BY <1>1 DEF AnswerOK, JobOK, Job, ViewStep, HeldStep, EarlyStep
  <2>3. job.left \subseteq job.record.reserves /\ job.failed \subseteq job.record.reserves
    BY <1>1 DEF AnswerOK, ReadsOK
  <2> QED
    BY <1>1, <1>2, <2>1, <2>2, <2>3 DEF TypeOK, RegistriesOK
<1>4. CurrentIsNotStale
  BY <1>1, <1>2, ViewLimits DEF CurrentIsNotStale, Claim, Lapsed, AnswerOK, TimesOK
<1>5. FirstLowIsTold
  BY <1>1, <1>2 DEF FirstLowIsTold, Shown, AnswerOK, ReadsOK, MarkerOK
<1>6. MarkerIsNeverLost
  BY <1>1, <1>2 DEF MarkerIsNeverLost, AnswerOK, ReadsOK, MarkerOK
<1>7. DiagnosisFindsTheAddress
  <2>1. SUFFICES ASSUME Shown, job.calm PROVE
               /\ job.observed = "refused" =>
                    job.failed # {} /\ job.record.reserves \cap broken \subseteq job.failed
               /\ (job.kind = "diagnose" /\ Exit(job) = "0") => Readable(entry[job.at].reserves)
    BY DEF DiagnosisFindsTheAddress
  <2>2. /\ entry[job.at].reserves = job.record.reserves
        /\ job.record.reserves \cap broken \subseteq job.left \cup job.failed
        /\ job.observed = "refused" => job.record.reserves \cap broken # {}
    BY <1>1, <2>1 DEF AnswerOK, CalmOK, HeldStep, Shown
  <2>3. job.observed = "refused" \/ job.kind = "diagnose" => job.left = {}
    BY <1>1, <2>1 DEF AnswerOK, DiagnosisOK, Shown
  <2>4. job.kind = "diagnose" /\ Exit(job) = "0" => job.failed = {}
    BY <2>1 DEF Exit, Shown
  <2> QED
    BY <2>2, <2>3, <2>4 DEF Readable
<1> QED
  BY <1>3, <1>4, <1>5, <1>6, <1>7 DEF ViewIsSound

\* The inductive invariant of the view: every field of an answer is from the
\* moment that the code reads it (locateAsset, readAssetView and
\* readRecordedObservations).
THEOREM ViewInvariant == Spec => []ViewInv
<1>1. ViewInv /\ [Next]_vars => ViewInv'
  BY ViewInvStep, ViewInvStutter
<1> QED
  BY <1>1, ViewInvInit, PTL DEF Spec

\* Both readers side by side are the view of an asset and other variables.
LEMMA ReadersAreViews == ReadersSpec => Spec
<1>1. ReadersInit => Init
  BY DEF ReadersInit
<1>2. [ReadersNext]_<<asked, vars, historyVars>> => [Next]_vars
  BY DEF ReadersNext
<1> QED
  BY <1>1, <1>2, PTL DEF ReadersSpec, Spec

\* What an answer shows was so when it was read, whatever the registries and
\* the ledgers do between its reads: a claim called current had not lapsed as
\* the record was read (solvencyResult), the first low observation is the first
\* one (readRecordedObservations) and its identifier stays when a later read
\* fails, and the diagnosis after a refusal names every address that cannot be
\* read (diagnoseReserves).
THEOREM ViewStaysSound == ReadersSpec => []ViewIsSound
<1> QED
  BY ViewInvariant, ReadersAreViews, ViewInvSound, PTL

\* locateAsset never steps past a generation that held the asset as the walk
\* began: an answer is not from an older one, and is not that no generation
\* holds it.
THEOREM WalkStaysWhole == ReadersSpec => WalkSkipsNothing
<1>1. ViewInv /\ [Next]_vars =>
        [job.pc = "locate" =>
           /\ job'.pc \notin {"locate", "absent", "failed"} => \A g \in job.began : g <= job'.at
           /\ job'.pc = "absent" => job.began = {}]_vars
  BY ViewInvStep DEF Skips
<1> QED
  BY <1>1, ViewInvariant, ReadersAreViews, PTL DEF Spec, WalkSkipsNothing

-----------------------------------------------------------------------------
(* The history of an asset *)

\* The events of a generation come in the order of their ledgers.
EventsOK ==
  /\ latest \in 1..HistoryMaxLedger /\ mode \in {"command", "page", "records"}
  /\ events \in [H!Generation -> Seq(1..HistoryMaxLedger)]
  /\ \A g \in H!Generation :
       /\ Len(events[g]) <= MaxEvents
       /\ \A i \in 1..Len(events[g]) : events[g][i] <= latest
       /\ \A i, j \in 1..Len(events[g]) : i <= j => events[g][i] <= events[g][j]

Query ==
  [pc : {"idle", "page", "wait", "done", "failed"}, start : Nat, cursor : H!Cursor,
   entries : Seq(Nat), oldest : Nat, latest : Nat, reaches : BOOLEAN, covers : BOOLEAN]

\* The events after a up to b.
Segment(a, b) == [i \in 1..(b - a) |-> a + i]

\* A query that no page answered has collected nothing.
Fresh(r) == r.cursor = H!NoCursor /\ r.entries = << >> /\ ~r.covers /\ r.pc # "done"

\* The cursor is a position in the events, and what was collected is what lies
\* between it and the start of the range.
CursorOK(g, r) ==
  /\ r.start >= 1 /\ r.start <= r.cursor.ledger /\ r.cursor.ledger <= r.latest /\ r.latest <= latest
  /\ H!UpTo(g, r.start - 1) <= r.cursor.at /\ r.cursor.at <= H!UpTo(g, r.cursor.ledger)
  /\ IF r.cursor.end THEN r.cursor.at = H!UpTo(g, r.cursor.ledger)
     ELSE r.cursor.at \in 1..Len(events[g]) /\ events[g][r.cursor.at] = r.cursor.ledger
  /\ r.entries = Segment(H!UpTo(g, r.start - 1), r.cursor.at)
  /\ r.covers => r.cursor.ledger = r.latest

\* A query that has not begun is fresh, and one of the whole window starts at the
\* limit of the window or before it.
LimitOK(r) ==
  /\ r.pc = "idle" => Fresh(r)
  /\ r.pc \in {"page", "wait"} => ~r.covers
  /\ r.pc \in {"page", "wait", "done"} => r.start >= 1
  /\ From = 0 => r.start <= H!oldest /\ (r.pc = "done" => r.reaches)

QueryOK(g, r) == r \in Query /\ (Fresh(r) \/ CursorOK(g, r)) /\ LimitOK(r)

\* The command has asked every other generation before it asks the first, and
\* the limit of the window that it states is not before any of its queries.
OrderOK ==
  mode = "command" =>
    /\ read[1].pc \in {"page", "wait", "done"} =>
         \A h \in H!Generation \ {1} : read[h].pc = "done"
    /\ From = 0 /\ read[1].pc = "done" => \A g \in H!Generation : read[g].start <= read[1].oldest

AnswerIsOK ==
  /\ answer \in {"none", "failed", "shown"}
  /\ answer = "shown" => \A g \in H!Generation : read[g].pc = "done"

QueriesOK ==
  /\ DOMAIN read = H!Generation
  /\ \A g \in H!Generation : QueryOK(g, read[g])

\* A walk of the records has got each one before the next, and counts no more
\* than are stored.
RangesOK ==
  /\ walk \in [pc : {"idle", "record", "done"}, next : Nat, end : Nat, total : Nat, got : Seq(Nat)]
  /\ walk.next >= 1 /\ walk.got = [i \in 1..(walk.next - 1) |-> i]
  /\ walk.end <= walk.total /\ walk.total <= H!Stored /\ walk.next <= walk.total + 1
  /\ walk.pc = "record" => walk.next <= walk.end + 1
  /\ walk.pc = "done" => walk.next = walk.total + 1

HistoryInv == EventsOK /\ QueriesOK /\ OrderOK /\ AnswerIsOK /\ RangesOK

\* A segment is a sequence, and segments join.
LEMMA SegmentSeq ==
  ASSUME NEW a \in Nat, NEW b \in Nat, a <= b
  PROVE  /\ Segment(a, b) \in Seq(Nat) /\ Len(Segment(a, b)) = b - a
         /\ \A i \in 1..(b - a) : Segment(a, b)[i] = a + i
<1>1. b - a \in Nat /\ \A i \in 1..(b - a) : a + i \in Nat
  OBVIOUS
<1> QED
  BY <1>1 DEF Segment

LEMMA SegmentsJoin ==
  ASSUME NEW a \in Nat, NEW b \in Nat, NEW c \in Nat, a <= b, b <= c
  PROVE  Segment(a, b) \o Segment(b, c) = Segment(a, c)
<1>1. a <= c
  OBVIOUS
<1>2. PICK s \in Seq(Nat) : s = Segment(a, b) /\ Len(s) = b - a /\ \A i \in 1..(b - a) : s[i] = a + i
  BY SegmentSeq
<1>3. PICK t \in Seq(Nat) : t = Segment(b, c) /\ Len(t) = c - b /\ \A i \in 1..(c - b) : t[i] = b + i
  BY SegmentSeq
<1>4. PICK u \in Seq(Nat) : u = Segment(a, c) /\ Len(u) = c - a /\ \A i \in 1..(c - a) : u[i] = a + i
  BY <1>1, SegmentSeq
<1>5. Len(s) + Len(t) = c - a
  BY <1>2, <1>3
<1>6. /\ s \o t \in Seq(Nat) /\ Len(s \o t) = c - a
      /\ \A i \in 1..(c - a) : (s \o t)[i] = IF i <= Len(s) THEN s[i] ELSE t[i - Len(s)]
  BY <1>5, ConcatProperties
<1>7. \A i \in 1..(c - a) : (s \o t)[i] = u[i]
  <2>1. SUFFICES ASSUME NEW i \in 1..(c - a) PROVE (s \o t)[i] = a + i
    BY <1>4
  <2>2. CASE i <= b - a
    BY <1>2, <1>6, <2>2
  <2>3. CASE ~(i <= b - a)
    <3>1. i - (b - a) \in 1..(c - b)
      BY <2>3
    <3>2. (s \o t)[i] = t[i - (b - a)]
      BY <1>2, <1>6, <2>3
    <3>3. t[i - (b - a)] = b + (i - (b - a))
      BY <1>3, <3>1
    <3> QED
      BY <3>2, <3>3
  <2> QED
    BY <2>2, <2>3
<1>8. s \o t = u
  BY <1>4, <1>6, <1>7, SeqEqual
<1> QED
  BY <1>2, <1>3, <1>4, <1>8

LEMMA SegmentEmpty == ASSUME NEW a \in Nat PROVE Segment(a, a) = << >>
BY SegmentSeq, EmptySeq

\* The positions of a sorted sequence up to a ledger are an initial part of it,
\* as long as their number.
LEMMA PrefixCount ==
  ASSUME NEW s \in Seq(Nat), \A i, j \in 1..Len(s) : i <= j => s[i] <= s[j], NEW l \in Int,
         NEW c, c = Cardinality({i \in DOMAIN s : s[i] <= l})
  PROVE  c \in 0..Len(s) /\ \A i \in 1..Len(s) : s[i] <= l <=> i <= c
<1> DEFINE K == {k \in 0..Len(s) : \A i \in 1..Len(s) : s[i] <= l => i <= k}
<1>1. Len(s) \in Nat /\ DOMAIN s = 1..Len(s) /\ \A i \in 1..Len(s) : s[i] \in Nat
  BY LenProperties
<1>2. Len(s) \in K /\ K \subseteq Nat
  BY <1>1
<1>3. PICK k \in K : \A m \in K : k <= m
  BY <1>2, LeastPosition
<1> HIDE DEF K
<1>4. k \in 0..Len(s) /\ \A i \in 1..Len(s) : s[i] <= l => i <= k
  BY <1>3 DEF K
<1>5. \A i \in 1..Len(s) : i <= k => s[i] <= l
  <2>1. SUFFICES ASSUME NEW i \in 1..Len(s), i <= k, ~(s[i] <= l) PROVE FALSE
    OBVIOUS
  <2>2. \A j \in 1..Len(s) : s[j] <= l => j <= i - 1
    <3>1. SUFFICES ASSUME NEW j \in 1..Len(s), s[j] <= l PROVE j <= i - 1
      OBVIOUS
    <3>2. s[i] \in Nat /\ s[j] \in Nat /\ (i <= j => s[i] <= s[j])
      BY <1>1
    <3>3. ~(i <= j)
      BY <2>1, <3>1, <3>2
    <3> QED
      BY <1>1, <3>3
  <2>3. i - 1 \in K
    BY <1>1, <2>1, <2>2 DEF K
  <2> QED
    BY <1>1, <1>3, <1>4, <2>1, <2>3
<1>6. {i \in DOMAIN s : s[i] <= l} = 1..k
  BY <1>1, <1>4, <1>5
<1>7. Cardinality(1..k) = k
  BY <1>1, <1>4, FS_Interval
<1>8. c = k
  BY <1>6, <1>7
<1> QED
  BY <1>4, <1>5, <1>8

LEMMA HistoryLimits ==
  /\ HistoryGenerations \in Nat /\ HistoryGenerations > 0 /\ HistoryMaxLedger \in Nat
  /\ HistoryMaxLedger > 0 /\ Limit \in Nat /\ Limit > 0 /\ Scan \in Nat /\ Retention \in Nat
  /\ Retention > 0 /\ RangeCount \in Nat /\ RangeCount > 0 /\ PerLedger \in Nat /\ From \in Nat
  /\ MaxEvents \in Nat /\ 1 \in H!Generation /\ HistoryGenerations \in H!Generation
BY HistoryAssumption DEF H!Generation

\* The events up to a ledger are the first UpTo events.
LEMMA UpToFacts ==
  ASSUME EventsOK, NEW g \in H!Generation, NEW l \in Int
  PROVE  /\ Len(events[g]) \in Nat /\ H!UpTo(g, l) \in 0..Len(events[g])
         /\ \A i \in 1..Len(events[g]) : events[g][i] \in Nat /\ (events[g][i] <= l <=> i <= H!UpTo(g, l))
<1>1. events[g] \in Seq(Nat)
  <2>1. events[g] \in Seq(1..HistoryMaxLedger) /\ 1..HistoryMaxLedger \subseteq Nat
    BY HistoryLimits DEF EventsOK
  <2> QED
    BY <2>1, SeqMonotonic
<1>2. \A i, j \in 1..Len(events[g]) : i <= j => events[g][i] <= events[g][j]
  BY DEF EventsOK
<1>3. H!UpTo(g, l) = Cardinality({i \in DOMAIN events[g] : events[g][i] <= l})
  <2>1. ASSUME NEW S PROVE H!Cardinality(S) = Cardinality(S)
    BY DEF H!Cardinality, Cardinality
  <2> QED
    BY <2>1 DEF H!UpTo
<1>4. /\ H!UpTo(g, l) \in 0..Len(events[g])
      /\ \A i \in 1..Len(events[g]) : events[g][i] <= l <=> i <= H!UpTo(g, l)
  BY <1>1, <1>2, <1>3, PrefixCount
<1> QED
  BY <1>1, <1>4, LenProperties

\* More events lie before a later ledger.
LEMMA UpToGrows ==
  ASSUME EventsOK, NEW g \in H!Generation, NEW k \in Int, NEW l \in Int, k <= l
  PROVE  H!UpTo(g, k) <= H!UpTo(g, l)
<1>1. /\ Len(events[g]) \in Nat /\ H!UpTo(g, k) \in 0..Len(events[g]) /\ H!UpTo(g, l) \in 0..Len(events[g])
      /\ \A i \in 1..Len(events[g]) : events[g][i] \in Nat /\ (events[g][i] <= k <=> i <= H!UpTo(g, k))
      /\ \A i \in 1..Len(events[g]) : events[g][i] <= l <=> i <= H!UpTo(g, l)
  BY UpToFacts
<1>2. CASE H!UpTo(g, k) = 0
  BY <1>1, <1>2
<1>3. CASE H!UpTo(g, k) # 0
  <2>1. H!UpTo(g, k) \in 1..Len(events[g])
    BY <1>1, <1>3
  <2>2. events[g][H!UpTo(g, k)] <= k /\ events[g][H!UpTo(g, k)] \in Nat
    BY <1>1, <2>1
  <2>3. events[g][H!UpTo(g, k)] <= l
    BY <2>2
  <2> QED
    BY <1>1, <2>1, <2>3
<1> QED
  BY <1>2, <1>3

LEMMA OldestFacts ==
  ASSUME EventsOK
  PROVE  H!oldest \in Nat /\ H!oldest >= 1 /\ H!oldest <= latest /\ latest \in Nat /\ latest >= 1
BY HistoryLimits DEF EventsOK, H!oldest

-----------------------------------------------------------------------------
(* The steps of the history *)

\* A ledger closes: what the queries have read stays where it is.
LEMMA CopiesSeq ==
  ASSUME NEW n \in Nat, NEW S, NEW x \in S
  PROVE  H!Copies(n, x) \in Seq(S) /\ Len(H!Copies(n, x)) = n /\ \A i \in 1..n : H!Copies(n, x)[i] = x
BY DEF H!Copies

LEMMA CloseAppends ==
  ASSUME EventsOK, H!Close
  PROVE  /\ EventsOK' /\ latest' = latest + 1
         /\ \A g \in H!Generation :
              /\ Len(events'[g]) >= Len(events[g])
              /\ \A i \in 1..Len(events[g]) : events'[g][i] = events[g][i]
              /\ \A i \in 1..Len(events'[g]) : i > Len(events[g]) => events'[g][i] = latest + 1
<1>1. /\ latest < HistoryMaxLedger /\ latest' = latest + 1 /\ mode' = mode
      /\ latest \in Nat /\ latest >= 1 /\ latest + 1 \in 1..HistoryMaxLedger
  BY HistoryLimits, OldestFacts DEF H!Close, EventsOK
<1>2. PICK new \in [H!Generation -> 0..PerLedger] :
             /\ \A g \in H!Generation : Len(events[g]) + new[g] <= MaxEvents
             /\ events' = [g \in H!Generation |-> events[g] \o H!Copies(new[g], latest + 1)]
  BY DEF H!Close
<1>3. ASSUME NEW g \in H!Generation
      PROVE  /\ events'[g] \in Seq(1..HistoryMaxLedger) /\ Len(events'[g]) <= MaxEvents
             /\ Len(events[g]) \in Nat /\ Len(events'[g]) \in Nat
             /\ Len(events'[g]) >= Len(events[g])
             /\ \A i \in 1..Len(events[g]) : events'[g][i] = events[g][i]
             /\ \A i \in 1..Len(events'[g]) : i > Len(events[g]) => events'[g][i] = latest + 1
  <2>1. events[g] \in Seq(1..HistoryMaxLedger) /\ Len(events[g]) \in Nat /\ new[g] \in Nat
    BY <1>2, HistoryLimits, LenProperties DEF EventsOK
  <2>2. PICK t \in Seq(1..HistoryMaxLedger) :
               t = H!Copies(new[g], latest + 1) /\ Len(t) = new[g] /\ \A i \in 1..new[g] : t[i] = latest + 1
    BY <1>1, <2>1, CopiesSeq
  <2>3. events'[g] = events[g] \o t
    BY <1>2, <2>2
  <2>4. /\ events'[g] \in Seq(1..HistoryMaxLedger) /\ Len(events'[g]) = Len(events[g]) + new[g]
        /\ \A i \in 1..Len(events[g]) + new[g] : events'[g][i] =
             IF i <= Len(events[g]) THEN events[g][i] ELSE t[i - Len(events[g])]
    <3>1. /\ events[g] \o t \in Seq(1..HistoryMaxLedger)
          /\ Len(events[g] \o t) = Len(events[g]) + Len(t)
          /\ \A i \in 1..Len(events[g]) + Len(t) : (events[g] \o t)[i] =
               IF i <= Len(events[g]) THEN events[g][i] ELSE t[i - Len(events[g])]
      BY <2>1, ConcatProperties
    <3>2. Len(t) = new[g]
      BY <2>2
    <3> QED
      BY <2>3, <3>1, <3>2
  <2>5. ASSUME NEW i \in 1..Len(events'[g]), i > Len(events[g])
        PROVE  events'[g][i] = latest + 1
    <3>1. i - Len(events[g]) \in 1..new[g]
      BY <2>1, <2>4, <2>5
    <3>2. events'[g][i] = t[i - Len(events[g])]
      BY <2>1, <2>4, <2>5
    <3> QED
      BY <2>2, <3>1, <3>2
  <2>6. Len(events'[g]) <= MaxEvents
    BY <1>2, <2>4
  <2>7. \A i \in 1..Len(events[g]) : events'[g][i] = events[g][i]
    BY <2>1, <2>4
  <2>8. Len(events'[g]) \in Nat /\ Len(events'[g]) >= Len(events[g])
    BY <2>1, <2>4
  <2> QED
    BY <2>1, <2>4, <2>5, <2>6, <2>7, <2>8
<1>4. ASSUME NEW g \in H!Generation
      PROVE  /\ \A i \in 1..Len(events'[g]) : events'[g][i] <= latest'
             /\ \A i, j \in 1..Len(events'[g]) : i <= j => events'[g][i] <= events'[g][j]
  <2>1. /\ \A i \in 1..Len(events[g]) : events[g][i] <= latest /\ events[g][i] \in Nat
        /\ \A i, j \in 1..Len(events[g]) : i <= j => events[g][i] <= events[g][j]
    BY UpToFacts, 0 \in Int DEF EventsOK
  <2>2. \A i \in 1..Len(events'[g]) : i <= Len(events[g]) \/ i > Len(events[g])
    BY <1>3
  <2>3. \A i \in 1..Len(events'[g]) :
           \/ i \in 1..Len(events[g]) /\ events'[g][i] = events[g][i]
           \/ i > Len(events[g]) /\ events'[g][i] = latest + 1
    BY <1>3
  <2>4. \A i \in 1..Len(events'[g]) : events'[g][i] <= latest + 1
    BY <1>1, <2>1, <2>3
  <2>5. ASSUME NEW i \in 1..Len(events'[g]), NEW j \in 1..Len(events'[g]), i <= j
        PROVE  events'[g][i] <= events'[g][j]
    <3>1. CASE j > Len(events[g])
      <4>1. events'[g][j] = latest + 1
        BY <1>3, <3>1
      <4> QED
        BY <2>4, <4>1
    <3>2. CASE ~(j > Len(events[g]))
      <4>1. i \in 1..Len(events[g]) /\ j \in 1..Len(events[g])
        BY <1>3, <2>5, <3>2
      <4> QED
        BY <1>3, <2>1, <2>5, <4>1
    <3> QED
      BY <3>1, <3>2
  <2> QED
    BY <1>1, <2>4, <2>5
<1>5. events' \in [H!Generation -> Seq(1..HistoryMaxLedger)]
  BY <1>2, <1>3
<1>6. EventsOK'
  BY <1>1, <1>3, <1>4, <1>5 DEF EventsOK, H!Generation
<1> QED
  BY <1>1, <1>3, <1>6

\* The number of events up to a ledger that has closed stays.
LEMMA UpToStays ==
  ASSUME EventsOK, H!Close, NEW g \in H!Generation, NEW l \in Int, l <= latest
  PROVE  H!UpTo(g, l)' = H!UpTo(g, l)
<1>1. /\ EventsOK' /\ Len(events'[g]) >= Len(events[g]) /\ latest \in Nat
      /\ \A i \in 1..Len(events[g]) : events'[g][i] = events[g][i]
      /\ \A i \in 1..Len(events'[g]) : i > Len(events[g]) => events'[g][i] = latest + 1
  BY CloseAppends, OldestFacts
<1>2. /\ Len(events[g]) \in Nat /\ H!UpTo(g, l) \in 0..Len(events[g])
      /\ \A i \in 1..Len(events[g]) : events[g][i] \in Nat /\ (events[g][i] <= l <=> i <= H!UpTo(g, l))
  BY UpToFacts
<1>3. events'[g] \in Seq(Nat) /\ \A i, j \in 1..Len(events'[g]) : i <= j => events'[g][i] <= events'[g][j]
  <2>1. events'[g] \in Seq(1..HistoryMaxLedger) /\ 1..HistoryMaxLedger \subseteq Nat
    BY <1>1, HistoryLimits DEF EventsOK, H!Generation
  <2>2. events'[g] \in Seq(Nat)
    BY <2>1, SeqMonotonic
  <2> QED
    BY <1>1, <2>2 DEF EventsOK, H!Generation
<1>4. H!UpTo(g, l)' = Cardinality({i \in DOMAIN events'[g] : events'[g][i] <= l})
  <2>1. ASSUME NEW S PROVE H!Cardinality(S) = Cardinality(S)
    BY DEF H!Cardinality, Cardinality
  <2> QED
    BY <2>1 DEF H!UpTo
<1>5. PICK c : c = H!UpTo(g, l)'
  OBVIOUS
<1>6. c \in 0..Len(events'[g]) /\ \A i \in 1..Len(events'[g]) : events'[g][i] <= l <=> i <= c
  BY <1>3, <1>4, <1>5, PrefixCount
<1>7. PICK b : b = H!UpTo(g, l)
  OBVIOUS
<1>8. b \in 0..Len(events[g]) /\ \A i \in 1..Len(events[g]) : events'[g][i] <= l <=> i <= b
  BY <1>1, <1>2, <1>7
<1>9. Len(events'[g]) \in Nat
  BY <1>3, LenProperties
<1>10. ~(c < b)
  <2>1. SUFFICES ASSUME c < b PROVE FALSE
    OBVIOUS
  <2>2. c + 1 \in 1..Len(events[g]) /\ c + 1 \in 1..Len(events'[g]) /\ c + 1 <= b /\ ~(c + 1 <= c)
    BY <1>1, <1>2, <1>6, <1>8, <1>9, <2>1
  <2> QED
    BY <1>6, <1>8, <2>2
<1>11. ~(b < c)
  <2>1. SUFFICES ASSUME b < c PROVE FALSE
    OBVIOUS
  <2>2. b + 1 \in 1..Len(events'[g]) /\ b + 1 <= c /\ ~(b + 1 <= b)
    BY <1>6, <1>8, <1>9, <2>1
  <2>3. events'[g][b + 1] <= l
    BY <1>6, <2>2
  <2>4. CASE b + 1 <= Len(events[g])
    <3>1. b + 1 \in 1..Len(events[g])
      BY <1>2, <1>8, <2>4
    <3> QED
      BY <1>8, <2>2, <2>3, <3>1
  <2>5. CASE ~(b + 1 <= Len(events[g]))
    <3>1. b + 1 > Len(events[g])
      BY <1>2, <1>8, <2>5
    <3>2. events'[g][b + 1] = latest + 1
      BY <1>1, <2>2, <3>1
    <3> QED
      BY <1>1, <2>3, <3>2
  <2> QED
    BY <2>4, <2>5
<1> QED
  BY <1>2, <1>5, <1>6, <1>7, <1>8, <1>9, <1>10, <1>11

\* What a query has read is still in its place.
LEMMA CloseKeepsQuery ==
  ASSUME EventsOK, H!Close, NEW g \in H!Generation, QueryOK(g, read[g])
  PROVE  QueryOK(g, read[g])'
<1>1. /\ EventsOK' /\ latest' = latest + 1 /\ read' = read
      /\ Len(events'[g]) >= Len(events[g]) /\ Len(events[g]) \in Nat
      /\ \A i \in 1..Len(events[g]) : events'[g][i] = events[g][i]
  BY CloseAppends, UpToFacts, 0 \in Int DEF H!Close
<1>2. latest \in Nat /\ H!oldest \in Nat /\ H!oldest <= H!oldest' /\ H!oldest' \in Nat
  BY <1>1, OldestFacts, HistoryLimits DEF H!oldest
<1>3. PICK r : r = read[g]
  OBVIOUS
<1>4. r \in Query /\ r.start \in Nat /\ r.cursor.ledger \in Nat /\ r.latest \in Nat /\ LimitOK(r)
  BY <1>3 DEF QueryOK, Query, H!Cursor
<1>5. LimitOK(r)'
  BY <1>2, <1>4 DEF LimitOK
<1>6. CASE Fresh(r)
  BY <1>1, <1>3, <1>4, <1>5, <1>6 DEF QueryOK, Fresh
<1>7. CASE CursorOK(g, r)
  <2>1. r.start - 1 \in Int /\ r.start - 1 <= latest /\ r.cursor.ledger <= latest
    BY <1>2, <1>4, <1>7 DEF CursorOK
  <2>2. H!UpTo(g, r.start - 1)' = H!UpTo(g, r.start - 1)
    BY <2>1, UpToStays
  <2>3. H!UpTo(g, r.cursor.ledger)' = H!UpTo(g, r.cursor.ledger)
    BY <1>4, <2>1, UpToStays
  <2>4. r.cursor.at \in Nat
    BY <1>4 DEF Query, H!Cursor
  <2>5. CursorOK(g, r)'
    <3>1. r.latest <= latest'
      BY <1>1, <1>2, <1>4, <1>7 DEF CursorOK
    <3>2. r.cursor.at \in 1..Len(events[g]) /\ events[g][r.cursor.at] = r.cursor.ledger =>
            r.cursor.at \in 1..Len(events'[g]) /\ events'[g][r.cursor.at] = r.cursor.ledger
      <4>1. Len(events'[g]) \in Nat
        BY <1>1, LenProperties DEF EventsOK, H!Generation
      <4> QED
        BY <1>1, <4>1
    <3> QED
      BY <1>7, <2>2, <2>3, <3>1, <3>2 DEF CursorOK
  <2> QED
    BY <1>1, <1>3, <1>4, <1>5, <2>5 DEF QueryOK
<1> QED
  BY <1>3, <1>6, <1>7 DEF QueryOK

LEMMA CloseKeepsHistory ==
  ASSUME HistoryInv, H!Close
  PROVE  HistoryInv'
<1>1. EventsOK /\ EventsOK' /\ UNCHANGED <<mode, read, answer, walk>>
  BY CloseAppends DEF HistoryInv, H!Close
<1>2. QueriesOK'
  BY <1>1, CloseKeepsQuery DEF HistoryInv, QueriesOK, H!Generation
<1>3. OrderOK' /\ AnswerIsOK'
  BY <1>1 DEF HistoryInv, OrderOK, AnswerIsOK, H!Generation
<1>4. RangesOK'
  <2>1. Len(events'[HistoryGenerations]) >= Len(events[HistoryGenerations])
    BY <1>1, CloseAppends, HistoryLimits
  <2>2. Len(events[HistoryGenerations]) \in Nat /\ Len(events'[HistoryGenerations]) \in Nat
    BY <1>1, HistoryLimits, LenProperties DEF EventsOK, H!Generation
  <2>3. walk.total \in Nat
    BY DEF HistoryInv, RangesOK
  <2> QED
    BY <1>1, <2>1, <2>2, <2>3 DEF HistoryInv, RangesOK, H!Stored
<1> QED
  BY <1>1, <1>2, <1>3, <1>4 DEF HistoryInv

\* A step of the query of one generation.
LEMMA QueryStepKeeps ==
  ASSUME HistoryInv, UNCHANGED <<events, latest, mode, walk>>, NEW g \in H!Generation, NEW r,
         read[g].pc # "done", read' = [read EXCEPT ![g] = r], QueryOK(g, r),
         answer' \in {answer, "failed"},
         mode = "command" /\ g = 1 /\ r.pc \in {"page", "wait", "done"} =>
           read[1].pc \in {"page", "wait"} \/ \A h \in H!Generation \ {1} : read[h].pc = "done",
         r.pc = "done" => r.oldest = H!oldest
  PROVE  HistoryInv'
<1>1. /\ EventsOK /\ QueriesOK /\ OrderOK /\ AnswerIsOK /\ RangesOK
      /\ EventsOK' /\ RangesOK'
  BY DEF HistoryInv, EventsOK, RangesOK, H!Stored, H!Generation
<1>2. /\ DOMAIN read = H!Generation /\ DOMAIN read' = H!Generation /\ read'[g] = r
      /\ \A h \in H!Generation : h # g => read'[h] = read[h]
  BY <1>1 DEF QueriesOK
<1>3. QueriesOK'
  <2>1. ASSUME NEW h \in H!Generation
        PROVE  QueryOK(h, read'[h])
    BY <1>1, <1>2 DEF QueriesOK
  <2>2. ASSUME NEW h \in H!Generation, NEW q, QueryOK(h, q), q = read'[h]
        PROVE  QueryOK(h, read[h])'
    BY <2>2 DEF QueryOK, Fresh, CursorOK, LimitOK, H!oldest, H!UpTo
  <2> QED
    BY <1>2, <2>1, <2>2 DEF QueriesOK, H!Generation
<1>4. AnswerIsOK'
  BY <1>1, <1>2 DEF AnswerIsOK, H!Generation
<1>5. ASSUME NEW h \in H!Generation, From = 0
      PROVE  read'[h].start <= H!oldest /\ read'[h].start \in Nat
  <2>1. QueryOK(h, read'[h])
    BY <1>1, <1>2 DEF QueriesOK
  <2> QED
    BY <1>5, <2>1 DEF QueryOK, LimitOK, Query
<1>6. OrderOK'
  <2>1. CASE g = 1
    BY <1>1, <1>2, <1>5, <2>1 DEF OrderOK, H!Generation
  <2>2. CASE g # 1
    BY <1>1, <1>2, <2>2, HistoryLimits DEF OrderOK, H!Generation
  <2> QED
    BY <2>1, <2>2
<1> QED
  BY <1>1, <1>3, <1>4, <1>6 DEF HistoryInv

LEMMA StartKeeps ==
  ASSUME HistoryInv, NEW g \in H!Generation, H!Start(g)
  PROVE  HistoryInv'
<1>1. /\ QueryOK(g, read[g]) /\ read[g].pc = "idle" /\ EventsOK
      /\ UNCHANGED <<events, latest, mode, answer, walk>>
  BY DEF HistoryInv, QueriesOK, H!Start, H!MayStart
<1>2. PICK s : s = IF From > H!oldest THEN From ELSE H!oldest
  OBVIOUS
<1>3. s \in Nat /\ s >= 1 /\ (From = 0 => s <= H!oldest)
  BY <1>1, <1>2, OldestFacts, HistoryLimits
<1>4. PICK r : r = [read[g] EXCEPT !.pc = "page", !.start = s]
  OBVIOUS
<1>5. read' = [read EXCEPT ![g] = r]
  BY <1>2, <1>4 DEF H!Start, HistoryInv, QueriesOK
<1>6. r \in Query /\ r.pc = "page" /\ r.start = s /\ r.cursor = read[g].cursor /\ r.entries = read[g].entries
  BY <1>1, <1>3, <1>4 DEF QueryOK, Query
<1>7. r.covers <=> read[g].covers
  BY <1>1, <1>4 DEF QueryOK, Query
<1>8. Fresh(r)
  BY <1>1, <1>6, <1>7 DEF QueryOK, LimitOK, Fresh
<1>9. QueryOK(g, r)
  BY <1>3, <1>6, <1>8 DEF QueryOK, LimitOK, Fresh
<1>10. mode = "command" /\ g = 1 => \A h \in H!Generation \ {1} : read[h].pc = "done"
  BY HistoryLimits DEF H!Start, H!MayStart, H!Generation
<1> QED
  BY <1>1, <1>5, <1>6, <1>9, <1>10, QueryStepKeeps

LEMMA AskKeeps ==
  ASSUME HistoryInv, NEW g \in H!Generation, H!Ask(g)
  PROVE  HistoryInv'
<1>1. /\ QueryOK(g, read[g]) /\ read[g].pc = "page"
      /\ UNCHANGED <<events, latest, mode, answer, walk>>
  BY DEF HistoryInv, QueriesOK, H!Ask
<1>2. PICK r : r = [read[g] EXCEPT !.pc = "wait"]
  OBVIOUS
<1>3. read' = [read EXCEPT ![g] = r]
  BY <1>2 DEF H!Ask, HistoryInv, QueriesOK
<1>4. /\ r \in Query /\ r.pc = "wait" /\ r.start = read[g].start /\ r.cursor = read[g].cursor
      /\ r.entries = read[g].entries /\ r.latest = read[g].latest
  BY <1>1, <1>2 DEF QueryOK, Query
<1>5. (r.covers <=> read[g].covers) /\ (r.reaches <=> read[g].reaches)
  BY <1>1, <1>2 DEF QueryOK, Query
<1>6. QueryOK(g, r)
  BY <1>1, <1>4, <1>5 DEF QueryOK, Fresh, CursorOK, LimitOK
<1> QED
  BY <1>1, <1>3, <1>4, <1>6, QueryStepKeeps

LEMMA FailKeepsHistory ==
  ASSUME HistoryInv, NEW g \in H!Generation, H!Fail(g)
  PROVE  HistoryInv'
<1>1. /\ QueryOK(g, read[g]) /\ read[g].pc \in {"wait", "idle"} /\ answer' = "failed"
      /\ UNCHANGED <<events, latest, mode, walk>>
  BY DEF HistoryInv, QueriesOK, H!Fail, H!MayStart
<1>2. PICK r : r = [read[g] EXCEPT !.pc = "failed"]
  OBVIOUS
<1>3. read' = [read EXCEPT ![g] = r]
  BY <1>2 DEF H!Fail, HistoryInv, QueriesOK
<1>4. /\ r \in Query /\ r.pc = "failed" /\ r.start = read[g].start /\ r.cursor = read[g].cursor
      /\ r.entries = read[g].entries /\ r.latest = read[g].latest
  BY <1>1, <1>2 DEF QueryOK, Query
<1>5. (r.covers <=> read[g].covers) /\ (r.reaches <=> read[g].reaches)
  BY <1>1, <1>2 DEF QueryOK, Query
<1>6. QueryOK(g, r)
  BY <1>1, <1>4, <1>5 DEF QueryOK, Fresh, CursorOK, LimitOK
<1> QED
  BY <1>1, <1>3, <1>4, <1>6, QueryStepKeeps

\* A step of the answer or of the records leaves the queries alone.
LEMMA QueriesStay ==
  ASSUME HistoryInv, UNCHANGED <<events, latest, mode, read>>
  PROVE  EventsOK' /\ QueriesOK' /\ OrderOK'
<1>1. EventsOK'
  BY DEF HistoryInv, EventsOK, H!Generation
<1>2. ASSUME NEW g \in H!Generation, NEW q, q = read[g], QueryOK(g, q)
      PROVE  QueryOK(g, read[g])'
  <2>1. q \in Query /\ read'[g] = q
    BY <1>2 DEF QueryOK
  <2>2. LimitOK(q)'
    BY <1>2 DEF QueryOK, LimitOK, H!oldest
  <2>3. CursorOK(g, q) => CursorOK(g, q)'
    BY DEF CursorOK, H!UpTo
  <2> QED
    BY <1>2, <2>1, <2>2, <2>3 DEF QueryOK, Fresh
<1>3. QueriesOK'
  BY <1>2 DEF HistoryInv, QueriesOK, H!Generation
<1>4. OrderOK'
  BY DEF HistoryInv, OrderOK, H!Generation
<1> QED
  BY <1>1, <1>3, <1>4

LEMMA AnswerKeeps ==
  ASSUME HistoryInv, H!Answer
  PROVE  HistoryInv'
<1>1. /\ UNCHANGED <<events, latest, mode, read, walk>> /\ answer' = "shown"
      /\ \A g \in H!Generation : read[g].pc = "done"
  BY DEF H!Answer
<1>2. QueriesOK' /\ EventsOK' /\ OrderOK'
  BY <1>1, QueriesStay
<1>3. AnswerIsOK'
  BY <1>1 DEF AnswerIsOK, H!Generation
<1>4. RangesOK'
  BY <1>1 DEF HistoryInv, RangesOK, H!Stored
<1> QED
  BY <1>2, <1>3, <1>4 DEF HistoryInv

\* The records are read in ranges.
LEMMA RangeStepKeeps ==
  ASSUME HistoryInv, UNCHANGED <<events, latest, mode, read, answer>>, RangesOK'
  PROVE  HistoryInv'
<1>1. AnswerIsOK'
  BY DEF HistoryInv, AnswerIsOK, H!Generation
<1> QED
  BY <1>1, QueriesStay DEF HistoryInv

LEMMA ReadTotalKeeps ==
  ASSUME HistoryInv, H!ReadTotal
  PROVE  HistoryInv'
<1>1. /\ walk.pc = "idle" /\ UNCHANGED <<events, latest, mode, read, answer>> /\ RangesOK
      /\ walk' = [walk EXCEPT !.pc = "record", !.total = H!Stored, !.end = H!RangeEnd(walk.next, H!Stored)]
  BY DEF HistoryInv, H!ReadTotal
<1>2. H!Stored \in Nat
  BY HistoryLimits, LenProperties DEF H!Stored, HistoryInv, EventsOK, H!Generation
<1>3. PICK e : e = H!RangeEnd(walk.next, H!Stored)
  OBVIOUS
<1>4. /\ walk.next \in Nat /\ walk.total \in Nat /\ walk.got \in Seq(Nat) /\ walk.next >= 1
      /\ walk.next <= H!Stored + 1
  <2>1. /\ walk.next \in Nat /\ walk.total \in Nat /\ walk.got \in Seq(Nat) /\ walk.next >= 1
        /\ walk.next <= walk.total + 1 /\ walk.total <= H!Stored
    BY <1>1 DEF RangesOK
  <2> QED
    BY <1>2, <2>1
<1>5. e \in Nat /\ e <= H!Stored /\ walk.next <= e + 1
  <2>1. e = IF walk.next + RangeCount - 1 < H!Stored THEN walk.next + RangeCount - 1 ELSE H!Stored
    BY <1>3 DEF H!RangeEnd, H!Least
  <2>2. walk.next + RangeCount - 1 \in Nat /\ walk.next + RangeCount - 1 >= walk.next
    BY <1>4, HistoryLimits
  <2> QED
    BY <1>2, <1>4, <2>1, <2>2
<1>6. /\ walk'.pc = "record" /\ walk'.next = walk.next /\ walk'.end = e /\ walk'.total = H!Stored
      /\ walk'.got = walk.got
      /\ walk' \in [pc : {"idle", "record", "done"}, next : Nat, end : Nat, total : Nat, got : Seq(Nat)]
  BY <1>1, <1>2, <1>3, <1>5 DEF RangesOK
<1>7. RangesOK'
  BY <1>1, <1>2, <1>4, <1>5, <1>6 DEF RangesOK, H!Stored
<1> QED
  BY <1>1, <1>7, RangeStepKeeps

LEMMA ReadRecordKeeps ==
  ASSUME HistoryInv, H!ReadRecord
  PROVE  HistoryInv'
<1>1. /\ walk.pc = "record" /\ UNCHANGED <<events, latest, mode, read, answer>> /\ RangesOK
  BY DEF HistoryInv, H!ReadRecord
<1>2. H!Stored \in Nat
  BY HistoryLimits, LenProperties DEF H!Stored, HistoryInv, EventsOK, H!Generation
<1>3. /\ walk.next \in Nat /\ walk.next >= 1 /\ walk.total \in Nat /\ walk.end \in Nat /\ walk.got \in Seq(Nat)
      /\ walk.next <= walk.end + 1 /\ walk.end <= walk.total /\ walk.total <= H!Stored
      /\ walk.got = Segment(0, walk.next - 1)
  <2>1. [i \in 1..(walk.next - 1) |-> i] = Segment(0, walk.next - 1)
    BY <1>1 DEF RangesOK, Segment
  <2> QED
    BY <1>1, <2>1 DEF RangesOK
<1>4. CASE walk.next <= walk.end
  <2>1. walk' = [walk EXCEPT !.got = Append(walk.got, walk.next), !.next = walk.next + 1]
    BY <1>1, <1>2, <1>3, <1>4 DEF H!ReadRecord
  <2>2. Append(walk.got, walk.next) = Segment(0, walk.next)
    <3>1. PICK s \in Seq(Nat) : s = walk.got
      BY <1>3
    <3>2. PICK n \in Nat : n = walk.next /\ n >= 1
      BY <1>3
    <3>3. Len(s) = n - 1 /\ \A i \in 1..(n - 1) : s[i] = i
      <4>1. n - 1 \in Nat /\ 0 <= n - 1 /\ s = Segment(0, n - 1)
        BY <1>3, <3>1, <3>2
      <4>2. Len(s) = (n - 1) - 0 /\ \A i \in 1..((n - 1) - 0) : s[i] = 0 + i
        BY <4>1, SegmentSeq
      <4> QED
        BY <3>2, <4>2
    <3>4. PICK u \in Seq(Nat) : u = Segment(0, n) /\ Len(u) = n /\ \A i \in 1..n : u[i] = i
      <4>1. 0 \in Nat /\ 0 <= n /\ n - 0 = n
        BY <3>2
      <4>2. /\ Segment(0, n) \in Seq(Nat) /\ Len(Segment(0, n)) = n - 0
            /\ \A i \in 1..(n - 0) : Segment(0, n)[i] = 0 + i
        BY <4>1, SegmentSeq
      <4> QED
        BY <4>1, <4>2
    <3>5. /\ Append(s, n) \in Seq(Nat) /\ Len(Append(s, n)) = n
          /\ \A i \in 1..n : Append(s, n)[i] = i
      BY <3>2, <3>3
    <3>6. Append(s, n) = u
      BY <3>4, <3>5, SeqEqual
    <3> QED
      BY <3>1, <3>2, <3>4, <3>6
  <2>3. walk.next + 1 \in Nat /\ Segment(0, walk.next) \in Seq(Nat)
    <3>1. 0 \in Nat /\ walk.next \in Nat /\ 0 <= walk.next /\ walk.next + 1 \in Nat
      BY <1>3
    <3>2. Segment(0, walk.next) \in Seq(Nat)
      BY <3>1, SegmentSeq
    <3> QED
      BY <3>1, <3>2
  <2>4. /\ walk'.pc = "record" /\ walk'.next = walk.next + 1 /\ walk'.end = walk.end
        /\ walk'.total = walk.total /\ walk'.got = Segment(0, walk.next)
        /\ walk' \in [pc : {"idle", "record", "done"}, next : Nat, end : Nat, total : Nat, got : Seq(Nat)]
    BY <1>1, <2>1, <2>2, <2>3 DEF RangesOK
  <2>5. walk'.got = [i \in 1..(walk'.next - 1) |-> i]
    <3>1. walk'.next - 1 = walk.next - 0 /\ \A i \in 1..(walk.next - 0) : 0 + i = i
      BY <1>3, <2>4
    <3> QED
      BY <2>4, <3>1 DEF Segment
  <2>6. RangesOK'
    BY <1>1, <1>3, <1>4, <2>4, <2>5 DEF RangesOK, H!Stored
  <2> QED
    BY <1>1, <2>6, RangeStepKeeps
<1>5. CASE ~(walk.next <= walk.end)
  <2>1. PICK p \in {"idle", "done"} : /\ walk' = [walk EXCEPT !.pc = p]
                                      /\ p = "done" => ~(walk.end < walk.total)
    BY <1>1, <1>5 DEF H!ReadRecord
  <2>2. /\ walk'.pc = p /\ walk'.next = walk.next /\ walk'.end = walk.end
        /\ walk'.total = walk.total /\ walk'.got = walk.got
        /\ walk' \in [pc : {"idle", "record", "done"}, next : Nat, end : Nat, total : Nat, got : Seq(Nat)]
    BY <1>1, <2>1 DEF RangesOK
  <2>3. RangesOK'
    BY <1>1, <1>3, <1>5, <2>1, <2>2 DEF RangesOK, H!Stored
  <2> QED
    BY <1>1, <2>3, RangeStepKeeps
<1> QED
  BY <1>4, <1>5

\* Where the next request of a query reads from: what was collected reaches up
\* to this position, and the events after it are not of earlier ledgers.
LEMMA PositionFacts ==
  ASSUME EventsOK, NEW g \in H!Generation, NEW r, QueryOK(g, r), r.pc = "wait",
         NEW l, l = H!Position(r, g).ledger, NEW a, a = H!Position(r, g).at
  PROVE  /\ l \in Nat /\ a \in Nat /\ r.start \in Nat /\ r.start >= 1 /\ r.start <= l
         /\ H!UpTo(g, r.start - 1) \in Nat /\ H!UpTo(g, r.start - 1) <= a /\ a <= H!UpTo(g, l)
         /\ r.entries = Segment(H!UpTo(g, r.start - 1), a)
         /\ \A i \in 1..Len(events[g]) : i > a => events[g][i] >= l
         /\ Fresh(r) \/ (CursorOK(g, r) /\ l = r.cursor.ledger /\ a = r.cursor.at /\ l >= 1)
<1>1. r \in Query /\ r.start \in Nat /\ r.start >= 1 /\ r.start - 1 \in Int /\ r.cursor \in H!Cursor
  BY DEF QueryOK, LimitOK, Query
<1>2. PICK b : b = H!UpTo(g, r.start - 1)
  OBVIOUS
<1>3. /\ b \in Nat /\ Len(events[g]) \in Nat
      /\ \A i \in 1..Len(events[g]) : events[g][i] \in Nat /\ (events[g][i] <= r.start - 1 <=> i <= b)
  <2>1. /\ Len(events[g]) \in Nat /\ H!UpTo(g, r.start - 1) \in 0..Len(events[g])
        /\ \A i \in 1..Len(events[g]) :
             events[g][i] \in Nat /\ (events[g][i] <= r.start - 1 <=> i <= H!UpTo(g, r.start - 1))
    BY <1>1, UpToFacts
  <2> QED
    BY <1>2, <2>1
<1>4. CASE Fresh(r)
  <2>1. l = r.start /\ a = b /\ r.entries = << >>
    BY <1>2, <1>4 DEF H!Position, Fresh
  <2>2. b <= H!UpTo(g, r.start)
    BY <1>1, <1>2, UpToGrows
  <2>3. r.entries = Segment(b, b)
    BY <1>3, <2>1, SegmentEmpty
  <2>4. \A i \in 1..Len(events[g]) : i > a => events[g][i] >= l
    BY <1>1, <1>3, <2>1
  <2> QED
    BY <1>1, <1>2, <1>3, <1>4, <2>1, <2>2, <2>3, <2>4
<1>5. CASE ~Fresh(r)
  <2>1. CursorOK(g, r) /\ r.cursor.ledger \in Nat /\ r.cursor.at \in Nat
    BY <1>1, <1>5 DEF QueryOK, H!Cursor
  <2>2. r.cursor.ledger >= 1
    BY <1>1, <2>1 DEF CursorOK
  <2>3. r.cursor # H!NoCursor
    BY <2>2 DEF H!NoCursor
  <2>4. l = r.cursor.ledger /\ a = r.cursor.at
    BY <2>3 DEF H!Position
  <2>5. \A i \in 1..Len(events[g]) : events[g][i] \in Nat /\ (events[g][i] <= l <=> i <= H!UpTo(g, l))
    BY <2>1, <2>4, l \in Int, UpToFacts
  <2>6. \A i \in 1..Len(events[g]) : i > a => events[g][i] >= l
    <3>1. CASE r.cursor.end
      <4>1. a = H!UpTo(g, l)
        BY <2>1, <2>4, <3>1 DEF CursorOK
      <4> QED
        BY <2>1, <2>4, <2>5, <4>1
    <3>2. CASE ~r.cursor.end
      <4>1. a \in 1..Len(events[g]) /\ events[g][a] = l
        BY <2>1, <2>4, <3>2 DEF CursorOK
      <4>2. \A i \in 1..Len(events[g]) : a <= i => events[g][a] <= events[g][i]
        BY <4>1 DEF EventsOK
      <4> QED
        BY <2>1, <2>4, <2>5, <4>1, <4>2
    <3> QED
      BY <3>1, <3>2
  <2>7. /\ r.start <= l /\ b <= a /\ a <= H!UpTo(g, l) /\ r.entries = Segment(b, a)
    BY <1>2, <2>1, <2>4 DEF CursorOK
  <2> QED
    BY <1>1, <1>2, <1>3, <2>1, <2>2, <2>4, <2>6, <2>7
<1> QED
  BY <1>4, <1>5

\* The cursor of a page lies after the position, and before the ledger that the
\* endpoint read.
LEMMA PageCursorFacts ==
  ASSUME EventsOK, NEW g \in H!Generation, NEW l \in Nat, NEW a \in Nat, NEW e \in l..latest,
         a <= H!UpTo(g, l), \A i \in 1..Len(events[g]) : i > a => events[g][i] >= l,
         NEW c, c = H!PageCursor(g, a, e)
  PROVE  /\ c \in H!Cursor /\ l <= c.ledger /\ c.ledger <= latest
         /\ a <= c.at /\ c.at <= H!UpTo(g, c.ledger)
         /\ c.end => c.at = H!UpTo(g, c.ledger)
         /\ ~c.end => c.at \in 1..Len(events[g]) /\ events[g][c.at] = c.ledger /\ c.at > a
<1>1. latest \in Nat /\ e \in Nat /\ l <= e /\ e <= latest
  BY OldestFacts
<1>2. PICK u : u = H!UpTo(g, e)
  OBVIOUS
<1>3. /\ Len(events[g]) \in Nat /\ u \in 0..Len(events[g])
      /\ \A i \in 1..Len(events[g]) : events[g][i] \in Nat /\ (events[g][i] <= e <=> i <= u)
  <2>1. /\ Len(events[g]) \in Nat /\ H!UpTo(g, e) \in 0..Len(events[g])
        /\ \A i \in 1..Len(events[g]) : events[g][i] \in Nat /\ (events[g][i] <= e <=> i <= H!UpTo(g, e))
    BY <1>1, e \in Int, UpToFacts
  <2> QED
    BY <1>2, <2>1
<1>4. CASE u - a >= Limit
  <2>1. PICK n \in Nat : n = a + Limit /\ n \in 1..Len(events[g]) /\ n > a /\ n <= u
    BY <1>3, <1>4, HistoryLimits
  <2>2. c = [ledger |-> events[g][n], at |-> n, end |-> FALSE]
    BY <1>2, <1>4, <2>1 DEF H!PageCursor
  <2>3. c \in H!Cursor /\ c.ledger = events[g][n] /\ c.at = n /\ ~c.end
    BY <1>3, <2>1, <2>2 DEF H!Cursor
  <2>4. events[g][n] >= l /\ events[g][n] <= e /\ events[g][n] \in Nat
    BY <1>3, <2>1
  <2>5. n <= H!UpTo(g, events[g][n])
    <3>1. events[g][n] \in Int /\ events[g][n] <= events[g][n]
      BY <2>4
    <3>2. \A i \in 1..Len(events[g]) :
            events[g][i] <= events[g][n] <=> i <= H!UpTo(g, events[g][n])
      BY <3>1, UpToFacts
    <3> QED
      BY <2>1, <3>1, <3>2
  <2> QED
    BY <1>1, <2>1, <2>3, <2>4, <2>5
<1>5. CASE ~(u - a >= Limit)
  <2>1. c = [ledger |-> e, at |-> u, end |-> TRUE]
    BY <1>2, <1>5 DEF H!PageCursor
  <2>2. c \in H!Cursor /\ c.ledger = e /\ c.at = u /\ c.end
    BY <1>1, <1>3, <2>1 DEF H!Cursor
  <2>3. H!UpTo(g, l) <= u
    BY <1>1, <1>2, UpToGrows
  <2>4. H!UpTo(g, l) \in Nat
    BY UpToFacts
  <2> QED
    BY <1>1, <1>2, <1>3, <2>2, <2>3, <2>4
<1> QED
  BY <1>4, <1>5

\* What RequestsAdvance asks of the cursors before and after a page of a
\* generation.
Advances(g, old, new) ==
  /\ \/ new.ledger > old.ledger
     \/ new.ledger = old.ledger /\ (new.at > old.at \/ (new.end /\ ~old.end))
  /\ new.ledger < latest /\ new.at <= Len(events[g])

\* A page extends what was collected up to its cursor, and a query goes on only
\* when the cursor went on.
LEMMA PageKeeps ==
  ASSUME HistoryInv, NEW g \in H!Generation, H!Page(g)
  PROVE  HistoryInv' /\ (read'[g].pc = "page" => Advances(g, read[g].cursor, read'[g].cursor))
<1>1. PICK r : r = read[g]
  OBVIOUS
<1>2. PICK l, a : l = H!Position(r, g).ledger /\ a = H!Position(r, g).at
  OBVIOUS
<1>3. PICK e \in l..latest, readable \in BOOLEAN :
        read' = [read EXCEPT ![g] =
          LET cursor == H!PageCursor(g, a, e)
              next == [r EXCEPT !.cursor = cursor, !.entries = H!Appended(r, H!Position(r, g), cursor, g),
                                !.oldest = H!oldest, !.latest = latest, !.reaches = H!ReachesTheLimit(r)]
          IN IF readable /\ H!Covered(r, cursor) THEN [next EXCEPT !.pc = "done", !.covers = TRUE]
             ELSE IF ~readable \/ H!Stays(r, cursor) THEN [next EXCEPT !.pc = "done"]
             ELSE [next EXCEPT !.pc = "page"]]
  BY <1>1, <1>2 DEF H!Page
<1>4. /\ EventsOK /\ QueryOK(g, r) /\ r.pc = "wait" /\ r \in Query
      /\ UNCHANGED <<events, latest, mode, answer, walk>>
  BY <1>1 DEF HistoryInv, QueriesOK, QueryOK, H!Page
<1>5. /\ l \in Nat /\ a \in Nat /\ r.start \in Nat /\ r.start >= 1 /\ r.start <= l
      /\ H!UpTo(g, r.start - 1) \in Nat /\ H!UpTo(g, r.start - 1) <= a /\ a <= H!UpTo(g, l)
      /\ r.entries = Segment(H!UpTo(g, r.start - 1), a)
      /\ \A i \in 1..Len(events[g]) : i > a => events[g][i] >= l
      /\ Fresh(r) \/ (CursorOK(g, r) /\ l = r.cursor.ledger /\ a = r.cursor.at /\ l >= 1)
  BY <1>2, <1>4, PositionFacts
<1>6. PICK c : c = H!PageCursor(g, a, e)
  OBVIOUS
<1>7. /\ c \in H!Cursor /\ l <= c.ledger /\ c.ledger <= latest
      /\ a <= c.at /\ c.at <= H!UpTo(g, c.ledger)
      /\ c.end => c.at = H!UpTo(g, c.ledger)
      /\ ~c.end => c.at \in 1..Len(events[g]) /\ events[g][c.at] = c.ledger /\ c.at > a
  BY <1>4, <1>5, <1>6, PageCursorFacts
<1>8. c.ledger \in Nat /\ c.at \in Nat /\ c.end \in BOOLEAN
  BY <1>7 DEF H!Cursor
<1>9. PICK s : s = H!Appended(r, H!Position(r, g), c, g)
  OBVIOUS
<1>10. s = Segment(H!UpTo(g, r.start - 1), c.at) /\ s \in Seq(Nat)
  <2>1. s = Segment(H!UpTo(g, r.start - 1), a) \o Segment(a, c.at)
    BY <1>2, <1>5, <1>9 DEF H!Appended, Segment
  <2>2. s = Segment(H!UpTo(g, r.start - 1), c.at)
    BY <1>5, <1>7, <1>8, <2>1, SegmentsJoin
  <2>3. H!UpTo(g, r.start - 1) <= c.at
    BY <1>5, <1>7, <1>8
  <2> QED
    BY <1>5, <1>8, <2>2, <2>3, SegmentSeq
<1>11. PICK next : next = [r EXCEPT !.cursor = c, !.entries = s, !.oldest = H!oldest,
                                    !.latest = latest, !.reaches = H!ReachesTheLimit(r)]
  OBVIOUS
<1>12. PICK q : q = IF readable /\ H!Covered(r, c) THEN [next EXCEPT !.pc = "done", !.covers = TRUE]
                   ELSE IF ~readable \/ H!Stays(r, c) THEN [next EXCEPT !.pc = "done"]
                   ELSE [next EXCEPT !.pc = "page"]
  OBVIOUS
<1>13. read' = [read EXCEPT ![g] = q]
  BY <1>3, <1>6, <1>9, <1>11, <1>12
<1>14. H!oldest \in Nat /\ latest \in Nat /\ H!ReachesTheLimit(r) \in BOOLEAN
  BY <1>4, OldestFacts DEF H!ReachesTheLimit
<1>15. /\ next \in Query /\ next.start = r.start /\ next.cursor = c /\ next.entries = s
       /\ next.latest = latest /\ next.oldest = H!oldest
  BY <1>4, <1>7, <1>10, <1>11, <1>14 DEF Query
<1>16. (next.reaches <=> r.start <= H!oldest) /\ (next.covers <=> r.covers)
  BY <1>4, <1>11 DEF Query, H!ReachesTheLimit
<1>17. /\ q \in Query /\ q.start = r.start /\ q.cursor = c /\ q.entries = s
       /\ q.latest = latest /\ q.oldest = H!oldest /\ q.pc \in {"done", "page"}
  BY <1>12, <1>15 DEF Query
<1>18. /\ q.reaches <=> r.start <= H!oldest
       /\ q.covers => c.ledger >= latest /\ q.pc = "done"
  <2>1. ~next.covers
    BY <1>4, <1>16 DEF QueryOK, LimitOK
  <2> QED
    BY <1>12, <1>15, <1>16, <2>1 DEF Query, H!Covered
<1>19. q.pc = "page" => c # r.cursor /\ ~(c.ledger >= latest)
  BY <1>12, <1>15 DEF Query, H!Stays, H!Covered
<1>20. q.covers => c.ledger = latest
  BY <1>7, <1>8, <1>14, <1>18
<1>21. CursorOK(g, q)
  BY <1>5, <1>7, <1>8, <1>10, <1>14, <1>17, <1>20 DEF CursorOK
<1>22. QueryOK(g, q)
  BY <1>4, <1>5, <1>17, <1>18, <1>21 DEF QueryOK, LimitOK
<1>23. HistoryInv'
  BY <1>1, <1>4, <1>13, <1>17, <1>22, QueryStepKeeps
<1>24. read'[g] = q
  BY <1>13 DEF HistoryInv, QueriesOK
<1>25. q.pc = "page" => Advances(g, r.cursor, c)
  <2>1. SUFFICES ASSUME c # r.cursor, ~(c.ledger >= latest) PROVE Advances(g, r.cursor, c)
    BY <1>19
  <2>2. c.ledger < latest /\ c.at <= Len(events[g])
    <3>1. /\ Len(events[g]) \in Nat /\ H!UpTo(g, c.ledger) \in 0..Len(events[g])
      BY <1>4, <1>8, c.ledger \in Int, UpToFacts
    <3> QED
      BY <1>7, <1>8, <1>14, <2>1, <3>1
  <2>3. \/ c.ledger > r.cursor.ledger
        \/ c.ledger = r.cursor.ledger /\ (c.at > r.cursor.at \/ (c.end /\ ~r.cursor.end))
    <3>1. CASE Fresh(r)
      BY <1>5, <1>7, <1>8, <3>1 DEF Fresh, H!NoCursor
    <3>2. CASE ~Fresh(r)
      <4>1. CursorOK(g, r) /\ l = r.cursor.ledger /\ a = r.cursor.at /\ r.cursor \in H!Cursor
        BY <1>4, <1>5, <3>2 DEF Query
      <4>2. c.ledger > l \/ (c.ledger = l /\ (c.at > a \/ (c.at = a /\ c.end)))
        BY <1>5, <1>7, <1>8
      <4>3. c.ledger = l /\ c.at = a /\ c.end => ~r.cursor.end
        BY <1>7, <2>1, <4>1 DEF H!Cursor
      <4> QED
        BY <4>1, <4>2, <4>3
    <3> QED
      BY <3>1, <3>2
  <2> QED
    BY <2>2, <2>3 DEF Advances
<1> QED
  BY <1>1, <1>17, <1>23, <1>24, <1>25

-----------------------------------------------------------------------------
(* The invariant of the history, and what follows from it *)

LEMMA HistoryInvInit ==
  ASSUME H!Init
  PROVE  HistoryInv
<1>1. /\ latest = 1 /\ read = [g \in H!Generation |-> H!Unread] /\ answer = "none" /\ walk = H!NoWalk
      /\ mode \in {"command", "page", "records"}
  BY DEF H!Init
<1>2. PICK k \in Nat : k = H!Least(PerLedger, MaxEvents) /\ k <= MaxEvents
  BY HistoryLimits DEF H!Least
<1>3. events \in [H!Generation -> {H!Copies(n, 1) : n \in 0..k}]
  BY <1>2 DEF H!Init
<1>4. ASSUME NEW g \in H!Generation
      PROVE  /\ events[g] \in Seq(1..HistoryMaxLedger) /\ Len(events[g]) <= MaxEvents
             /\ \A i \in 1..Len(events[g]) : events[g][i] = 1
  <2>1. PICK n \in 0..k : events[g] = H!Copies(n, 1)
    BY <1>3
  <2>2. n \in Nat /\ 1 \in 1..HistoryMaxLedger /\ n <= MaxEvents
    BY <1>2, HistoryLimits
  <2>3. PICK t : t = H!Copies(n, 1)
    OBVIOUS
  <2>4. t \in Seq(1..HistoryMaxLedger) /\ Len(t) = n /\ \A i \in 1..n : t[i] = 1
    BY <2>2, <2>3, CopiesSeq
  <2> QED
    BY <2>1, <2>2, <2>3, <2>4
<1>5. EventsOK
  <2>1. latest \in 1..HistoryMaxLedger
    BY <1>1, HistoryLimits
  <2>2. events \in [H!Generation -> Seq(1..HistoryMaxLedger)]
    BY <1>3, <1>4
  <2> QED
    BY <1>1, <1>4, <2>1, <2>2 DEF EventsOK
<1>6. QueryOK(1, H!Unread) /\ \A g \in H!Generation : QueryOK(g, H!Unread)
  <2>1. << >> \in Seq(Nat) /\ H!NoCursor \in H!Cursor
    BY EmptySeq DEF H!NoCursor, H!Cursor
  <2>2. H!Unread \in Query /\ Fresh(H!Unread)
    BY <2>1 DEF H!Unread, Query, Fresh
  <2>3. LimitOK(H!Unread)
    BY <1>5, <2>2, OldestFacts DEF H!Unread, LimitOK
  <2> QED
    BY <2>2, <2>3 DEF QueryOK
<1>7. QueriesOK /\ OrderOK /\ AnswerIsOK
  BY <1>1, <1>6, HistoryLimits DEF QueriesOK, OrderOK, AnswerIsOK, H!Unread
<1>8. RangesOK
  <2>1. << >> \in Seq(Nat) /\ [i \in 1..(1 - 1) |-> i] = << >>
    <3>1. Segment(0, 0) = << >>
      BY SegmentEmpty
    <3>2. 1 - 1 = 0 - 0 /\ \A i \in 1..(0 - 0) : 0 + i = i
      OBVIOUS
    <3> QED
      BY <3>1, <3>2, EmptySeq DEF Segment
  <2>2. H!Stored \in Nat
    BY <1>5, HistoryLimits, LenProperties DEF H!Stored, EventsOK
  <2> QED
    BY <1>1, <2>1, <2>2 DEF RangesOK, H!NoWalk
<1> QED
  BY <1>5, <1>7, <1>8 DEF HistoryInv

\* What RequestsAdvance asks of a step.
Advance ==
  \A g \in H!Generation :
    read[g].pc = "wait" /\ read'[g].pc = "page" => Advances(g, read[g].cursor, read'[g].cursor)

LEMMA HistoryInvStep ==
  ASSUME HistoryInv, H!Next
  PROVE  HistoryInv' /\ Advance
<1>1. DOMAIN read = H!Generation
  BY DEF HistoryInv, QueriesOK
<1>2. CASE H!Close
  BY <1>2, CloseKeepsHistory DEF Advance, H!Close
<1>3. CASE H!Answer
  BY <1>3, AnswerKeeps DEF Advance, H!Answer
<1>4. CASE H!ReadTotal
  BY <1>4, ReadTotalKeeps DEF Advance, H!ReadTotal
<1>5. CASE H!ReadRecord
  BY <1>5, ReadRecordKeeps DEF Advance, H!ReadRecord
<1>6. ASSUME NEW g \in H!Generation, H!Start(g)
      PROVE  HistoryInv' /\ Advance
  <2>1. \A h \in H!Generation : read'[h] = read[h] \/ (h = g /\ read[h].pc = "idle")
    BY <1>1, <1>6 DEF H!Start, H!MayStart
  <2> QED
    BY <1>6, <2>1, StartKeeps DEF Advance
<1>7. ASSUME NEW g \in H!Generation, H!Ask(g)
      PROVE  HistoryInv' /\ Advance
  <2>1. \A h \in H!Generation : read'[h] = read[h] \/ (h = g /\ read[h].pc = "page")
    BY <1>1, <1>7 DEF H!Ask
  <2> QED
    BY <1>7, <2>1, AskKeeps DEF Advance
<1>8. ASSUME NEW g \in H!Generation, H!Fail(g)
      PROVE  HistoryInv' /\ Advance
  <2>1. read[g] \in Query
    BY DEF HistoryInv, QueriesOK, QueryOK
  <2>2. \A h \in H!Generation : read'[h] = read[h] \/ (h = g /\ read'[h].pc = "failed")
    BY <1>1, <1>8, <2>1 DEF H!Fail, Query
  <2> QED
    BY <1>8, <2>2, FailKeepsHistory DEF Advance
<1>9. ASSUME NEW g \in H!Generation, H!Page(g)
      PROVE  HistoryInv' /\ Advance
  <2>1. \A h \in H!Generation : h # g => read'[h] = read[h]
    BY <1>1, <1>9 DEF H!Page
  <2> QED
    BY <1>9, <2>1, PageKeeps DEF Advance
<1> QED
  BY <1>2, <1>3, <1>4, <1>5, <1>6, <1>7, <1>8, <1>9 DEF H!Next

LEMMA HistoryInvStutter ==
  ASSUME HistoryInv, UNCHANGED H!vars
  PROVE  HistoryInv'
<1>1. UNCHANGED <<events, latest, mode, read, answer, walk>>
  BY DEF H!vars
<1>2. RangesOK'
  BY <1>1 DEF HistoryInv, RangesOK, H!Stored
<1> QED
  BY <1>1, <1>2, RangeStepKeeps

LEMMA HistoryInvSeamless ==
  ASSUME HistoryInv
  PROVE  CollectedIsSeamless
<1>1. EventsOK /\ AnswerIsOK /\ RangesOK /\ \A g \in H!Generation : QueryOK(g, read[g])
  BY DEF HistoryInv, QueriesOK
<1>2. ASSUME NEW g \in H!Generation, NEW r, r = read[g]
      PROVE  /\ Len(r.entries) <= MaxEvents
             /\ r.cursor # H!NoCursor =>
                  r.entries = Segment(H!UpTo(g, r.start - 1), r.cursor.at)
  <2>1. CASE Fresh(r)
    BY <2>1, HistoryLimits, EmptySeq DEF Fresh
  <2>2. CASE CursorOK(g, r)
    <3>1. /\ r.start \in Nat /\ r.start - 1 \in Int /\ r.cursor.ledger \in Int /\ r.cursor.at \in Nat
      BY <1>1, <1>2 DEF QueryOK, Query, H!Cursor
    <3>2. /\ H!UpTo(g, r.start - 1) \in Nat
          /\ H!UpTo(g, r.cursor.ledger) \in 0..Len(events[g]) /\ Len(events[g]) \in Nat
      <4>1. H!UpTo(g, r.start - 1) \in 0..Len(events[g]) /\ Len(events[g]) \in Nat
        BY <1>1, <3>1, UpToFacts
      <4>2. H!UpTo(g, r.cursor.ledger) \in 0..Len(events[g])
        BY <1>1, <3>1, UpToFacts
      <4> QED
        BY <4>1, <4>2
    <3>3. /\ H!UpTo(g, r.start - 1) <= r.cursor.at /\ r.cursor.at <= H!UpTo(g, r.cursor.ledger)
          /\ r.entries = Segment(H!UpTo(g, r.start - 1), r.cursor.at) /\ Len(events[g]) <= MaxEvents
      BY <1>1, <2>2 DEF CursorOK, EventsOK
    <3>4. Len(r.entries) = r.cursor.at - H!UpTo(g, r.start - 1)
      BY <3>1, <3>2, <3>3, SegmentSeq
    <3> QED
      BY <3>1, <3>2, <3>3, <3>4, HistoryLimits
  <2> QED
    BY <1>1, <1>2, <2>1, <2>2 DEF QueryOK
<1>3. H!TypeOK
  <2>1. ASSUME NEW g \in H!Generation
        PROVE  /\ events[g] \in Seq(1..HistoryMaxLedger) /\ Len(events[g]) <= MaxEvents
               /\ read[g].pc \in {"idle", "page", "wait", "done", "failed"} /\ read[g].cursor \in H!Cursor
               /\ Len(read[g].entries) <= MaxEvents
    BY <1>1, <1>2 DEF EventsOK, QueryOK, Query
  <2> QED
    BY <1>1, <2>1 DEF H!TypeOK, EventsOK, AnswerIsOK, RangesOK
<1>4. H!PagesAreSeamless
  BY <1>2 DEF H!PagesAreSeamless, Segment
<1>5. H!RangesAreSeamless
  <2>1. walk.next - 1 \in Nat /\ walk.got = Segment(0, walk.next - 1) /\ walk.next \in Nat /\ walk.total \in Nat
    <3>1. walk.next \in Nat /\ walk.next >= 1 /\ walk.total \in Nat
      BY <1>1 DEF RangesOK
    <3>2. walk.got = Segment(0, walk.next - 1)
      BY <1>1, <3>1 DEF RangesOK, Segment
    <3> QED
      BY <3>1, <3>2
  <2>2. Len(walk.got) = walk.next - 1
    <3>1. 0 \in Nat /\ 0 <= walk.next - 1 /\ (walk.next - 1) - 0 = walk.next - 1
      BY <2>1
    <3>2. Len(Segment(0, walk.next - 1)) = (walk.next - 1) - 0
      BY <2>1, <3>1, SegmentSeq
    <3> QED
      BY <2>1, <3>1, <3>2
  <2> QED
    BY <1>1, <2>1, <2>2 DEF H!RangesAreSeamless, RangesOK
<1> QED
  BY <1>3, <1>4, <1>5 DEF CollectedIsSeamless, H!CollectedIsSeamless

\* A query that covers its range has collected the events up to its last ledger,
\* or stands at one event of that ledger.
LEMMA CoveredFacts ==
  ASSUME EventsOK, NEW g \in H!Generation, NEW r, QueryOK(g, r), r.covers,
         NEW b, b = H!UpTo(g, r.start - 1), NEW u, u = H!UpTo(g, r.latest), NEW n, n = r.cursor.at
  PROVE  /\ Len(events[g]) \in Nat /\ b \in Nat /\ u \in 0..Len(events[g]) /\ n \in Nat /\ b <= n /\ n <= u
         /\ r.start \in Nat /\ r.start >= 1 /\ r.latest \in Nat
         /\ r.entries = Segment(b, n) /\ Len(r.entries) = n - b
         /\ \A i \in 1..Len(events[g]) :
              events[g][i] \in Nat /\ (events[g][i] <= r.start - 1 <=> i <= b) /\ (events[g][i] <= r.latest <=> i <= u)
         /\ n = u \/ (n \in 1..Len(events[g]) /\ events[g][n] = r.latest /\ n > b)
         /\ H!OnePerLedger(g) => n = u
<1>1. CursorOK(g, r) /\ r.cursor.ledger = r.latest
  BY DEF QueryOK, Fresh, CursorOK
<1>2. r.start \in Nat /\ r.start - 1 \in Int /\ r.latest \in Nat /\ r.latest \in Int /\ n \in Nat
  BY DEF QueryOK, Query, H!Cursor
<1>3. /\ Len(events[g]) \in Nat /\ H!UpTo(g, r.start - 1) \in 0..Len(events[g])
      /\ \A i \in 1..Len(events[g]) :
           events[g][i] \in Nat /\ (events[g][i] <= r.start - 1 <=> i <= H!UpTo(g, r.start - 1))
  BY <1>2, UpToFacts
<1>4. /\ H!UpTo(g, r.latest) \in 0..Len(events[g])
      /\ \A i \in 1..Len(events[g]) : events[g][i] <= r.latest <=> i <= H!UpTo(g, r.latest)
  BY <1>2, UpToFacts
<1>5. /\ r.start >= 1 /\ r.start <= r.latest /\ b <= n /\ n <= u /\ r.entries = Segment(b, n)
      /\ n = u \/ (n \in 1..Len(events[g]) /\ events[g][n] = r.latest)
  BY <1>1 DEF CursorOK
<1>6. b \in Nat /\ Len(r.entries) = n - b
  <2>1. b \in Nat
    BY <1>3
  <2> QED
    BY <1>2, <1>5, <2>1, SegmentSeq
<1>7. \A i \in 1..Len(events[g]) :
        events[g][i] \in Nat /\ (events[g][i] <= r.start - 1 <=> i <= b) /\ (events[g][i] <= r.latest <=> i <= u)
  BY <1>3, <1>4
<1>8. u \in 0..Len(events[g]) /\ Len(events[g]) \in Nat
  BY <1>3, <1>4
<1>9. n \in 1..Len(events[g]) /\ events[g][n] = r.latest => n > b
  BY <1>2, <1>3, <1>5
<1>10. H!OnePerLedger(g) => n = u
  <2>1. SUFFICES ASSUME H!OnePerLedger(g), n < u PROVE FALSE
    BY <1>2, <1>4, <1>5
  <2>2. n \in 1..Len(events[g]) /\ events[g][n] = r.latest /\ u \in 1..Len(events[g])
    BY <1>2, <1>3, <1>4, <1>5, <2>1
  <2>3. events[g][n] <= events[g][u]
    BY <1>2, <2>1, <2>2 DEF EventsOK
  <2>4. events[g][u] <= r.latest /\ events[g][u] \in Nat
    BY <1>3, <1>4, <2>2
  <2>5. events[g][u] = events[g][n]
    BY <1>2, <2>2, <2>3, <2>4
  <2>6. DOMAIN events[g] = 1..Len(events[g])
    BY LenProperties DEF EventsOK
  <2>7. u = n
    BY <2>1, <2>2, <2>5, <2>6 DEF H!OnePerLedger
  <2> QED
    BY <1>2, <2>1, <2>7
<1> QED
  BY <1>2, <1>5, <1>6, <1>9, <1>10, <1>7, <1>8

LEMMA HistoryInvClaims ==
  ASSUME HistoryInv
  PROVE  ClaimsAreTrue
<1>1. /\ EventsOK /\ OrderOK /\ AnswerIsOK
      /\ \A g \in H!Generation : QueryOK(g, read[g])
  BY DEF HistoryInv, QueriesOK
<1>2. \A g \in H!Generation : DOMAIN events[g] = 1..Len(events[g])
  BY <1>1, LenProperties DEF EventsOK
<1>3. H!SilenceIsAbsence
  <2>1. SUFFICES ASSUME NEW g \in H!Generation, read[g].entries = << >>, read[g].covers,
                        NEW i \in 1..Len(events[g]), events[g][i] \in read[g].start..read[g].latest
                 PROVE  FALSE
    BY <1>2 DEF H!SilenceIsAbsence, H!Silent
  <2>2. PICK b, u, n : b = H!UpTo(g, read[g].start - 1) /\ u = H!UpTo(g, read[g].latest) /\ n = read[g].cursor.at
    OBVIOUS
  <2>3. /\ Len(events[g]) \in Nat /\ b \in Nat /\ u \in 0..Len(events[g]) /\ n \in Nat
        /\ read[g].start \in Nat /\ read[g].latest \in Nat /\ Len(read[g].entries) = n - b
        /\ events[g][i] \in Nat /\ (events[g][i] <= read[g].start - 1 <=> i <= b)
        /\ events[g][i] <= read[g].latest <=> i <= u
        /\ n = u \/ n > b
    BY <1>1, <2>1, <2>2, CoveredFacts
  <2>4. n = b
    <3>1. Len(read[g].entries) = 0
      BY <2>1, EmptySeq
    <3> QED
      BY <2>3, <3>1
  <2>5. u = b
    BY <2>3, <2>4
  <2>6. ~(events[g][i] <= read[g].start - 1) /\ events[g][i] <= read[g].latest
    BY <2>1, <2>3
  <2> QED
    BY <2>3, <2>5, <2>6
<1>4. H!WindowIsStated
  BY <1>1 DEF H!WindowIsStated, H!Says, QueryOK, LimitOK
<1>5. H!CoversMeansComplete
  <2>1. SUFFICES ASSUME NEW g \in H!Generation, read[g].covers, H!OnePerLedger(g)
                 PROVE  Len(read[g].entries) = H!UpTo(g, read[g].latest) - H!UpTo(g, read[g].start - 1)
    BY DEF H!CoversMeansComplete, H!Says
  <2>2. PICK b, u, n : b = H!UpTo(g, read[g].start - 1) /\ u = H!UpTo(g, read[g].latest) /\ n = read[g].cursor.at
    OBVIOUS
  <2>3. Len(read[g].entries) = n - b /\ n = u
    BY <1>1, <2>1, <2>2, CoveredFacts
  <2> QED
    BY <2>2, <2>3
<1>6. H!AnswerShowsTheWindow
  <2>1. SUFFICES ASSUME answer = "shown", mode = "command", From = 0, NEW g \in H!Generation,
                        read[g].covers, H!OnePerLedger(g), NEW i \in 1..Len(events[g]),
                        events[g][i] \in read[1].oldest..read[g].latest
                 PROVE  \E k \in DOMAIN read[g].entries : read[g].entries[k] = i
    BY <1>2 DEF H!AnswerShowsTheWindow, H!StatedOldest
  <2>2. PICK b, u, n : b = H!UpTo(g, read[g].start - 1) /\ u = H!UpTo(g, read[g].latest) /\ n = read[g].cursor.at
    OBVIOUS
  <2>3. /\ Len(events[g]) \in Nat /\ b \in Nat /\ u \in 0..Len(events[g]) /\ n \in Nat /\ b <= n
        /\ read[g].start \in Nat /\ read[g].latest \in Nat /\ read[g].entries = Segment(b, n)
        /\ events[g][i] \in Nat /\ (events[g][i] <= read[g].start - 1 <=> i <= b)
        /\ events[g][i] <= read[g].latest <=> i <= u
        /\ n = u
    <3>1. EventsOK /\ QueryOK(g, read[g]) /\ read[g].covers /\ H!OnePerLedger(g)
      BY <1>1, <2>1
    <3>2. /\ Len(events[g]) \in Nat /\ b \in Nat /\ u \in 0..Len(events[g]) /\ n \in Nat /\ b <= n
          /\ read[g].start \in Nat /\ read[g].latest \in Nat /\ read[g].entries = Segment(b, n)
          /\ n = u
      BY <2>2, <3>1, CoveredFacts
    <3>3. \A k \in 1..Len(events[g]) :
            /\ events[g][k] \in Nat /\ (events[g][k] <= read[g].start - 1 <=> k <= b)
            /\ events[g][k] <= read[g].latest <=> k <= u
      BY <2>2, <3>1, CoveredFacts
    <3> QED
      BY <2>1, <3>2, <3>3
  <2>4. read[g].start <= read[1].oldest /\ read[1].oldest \in Nat
    <3>1. 1 \in H!Generation /\ mode = "command" /\ answer = "shown"
      BY <2>1, HistoryLimits
    <3>2. QueryOK(1, read[1]) /\ OrderOK /\ AnswerIsOK
      BY <1>1, <3>1
    <3>3. read[1].pc = "done"
      BY <3>1, <3>2 DEF AnswerIsOK
    <3>4. read[g].start <= read[1].oldest
      BY <2>1, <3>1, <3>2, <3>3 DEF OrderOK
    <3>5. read[1].oldest \in Nat
      BY <3>2 DEF QueryOK, Query
    <3> QED
      BY <3>4, <3>5
  <2>5. i > b /\ i <= n /\ i - b \in 1..(n - b)
    <3>1. read[1].oldest <= events[g][i] /\ events[g][i] <= read[g].latest
      BY <2>1, <2>3, <2>4
    <3>2. ~(events[g][i] <= read[g].start - 1)
      BY <2>3, <2>4, <3>1
    <3>3. i > b /\ i <= n /\ i \in Nat
      BY <2>3, <3>1, <3>2
    <3> QED
      BY <2>3, <3>3
  <2>6. Segment(b, n)[i - b] = b + (i - b) /\ DOMAIN Segment(b, n) = 1..(n - b)
    BY <2>3, <2>5 DEF Segment
  <2> QED
    BY <2>3, <2>5, <2>6
<1> QED
  BY <1>3, <1>4, <1>5, <1>6 DEF ClaimsAreTrue, H!ClaimsAreTrue

\* The inductive invariant of the history: what a query or a walk has collected
\* is exactly what lies before its cursor (readAttestationHistory and
\* readStoredAttestationHistory).
THEOREM HistoryInvariant == ReadersSpec => []HistoryInv
<1>1. ReadersInit => HistoryInv
  BY HistoryInvInit DEF ReadersInit
<1>2. HistoryInv /\ [ReadersNext]_<<asked, vars, historyVars>> => HistoryInv'
  <2>1. [ReadersNext]_<<asked, vars, historyVars>> => H!Next \/ UNCHANGED H!vars
    BY DEF ReadersNext, historyVars, H!vars
  <2> QED
    BY <2>1, HistoryInvStep, HistoryInvStutter
<1> QED
  BY <1>1, <1>2, PTL DEF ReadersSpec

\* However the ledgers and the window of the endpoint move between the pages of a
\* query and the records of a range, what the reads have collected has no gap and
\* no double (readAttestationHistory and readStoredAttestationHistory).
THEOREM CollectionStaysSeamless == ReadersSpec => []CollectedIsSeamless
<1> QED
  BY HistoryInvariant, HistoryInvSeamless, PTL

\* A registry that is named as silent is silent in the stated ledgers, a covered
\* query is complete when no ledger holds two attestations, and the limit of the
\* window is stated whenever an attestation lies before it (the command history
\* and the history of the page).
THEOREM ClaimsStayTrue == ReadersSpec => []ClaimsAreTrue
<1> QED
  BY HistoryInvariant, HistoryInvClaims, PTL

\* Over an endpoint that reads forward, each request after the first asks from
\* strictly further than the one before and from inside the window, whatever
\* ledgers close between them: the test of the cursor in readAttestationHistory
\* ends the query when the endpoint answers the same cursor again.
THEOREM RequestsStayAdvancing == ReadersSpec => RequestsAdvance
<1>1. HistoryInv /\ [ReadersNext]_<<asked, vars, historyVars>> =>
        [\A g \in H!Generation :
           read[g].pc = "wait" /\ read'[g].pc = "page" =>
             LET old == read[g].cursor
                 new == read'[g].cursor
             IN /\ \/ new.ledger > old.ledger
                   \/ new.ledger = old.ledger /\ (new.at > old.at \/ (new.end /\ ~old.end))
                /\ new.ledger < latest /\ new.at <= Len(events[g])]_H!vars
  <2>1. [ReadersNext]_<<asked, vars, historyVars>> => H!Next \/ UNCHANGED H!vars
    BY DEF ReadersNext, historyVars, H!vars
  <2> QED
    BY <2>1, HistoryInvStep DEF Advance, Advances
<1> QED
  BY <1>1, HistoryInvariant, PTL DEF ReadersSpec, RequestsAdvance, H!RequestsAdvance
==============================================================================
