------------------------------ MODULE Watchdog ------------------------------
(***************************************************************************)
(* The operator's watchdog (sdk/src/watchdog.ts) and the client call that  *)
(* sends its deposit (openDispute and submit in disputes.ts, sendAndSettle *)
(* in registration.ts). One command run checks the attestations after the  *)
(* old package in order, keeps one state file for each, and opens a        *)
(* dispute for a target whose package never came.                          *)
(*                                                                         *)
(* A run is one process; its steps are the points where it awaits. The     *)
(* ledger number stands for the close time too. A transaction is named by  *)
(* the run that signs it, because one run signs at most one.               *)
(***************************************************************************)
EXTENDS Naturals, FiniteSets

CONSTANTS
  Run,          \* command runs, each one process
  LastTarget,   \* bound: attestations after the old package
  Graces,       \* values of --grace-ledgers that operators use
  MaxAge,       \* DISPUTE_TARGET_MAX_AGE_LEDGERS
  Lifetime,     \* SUBMISSION_TIMEOUT_SECONDS, in ledgers
  MaxLedger,    \* bound: ledgers
  MaxKills,     \* bound: runs that end without running any code
  Concurrent,   \* bound: runs that are active at the same time
  None

ASSUME WatchdogAssumption ==
  /\ {LastTarget, MaxAge, Lifetime, MaxLedger, Concurrent} \subseteq Nat \ {0}
  /\ MaxKills \in Nat
  /\ IsFiniteSet(Run)
  /\ Graces \subseteq 1..(MaxAge - 1)   \* graceOf
  /\ None \notin Run

Target == 1..LastTarget
Ledger == 0..MaxLedger

VARIABLES
  ledger,    \* the latest ledger of the network
  attested,  \* ledger of each target, 0 while it is not on the chain
  arrived,   \* ledger when a valid own package arrived, None before
  dispute,   \* targets with a dispute record of this identifier
  seq,       \* sequence number of the disputer account
  tx,        \* the transaction of each run
  file,      \* the state file of each target
  run,       \* the local state of each run
  kills

network == <<ledger, attested, arrived, dispute, seq>>
vars == <<ledger, attested, arrived, dispute, seq, tx, file, run, kills>>

Final == {"delivered", "disputed", "expired"}
Record == [status : Final \cup {"pending"}, grace : Graces, hash : Run \cup {None}]
\* A file that createState has opened and not yet written.
Torn == [status |-> "torn"]
NoFile == [status |-> "none"]

NoTx == [status |-> "none"]
Tx == [status : {"built", "sent", "success", "failed"}, target : Target, grace : Graces,
       seq : Nat, maxTime : Nat]

\* Locations of a run that awaits an answer of the network.
Rpc == {"count", "ledger", "journal", "journalTx", "package", "dispute", "build", "send", "poll", "confirm"}
\* The state of a run that ended, by what it reports.
Outcome == {"none", "waiting", "delivered", "opened", "existing", "pending", "expired"}
Failure == {"infrastructure", "refused", "unreadable", "otherCheck", "raced", "noRecord"}
Active == Rpc \cup {"state", "write", "fill"}

Idle == [pc |-> "idle", grace |-> None, total |-> 0, cur |-> 0, at |-> 1, retry |-> FALSE,
         skipped |-> FALSE, passed |-> FALSE, rec |-> None, then |-> "idle"]

\* Where a run goes after its next write.
Then == {"idle", "send", "continue", "existing", "opened"}
Local == [pc : {"idle", "dead"} \cup Active \cup Outcome \cup Failure,
          grace : Graces \cup {None}, total : 0..LastTarget, cur : Ledger,
          at : 1..(LastTarget + 1), retry : BOOLEAN, skipped : BOOLEAN, passed : BOOLEAN,
          rec : Record \cup {None}, then : Then]

Init ==
  /\ ledger = 1 /\ seq = 0 /\ kills = 0
  /\ attested = [t \in Target |-> 0]
  /\ arrived = [t \in Target |-> None]
  /\ dispute = {}
  /\ tx = [r \in Run |-> NoTx]
  /\ file = [t \in Target |-> NoFile]
  /\ run = [r \in Run |-> Idle]

\* A transaction that the network can still execute.
Live(r) ==
  /\ tx[r].status \in {"built", "sent"}
  /\ tx[r].maxTime >= ledger
  /\ tx[r].seq = seq

At(r) == run[r].at
Goto(r, pc) == run' = [run EXCEPT ![r].pc = pc]
End(r, report) == run' = [run EXCEPT ![r] = [Idle EXCEPT !.pc = report]]

-----------------------------------------------------------------------------
(* The network *)

\* The ledger closes. (external)
Close ==
  /\ ledger < MaxLedger
  /\ ledger' = ledger + 1
  /\ UNCHANGED <<attested, arrived, dispute, seq, tx, file, run, kills>>

\* The issuer attests the next target. (external)
Attest ==
  /\ \E t \in Target :
       /\ attested[t] = 0
       /\ t > 1 => attested[t - 1] # 0
       /\ attested' = [attested EXCEPT ![t] = ledger]
  /\ UNCHANGED <<ledger, arrived, dispute, seq, tx, file, run, kills>>

\* A valid own package for an attested target reaches the directory. (external)
Deliver ==
  /\ \E t \in Target :
       /\ attested[t] # 0 /\ arrived[t] = None
       /\ arrived' = [arrived EXCEPT ![t] = ledger]
  /\ UNCHANGED <<ledger, attested, dispute, seq, tx, file, run, kills>>

\* The check of the registry when a dispute executes or is simulated.
Accepts(t) == t \notin dispute /\ ledger - attested[t] <= MaxAge

\* A sent transaction executes, in its time bounds and in sequence. (external)
Land(r) ==
  /\ tx[r].status = "sent" /\ Live(r)
  /\ seq' = seq + 1
  /\ IF Accepts(tx[r].target)
     THEN /\ dispute' = dispute \cup {tx[r].target}
          /\ tx' = [tx EXCEPT ![r].status = "success"]
     ELSE /\ tx' = [tx EXCEPT ![r].status = "failed"]
          /\ UNCHANGED dispute
  /\ UNCHANGED <<ledger, attested, arrived, file, run, kills>>

-----------------------------------------------------------------------------
(* runWatchdog, before its loop *)

\* The old package is checked, then the state directory is made.
Start(r) ==
  /\ run[r].pc = "idle"
  /\ Cardinality({q \in Run : run[q].pc \in Active}) < Concurrent
  /\ \E g \in Graces : run' = [run EXCEPT ![r].pc = "count", ![r].grace = g]
  /\ UNCHANGED <<network, tx, file, kills>>

\* readStoredAttestationHistory. The old attestation is 0 here.
ReadCount(r) ==
  /\ run[r].pc = "count"
  /\ LET total == Cardinality({t \in Target : attested[t] # 0})
     IN IF total = 0
        THEN End(r, "none")
        ELSE run' = [run EXCEPT ![r].pc = "ledger", ![r].total = total]
  /\ UNCHANGED <<network, tx, file, kills>>

\* latestLedger, once for the whole run.
ReadLedger(r) ==
  /\ run[r].pc = "ledger"
  /\ run' = [run EXCEPT ![r].pc = "state", ![r].cur = ledger]
  /\ UNCHANGED <<network, tx, file, kills>>

-----------------------------------------------------------------------------
(* The loop over the targets *)

\* Faulty variant: a pending target does not stop the loop.
ReadStatePassesPending(r) ==
  /\ run[r].pc = "state"
  /\ IF At(r) > run[r].total
     THEN End(r, CASE run[r].skipped -> "expired"
                   [] ~run[r].skipped /\ run[r].passed -> "delivered"
                   [] OTHER -> "none")
     ELSE LET f == file[At(r)]
          IN CASE f.status = "none" -> Goto(r, "package")
               [] f.status = "torn" -> End(r, "unreadable")
               [] f.status \in Final \cup {"pending"} /\ f.grace # run[r].grace -> End(r, "otherCheck")
               [] f.status = "pending" /\ f.grace = run[r].grace -> run' = [run EXCEPT ![r].at = @ + 1]
               [] f.status \in Final /\ f.grace = run[r].grace ->
                    run' = [run EXCEPT ![r].at = @ + 1,
                              ![r].skipped = @ \/ f.status = "expired",
                              ![r].passed = @ \/ f.status = "delivered"]
  /\ UNCHANGED <<network, tx, file, kills>>

\* readState and the branches on a final status, or the end of the loop.
ReadState(r) ==
  /\ run[r].pc = "state"
  /\ IF At(r) > run[r].total
     THEN End(r, CASE run[r].skipped -> "expired"
                   [] ~run[r].skipped /\ run[r].passed -> "delivered"
                   [] OTHER -> "none")
     ELSE LET f == file[At(r)]
          IN CASE f.status = "none" -> Goto(r, "package")
               [] f.status = "torn" -> End(r, "unreadable")
               [] f.status \in Final \cup {"pending"} /\ f.grace # run[r].grace -> End(r, "otherCheck")
               [] f.status = "pending" /\ f.grace = run[r].grace ->
                    run' = [run EXCEPT ![r].pc = "journal", ![r].rec = f]
               [] f.status \in Final /\ f.grace = run[r].grace ->
                    run' = [run EXCEPT ![r].at = @ + 1,
                              ![r].skipped = @ \/ f.status = "expired",
                              ![r].passed = @ \/ f.status = "delivered"]
  /\ UNCHANGED <<network, tx, file, kills>>

\* The record that a run writes next, and where it goes after the write.
Write(r, status, hash, then) ==
  run' = [run EXCEPT ![r].pc = "write", ![r].then = then,
            ![r].rec = [status |-> status, grace |-> run[r].grace, hash |-> hash]]

\* pendingOutcome: the dispute comes first. A pending record is always replaced.
ReadPendingDispute(r) ==
  /\ run[r].pc = "journal"
  /\ IF At(r) \in dispute
     THEN run' = [run EXCEPT ![r].pc = "write", ![r].retry = TRUE, ![r].then = "existing",
                    ![r].rec.status = "disputed"]
     ELSE Goto(r, "journalTx")
  /\ UNCHANGED <<network, tx, file, kills>>

\* Faulty variant: a transaction that the network does not know is retried at
\* once, without a look at its time bounds.
RetryUnknownTx(r) ==
  /\ run[r].pc = "journalTx"
  /\ LET p == tx[run[r].rec.hash]
     IN CASE p.status \in {"failed", "built", "sent"} ->
               run' = [run EXCEPT ![r].pc = "package", ![r].retry = TRUE]
          [] p.status = "success" -> End(r, "noRecord")
  /\ UNCHANGED <<network, tx, file, kills>>

\* pendingOutcome: the transaction, and what its status allows.
ReadPendingTx(r) ==
  /\ run[r].pc = "journalTx"
  /\ LET p == tx[run[r].rec.hash]
         dead == p.status = "failed" \/ (p.status \in {"built", "sent"} /\ ledger > p.maxTime)
     IN CASE dead -> run' = [run EXCEPT ![r].pc = "package", ![r].retry = TRUE]
          [] p.status = "success" -> End(r, "noRecord")
          [] ~dead /\ p.status # "success" -> End(r, "pending")
  /\ UNCHANGED <<network, tx, file, kills>>

\* Faulty variant: the comparison with the age limit is off by one.
ReadPackageAgeOff(r) ==
  /\ run[r].pc = "package"
  /\ LET t == At(r)
         deadline == attested[t] + run[r].grace
     IN CASE arrived[t] # None -> Write(r, "delivered", None, "continue")
          [] arrived[t] = None /\ run[r].cur < deadline -> End(r, "waiting")
          [] arrived[t] = None /\ run[r].cur >= deadline /\ run[r].cur - attested[t] >= MaxAge ->
               Write(r, "expired", None, "continue")
          [] OTHER -> Goto(r, "dispute")
  /\ UNCHANGED <<network, tx, file, kills>>

\* Faulty variant: the delivery grace is left out.
ReadPackageNoGrace(r) ==
  /\ run[r].pc = "package"
  /\ LET t == At(r)
     IN CASE arrived[t] # None -> Write(r, "delivered", None, "continue")
          [] arrived[t] = None /\ run[r].cur - attested[t] > MaxAge -> Write(r, "expired", None, "continue")
          [] OTHER -> Goto(r, "dispute")
  /\ UNCHANGED <<network, tx, file, kills>>

\* readStoredAttestation and ownPackageForTarget, then both ledger limits,
\* which use the ledger of the start.
ReadPackage(r) ==
  /\ run[r].pc = "package"
  /\ LET t == At(r)
         deadline == attested[t] + run[r].grace
     IN CASE arrived[t] # None -> Write(r, "delivered", None, "continue")
          [] arrived[t] = None /\ run[r].cur < deadline -> End(r, "waiting")
          [] arrived[t] = None /\ run[r].cur >= deadline /\ run[r].cur - attested[t] > MaxAge ->
               Write(r, "expired", None, "continue")
          [] OTHER -> Goto(r, "dispute")
  /\ UNCHANGED <<network, tx, file, kills>>

\* readStoredDispute, before a deposit.
ReadDispute(r) ==
  /\ run[r].pc = "dispute"
  /\ IF At(r) \in dispute THEN Write(r, "disputed", None, "existing") ELSE Goto(r, "build")
  /\ UNCHANGED <<network, tx, file, kills>>

\* Faulty variant: the transaction is sent before the journal names it.
BuildUnjournaled(r) ==
  /\ run[r].pc = "build"
  /\ IF Accepts(At(r))
     THEN /\ tx' = [tx EXCEPT ![r] = [status |-> "built", target |-> At(r), grace |-> run[r].grace,
                                      seq |-> seq, maxTime |-> ledger + Lifetime]]
          /\ Goto(r, "send")
     ELSE /\ End(r, "refused")
          /\ UNCHANGED tx
  /\ UNCHANGED <<network, file, kills>>

\* getAccount, then submit up to the signature: the simulation runs the check
\* of the registry, and the time bounds start here.
Build(r) ==
  /\ run[r].pc = "build"
  /\ IF Accepts(At(r))
     THEN /\ tx' = [tx EXCEPT ![r] = [status |-> "built", target |-> At(r), grace |-> run[r].grace,
                                      seq |-> seq, maxTime |-> ledger + Lifetime]]
          /\ Write(r, "pending", r, "send")
     ELSE /\ End(r, "refused")
          /\ UNCHANGED tx
  /\ UNCHANGED <<network, file, kills>>

-----------------------------------------------------------------------------
(* The state file *)

\* Where a run goes when its record is on disk.
After(r) ==
  CASE run[r].then = "send" -> Goto(r, "send")
    [] run[r].then = "continue" ->
         run' = [run EXCEPT ![r].pc = "state", ![r].at = @ + 1, ![r].retry = FALSE,
                   ![r].skipped = @ \/ run[r].rec.status = "expired",
                   ![r].passed = @ \/ run[r].rec.status = "delivered"]
    [] OTHER -> End(r, run[r].then)

\* replaceState: a rename puts the whole record in place.
ReplaceState(r) ==
  /\ run[r].pc = "write" /\ run[r].retry
  /\ file' = [file EXCEPT ![At(r)] = run[r].rec]
  /\ After(r)
  /\ UNCHANGED <<network, tx, kills>>

\* createState: the open, which refuses a file that exists.
CreateState(r) ==
  /\ run[r].pc = "write" /\ ~run[r].retry
  /\ IF file[At(r)] = NoFile
     THEN file' = [file EXCEPT ![At(r)] = Torn] /\ Goto(r, "fill")
     ELSE End(r, "raced") /\ UNCHANGED file
  /\ UNCHANGED <<network, tx, kills>>

\* createState: the write and the sync.
FillState(r) ==
  /\ run[r].pc = "fill"
  /\ file' = [file EXCEPT ![At(r)] = run[r].rec]
  /\ After(r)
  /\ UNCHANGED <<network, tx, kills>>

-----------------------------------------------------------------------------
(* sendAndSettle, and the end of a run *)

\* The network takes the transaction, or refuses it for its sequence number or
\* its time bounds. The answer can be lost both before and after the network
\* took the transaction.
Send(r) ==
  /\ run[r].pc = "send"
  /\ \/ /\ Live(r)
        /\ tx' = [tx EXCEPT ![r].status = "sent"]
        /\ Goto(r, "poll") \/ End(r, "infrastructure")
     \/ /\ ~Live(r)
        /\ End(r, "infrastructure")
        /\ UNCHANGED tx
  /\ UNCHANGED <<network, file, kills>>

\* pollTransaction. It gives up while the transaction can still execute.
Poll(r) ==
  /\ run[r].pc = "poll"
  /\ CASE tx[r].status = "success" -> Goto(r, "confirm")
       [] tx[r].status = "failed" -> End(r, "refused")
       [] tx[r].status = "sent" -> End(r, "infrastructure")
  /\ UNCHANGED <<network, tx, file, kills>>

\* The dispute is read back, and the record is replaced in every case.
Confirm(r) ==
  /\ run[r].pc = "confirm"
  /\ IF At(r) \in dispute
     THEN run' = [run EXCEPT ![r].pc = "write", ![r].retry = TRUE, ![r].then = "opened",
                    ![r].rec = [status |-> "disputed", grace |-> run[r].grace, hash |-> r]]
     ELSE End(r, "noRecord")
  /\ UNCHANGED <<network, tx, file, kills>>

\* A read of the network or of the package directory fails.
RpcFails(r) ==
  /\ run[r].pc \in Rpc \ {"send"}
  /\ End(r, "infrastructure")
  /\ UNCHANGED <<network, tx, file, kills>>

\* The process ends without running any code. (external)
Kill(r) ==
  /\ kills < MaxKills
  /\ run[r].pc \in Active
  /\ kills' = kills + 1
  /\ End(r, "dead")
  /\ UNCHANGED <<network, tx, file>>

Step(r) ==
  \/ Start(r) \/ ReadCount(r) \/ ReadLedger(r) \/ ReadState(r)
  \/ ReadPendingDispute(r) \/ ReadPendingTx(r) \/ ReadPackage(r) \/ ReadDispute(r) \/ Build(r)
  \/ ReplaceState(r) \/ CreateState(r) \/ FillState(r)
  \/ Send(r) \/ Poll(r) \/ Confirm(r) \/ RpcFails(r)

Next ==
  \/ Close \/ Attest \/ Deliver
  \/ \E r \in Run : Land(r) \/ Step(r) \/ Kill(r)

Spec == Init /\ [][Next]_vars

-----------------------------------------------------------------------------
(* Properties *)

\* The state of the watchdog and of its network have their types.
TypeOK ==
  /\ ledger \in Ledger
  /\ attested \in [Target -> Ledger]
  /\ arrived \in [Target -> Ledger \cup {None}]
  /\ dispute \subseteq Target
  /\ seq \in 0..Cardinality(Run)
  /\ tx \in [Run -> Tx \cup {NoTx}]
  /\ file \in [Target -> Record \cup {Torn, NoFile}]
  /\ run \in [Run -> Local]
  /\ kills \in 0..MaxKills

\* A deposit that the network can still take is in the journal: the state file
\* of its target is pending and names it, so a restart finds it before it
\* retries (beforeSend, watchdog.ts:425). Runs follow one another.
LiveDepositIsJournaled ==
  \A r \in Run :
    tx[r].status = "sent" /\ Live(r)
      => file[tx[r].target].status = "pending" /\ file[tx[r].target].hash = r

\* The watchdog sends a second deposit for a target only when no earlier one
\* can still land (pendingOutcome, watchdog.ts:289-295).
RetryOnlyAfterDeadDeposit ==
  [][\A q, r \in Run :
       /\ tx[r].status = "built" /\ tx'[r].status = "sent"
       /\ tx[q].status = "sent" /\ tx[q].target = tx[r].target
       => ~Live(q)]_vars

\* A target gets a state file only when every earlier target is settled: no
\* target is passed over, and one in doubt stops the loop (watchdog.ts:344).
EarlierTargetsAreSettled ==
  \A t \in Target : file[t] # NoFile => \A u \in 1..(t - 1) : file[u].status \in Final

\* A deposit is sent only for a target whose package had not arrived when its
\* delivery grace ended (watchdog.ts:373-387): the ledger is read before the
\* package, so the package check is the later one.
OnlyLatePackagesAreDisputed ==
  \A r \in Run : tx[r].status \in {"sent", "success", "failed"} =>
    LET t == tx[r].target
    IN arrived[t] # None => arrived[t] >= attested[t] + tx[r].grace

\* What a final record says is true of the chain: a disputed target has its
\* dispute, an expired one can no longer be disputed, a delivered one has its
\* package (watchdog.ts:374, 388, 403, 441).
RecordsAreTrue ==
  \A t \in Target :
    /\ file[t].status = "disputed" => t \in dispute
    /\ file[t].status = "expired" => ledger > attested[t] + MaxAge
    /\ file[t].status = "delivered" => arrived[t] # None

\* The state directory can be relied on by the next run: its records are
\* true, and they settle the targets in order.
JournalIsSound == TypeOK /\ EarlierTargetsAreSettled /\ RecordsAreTrue

\* Exit codes of the command (cli.ts): a pending or an expired target and every
\* error leave no verdict.
Quiet(report) == report \in {"none", "waiting", "delivered", "opened", "existing"}

\* A run that exits with success leaves no deposit in doubt: every deposit of
\* its state directory is settled or can never land (cli.ts:284-325). Runs
\* follow one another.
QuietExitLeavesNothingInDoubt ==
  [][\A r \in Run : run[r].pc \in Active /\ Quiet(run'[r].pc)
       => \A q \in Run : tx[q].status = "sent" => ~Live(q)]_vars

\* A run says that the record of a settled deposit is missing only when the
\* chain has no such record (watchdog.ts:297, 439). This does not hold.
MissingRecordIsMissing ==
  [][\A r \in Run : run[r].pc \in Active /\ run'[r].pc = "noRecord" => run[r].at \notin dispute']_vars

\* After a restart the command reads the dispute and the transaction before it
\* retries (sdk/README.md): it can always read its own state. This does not hold.
RestartCanReadItsState == \A r \in Run : run[r].pc # "unreadable"

\* The grace changes only when the watchdog opens a dispute (sdk/README.md): no
\* run is refused because an earlier one had another grace. This does not hold.
GraceChangesOnlyTiming == \A r \in Run : run[r].pc # "otherCheck"
=============================================================================
