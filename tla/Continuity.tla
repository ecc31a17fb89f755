----------------------------- MODULE Continuity -----------------------------
(***************************************************************************)
(* The continuity of the customers of one asset from one attestation to    *)
(* the next. A run reads the newest attestation and the manifest that its  *)
(* packages left (sdk/src/prior-generation.ts), proves with the generator  *)
(* that checks the manifest (tools/recursion-gen), submits, and reports    *)
(* (the commands of sdk/src/cli.ts with sdk/src/report.ts) or writes the   *)
(* packages and the next manifest (dashboard/src/attestation.ts). The      *)
(* operator can also run the package tool by hand.                         *)
(*                                                                         *)
(* The processes share the repository, the file of the customers and the   *)
(* directory of the packages. The run lock of RunLock is one variable here *)
(* and covers the proof alone, as withRunLifecycle does. A process can be  *)
(* killed at every step, and a sent transaction can execute later.         *)
(***************************************************************************)
EXTENDS Naturals, Sequences, FiniteSets

CONSTANTS
  Process,    \* command lines, dashboards and package tools
  Id,         \* customer identifiers
  Book,       \* what else a root commits to: the balances and the context
  MaxRuns,    \* bound: runs
  MaxEdits,   \* bound: changes of the file of the customers
  None

ASSUME ContinuityAssumption ==
  /\ MaxRuns \in Nat \ {0} /\ MaxEdits \in Nat
  /\ None \notin Process
  /\ Id # {} /\ Book # {}

\* A file of customers. A root commits to all of it.
File == [ids : SUBSET Id \ {{}}, book : Book]
NoFile == [ids |-> {}]

VARIABLES
  chain,    \* the attestations, each with its run and the prior of that run
  kept,     \* the manifest of each attestation that has one
  packed,   \* the packages that were written: an identifier and a file
  file,     \* the file of the customers as it is now
  edits,    \* how often it changed
  lock,     \* the process that proves
  flight,   \* sent transactions that have not executed
  run,      \* the progress of each process
  runs      \* how many runs started

vars == <<chain, kept, packed, file, edits, lock, flight, run, runs>>

Idle == [pc |-> "idle"]

\* The end of a run, of which only what its command stated remains.
End(p, stated) ==
  run' = [run EXCEPT ![p] = [pc |-> "over", front |-> run[p].front, tried |-> run[p].tried,
                             stated |-> stated]]
Over(p) == End(p, FALSE)

Init ==
  /\ chain = <<>> /\ kept = [k \in {} |-> NoFile] /\ packed = {}
  /\ file \in File /\ edits = 0
  /\ lock = None /\ flight = {} /\ runs = 0
  /\ run = [p \in Process |-> Idle]

At(p, pc) == run[p].pc = pc
Goto(p, pc) == run' = [run EXCEPT ![p].pc = pc]

-----------------------------------------------------------------------------
(* The operator and the network *)

\* A new month: the operator replaces the file, or the context of the run.
Edit ==
  /\ edits < MaxEdits /\ edits' = edits + 1
  /\ file' \in File \ {file}
  /\ UNCHANGED <<chain, kept, packed, lock, flight, run, runs>>

\* A fresh run of a process. The tool by hand names its two attestations; a
\* prior of 0 stands for a call without one. (external)
Begin(p) ==
  /\ run[p].pc \in {"idle", "over"}
  /\ runs < MaxRuns /\ runs' = runs + 1
  /\ \/ \E front \in {"cli", "dashboard"}, action \in {"prove", "attest"} :
          run' = [run EXCEPT ![p] =
                   [pc |-> "count", front |-> front, action |-> action, number |-> runs',
                    prior |-> 0, proof |-> NoFile, id |-> 0, tried |-> FALSE]]
     \/ \E prior \in 0..Len(chain), id \in 1..Len(chain) :
          run' = [run EXCEPT ![p] =
                   [pc |-> "packages", front |-> "tool", action |-> "prove", number |-> runs',
                    prior |-> prior, proof |-> NoFile, id |-> id, tried |-> FALSE]]
  /\ UNCHANGED <<chain, kept, packed, file, edits, lock, flight>>

\* The process ends at any step; the next run replaces the lock of a dead one.
Kill(p) ==
  /\ run[p].pc \notin {"idle", "over"}
  /\ run' = [run EXCEPT ![p] = Idle]
  /\ lock' = IF lock = p THEN None ELSE lock
  /\ UNCHANGED <<chain, kept, packed, file, edits, flight, runs>>

\* The identifier that the registry gives to the newest attestation.
NewestId == Len(chain)

\* A transaction executes, or expires. (external)
Execute(tx) ==
  /\ flight' = flight \ {tx}
  /\ chain' = Append(chain, tx)
  /\ UNCHANGED <<kept, packed, file, edits, lock, run, runs>>

Expire(tx) ==
  /\ flight' = flight \ {tx}
  /\ UNCHANGED <<chain, kept, packed, file, edits, lock, run, runs>>

-----------------------------------------------------------------------------
(* preparePriorGeneration *)

\* The count fixes the prior attestation of this run; a read can fail.
ReadCount(p) ==
  /\ At(p, "count")
  /\ \/ run' = [run EXCEPT ![p].prior = NewestId,
                           ![p].pc = IF chain = <<>> THEN "lock" ELSE "manifest"]
     \/ Over(p)
  /\ UNCHANGED <<chain, kept, packed, file, edits, lock, flight, runs>>

\* The record of that identifier, and the presence of its manifest.
ReadManifest(p) ==
  /\ At(p, "manifest")
  /\ \/ run[p].prior \in DOMAIN kept /\ Goto(p, "lock")
     \/ Over(p)
  /\ UNCHANGED <<chain, kept, packed, file, edits, lock, flight, runs>>

-----------------------------------------------------------------------------
(* prove *)

TakeLock(p) ==
  /\ At(p, "lock")
  /\ IF lock = None THEN lock' = p /\ Goto(p, "witness") ELSE Over(p) /\ UNCHANGED lock
  /\ UNCHANGED <<chain, kept, packed, file, edits, flight, runs>>

\* Faulty variant: the manifest is there, and its customers are not compared.
check_prior_present(prior, current) == prior \in DOMAIN kept

\* check_prior: the manifest is the tree of the prior root, and the current
\* file has every identifier of it.
check_prior(prior, current) ==
  /\ prior \in DOMAIN kept
  /\ kept[prior] = chain[prior].file
  /\ kept[prior].ids \subseteq current.ids

\* cmd_witness reads the file, and the tools after it prove what it read.
Witness(p) ==
  /\ At(p, "witness")
  /\ IF run[p].prior = 0 \/ check_prior(run[p].prior, file)
     THEN run' = [run EXCEPT ![p].proof = file, ![p].pc = "proving"] /\ UNCHANGED lock
     ELSE Over(p) /\ lock' = None
  /\ UNCHANGED <<chain, kept, packed, file, edits, flight, runs>>

\* The proof is ready, or a tool failed. The lock goes in both cases.
Proved(p) ==
  /\ At(p, "proving")
  /\ lock' = None
  /\ \/ Goto(p, IF run[p].front = "cli" /\ run[p].action = "prove" THEN "report" ELSE "proved")
     \/ Over(p)
  /\ UNCHANGED <<chain, kept, packed, file, edits, flight, runs>>

-----------------------------------------------------------------------------
(* The submission *)

\* commandAttest looks for the key of the authority, and afterTheProof reads
\* the ledger and the window; either ends the run here. A dashboard run that
\* only proves is over.
Ready(p) ==
  /\ At(p, "proved")
  /\ \/ run[p].action = "attest" /\ Goto(p, "submit")
     \/ Over(p)
  /\ UNCHANGED <<chain, kept, packed, file, edits, lock, flight, runs>>

\* Where a failed submission leads: attestAndReport still reports, the work of
\* the dashboard fails.
Fail(p) ==
  IF run[p].front = "cli"
  THEN run' = [run EXCEPT ![p].tried = TRUE, ![p].pc = "report"]
  ELSE Over(p)

\* attestWithAuthority: the network takes the transaction or the call fails.
Submit(p) ==
  /\ At(p, "submit")
  /\ \/ /\ flight' = flight \cup
             {[file |-> run[p].proof, prior |-> run[p].prior, by |-> run[p].number]}
        /\ run' = [run EXCEPT ![p].tried = TRUE, ![p].pc = "answer"]
     \/ Fail(p) /\ UNCHANGED flight
  /\ UNCHANGED <<chain, kept, packed, file, edits, lock, runs>>

\* The call returns the identifier of the accepted attestation, or the answer
\* is lost, late or a failure.
Accepted(p) ==
  /\ At(p, "answer")
  /\ \E k \in DOMAIN chain :
       /\ chain[k].by = run[p].number
       /\ run' = [run EXCEPT ![p].id = k,
                             ![p].pc = IF run[p].front = "cli" THEN "report" ELSE "packages"]
  /\ UNCHANGED <<chain, kept, packed, file, edits, lock, flight, runs>>

NoAnswer(p) ==
  /\ At(p, "answer")
  /\ Fail(p)
  /\ UNCHANGED <<chain, kept, packed, file, edits, lock, flight, runs>>

-----------------------------------------------------------------------------
(* The end of a command, and the packages *)

\* attestAndReport and commandProve read the ledger before there is a line to
\* state; completeCommand states the lines that it gets.
Report(p) ==
  /\ At(p, "report")
  /\ \/ End(p, TRUE)
     \/ Over(p)
  /\ UNCHANGED <<chain, kept, packed, file, edits, lock, flight, runs>>

\* Faulty variant: any earlier manifest serves as the prior one.
FollowsAny(prior, id) == prior > 0 \/ id = 1

\* The prior of the call is the attestation before this one.
Follows(prior, id) == IF prior = 0 THEN id = 1 ELSE prior + 1 = id

\* The recomputed root is the attested one. It covers the snapshot and the
\* context, which the generator also compares first.
RootMatches(id, current) == chain[id].file = current

\* write_packages, after the read of the accepted record: no file is written
\* before every comparison passes.
WritePackages(p) ==
  /\ At(p, "packages")
  /\ \/ /\ Follows(run[p].prior, run[p].id)
        /\ run[p].prior # 0 => check_prior(run[p].prior, file)
        /\ RootMatches(run[p].id, file)
        /\ packed' = packed \cup {[id |-> run[p].id, file |-> file]}
        /\ run' = [run EXCEPT ![p].proof = file, ![p].pc = "generation"]
     \/ Over(p) /\ UNCHANGED packed
  /\ UNCHANGED <<chain, kept, file, edits, lock, flight, runs>>

\* The manifest is the last file that the generator writes.
WriteManifest(p) ==
  /\ At(p, "generation")
  /\ kept' = [k \in DOMAIN kept \cup {run[p].id} |-> IF k = run[p].id THEN run[p].proof ELSE kept[k]]
  /\ Over(p)
  /\ UNCHANGED <<chain, packed, file, edits, lock, flight, runs>>

-----------------------------------------------------------------------------

Step(p) ==
  \/ Begin(p) \/ Kill(p) \/ ReadCount(p) \/ ReadManifest(p)
  \/ TakeLock(p) \/ Witness(p) \/ Proved(p) \/ Ready(p)
  \/ Submit(p) \/ Accepted(p) \/ NoAnswer(p)
  \/ Report(p) \/ WritePackages(p) \/ WriteManifest(p)

Next ==
  \/ \E p \in Process : Step(p)
  \/ \E tx \in flight : Execute(tx) \/ Expire(tx)
  \/ Edit

Spec == Init /\ [][Next]_vars

-----------------------------------------------------------------------------
(* Properties *)

Attestation == [file : File, prior : Nat, by : 1..MaxRuns]
RunState ==
  [pc : {"count", "manifest", "lock", "witness", "proving", "proved", "submit", "answer",
         "report", "packages", "generation"},
   front : {"cli", "dashboard", "tool"}, action : {"prove", "attest"}, number : 1..MaxRuns,
   prior : 0..Len(chain), proof : File \cup {NoFile}, id : 0..Len(chain),
   tried : BOOLEAN]
Ended == [pc : {"over"}, front : {"cli", "dashboard", "tool"}, tried : BOOLEAN, stated : BOOLEAN]

\* A run gets to a location with what its step there uses.
Equipped(r) ==
  /\ r.pc = "manifest" => r.prior > 0
  /\ r.pc \in {"proving", "proved", "submit", "generation"} => r.proof \in File
  /\ r.pc \in {"packages", "generation"} => r.id > 0

\* The types. A run names a prior attestation and an accepted one that the
\* registry holds, and only the holder of the lock proves.
TypeOK ==
  /\ chain \in Seq(Attestation) /\ flight \subseteq Attestation
  /\ DOMAIN kept \subseteq DOMAIN chain /\ \A k \in DOMAIN kept : kept[k] \in File
  /\ packed \subseteq [id : DOMAIN chain, file : File]
  /\ file \in File /\ edits \in 0..MaxEdits /\ runs \in 0..MaxRuns
  /\ lock \in Process \cup {None}
  /\ run \in [Process -> {Idle} \cup RunState \cup Ended]
  /\ \A p \in Process : Equipped(run[p])
  /\ \A p \in Process : lock = p <=> run[p].pc \in {"witness", "proving"}

\* write_packages: no package and no manifest exists for a tree that the chain
\* did not accept under that identifier, although the file changes during the
\* run and several tools write into one directory.
PackagesMatchTheRoot ==
  /\ \A w \in packed : w.file = chain[w.id].file
  /\ \A k \in DOMAIN kept : kept[k] = chain[k].file

\* The identifiers of one attestation are all in the next.
Continues(k) == chain[k - 1].file.ids \subseteq chain[k].file.ids

\* write_packages: an attestation has packages only when it keeps every
\* customer of the one before it, and the manifests reach back to the first
\* attestation without a gap.
PackagesContinue ==
  \A w \in packed : w.id = 1 \/ (Continues(w.id) /\ w.id - 1 \in DOMAIN kept)

\* The directory of the packages is a faithful and unbroken copy of the chain.
PackagesAreSound == TypeOK /\ PackagesMatchTheRoot /\ PackagesContinue

\* check_prior and preparePriorGeneration: an accepted attestation keeps every
\* customer of the one that its run read, and the history up to that one is
\* unbroken. So no run builds on an attestation that lost a customer.
RunsRestOnUnbrokenHistory ==
  \A k \in DOMAIN chain :
    LET prior == chain[k].prior IN
      /\ prior > 0 => chain[prior].file.ids \subseteq chain[k].file.ids
      /\ \A j \in 2..prior : Continues(j)

\* prior-generation.ts: no accepted attestation omits an identifier of the
\* attestation before it.
NoIdentifierIsOmitted == \A k \in DOMAIN chain : k = 1 \/ Continues(k)

\* completeCommand: a command whose submission ends after a correct proof has
\* stated the root, unless the process was killed.
RootIsStated ==
  \A p \in Process :
    run[p].pc = "over" /\ run[p].front = "cli" /\ run[p].tried => run[p].stated
=============================================================================
