------------------------------- MODULE RunLock -------------------------------
(***************************************************************************)
(* The lock file that keeps one proving run at a time on a working tree    *)
(* (sdk/src/runlock.ts). One step is one call to the operating system:     *)
(* processes interleave between any two of them, and a process can be      *)
(* killed before any of them.                                              *)
(*                                                                         *)
(* The path names at most one file. A write goes through the handle of the *)
(* creation, so it reaches the path only while the path still names the    *)
(* file that this process created. An identifier is not reused: a new      *)
(* process with the identifier of a dead owner would only be refused.      *)
(***************************************************************************)
EXTENDS Naturals, FiniteSets

CONSTANTS
  Process,        \* processes, named by their identifiers
  MaxKills,       \* bound: processes killed
  WritesFail,     \* whether writeSync can fail
  None            \* no file, or a file that names nobody

VARIABLES
  pc,      \* the next call of each process
  file,    \* what the path names: the creator and the text, or None
  seen,    \* the owner that a process read from the file
  retried, \* whether the next claim of a process is its second
  kills    \* processes killed so far

vars == <<pc, file, seen, retried, kills>>

File == [creator : Process, owner : Process \cup {None}]

\* "out" is a live process without a run. "hold" is a run inside the lock.
Steps == {"out", "create", "write", "read", "probe", "unlink", "hold",
          "release", "dead"}

Init ==
  /\ pc = [p \in Process |-> "out"]
  /\ file = None
  /\ seen = [p \in Process |-> None]
  /\ retried = [p \in Process |-> FALSE]
  /\ kills = 0

Goto(p, step) == pc' = [pc EXCEPT ![p] = step]

\* isAlive
IsAlive(p) == pc[p] # "dead"

\* ownerOf: a missing file and a file that names nobody read the same.
OwnerOf == IF file = None THEN None ELSE file.owner

\* A claim failed: the first one looks at the owner, the second refuses.
ClaimFailed(p) == Goto(p, IF retried[p] THEN "out" ELSE "read")

-----------------------------------------------------------------------------
(* takeRunLock *)

Start(p) ==
  /\ pc[p] = "out"
  /\ Goto(p, "create")
  /\ retried' = [retried EXCEPT ![p] = FALSE]
  /\ seen' = [seen EXCEPT ![p] = None]
  /\ UNCHANGED <<file, kills>>

\* openSync(path, "wx")
Create(p) ==
  /\ pc[p] = "create"
  /\ IF file = None
     THEN file' = [creator |-> p, owner |-> None] /\ Goto(p, "write")
     ELSE UNCHANGED file /\ ClaimFailed(p)
  /\ UNCHANGED <<seen, retried, kills>>

\* writeSync and closeSync
Write(p) ==
  /\ pc[p] = "write"
  /\ file' = IF file # None /\ file.creator = p
             THEN [file EXCEPT !.owner = p] ELSE file
  /\ Goto(p, "hold")
  /\ UNCHANGED <<seen, retried, kills>>

\* writeSync throws: the claim answers false and the created file stays.
WriteFails(p) ==
  /\ WritesFail
  /\ pc[p] = "write"
  /\ ClaimFailed(p)
  /\ UNCHANGED <<file, seen, retried, kills>>

ReadOwner(p) ==
  /\ pc[p] = "read"
  /\ seen' = [seen EXCEPT ![p] = OwnerOf]
  /\ Goto(p, "probe")
  /\ UNCHANGED <<file, retried, kills>>

\* Faulty variant: every named owner counts as alive.
ProbeAny(p) ==
  /\ pc[p] = "probe"
  /\ Goto(p, IF seen[p] # None THEN "out" ELSE "unlink")
  /\ UNCHANGED <<file, seen, retried, kills>>

\* process.kill(owner, 0): a live owner refuses this run.
Probe(p) ==
  /\ pc[p] = "probe"
  /\ Goto(p, IF seen[p] # None /\ IsAlive(seen[p]) THEN "out" ELSE "unlink")
  /\ UNCHANGED <<file, seen, retried, kills>>

\* unlinkSync removes whatever the path names now.
Unlink(p) ==
  /\ pc[p] = "unlink"
  /\ file' = None
  /\ retried' = [retried EXCEPT ![p] = TRUE]
  /\ Goto(p, "create")
  /\ UNCHANGED <<seen, kills>>

-----------------------------------------------------------------------------
(* The release *)

\* The run ends, and the release reads the owner.
Recheck(p) ==
  /\ pc[p] = "hold"
  /\ Goto(p, IF OwnerOf = p THEN "release" ELSE "out")
  /\ UNCHANGED <<file, seen, retried, kills>>

\* Faulty variant: the release leaves the file.
ReleaseForgets(p) ==
  /\ pc[p] = "release"
  /\ Goto(p, "out")
  /\ UNCHANGED <<file, seen, retried, kills>>

Release(p) ==
  /\ pc[p] = "release"
  /\ file' = None
  /\ Goto(p, "out")
  /\ UNCHANGED <<seen, retried, kills>>

-----------------------------------------------------------------------------
(* The operating system *)

\* SIGKILL, or a power loss of the process.
Kill(p) ==
  /\ IsAlive(p)
  /\ kills < MaxKills
  /\ kills' = kills + 1
  /\ Goto(p, "dead")
  /\ UNCHANGED <<file, seen, retried>>

\* The steps that a process takes by itself once it has started.
Run(p) ==
  \/ Create(p) \/ Write(p) \/ ReadOwner(p) \/ Probe(p) \/ Unlink(p)
  \/ Recheck(p) \/ Release(p)

Next ==
  \E p \in Process : Start(p) \/ Run(p) \/ WriteFails(p) \/ Kill(p)

Spec == Init /\ [][Next]_vars

\* A live process runs on and starts another run some time later, and a write
\* that is tried again and again does not fail every time: a disk that stays
\* full refuses every run.
FairSpec ==
  /\ Spec
  /\ \A p \in Process :
       WF_vars(Start(p)) /\ WF_vars(Run(p)) /\ SF_vars(Write(p))

-----------------------------------------------------------------------------
(* Properties *)

TypeOK ==
  /\ pc \in [Process -> Steps]
  /\ file \in File \cup {None}
  /\ seen \in [Process -> Process \cup {None}]
  /\ retried \in [Process -> BOOLEAN]
  /\ kills \in 0 .. MaxKills

Holders == {p \in Process : pc[p] \in {"hold", "release"}}

\* runlock.ts says that one proving run at a time uses the working tree, and
\* that writing the identifier through the creating handle leaves no moment in
\* which the lock names nobody.
OneHolder == Cardinality(Holders) <= 1

\* runlock.ts says that a run which found a dead owner refuses when another
\* process won the race: it never removes the lock of a live run.
RetryRefuses ==
  [][\A p \in Process :
       pc[p] = "unlink" /\ pc'[p] = "create" /\ seen[p] # None
         => file = None \/ file.owner \notin Holders]_vars

\* runlock.ts lines 126-127 say that a late release never takes the lock away
\* from the run that followed: the file that a release removes is its own.
ReleaseTakesOwnLock ==
  [][\A p \in Process :
       pc[p] = "release" /\ pc'[p] = "out" => file = None \/ file.creator = p]_vars

\* A lock file never outlives its run inside a live process, whatever races,
\* failed writes and kills of others happen: a file that names a live process
\* names one that is in its run.
LockNamesARun ==
  OwnerOf # None /\ IsAlive(OwnerOf) => OwnerOf \in Holders

\* The lock in its types, and never left behind.
LockIsSound == TypeOK /\ LockNamesARun

\* A stale lock does not stop the machine: when every other process is gone
\* for good, a process that keeps starting runs keeps getting the lock.
StaleLockIsReplaced ==
  \A p \in Process :
    <>[](IsAlive(p) /\ \A q \in Process \ {p} : ~IsAlive(q))
      => []<>(pc[p] = "hold")
==============================================================================
