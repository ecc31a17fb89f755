---------------------------- MODULE RunLifecycle ----------------------------
(***************************************************************************)
(* One proving run on a shared working tree: the lock, the guards, the     *)
(* tools and the sweeps (sdk/src/runlifecycle.ts, children.ts,             *)
(* witnesses.ts and the body of prove in proving.ts).                      *)
(*                                                                         *)
(* A process is a driver. Its tools run in process groups of their own, so *)
(* they go on when the driver is killed. The synchronous parts of the      *)
(* driver are split where another process can act between two calls of the *)
(* operating system; a signal is handled only where the driver awaits.     *)
(* The lock is the file of RunLock, here as one atomic claim.              *)
(***************************************************************************)
EXTENDS Naturals, FiniteSets, Sequences

CONSTANTS
  Process,    \* drivers that use one working tree
  MaxKills,   \* bound: drivers that end without running any code
  Strays,     \* whether a tool can end before a process that it started
  Stuck,      \* paths that the operating system may refuse to remove
  None        \* no owner, no writer

\* The paths of witnessPaths: the batch inputs are found by reading the
\* directory, the others are always on the list.
Fixed == {"prover", "inner", "aggInput", "aggTarget"}
Listed == {"batch"}
Path == Fixed \cup Listed

ASSUME LifecycleAssumption ==
  /\ MaxKills \in Nat
  /\ Strays \in BOOLEAN
  /\ Stuck \subseteq Path
  /\ None \notin Process

\* The tools of prove, in order, with the paths that each one reads and writes
\* and the paths that the driver removes before it starts the tool.
Stage ==
  << [clears |-> {},            reads |-> {},                        writes |-> {"batch"}],
     [clears |-> {"inner"},     reads |-> {},                        writes |-> {"inner"}],
     [clears |-> {},            reads |-> {"batch", "inner"},        writes |-> {"prover", "inner"}],
     [clears |-> {},            reads |-> {"inner"},                 writes |-> {"aggInput"}],
     [clears |-> {"aggTarget"}, reads |-> {},                        writes |-> {"aggTarget"}],
     [clears |-> {},            reads |-> {"aggInput", "aggTarget"}, writes |-> {"aggTarget"}] >>

\* The stage of a run that returns its proof.
Proved == Len(Stage) + 2

VARIABLES
  pc,     \* where each driver stands
  stage,  \* the next tool of each run
  todo,   \* paths that the sweep of a driver has not removed yet
  tool,   \* the process group that a driver started last
  lock,   \* the owner that the lock file names
  disk,   \* for each path the driver whose tool or run wrote it
  used,   \* drivers whose files the tools of a run have read
  kills,  \* drivers killed so far
  stuck   \* paths that the operating system refuses to remove here

vars == <<pc, stage, todo, tool, lock, disk, used, kills, stuck>>

\* A process does one run; a later run of the same process is another member
\* of Process. A driver awaits in "sweepIn", "body", "tool" and "sweepOut".
\* "done" is a process whose run returned or threw, "ended" one that a signal
\* ended after its guards ran. A killed process is "dead", or an "orphaner"
\* when a group of its own was running.
Awaiting == {"sweepIn", "body", "tool", "sweepOut"}
Gone == {"ended", "dead", "orphaner"}
Location == Awaiting \cup Gone \cup {"out", "enter", "stop", "release", "done",
                                     "sigStop", "sigSweep", "sigRelease"}

\* "runs" is a tool that the runtime reports as ours. Of a "stray" group the
\* tool itself has exited and a process that it started still runs.
Group == {"none", "runs", "stray"}

Init ==
  /\ pc = [p \in Process |-> "out"]
  /\ stage = [p \in Process |-> 1]
  /\ todo = [p \in Process |-> {}]
  /\ tool = [p \in Process |-> "none"]
  /\ lock = None
  /\ disk = [f \in Path |-> None]
  /\ used = [p \in Process |-> {}]
  /\ kills = 0
  /\ stuck \in SUBSET Stuck

Goto(p, from, to) == pc[p] = from /\ pc' = [pc EXCEPT ![p] = to]

\* A process that a signal or a kill ended no longer exists.
IsGone(p) == pc[p] \in Gone

\* witnessPaths
WitnessPaths == Fixed \cup {f \in Listed : disk[f] # None}

OnDisk == {f \in Path : disk[f] # None}

Without(paths) == [f \in Path |-> IF f \in paths THEN None ELSE disk[f]]

-----------------------------------------------------------------------------
(* withRunLifecycle: the way in *)

\* Faulty variant: the lock is not consulted.
TakeLockAlways(p) ==
  /\ Goto(p, "out", "enter")
  /\ lock' = p
  /\ stage' = [stage EXCEPT ![p] = 1]
  /\ used' = [used EXCEPT ![p] = {}]
  /\ UNCHANGED <<todo, tool, disk, kills, stuck>>

\* takeRunLock and both guards. A live owner, this process included, refuses.
TakeLock(p) ==
  /\ lock \notin {q \in Process : ~IsGone(q)}
  /\ Goto(p, "out", "enter")
  /\ lock' = p
  /\ stage' = [stage EXCEPT ![p] = 1]
  /\ used' = [used EXCEPT ![p] = {}]
  /\ UNCHANGED <<todo, tool, disk, kills, stuck>>

\* Faulty variant: the run starts to write without the first sweep.
SkipFirstSweep(p) ==
  /\ Goto(p, "enter", "sweepIn")
  /\ todo' = [todo EXCEPT ![p] = {}]
  /\ UNCHANGED <<stage, tool, lock, disk, used, kills, stuck>>

\* clearWitnesses lists its paths once, then removes them one by one.
BeginFirstSweep(p) ==
  /\ Goto(p, "enter", "sweepIn")
  /\ todo' = [todo EXCEPT ![p] = WitnessPaths]
  /\ UNCHANGED <<stage, tool, lock, disk, used, kills, stuck>>

\* A path that cannot be removed ends the list: the first sweep throws before
\* the body, and the last one is cut short.
SweepPath(p) ==
  /\ pc[p] \in {"sweepIn", "sweepOut"}
  /\ \E f \in todo[p] :
       IF f \in stuck /\ disk[f] # None
       THEN /\ todo' = [todo EXCEPT ![p] = {}]
            /\ pc' = [pc EXCEPT ![p] = IF @ = "sweepIn" THEN "stop" ELSE "release"]
            /\ UNCHANGED disk
       ELSE /\ todo' = [todo EXCEPT ![p] = @ \ {f}]
            /\ disk' = Without({f})
            /\ UNCHANGED pc
  /\ UNCHANGED <<stage, tool, lock, used, kills, stuck>>

SweepDone(p) ==
  /\ pc[p] \in {"sweepIn", "sweepOut"}
  /\ todo[p] = {}
  /\ pc' = [pc EXCEPT ![p] = IF @ = "sweepIn" THEN "body" ELSE "release"]
  /\ UNCHANGED <<stage, todo, tool, lock, disk, used, kills, stuck>>

-----------------------------------------------------------------------------
(* prove: the body of the run *)

\* readyToProve, a missing input file and every other refusal of the body.
BodyFails(p) ==
  /\ Goto(p, "body", "stop")
  /\ UNCHANGED <<stage, todo, tool, lock, disk, used, kills, stuck>>

\* The driver clears old output, then runTool starts the group and records it.
\* A path that cannot be removed throws, which is BodyFails.
StartTool(p) ==
  /\ stage[p] <= Len(Stage)
  /\ Stage[stage[p]].clears \cap stuck \cap OnDisk = {}
  /\ Stage[stage[p]].reads \subseteq OnDisk
  /\ Goto(p, "body", "tool")
  /\ tool' = [tool EXCEPT ![p] = "runs"]
  /\ disk' = Without(Stage[stage[p]].clears)
  /\ UNCHANGED <<stage, todo, lock, used, kills, stuck>>

\* A process of the group reads its inputs and writes one of its outputs.
\* It needs no driver.
ToolWrites(p) ==
  /\ tool[p] # "none"
  /\ \E f \in Stage[stage[p]].writes : disk' = [disk EXCEPT ![f] = p]
  /\ used' = [used EXCEPT ![p] =
                @ \cup {disk[f] : f \in Stage[stage[p]].reads \cap OnDisk}]
  /\ UNCHANGED <<pc, stage, todo, tool, lock, kills, stuck>>

\* The tool exits and a process that it started goes on.
LeaderExits(p) ==
  /\ Strays
  /\ tool[p] = "runs"
  /\ tool' = [tool EXCEPT ![p] = "stray"]
  /\ UNCHANGED <<pc, stage, todo, lock, disk, used, kills, stuck>>

\* The group ends and closes its streams: "close" settles runTool, with the
\* code of a success only when every output is written.
ToolEnds(p) ==
  /\ tool[p] # "none"
  /\ pc[p] = "tool"
  /\ tool' = [tool EXCEPT ![p] = "none"]
  /\ \/ /\ Stage[stage[p]].writes \subseteq OnDisk
        /\ pc' = [pc EXCEPT ![p] = "body"]
        /\ stage' = [stage EXCEPT ![p] = @ + 1]
     \/ /\ pc' = [pc EXCEPT ![p] = "stop"]
        /\ UNCHANGED stage
  /\ UNCHANGED <<todo, lock, disk, used, kills, stuck>>

\* A group whose driver was killed ends too.
OrphanEnds(p) ==
  /\ pc[p] = "orphaner"
  /\ tool[p] # "none"
  /\ tool' = [tool EXCEPT ![p] = "none"]
  /\ UNCHANGED <<pc, stage, todo, lock, disk, used, kills, stuck>>

\* The proof and its public inputs are read from the output of the aggregator.
ReadProof(p) ==
  /\ stage[p] = Len(Stage) + 1
  /\ disk["aggTarget"] # None
  /\ Goto(p, "body", "stop")
  /\ stage' = [stage EXCEPT ![p] = Proved]
  /\ used' = [used EXCEPT ![p] = @ \cup {disk["aggTarget"]}]
  /\ UNCHANGED <<todo, tool, lock, disk, kills, stuck>>

-----------------------------------------------------------------------------
(* withRunLifecycle: the way out *)

\* stopChildrenSync: SIGKILL to the group of every tool that is still ours. A
\* group whose tool was reaped is left alone, because its identifier may name
\* a stranger.
StopChildren(p) ==
  tool' = [tool EXCEPT ![p] = IF @ = "runs" THEN "none" ELSE @]

BeginLastSweep(p) ==
  /\ Goto(p, "stop", "sweepOut")
  /\ StopChildren(p)
  /\ todo' = [todo EXCEPT ![p] = WitnessPaths]
  /\ UNCHANGED <<stage, lock, disk, used, kills, stuck>>

\* The guards go and the lock file goes while it still names this process.
ReleaseLock(p) ==
  /\ Goto(p, "release", "done")
  /\ lock' = IF lock = p THEN None ELSE lock
  /\ UNCHANGED <<stage, todo, tool, disk, used, kills, stuck>>

-----------------------------------------------------------------------------
(* guardChildren and guardWitnesses: SIGINT, SIGTERM, SIGHUP and exit *)

Signal(p) ==
  /\ pc[p] \in Awaiting
  /\ pc' = [pc EXCEPT ![p] = "sigStop"]
  /\ UNCHANGED <<stage, todo, tool, lock, disk, used, kills, stuck>>

\* Faulty variant: the guard of the files is the only one.
SignalSkipsTools(p) ==
  /\ Goto(p, "sigStop", "sigSweep")
  /\ UNCHANGED <<stage, todo, tool, lock, disk, used, kills, stuck>>

\* The guard of the tools was added first, so it runs first.
SignalStopsTools(p) ==
  /\ Goto(p, "sigStop", "sigSweep")
  /\ StopChildren(p)
  /\ UNCHANGED <<stage, todo, lock, disk, used, kills, stuck>>

\* clearWitnessesSync goes on after a path that cannot be removed.
SignalSweeps(p) ==
  /\ Goto(p, "sigSweep", "sigRelease")
  /\ disk' = Without(WitnessPaths \ stuck)
  /\ UNCHANGED <<stage, todo, tool, lock, used, kills, stuck>>

\* The lock goes, and the signal is raised again with no listener left.
SignalEnds(p) ==
  /\ Goto(p, "sigRelease", "ended")
  /\ lock' = IF lock = p THEN None ELSE lock
  /\ UNCHANGED <<stage, todo, tool, disk, used, kills, stuck>>

-----------------------------------------------------------------------------
(* The operating system *)

\* SIGKILL of the driver. Its tools lead groups of their own and go on.
Kill(p) ==
  /\ pc[p] \notin Gone \cup {"out", "done"}
  /\ kills < MaxKills
  /\ kills' = kills + 1
  /\ pc' = [pc EXCEPT ![p] = IF tool[p] = "none" THEN "dead" ELSE "orphaner"]
  /\ UNCHANGED <<stage, todo, tool, lock, disk, used, stuck>>

Driver(p) ==
  \/ BeginFirstSweep(p) \/ SweepPath(p) \/ SweepDone(p)
  \/ StartTool(p) \/ ReadProof(p)
  \/ BeginLastSweep(p) \/ ReleaseLock(p)
  \/ SignalStopsTools(p) \/ SignalSweeps(p) \/ SignalEnds(p)

Next ==
  \E p \in Process :
    \/ TakeLock(p) \/ BodyFails(p) \/ Driver(p)
    \/ ToolWrites(p) \/ LeaderExits(p) \/ ToolEnds(p) \/ OrphanEnds(p)
    \/ Signal(p) \/ Kill(p)

Spec == Init /\ [][Next]_vars

-----------------------------------------------------------------------------
(* Properties *)

TypeOK ==
  /\ pc \in [Process -> Location]
  /\ stage \in [Process -> 1 .. Proved]
  /\ todo \in [Process -> SUBSET Path]
  /\ tool \in [Process -> Group]
  /\ lock \in Process \cup {None}
  /\ disk \in [Path -> Process \cup {None}]
  /\ used \in [Process -> SUBSET Process]
  /\ kills \in 0 .. MaxKills
  /\ stuck \in SUBSET Stuck

Left(p) == {f \in Path : disk[f] = p}

\* runlifecycle.ts says that every ending returns the tree to a state that
\* holds no salt and no witness, and releases the lock. A process whose run
\* ended has no group and no lock, and it has no file in the tree, now or
\* later, except what the operating system refused to remove: a signal leaves
\* stuck paths only, and a normal end leaves nothing when nothing is stuck.
\* A group outside the record of the tools is the documented exception.
EndingIsClean ==
  \A p \in Process :
    pc[p] \in {"done", "ended"} /\ tool[p] # "stray"
      => /\ lock # p /\ tool[p] = "none"
         /\ IF pc[p] = "ended" THEN Left(p) \subseteq stuck
            ELSE OnDisk \cap stuck = {} => Left(p) = {}

\* A driver that was killed while a group of its own ran, or a group that the
\* stop left alone: something of this run may write after its end.
Outlived(p) == pc[p] = "orphaner" \/ tool[p] = "stray"

\* The lifecycle keeps the promise of WorkingTree: one owner at a time, who
\* alone changes the tree and gives it back without a file of its own unless
\* the operating system refused to remove a path.
Tree == INSTANCE WorkingTree WITH
  owner <- lock,
  writers <- {disk[f] : f \in OnDisk},
  gone <- {p \in Process : IsGone(p)},
  late <- {p \in Process : Outlived(p)},
  blocked <- OnDisk \cap stuck # {}
ImplementsWorkingTree == Tree!Spec

\* A proof comes from the files of its own run: no tool of a run that is in its
\* body or has returned its proof read what another driver wrote, unless a
\* group outlived that driver.
ProofIsFromOwnFiles ==
  \A p \in Process :
    pc[p] \in {"body", "tool"} \/ stage[p] = Proved
      => \A q \in used[p] \ {p} : Outlived(q)

\* The first sweep reaches the files of a run that stopped without running any
\* code: none is left once the body of a later run starts.
DeadFilesAreSwept ==
  (\E p \in Process : pc[p] \in {"body", "tool"})
    => \A q \in Process : pc[q] = "dead" => Left(q) = {}

\* No ending of a run leaves a file that a later body would meet, and a run
\* that ended holds nothing.
TreeIsSound == TypeOK /\ EndingIsClean /\ DeadFilesAreSwept

\* witnesses.ts says that the files of a process that died without warning do
\* not outlive the next start, whatever its tools were doing.
DeadFilesDoNotOutliveNextStart ==
  (\E p \in Process : pc[p] \in {"body", "tool"})
    => \A q \in Process : pc[q] \in {"dead", "orphaner"} => Left(q) = {}

\* runlifecycle.ts says that the last sweep reports what it could not remove by
\* leaving it on disk; the rest is gone.
EndingLeavesOnlyStuck ==
  \A p \in Process : pc[p] = "done" /\ tool[p] # "stray" => Left(p) \subseteq stuck
==============================================================================
