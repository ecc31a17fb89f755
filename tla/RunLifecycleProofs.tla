-------------------------- MODULE RunLifecycleProofs --------------------------
(***************************************************************************)
(* What the lifecycle of a proving run guarantees for any number of        *)
(* drivers and kills and any set of paths that cannot be removed: endings  *)
(* are clean, a proof comes from the files of its own run, and the         *)
(* lifecycle implements WorkingTree. The last part is about the lock file  *)
(* of RunLock: what it may name, for any number of processes and kills.    *)
(*                                                                         *)
(* The inductive invariant says who may hold the lock, where a driver      *)
(* stands while a group of its own runs, which files each sweep has left,  *)
(* and that only a process that outlived its driver could have written a   *)
(* file that a later body meets.                                           *)
(***************************************************************************)
EXTENDS RunLifecycle, MCRunLock, TLAPS

\* Where a driver owns the working tree.
Running == Awaiting \cup {"enter", "stop", "release", "sigStop", "sigSweep", "sigRelease"}

\* The processes whose groups may write for ever: nothing that the model does
\* takes a process out of this set.
Survived(q) == pc[q] = "orphaner" \/ (pc[q] = "ended" /\ tool[q] = "stray")

LockIsHeld ==
  \A p \in Process :
    /\ pc[p] \in Running => lock = p
    /\ lock = p => pc[p] \in Running \cup {"dead", "orphaner"}

ToolsAreBound ==
  \A p \in Process :
    /\ tool[p] = "runs" => pc[p] \in {"tool", "sigStop", "orphaner"}
    /\ tool[p] = "stray" =>
         pc[p] \in {"tool", "sigStop", "sigSweep", "sigRelease", "ended", "orphaner"}
    /\ tool[p] # "none" => stage[p] <= Len(Stage)

\* What the sweep on the way in has left for the body to meet.
EntryIsSwept ==
  \A p \in Process :
    /\ pc[p] = "sweepIn" => \A f \in OnDisk : f \in todo[p] \/ Survived(disk[f])
    /\ pc[p] \in {"body", "tool"} => \A f \in OnDisk : disk[f] = p \/ Survived(disk[f])

\* What the sweeps on the way out have left.
ExitIsSwept ==
  \A p \in Process :
    /\ pc[p] = "sweepOut" => Left(p) \subseteq todo[p]
    /\ pc[p] \in {"release", "done"} /\ OnDisk \cap stuck = {} => Left(p) = {}
    /\ pc[p] \in {"sigRelease", "ended"} /\ tool[p] # "stray" => Left(p) \subseteq stuck

ReadsAreOwn ==
  \A p \in Process :
    /\ pc[p] \in {"enter", "sweepIn"} => used[p] = {}
    /\ pc[p] \in {"body", "tool"} \/ stage[p] = Proved => \A q \in used[p] \ {p} : Survived(q)

LifecycleInv == LockIsHeld /\ ToolsAreBound /\ EntryIsSwept /\ ExitIsSwept /\ ReadsAreOwn

-----------------------------------------------------------------------------
(* Types *)

\* The table of the tools names paths only.
LEMMA StageType ==
  /\ Len(Stage) = 6 /\ Proved = 8
  /\ \A i \in 1 .. 6 :
       /\ Stage[i].clears \in SUBSET Path
       /\ Stage[i].reads \in SUBSET Path
       /\ Stage[i].writes \in SUBSET Path
<1>1. Len(Stage) = 6
  BY DEF Stage
<1>2. ASSUME NEW i \in 1 .. 6
      PROVE  /\ Stage[i].clears \in SUBSET Path
             /\ Stage[i].reads \in SUBSET Path
             /\ Stage[i].writes \in SUBSET Path
  <2>1. i = 1 \/ i = 2 \/ i = 3 \/ i = 4 \/ i = 5 \/ i = 6
    OBVIOUS
  <2> QED
    BY <2>1 DEF Stage, Path, Fixed, Listed
<1> QED
  BY <1>1, <1>2 DEF Proved

\* The driver that a step moves, and what it does.
LEMMA Steps ==
  ASSUME [Next]_vars
  PROVE  \/ UNCHANGED vars
         \/ \E p \in Process :
              \/ TakeLock(p) \/ BeginFirstSweep(p) \/ SweepPath(p) \/ SweepDone(p)
              \/ BodyFails(p) \/ StartTool(p) \/ ToolWrites(p) \/ LeaderExits(p)
              \/ ToolEnds(p) \/ OrphanEnds(p) \/ ReadProof(p) \/ BeginLastSweep(p)
              \/ ReleaseLock(p) \/ Signal(p) \/ SignalStopsTools(p) \/ SignalSweeps(p)
              \/ SignalEnds(p) \/ Kill(p)
BY DEF Next, Driver

\* A running group is one of the six tools.
LEMMA ToolStage ==
  ASSUME TypeOK, ToolsAreBound, NEW p \in Process, tool[p] # "none"
  PROVE  stage[p] \in 1 .. 6
BY StageType DEF TypeOK, ToolsAreBound

\* Removing paths keeps the type of the disk.
LEMMA WithoutType ==
  ASSUME TypeOK, NEW paths
  PROVE  /\ Without(paths) \in [Path -> Process \cup {None}]
         /\ \A f \in Path : Without(paths)[f] = IF f \in paths THEN None ELSE disk[f]
BY DEF TypeOK, Without

LEMMA StepTypeOK ==
  ASSUME TypeOK, ToolsAreBound, [Next]_vars
  PROVE  TypeOK'
<1>1. CASE UNCHANGED vars
  BY <1>1 DEF TypeOK, vars
<1>2. ASSUME NEW p \in Process
      PROVE  /\ TakeLock(p) => TypeOK'
             /\ Signal(p) \/ BodyFails(p) => TypeOK'
             /\ ReleaseLock(p) \/ SignalEnds(p) => TypeOK'
             /\ Kill(p) => TypeOK'
  <2> USE DEF Goto, Location, Awaiting, Gone
  <2>1. ASSUME TakeLock(p) PROVE TypeOK'
    BY <2>1, StageType DEF TakeLock, TypeOK
  <2>2. ASSUME Signal(p) \/ BodyFails(p) PROVE TypeOK'
    BY <2>2 DEF Signal, BodyFails, TypeOK
  <2>3. ASSUME ReleaseLock(p) \/ SignalEnds(p) PROVE TypeOK'
    BY <2>3 DEF ReleaseLock, SignalEnds, TypeOK
  <2>4. ASSUME Kill(p) PROVE TypeOK'
    BY <2>4, LifecycleAssumption DEF Kill, TypeOK
  <2> QED
    BY <2>1, <2>2, <2>3, <2>4
<1>3. ASSUME NEW p \in Process
      PROVE  /\ BeginFirstSweep(p) \/ BeginLastSweep(p) => TypeOK'
             /\ SweepPath(p) => TypeOK'
             /\ SweepDone(p) => TypeOK'
             /\ SignalStopsTools(p) \/ SignalSweeps(p) => TypeOK'
  <2> USE DEF Goto, Location, Awaiting, Gone
  <2>1. WitnessPaths \in SUBSET Path
    BY DEF WitnessPaths, Path
  <2>2. ASSUME BeginFirstSweep(p) \/ BeginLastSweep(p) PROVE TypeOK'
    BY <2>1, <2>2 DEF BeginFirstSweep, BeginLastSweep, StopChildren, TypeOK, Group
  <2>3. ASSUME SweepPath(p) PROVE TypeOK'
    BY <2>3, WithoutType DEF SweepPath, TypeOK
  <2>4. ASSUME SweepDone(p) PROVE TypeOK'
    BY <2>4 DEF SweepDone, TypeOK
  <2>5. ASSUME SignalStopsTools(p) \/ SignalSweeps(p) PROVE TypeOK'
    BY <2>5, WithoutType DEF SignalStopsTools, SignalSweeps, StopChildren, TypeOK, Group
  <2> QED
    BY <2>2, <2>3, <2>4, <2>5
<1>4. ASSUME NEW p \in Process
      PROVE  /\ StartTool(p) => TypeOK'
             /\ ToolWrites(p) => TypeOK'
             /\ LeaderExits(p) \/ OrphanEnds(p) => TypeOK'
             /\ ToolEnds(p) => TypeOK'
             /\ ReadProof(p) => TypeOK'
  <2> USE DEF Goto, Location, Awaiting, Gone, Group
  <2>1. ASSUME StartTool(p) PROVE TypeOK'
    BY <2>1, WithoutType DEF StartTool, TypeOK
  <2>2. ASSUME ToolWrites(p) PROVE TypeOK'
    <3>1. stage[p] \in 1 .. 6
      BY <2>2, ToolStage DEF ToolWrites
    <3>2. disk' \in [Path -> Process \cup {None}]
      BY <2>2, <3>1, StageType DEF ToolWrites, TypeOK
    <3>3. {disk[f] : f \in Stage[stage[p]].reads \cap OnDisk} \in SUBSET Process
      BY DEF OnDisk, TypeOK
    <3>4. used' \in [Process -> SUBSET Process]
      BY <2>2, <3>3 DEF ToolWrites, TypeOK
    <3> QED
      BY <2>2, <3>2, <3>4 DEF ToolWrites, TypeOK
  <2>3. ASSUME LeaderExits(p) \/ OrphanEnds(p) PROVE TypeOK'
    BY <2>3 DEF LeaderExits, OrphanEnds, TypeOK
  <2>4. ASSUME ToolEnds(p) PROVE TypeOK'
    <3>1. stage[p] \in 1 .. 6
      BY <2>4, ToolStage DEF ToolEnds
    <3>2. stage' \in [Process -> 1 .. Proved]
      BY <2>4, <3>1, StageType DEF ToolEnds, TypeOK
    <3> QED
      BY <2>4, <3>2 DEF ToolEnds, TypeOK
  <2>5. ASSUME ReadProof(p) PROVE TypeOK'
    <3>1. "aggTarget" \in Path /\ disk["aggTarget"] \in Process
      BY <2>5 DEF ReadProof, TypeOK, Path, Fixed
    <3> QED
      BY <2>5, <3>1, StageType DEF ReadProof, TypeOK
  <2> QED
    BY <2>1, <2>2, <2>3, <2>4, <2>5
<1> QED
  BY <1>1, <1>2, <1>3, <1>4, Steps

-----------------------------------------------------------------------------
(* The lock and the groups *)

LEMMA StepLockIsHeld ==
  ASSUME TypeOK, LockIsHeld, [Next]_vars
  PROVE  LockIsHeld'
<1> USE LifecycleAssumption DEF Running, Awaiting, Goto
<1>1. CASE UNCHANGED vars
  BY <1>1 DEF LockIsHeld, vars
<1>2. ASSUME NEW p \in Process, TakeLock(p) PROVE LockIsHeld'
  BY <1>2 DEF TakeLock, LockIsHeld, TypeOK, IsGone, Gone
<1>3. ASSUME NEW p \in Process, BeginFirstSweep(p) \/ SweepPath(p) \/ SweepDone(p)
      PROVE  LockIsHeld'
  BY <1>3 DEF BeginFirstSweep, SweepPath, SweepDone, LockIsHeld, TypeOK
<1>4. ASSUME NEW p \in Process,
             \/ BodyFails(p) \/ StartTool(p) \/ ToolWrites(p) \/ LeaderExits(p)
             \/ ToolEnds(p) \/ OrphanEnds(p) \/ ReadProof(p)
      PROVE  LockIsHeld'
  BY <1>4 DEF BodyFails, StartTool, ToolWrites, LeaderExits, ToolEnds, OrphanEnds, ReadProof,
     LockIsHeld, TypeOK
<1>5. ASSUME NEW p \in Process,
             \/ BeginLastSweep(p) \/ Signal(p) \/ SignalStopsTools(p) \/ SignalSweeps(p)
      PROVE  LockIsHeld'
  BY <1>5 DEF BeginLastSweep, Signal, SignalStopsTools, SignalSweeps, LockIsHeld, TypeOK
<1>6. ASSUME NEW p \in Process, ReleaseLock(p) \/ SignalEnds(p) PROVE LockIsHeld'
  BY <1>6 DEF ReleaseLock, SignalEnds, LockIsHeld, TypeOK
<1>7. ASSUME NEW p \in Process, Kill(p) PROVE LockIsHeld'
  BY <1>7 DEF Kill, Gone, LockIsHeld, TypeOK, Location
<1> QED
  BY <1>1, <1>2, <1>3, <1>4, <1>5, <1>6, <1>7, Steps

LEMMA StepToolsAreBound ==
  ASSUME TypeOK, ToolsAreBound, [Next]_vars
  PROVE  ToolsAreBound'
<1> USE StageType DEF Awaiting, Goto
<1>1. CASE UNCHANGED vars
  BY <1>1 DEF ToolsAreBound, vars
<1>2. ASSUME NEW p \in Process, TakeLock(p) \/ BeginFirstSweep(p)
      PROVE  ToolsAreBound'
  BY <1>2 DEF TakeLock, BeginFirstSweep, ToolsAreBound, TypeOK
<1>7. ASSUME NEW p \in Process, SweepPath(p) \/ SweepDone(p) PROVE ToolsAreBound'
  <2>1. tool[p] = "none" /\ UNCHANGED <<tool, stage>>
    BY <1>7 DEF SweepPath, SweepDone, ToolsAreBound, TypeOK, Group
  <2>2. \A q \in Process \ {p} : pc'[q] = pc[q]
    BY <1>7 DEF SweepPath, SweepDone, TypeOK
  <2> QED
    BY <2>1, <2>2 DEF ToolsAreBound
<1>3. ASSUME NEW p \in Process, BodyFails(p) \/ StartTool(p) \/ ToolWrites(p) \/ LeaderExits(p)
      PROVE  ToolsAreBound'
  BY <1>3 DEF BodyFails, StartTool, ToolWrites, LeaderExits, ToolsAreBound, TypeOK
<1>4. ASSUME NEW p \in Process, ToolEnds(p) \/ OrphanEnds(p) \/ ReadProof(p)
      PROVE  ToolsAreBound'
  BY <1>4 DEF ToolEnds, OrphanEnds, ReadProof, ToolsAreBound, TypeOK
<1>5. ASSUME NEW p \in Process, BeginLastSweep(p) \/ SignalStopsTools(p)
      PROVE  ToolsAreBound'
  BY <1>5 DEF BeginLastSweep, SignalStopsTools, StopChildren, ToolsAreBound, TypeOK, Group
<1>6. ASSUME NEW p \in Process,
             ReleaseLock(p) \/ Signal(p) \/ SignalSweeps(p) \/ SignalEnds(p) \/ Kill(p)
      PROVE  ToolsAreBound'
  BY <1>6 DEF ReleaseLock, Signal, SignalSweeps, SignalEnds, Kill, Gone, ToolsAreBound, TypeOK
<1> QED
  BY <1>1, <1>2, <1>3, <1>4, <1>5, <1>6, <1>7, Steps

\* Whoever outlived its driver stays so.
LEMMA SurvivedStays ==
  ASSUME TypeOK, NEW q \in Process, Survived(q), [Next]_vars
  PROVE  Survived(q)'
<1> USE DEF Awaiting, Gone, Goto, Survived
<1>1. CASE UNCHANGED vars
  BY <1>1 DEF vars
<1>2. ASSUME NEW p \in Process,
             TakeLock(p) \/ BeginFirstSweep(p) \/ SweepPath(p) \/ SweepDone(p)
      PROVE  Survived(q)'
  BY <1>2 DEF TakeLock, BeginFirstSweep, SweepPath, SweepDone, TypeOK
<1>3. ASSUME NEW p \in Process, BodyFails(p) \/ StartTool(p) \/ ToolWrites(p) \/ LeaderExits(p)
      PROVE  Survived(q)'
  BY <1>3 DEF BodyFails, StartTool, ToolWrites, LeaderExits, TypeOK
<1>4. ASSUME NEW p \in Process, ToolEnds(p) \/ OrphanEnds(p) \/ ReadProof(p)
      PROVE  Survived(q)'
  BY <1>4 DEF ToolEnds, OrphanEnds, ReadProof, TypeOK
<1>5. ASSUME NEW p \in Process, BeginLastSweep(p) \/ SignalStopsTools(p)
      PROVE  Survived(q)'
  BY <1>5 DEF BeginLastSweep, SignalStopsTools, StopChildren, TypeOK
<1>6. ASSUME NEW p \in Process,
             ReleaseLock(p) \/ Signal(p) \/ SignalSweeps(p) \/ SignalEnds(p) \/ Kill(p)
      PROVE  Survived(q)'
  BY <1>6 DEF ReleaseLock, Signal, SignalSweeps, SignalEnds, Kill, TypeOK
<1> QED
  BY <1>1, <1>2, <1>3, <1>4, <1>5, <1>6, Steps

-----------------------------------------------------------------------------
(* The files *)

\* Only a tool adds a file, and its driver is the one that wrote it.
LEMMA DiskSteps ==
  ASSUME TypeOK, ToolsAreBound, [Next]_vars
  PROVE  \/ \A f \in Path : disk'[f] \in {disk[f], None}
         \/ \E p \in Process : ToolWrites(p) /\ \A f \in Path : disk'[f] \in {disk[f], p}
<1>1. CASE UNCHANGED vars
  BY <1>1 DEF vars
<1>2. ASSUME NEW p \in Process, ToolWrites(p)
      PROVE  \A f \in Path : disk'[f] \in {disk[f], p}
  BY <1>2 DEF ToolWrites, TypeOK
<1>3. ASSUME NEW p \in Process, SweepPath(p) \/ StartTool(p) \/ SignalSweeps(p)
      PROVE  \A f \in Path : disk'[f] \in {disk[f], None}
  <2>1. UNCHANGED disk \/ \E paths \in SUBSET Path : disk' = Without(paths)
    <3>1. ASSUME SweepPath(p), ~UNCHANGED disk PROVE \E f \in Path : disk' = Without({f})
      BY <3>1 DEF SweepPath, TypeOK
    <3>2. ASSUME StartTool(p) PROVE disk' = Without(Stage[stage[p]].clears)
      BY <3>2 DEF StartTool
    <3>3. ASSUME StartTool(p) PROVE Stage[stage[p]].clears \in SUBSET Path
      BY <3>3, StageType DEF StartTool, TypeOK
    <3>4. ASSUME SignalSweeps(p) PROVE disk' = Without(WitnessPaths \ stuck)
      BY <3>4 DEF SignalSweeps
    <3>5. WitnessPaths \ stuck \in SUBSET Path
      BY DEF WitnessPaths, Path
    <3> QED
      BY <1>3, <3>1, <3>2, <3>3, <3>4, <3>5
  <2> QED
    BY <2>1 DEF Without
<1>4. ASSUME NEW p \in Process,
             \/ TakeLock(p) \/ BeginFirstSweep(p) \/ SweepDone(p) \/ BodyFails(p)
             \/ LeaderExits(p) \/ ToolEnds(p) \/ OrphanEnds(p) \/ ReadProof(p)
             \/ BeginLastSweep(p) \/ ReleaseLock(p) \/ Signal(p)
             \/ SignalStopsTools(p) \/ SignalEnds(p) \/ Kill(p)
      PROVE  UNCHANGED disk
  BY <1>4 DEF TakeLock, BeginFirstSweep, SweepDone, BodyFails, LeaderExits, ToolEnds,
     OrphanEnds, ReadProof, BeginLastSweep, ReleaseLock, Signal, SignalStopsTools,
     SignalEnds, Kill
<1> QED
  BY <1>1, <1>2, <1>3, <1>4, Steps

\* A file that cannot be removed stays.
LEMMA StuckStays ==
  ASSUME TypeOK, ToolsAreBound, [Next]_vars
  PROVE  /\ stuck' = stuck
         /\ \A f \in stuck \cap OnDisk : disk'[f] # None
<1>1. CASE UNCHANGED vars
  BY <1>1 DEF vars, OnDisk
<1>2. ASSUME NEW p \in Process, ToolWrites(p) PROVE \A f \in stuck \cap OnDisk : disk'[f] # None
  BY <1>2, LifecycleAssumption DEF ToolWrites, TypeOK, OnDisk
<1>3. ASSUME NEW p \in Process, SweepPath(p) \/ StartTool(p) \/ SignalSweeps(p)
      PROVE  \A f \in stuck \cap OnDisk : disk'[f] # None
  <2>1. ASSUME SweepPath(p) PROVE \A f \in stuck \cap OnDisk : disk'[f] # None
    <3>1. ASSUME ~UNCHANGED disk
          PROVE  \E f \in Path : ~(f \in stuck /\ disk[f] # None) /\ disk' = Without({f})
      BY <2>1, <3>1 DEF SweepPath, TypeOK
    <3> QED
      BY <3>1 DEF Without, OnDisk
  <2>2. ASSUME StartTool(p) PROVE \A f \in stuck \cap OnDisk : disk'[f] # None
    BY <2>2 DEF StartTool, Without, OnDisk
  <2>3. ASSUME SignalSweeps(p) PROVE \A f \in stuck \cap OnDisk : disk'[f] # None
    BY <2>3 DEF SignalSweeps, Without, OnDisk
  <2> QED
    BY <1>3, <2>1, <2>2, <2>3
<1>4. ASSUME NEW p \in Process,
             \/ TakeLock(p) \/ BeginFirstSweep(p) \/ SweepDone(p) \/ BodyFails(p)
             \/ LeaderExits(p) \/ ToolEnds(p) \/ OrphanEnds(p) \/ ReadProof(p)
             \/ BeginLastSweep(p) \/ ReleaseLock(p) \/ Signal(p)
             \/ SignalStopsTools(p) \/ SignalEnds(p) \/ Kill(p)
      PROVE  UNCHANGED <<disk, stuck>>
  BY <1>4 DEF TakeLock, BeginFirstSweep, SweepDone, BodyFails, LeaderExits, ToolEnds,
     OrphanEnds, ReadProof, BeginLastSweep, ReleaseLock, Signal, SignalStopsTools,
     SignalEnds, Kill
<1>5. ASSUME NEW p \in Process,
             ToolWrites(p) \/ SweepPath(p) \/ StartTool(p) \/ SignalSweeps(p)
      PROVE  UNCHANGED stuck
  BY <1>5 DEF ToolWrites, SweepPath, StartTool, SignalSweeps
<1> QED
  BY <1>1, <1>2, <1>3, <1>4, <1>5, Steps DEF OnDisk

\* Without a write, files only go; a process that starts no sweep and no body
\* keeps what the sweep on the way in established.
LEMMA EntryKept ==
  ASSUME TypeOK, EntryIsSwept, [Next]_vars,
         \A f \in Path : disk'[f] \in {disk[f], None},
         \A q \in Process :
           /\ pc'[q] = "sweepIn" => pc[q] = "sweepIn" /\ todo'[q] = todo[q]
           /\ pc'[q] \in {"body", "tool"} => pc[q] \in {"body", "tool"}
  PROVE  EntryIsSwept'
<1>1. ASSUME NEW f \in OnDisk'
      PROVE  f \in OnDisk /\ disk'[f] = disk[f] /\ disk[f] \in Process
  BY <1>1 DEF OnDisk, TypeOK
<1>2. \A q \in Process : Survived(q) => Survived(q)'
  BY SurvivedStays
<1> QED
  BY <1>1, <1>2 DEF EntryIsSwept

LEMMA StepEntryIsSwept ==
  ASSUME TypeOK, LockIsHeld, ToolsAreBound, EntryIsSwept, [Next]_vars
  PROVE  EntryIsSwept'
<1>1. CASE UNCHANGED vars
  BY <1>1, EntryKept DEF vars
<1>2. ASSUME NEW p \in Process,
             \/ TakeLock(p) \/ BodyFails(p) \/ LeaderExits(p) \/ ToolEnds(p) \/ OrphanEnds(p)
             \/ ReadProof(p) \/ BeginLastSweep(p) \/ ReleaseLock(p) \/ Signal(p)
             \/ SignalStopsTools(p) \/ SignalEnds(p) \/ Kill(p)
      PROVE  EntryIsSwept'
  <2>1. UNCHANGED disk
    BY <1>2 DEF TakeLock, BodyFails, LeaderExits, ToolEnds, OrphanEnds, ReadProof,
       BeginLastSweep, ReleaseLock, Signal, SignalStopsTools, SignalEnds, Kill
  <2>2. /\ \A q \in Process \ {p} : pc'[q] = pc[q] /\ todo'[q] = todo[q]
        /\ pc'[p] # pc[p] => pc'[p] # "sweepIn"
        /\ pc'[p] = pc[p] => UNCHANGED todo
        /\ pc'[p] \in {"body", "tool"} => pc[p] \in {"body", "tool"}
    BY <1>2 DEF Goto, TypeOK, TakeLock, BodyFails, LeaderExits, ToolEnds, OrphanEnds, ReadProof,
       BeginLastSweep, ReleaseLock, Signal, SignalStopsTools, SignalEnds, Kill
  <2> QED
    BY <2>1, <2>2, EntryKept
<1>3. ASSUME NEW p \in Process, StartTool(p) \/ SignalSweeps(p) PROVE EntryIsSwept'
  <2>1. \A f \in Path : disk'[f] \in {disk[f], None}
    BY <1>3 DEF StartTool, SignalSweeps, Without
  <2>2. /\ \A q \in Process \ {p} : pc'[q] = pc[q]
        /\ UNCHANGED todo
        /\ pc'[p] \notin {"sweepIn", "body"}
        /\ pc'[p] = "tool" => pc[p] = "body"
    BY <1>3 DEF Goto, TypeOK, StartTool, SignalSweeps
  <2> QED
    BY <2>1, <2>2, EntryKept
<1>4. ASSUME NEW p \in Process, BeginFirstSweep(p) PROVE EntryIsSwept'
  <2>1. /\ \A q \in Process \ {p} : pc'[q] = pc[q] /\ todo'[q] = todo[q]
        /\ pc'[p] = "sweepIn" /\ todo'[p] = WitnessPaths /\ UNCHANGED <<disk, tool>>
    BY <1>4 DEF Goto, TypeOK, BeginFirstSweep
  <2>2. OnDisk \subseteq WitnessPaths
    BY DEF OnDisk, WitnessPaths, Path
  <2>3. \A q \in Process : Survived(q) => Survived(q)'
    BY SurvivedStays
  <2>4. OnDisk' = OnDisk /\ \A f \in OnDisk : disk[f] \in Process
    BY <2>1 DEF OnDisk, TypeOK
  <2> QED
    BY <2>1, <2>2, <2>3, <2>4 DEF EntryIsSwept
<1>5. ASSUME NEW p \in Process, SweepPath(p) PROVE EntryIsSwept'
  <2>1. CASE pc[p] = "sweepIn" /\ pc'[p] = "sweepIn"
    <3>1. PICK f \in Path : disk' = Without({f}) /\ todo' = [todo EXCEPT ![p] = @ \ {f}]
                            /\ UNCHANGED pc
      BY <1>5, <2>1 DEF SweepPath, TypeOK
    <3>2. OnDisk' = OnDisk \ {f} /\ \A g \in OnDisk \ {f} : disk'[g] = disk[g] /\ disk[g] \in Process
      BY <3>1 DEF OnDisk, Without, TypeOK
    <3>3. \A q \in Process : Survived(q) => Survived(q)'
      BY SurvivedStays
    <3>4. /\ todo'[p] = todo[p] \ {f} /\ \A q \in Process \ {p} : todo'[q] = todo[q]
      BY <3>1 DEF TypeOK
    <3> QED
      BY <3>1, <3>2, <3>3, <3>4 DEF EntryIsSwept
  <2>2. CASE ~(pc[p] = "sweepIn" /\ pc'[p] = "sweepIn")
    <3>1. \A f \in Path : disk'[f] \in {disk[f], None}
      <4>1. UNCHANGED disk \/ \E f : disk' = Without({f})
        BY <1>5 DEF SweepPath
      <4> QED
        BY <4>1 DEF Without
    <3>2. /\ \A q \in Process \ {p} : pc'[q] = pc[q] /\ todo'[q] = todo[q]
          /\ pc'[p] \notin {"sweepIn", "body", "tool"}
      BY <1>5, <2>2 DEF SweepPath, TypeOK
    <3> QED
      BY <3>1, <3>2, EntryKept
  <2> QED
    BY <2>1, <2>2
<1>6. ASSUME NEW p \in Process, SweepDone(p) PROVE EntryIsSwept'
  <2>1. /\ \A q \in Process \ {p} : pc'[q] = pc[q]
        /\ pc'[p] \in {"body", "release"} /\ (pc'[p] = "body" => pc[p] = "sweepIn")
        /\ todo[p] = {} /\ UNCHANGED <<disk, todo, tool>>
    BY <1>6 DEF TypeOK, SweepDone
  <2>2. \A q \in Process : Survived(q) => Survived(q)'
    BY SurvivedStays
  <2>3. OnDisk' = OnDisk /\ \A f \in OnDisk : disk[f] \in Process
    BY <2>1 DEF OnDisk, TypeOK
  <2> QED
    BY <2>1, <2>2, <2>3 DEF EntryIsSwept
<1>7. ASSUME NEW p \in Process, ToolWrites(p) PROVE EntryIsSwept'
  <2>1. UNCHANGED <<pc, tool, todo>> /\ tool[p] # "none"
        /\ \A f \in Path : disk'[f] \in {disk[f], p}
    BY <1>7 DEF ToolWrites, TypeOK
  <2>2. pc[p] \in {"tool", "sigStop", "sigSweep", "sigRelease"} \/ Survived(p)
    BY <2>1 DEF ToolsAreBound, Survived, TypeOK, Group
  <2>3. \A q \in Process : pc[q] \in {"sweepIn", "body", "tool"} => (q = p /\ pc[q] = "tool") \/ Survived(p)
    BY <2>2 DEF LockIsHeld, Running, Awaiting
  <2>4. \A f \in OnDisk' : f \in OnDisk \/ disk'[f] = p
    BY <2>1 DEF OnDisk
  <2>5. \A q : Survived(q)' <=> Survived(q)
    BY <2>1 DEF Survived
  <2>6. \A f \in OnDisk' : f \in Path
    BY DEF OnDisk
  <2>7. ASSUME NEW q \in Process, pc[q] = "sweepIn", NEW f \in OnDisk'
        PROVE  f \in todo[q] \/ Survived(disk'[f])
    BY <2>1, <2>3, <2>4, <2>6, <2>7 DEF EntryIsSwept
  <2>8. ASSUME NEW q \in Process, pc[q] \in {"body", "tool"}, NEW f \in OnDisk'
        PROVE  disk'[f] = q \/ Survived(disk'[f])
    BY <2>1, <2>3, <2>4, <2>6, <2>8 DEF EntryIsSwept
  <2> QED
    BY <2>1, <2>5, <2>7, <2>8 DEF EntryIsSwept
<1> QED
  BY <1>1, <1>2, <1>3, <1>4, <1>5, <1>6, <1>7, Steps

\* Without a write of its own, a process that reaches no later part of its exit
\* keeps what the sweeps on the way out established.
LEMMA ExitKept ==
  ASSUME TypeOK, ToolsAreBound, ExitIsSwept, [Next]_vars,
         NEW q \in Process, \A f \in Path : disk'[f] = q => disk[f] = q,
         pc'[q] = "sweepOut" => pc[q] = "sweepOut" /\ todo'[q] = todo[q],
         pc'[q] \in {"release", "done"} => pc[q] \in {"release", "done"},
         pc'[q] \in {"sigRelease", "ended"} /\ tool'[q] # "stray"
           => pc[q] \in {"sigRelease", "ended"} /\ tool[q] # "stray"
  PROVE  /\ pc'[q] = "sweepOut" => Left(q)' \subseteq todo'[q]
         /\ pc'[q] \in {"release", "done"} /\ (OnDisk \cap stuck)' = {} => Left(q)' = {}
         /\ pc'[q] \in {"sigRelease", "ended"} /\ tool'[q] # "stray" => Left(q)' \subseteq stuck'
<1>1. Left(q)' \subseteq Left(q)
  BY DEF Left
<1>2. stuck' = stuck /\ ((OnDisk \cap stuck)' = {} => OnDisk \cap stuck = {})
  BY StuckStays DEF OnDisk
<1> QED
  BY <1>1, <1>2 DEF ExitIsSwept

LEMMA StepExitIsSwept ==
  ASSUME TypeOK, LockIsHeld, ToolsAreBound, ExitIsSwept, [Next]_vars
  PROVE  ExitIsSwept'
<1> DEFINE Exit(q) ==
      /\ pc'[q] = "sweepOut" => Left(q)' \subseteq todo'[q]
      /\ pc'[q] \in {"release", "done"} /\ (OnDisk \cap stuck)' = {} => Left(q)' = {}
      /\ pc'[q] \in {"sigRelease", "ended"} /\ tool'[q] # "stray" => Left(q)' \subseteq stuck'
<1> SUFFICES ASSUME NEW q \in Process PROVE Exit(q)
  BY DEF ExitIsSwept
<1>1. CASE UNCHANGED vars
  BY <1>1, ExitKept DEF vars
<1>2. ASSUME NEW p \in Process, ToolWrites(p) PROVE Exit(q)
  <2>1. UNCHANGED <<pc, tool, todo>> /\ tool[p] # "none"
        /\ \A f \in Path : disk'[f] \in {disk[f], p}
    BY <1>2 DEF ToolWrites, TypeOK
  <2>2. CASE q = p
    BY <2>1, <2>2 DEF ToolsAreBound, TypeOK, Group
  <2>3. CASE q # p
    BY <2>1, <2>3, ExitKept
  <2> QED
    BY <2>2, <2>3
<1>3. ASSUME ~ \E p \in Process : ToolWrites(p)
      PROVE  \A f \in Path : disk'[f] = q => disk[f] = q
  BY <1>3, DiskSteps, LifecycleAssumption
<1>4. ASSUME NEW p \in Process, p # q, ~ \E r \in Process : ToolWrites(r),
             \/ TakeLock(p) \/ BeginFirstSweep(p) \/ SweepPath(p) \/ SweepDone(p)
             \/ BodyFails(p) \/ StartTool(p) \/ LeaderExits(p)
             \/ ToolEnds(p) \/ OrphanEnds(p) \/ ReadProof(p) \/ BeginLastSweep(p)
             \/ ReleaseLock(p) \/ Signal(p) \/ SignalStopsTools(p) \/ SignalSweeps(p)
             \/ SignalEnds(p) \/ Kill(p)
      PROVE  Exit(q)
  <2>1. pc'[q] = pc[q] /\ todo'[q] = todo[q]
    BY <1>4 DEF Goto, TypeOK, TakeLock, BeginFirstSweep, SweepPath, SweepDone,
       BodyFails, StartTool, LeaderExits, ToolEnds, OrphanEnds, ReadProof, BeginLastSweep,
       ReleaseLock, Signal, SignalStopsTools, SignalSweeps, SignalEnds, Kill
  <2>2. tool'[q] = tool[q]
    BY <1>4 DEF TypeOK, TakeLock, BeginFirstSweep, SweepPath, SweepDone,
       BodyFails, StartTool, LeaderExits, ToolEnds, OrphanEnds, ReadProof, BeginLastSweep,
       ReleaseLock, Signal, SignalStopsTools, SignalSweeps, SignalEnds, Kill, StopChildren
  <2> QED
    BY <1>3, <1>4, <2>1, <2>2, ExitKept
<1>5. ASSUME ~ \E r \in Process : ToolWrites(r),
             \/ TakeLock(q) \/ BeginFirstSweep(q) \/ BodyFails(q) \/ StartTool(q)
             \/ LeaderExits(q) \/ ToolEnds(q) \/ OrphanEnds(q) \/ ReadProof(q)
             \/ ReleaseLock(q) \/ Signal(q) \/ SignalStopsTools(q)
             \/ SignalEnds(q) \/ Kill(q)
      PROVE  Exit(q)
  <2>1. /\ pc'[q] # "sweepOut" \/ (pc'[q] = pc[q] /\ todo'[q] = todo[q])
        /\ pc'[q] \in {"release", "done"} => pc[q] \in {"release", "done"}
        /\ pc'[q] \in {"sigRelease", "ended"} => pc[q] \in {"sigRelease", "ended"}
    BY <1>5 DEF Goto, Awaiting, TypeOK, TakeLock, BeginFirstSweep,
       BodyFails, StartTool, LeaderExits, ToolEnds, OrphanEnds, ReadProof,
       ReleaseLock, Signal, SignalStopsTools, SignalEnds, Kill
  <2>2. tool'[q] # "stray" => tool[q] # "stray" \/ pc'[q] \notin {"sigRelease", "ended"}
    BY <1>5 DEF Goto, TypeOK, TakeLock, BeginFirstSweep,
       BodyFails, StartTool, LeaderExits, ToolEnds, OrphanEnds, ReadProof,
       ReleaseLock, Signal, SignalStopsTools, SignalEnds, Kill, StopChildren
  <2> QED
    BY <1>3, <1>5, <2>1, <2>2, ExitKept
<1>6. ASSUME BeginLastSweep(q) PROVE Exit(q)
  <2>1. pc'[q] = "sweepOut" /\ todo'[q] = WitnessPaths /\ UNCHANGED disk
    BY <1>6 DEF BeginLastSweep, Goto, TypeOK
  <2>2. Left(q)' \subseteq WitnessPaths
    BY <2>1, LifecycleAssumption DEF Left, WitnessPaths, Path
  <2> QED
    BY <2>1, <2>2
<1>7. ASSUME SweepDone(q) PROVE Exit(q)
  <2>1. /\ pc[q] \in {"sweepIn", "sweepOut"} /\ todo[q] = {} /\ UNCHANGED disk
        /\ pc'[q] = IF pc[q] = "sweepIn" THEN "body" ELSE "release"
    BY <1>7 DEF SweepDone, TypeOK
  <2>2. pc[q] = "sweepOut" => Left(q)' = {}
    BY <2>1 DEF Left, ExitIsSwept
  <2> QED
    BY <2>1, <2>2
<1>8. ASSUME SweepPath(q) PROVE Exit(q)
  <2>1. PICK f \in todo[q] :
          IF f \in stuck /\ disk[f] # None
            THEN /\ pc' = [pc EXCEPT ![q] = IF @ = "sweepIn" THEN "stop" ELSE "release"]
                 /\ UNCHANGED disk
            ELSE todo' = [todo EXCEPT ![q] = @ \ {f}] /\ disk' = Without({f}) /\ UNCHANGED pc
    BY <1>8 DEF SweepPath
  <2>2. pc[q] \in {"sweepIn", "sweepOut"} /\ UNCHANGED stuck /\ f \in Path
    BY <1>8, <2>1 DEF SweepPath, TypeOK
  <2>3. CASE f \in stuck /\ disk[f] # None
    <3>1. pc'[q] \in {"stop", "release"} /\ f \in (OnDisk \cap stuck)'
      BY <2>1, <2>2, <2>3 DEF TypeOK, OnDisk
    <3> QED
      BY <3>1
  <2>4. CASE ~(f \in stuck /\ disk[f] # None)
    <3>1. pc'[q] = pc[q] /\ todo'[q] = todo[q] \ {f} /\ disk' = Without({f})
      BY <2>1, <2>4 DEF TypeOK
    <3>2. Left(q)' \subseteq Left(q) \ {f}
      BY <3>1, LifecycleAssumption DEF Left, Without
    <3> QED
      BY <2>2, <3>1, <3>2 DEF ExitIsSwept
  <2> QED
    BY <2>3, <2>4
<1>9. ASSUME SignalSweeps(q) PROVE Exit(q)
  <2>1. pc'[q] = "sigRelease" /\ disk' = Without(WitnessPaths \ stuck) /\ UNCHANGED stuck
    BY <1>9 DEF SignalSweeps, Goto, TypeOK
  <2>2. Left(q)' \subseteq stuck
    BY <2>1, LifecycleAssumption DEF Left, Without, WitnessPaths, Path
  <2> QED
    BY <2>1, <2>2
<1> HIDE DEF Exit
<1> QED
  BY <1>1, <1>2, <1>4, <1>5, <1>6, <1>7, <1>8, <1>9, Steps

-----------------------------------------------------------------------------
(* What the tools of a run have read *)

\* A process that reads nothing and reaches no body keeps what it has read.
LEMMA ReadsKept ==
  ASSUME TypeOK, ReadsAreOwn, [Next]_vars, NEW q \in Process,
         used'[q] = used[q], stage'[q] = Proved => stage[q] = Proved,
         pc'[q] \in {"enter", "sweepIn"} => pc[q] \in {"enter", "sweepIn"},
         pc'[q] \in {"body", "tool"} => pc[q] \in {"body", "tool"} \/ used[q] = {}
  PROVE  /\ pc'[q] \in {"enter", "sweepIn"} => used'[q] = {}
         /\ pc'[q] \in {"body", "tool"} \/ stage'[q] = Proved
              => \A r \in used'[q] \ {q} : Survived(r)'
<1>1. used[q] \subseteq Process
  BY DEF TypeOK
<1>2. \A r \in Process : Survived(r) => Survived(r)'
  BY SurvivedStays
<1> QED
  BY <1>1, <1>2 DEF ReadsAreOwn

LEMMA StepReadsAreOwn ==
  ASSUME TypeOK, LockIsHeld, ToolsAreBound, EntryIsSwept, ReadsAreOwn, [Next]_vars
  PROVE  ReadsAreOwn'
<1> DEFINE Own(q) ==
      /\ pc'[q] \in {"enter", "sweepIn"} => used'[q] = {}
      /\ pc'[q] \in {"body", "tool"} \/ stage'[q] = Proved
           => \A r \in used'[q] \ {q} : Survived(r)'
<1> SUFFICES ASSUME NEW q \in Process PROVE Own(q)
  BY DEF ReadsAreOwn
<1>1. CASE UNCHANGED vars
  BY <1>1, ReadsKept DEF vars
<1>2. ASSUME NEW p \in Process, p # q,
             \/ TakeLock(p) \/ BeginFirstSweep(p) \/ SweepPath(p) \/ SweepDone(p)
             \/ BodyFails(p) \/ StartTool(p) \/ ToolWrites(p) \/ LeaderExits(p)
             \/ ToolEnds(p) \/ OrphanEnds(p) \/ ReadProof(p) \/ BeginLastSweep(p)
             \/ ReleaseLock(p) \/ Signal(p) \/ SignalStopsTools(p) \/ SignalSweeps(p)
             \/ SignalEnds(p) \/ Kill(p)
      PROVE  Own(q)
  <2>1. pc'[q] = pc[q] /\ stage'[q] = stage[q] /\ used'[q] = used[q]
    BY <1>2 DEF Goto, TypeOK, TakeLock, BeginFirstSweep, SweepPath, SweepDone,
       BodyFails, StartTool, ToolWrites, LeaderExits, ToolEnds, OrphanEnds, ReadProof,
       BeginLastSweep, ReleaseLock, Signal, SignalStopsTools, SignalSweeps, SignalEnds, Kill
  <2> QED
    BY <2>1, ReadsKept
<1>3. ASSUME \/ BeginFirstSweep(q) \/ SweepPath(q) \/ SweepDone(q) \/ BodyFails(q)
             \/ StartTool(q) \/ LeaderExits(q) \/ OrphanEnds(q) \/ BeginLastSweep(q)
             \/ ReleaseLock(q) \/ Signal(q) \/ SignalStopsTools(q) \/ SignalSweeps(q)
             \/ SignalEnds(q) \/ Kill(q)
      PROVE  Own(q)
  <2>1. /\ stage'[q] = stage[q] /\ used'[q] = used[q]
        /\ pc'[q] \in {"enter", "sweepIn"} => pc[q] \in {"enter", "sweepIn"}
        /\ pc'[q] \in {"body", "tool"} => pc[q] \in {"body", "tool", "sweepIn"}
    BY <1>3 DEF Goto, Awaiting, TypeOK, BeginFirstSweep, SweepPath, SweepDone, BodyFails,
       StartTool, LeaderExits, OrphanEnds, BeginLastSweep, ReleaseLock, Signal,
       SignalStopsTools, SignalSweeps, SignalEnds, Kill
  <2>2. pc[q] = "sweepIn" => used[q] = {}
    BY DEF ReadsAreOwn
  <2> QED
    BY <2>1, <2>2, ReadsKept
<1>4. ASSUME TakeLock(q) PROVE Own(q)
  <2>1. used'[q] = {}
    BY <1>4 DEF TakeLock, TypeOK
  <2> QED
    BY <2>1
<1>5. ASSUME ToolEnds(q) PROVE Own(q)
  <2>1. /\ used'[q] = used[q] /\ pc[q] = "tool" /\ pc'[q] \in {"body", "stop"}
        /\ stage'[q] \in {stage[q], stage[q] + 1} /\ stage[q] \in 1 .. 6
    BY <1>5, ToolStage DEF ToolEnds, TypeOK
  <2>2. stage'[q] # Proved
    BY <2>1, StageType
  <2> QED
    BY <2>1, <2>2, ReadsKept
<1>6. ASSUME ToolWrites(q) PROVE Own(q)
  <2>1. /\ UNCHANGED <<pc, stage>> /\ tool[q] # "none"
        /\ used'[q] = used[q] \cup {disk[f] : f \in Stage[stage[q]].reads \cap OnDisk}
    BY <1>6 DEF ToolWrites, TypeOK
  <2>2. stage[q] \in 1 .. 6 /\ stage'[q] # Proved
    BY <2>1, ToolStage, StageType
  <2>3. pc[q] \notin {"enter", "sweepIn"}
    BY <2>1 DEF ToolsAreBound, TypeOK, Group
  <2>4. ASSUME pc[q] \in {"body", "tool"}, NEW r \in used'[q] \ {q}
        PROVE  Survived(r)'
    <3>1. Survived(r)
      BY <2>1, <2>4 DEF ReadsAreOwn, EntryIsSwept
    <3>2. r \in Process
      BY <2>1 DEF TypeOK, OnDisk
    <3> QED
      BY <3>1, <3>2, SurvivedStays
  <2> QED
    BY <2>1, <2>2, <2>3, <2>4
<1>7. ASSUME ReadProof(q) PROVE Own(q)
  <2>1. /\ pc[q] = "body" /\ pc'[q] = "stop"
        /\ used'[q] = used[q] \cup {disk["aggTarget"]} /\ disk["aggTarget"] # None
    BY <1>7 DEF ReadProof, Goto, TypeOK
  <2>2. "aggTarget" \in OnDisk
    BY <2>1 DEF OnDisk, Path, Fixed
  <2>3. ASSUME NEW r \in used'[q] \ {q} PROVE Survived(r)'
    <3>1. Survived(r)
      BY <2>1, <2>2, <2>3 DEF ReadsAreOwn, EntryIsSwept
    <3>2. r \in Process
      BY <2>1, <2>2 DEF TypeOK, OnDisk
    <3> QED
      BY <3>1, <3>2, SurvivedStays
  <2> QED
    BY <2>1, <2>3
<1> HIDE DEF Own
<1> QED
  BY <1>1, <1>2, <1>3, <1>4, <1>5, <1>6, <1>7, Steps

-----------------------------------------------------------------------------
(* The theorems *)

LEMMA InitInv == Init => TypeOK /\ LifecycleInv
<1> SUFFICES ASSUME Init PROVE TypeOK /\ LifecycleInv
  OBVIOUS
<1>1. TypeOK
  BY LifecycleAssumption, StageType DEF Init, TypeOK, Location, Group
<1>2. LockIsHeld /\ ToolsAreBound
  BY LifecycleAssumption DEF Init, LockIsHeld, ToolsAreBound, Running, Awaiting
<1>3. EntryIsSwept /\ ExitIsSwept /\ ReadsAreOwn
  BY StageType DEF Init, EntryIsSwept, ExitIsSwept, ReadsAreOwn
<1> QED
  BY <1>1, <1>2, <1>3 DEF LifecycleInv

LEMMA LifecycleInvariant == Spec => [](TypeOK /\ LifecycleInv)
<1>1. TypeOK /\ LifecycleInv /\ [Next]_vars => (TypeOK /\ LifecycleInv)'
  BY StepTypeOK, StepLockIsHeld, StepToolsAreBound, StepEntryIsSwept, StepExitIsSwept,
     StepReadsAreOwn DEF LifecycleInv
<1> QED
  BY <1>1, InitInv, PTL DEF Spec

\* A run that returned, threw or was ended by a signal holds neither the lock
\* nor a group, and the files that it leaves are files that cannot be removed
\* (after a signal) or none at all (after a normal end with nothing stuck); and
\* no file of a driver that was killed between its tools meets a later body.
THEOREM TreeStaysSound == Spec => []TreeIsSound
<1>1. TypeOK /\ LifecycleInv => TreeIsSound
  <2> SUFFICES ASSUME TypeOK, LifecycleInv PROVE TreeIsSound
    OBVIOUS
  <2>1. EndingIsClean
    <3> SUFFICES ASSUME NEW p \in Process, pc[p] \in {"done", "ended"}, tool[p] # "stray"
                 PROVE  /\ lock # p /\ tool[p] = "none"
                        /\ IF pc[p] = "ended" THEN Left(p) \subseteq stuck
                           ELSE OnDisk \cap stuck = {} => Left(p) = {}
      BY DEF EndingIsClean
    <3>1. lock # p
      BY DEF LifecycleInv, LockIsHeld, Running, Awaiting
    <3>2. tool[p] = "none"
      BY DEF LifecycleInv, ToolsAreBound, TypeOK, Group
    <3> QED
      BY <3>1, <3>2 DEF LifecycleInv, ExitIsSwept
  <2>2. DeadFilesAreSwept
    <3> SUFFICES ASSUME NEW p \in Process, pc[p] \in {"body", "tool"},
                        NEW q \in Process, pc[q] = "dead", NEW f \in Left(q)
                 PROVE  FALSE
      BY DEF DeadFilesAreSwept
    <3>1. f \in OnDisk /\ disk[f] = q
      BY LifecycleAssumption DEF Left, OnDisk
    <3>2. q = p \/ Survived(q)
      BY <3>1 DEF LifecycleInv, EntryIsSwept
    <3> QED
      BY <3>2 DEF Survived
  <2> QED
    BY <2>1, <2>2 DEF TreeIsSound
<1> QED
  BY <1>1, LifecycleInvariant, PTL

\* No proof that a run returns rests on a file that another driver wrote,
\* unless a process of that driver outlived it.
THEOREM ProofsStayOwn == Spec => []ProofIsFromOwnFiles
<1>1. TypeOK /\ LifecycleInv => ProofIsFromOwnFiles
  BY DEF LifecycleInv, ReadsAreOwn, ProofIsFromOwnFiles, Survived, Outlived
<1> QED
  BY <1>1, LifecycleInvariant, PTL

-----------------------------------------------------------------------------
(* The refinement *)

\* The state that WorkingTree sees.
Writers == {disk[f] : f \in OnDisk}
GoneSet == {p \in Process : IsGone(p)}
Late == {p \in Process : Outlived(p)}
Blocked == OnDisk \cap stuck # {}

\* What does not touch the state of WorkingTree, by its parts.
LEMMA SameFiles ==
  ASSUME UNCHANGED <<disk, stuck>>
  PROVE  Writers' = Writers /\ Blocked' = Blocked
BY DEF Writers, Blocked, OnDisk

\* The fates of the processes around a step that moves one of them.
LEMMA SameFates ==
  ASSUME TypeOK, NEW p \in Process,
         \A q \in Process \ {p} : pc'[q] = pc[q] /\ tool'[q] = tool[q],
         IsGone(p)' <=> IsGone(p), Outlived(p)' <=> Outlived(p)
  PROVE  GoneSet' = GoneSet /\ Late' = Late
BY DEF GoneSet, Late, IsGone, Outlived

\* Removing files and writing its own is a use of the tree by its owner.
LEMMA OwnerUses ==
  ASSUME TypeOK, NEW p \in Process, lock = p, UNCHANGED <<lock, stuck>>,
         GoneSet' = GoneSet, Late' = Late, \A f \in Path : disk'[f] \in {disk[f], None, p}
  PROVE  Tree!Use(p)
<1>1. Writers' \in SUBSET (Writers \cup {p})
  BY DEF Writers, OnDisk
<1>2. Blocked' \in BOOLEAN
  BY DEF Blocked
<1> QED
  BY <1>1, <1>2 DEF Tree!Use, Writers, Blocked, GoneSet, Late

\* The claim of a free or abandoned tree.
LEMMA ClaimImplements ==
  ASSUME TypeOK, LifecycleInv, NEW p \in Process, TakeLock(p)
  PROVE  Tree!Claim(p)
<1>1. UNCHANGED <<disk, stuck, tool>> /\ lock' = p /\ pc[p] = "out"
      /\ pc' = [pc EXCEPT ![p] = "enter"] /\ lock \notin {q \in Process : ~IsGone(q)}
  BY DEF TakeLock, Goto
<1>2. GoneSet' = GoneSet /\ Late' = Late
  BY <1>1, SameFates DEF IsGone, Gone, Outlived, TypeOK
<1>3. Writers' = Writers /\ Blocked' = Blocked
  BY <1>1, SameFiles
<1> QED
  BY <1>1, <1>2, <1>3 DEF Tree!Claim, Writers, Blocked, GoneSet, Late

\* Steps that the tree does not see.
LEMMA InsideImplements ==
  ASSUME TypeOK, LifecycleInv, NEW p \in Process,
         \/ BeginFirstSweep(p) \/ SweepDone(p) \/ BodyFails(p) \/ OrphanEnds(p)
         \/ ReadProof(p) \/ BeginLastSweep(p) \/ Signal(p) \/ SignalStopsTools(p)
  PROVE  UNCHANGED <<lock, Writers, GoneSet, Late, Blocked>>
<1>1. UNCHANGED <<lock, disk, stuck>>
  BY DEF BeginFirstSweep, SweepDone, BodyFails, OrphanEnds, ReadProof, BeginLastSweep, Signal,
     SignalStopsTools
<1>2. /\ \A q \in Process \ {p} : pc'[q] = pc[q] /\ tool'[q] = tool[q]
      /\ IsGone(p)' <=> IsGone(p)
      /\ Outlived(p)' <=> Outlived(p)
  BY DEF Goto, Awaiting, IsGone, Gone, Outlived, TypeOK, StopChildren, BeginFirstSweep, SweepDone,
     BodyFails, OrphanEnds, ReadProof, BeginLastSweep, Signal, SignalStopsTools
<1> QED
  BY <1>1, <1>2, SameFiles, SameFates

\* Steps of the owner that change files.
LEMMA UseImplements ==
  ASSUME TypeOK, LifecycleInv, NEW p \in Process, SweepPath(p) \/ StartTool(p) \/ SignalSweeps(p)
  PROVE  Tree!Use(p)
<1>1. lock = p /\ UNCHANGED <<lock, stuck>>
  BY DEF SweepPath, StartTool, SignalSweeps, Goto, LifecycleInv, LockIsHeld, Running, Awaiting
<1>2. \A f \in Path : disk'[f] \in {disk[f], None, p}
  <2>1. UNCHANGED disk \/ \E paths : disk' = Without(paths)
    BY DEF SweepPath, StartTool, SignalSweeps
  <2> QED
    BY <2>1 DEF Without
<1>3. /\ \A q \in Process \ {p} : pc'[q] = pc[q] /\ tool'[q] = tool[q]
      /\ ~IsGone(p) /\ ~IsGone(p)'
      /\ pc[p] # "orphaner" /\ pc'[p] # "orphaner"
      /\ tool'[p] = "stray" <=> tool[p] = "stray"
  <2>1. CASE SweepPath(p)
    BY <2>1 DEF SweepPath, IsGone, Gone, TypeOK
  <2>2. CASE StartTool(p)
    BY <2>2 DEF StartTool, Goto, IsGone, Gone, TypeOK, LifecycleInv, ToolsAreBound
  <2>3. CASE SignalSweeps(p)
    BY <2>3 DEF SignalSweeps, Goto, IsGone, Gone, TypeOK
  <2> QED
    BY <2>1, <2>2, <2>3
<1>4. GoneSet' = GoneSet /\ Late' = Late
  BY <1>3, SameFates DEF Outlived
<1> QED
  BY <1>1, <1>2, <1>4, OwnerUses

\* A tool writes for the owner, or for a process that it outlived.
LEMMA WriteImplements ==
  ASSUME TypeOK, LifecycleInv, NEW p \in Process, ToolWrites(p)
  PROVE  Tree!Use(p) \/ Tree!LateWrite(p)
<1>1. PICK f \in Stage[stage[p]].writes : disk' = [disk EXCEPT ![f] = p]
  BY DEF ToolWrites
<1>2. UNCHANGED <<pc, tool, lock, stuck>> /\ tool[p] # "none"
  BY DEF ToolWrites
<1>3. f \in Path
  BY <1>1, <1>2, ToolStage, StageType DEF LifecycleInv
<1>4. GoneSet' = GoneSet /\ Late' = Late
  BY <1>2 DEF GoneSet, Late, IsGone, Outlived
<1>5. CASE lock = p
  <2>1. \A g \in Path : disk'[g] \in {disk[g], None, p}
    BY <1>1 DEF TypeOK
  <2> QED
    BY <1>2, <1>4, <1>5, <2>1, OwnerUses
<1>6. CASE lock # p
  <2>1. Outlived(p)
    BY <1>2, <1>6 DEF LifecycleInv, LockIsHeld, ToolsAreBound, TypeOK, Group, Outlived, Running,
       Awaiting
  <2>2. Writers' \in {w \cup {p} : w \in SUBSET Writers}
    <3>1. p \in Writers'
      BY <1>1, <1>3, LifecycleAssumption DEF Writers, OnDisk, TypeOK
    <3>2. Writers' \subseteq Writers \cup {p}
      BY <1>1 DEF Writers, OnDisk, TypeOK
    <3>3. Writers' = (Writers \cap Writers') \cup {p}
      BY <3>1, <3>2
    <3> QED
      BY <3>3
  <2>3. Blocked' \in BOOLEAN
    BY DEF Blocked
  <2> QED
    BY <1>2, <1>4, <2>1, <2>2, <2>3 DEF Tree!LateWrite, Writers, Blocked, GoneSet, Late
<1> QED
  BY <1>5, <1>6

\* The tree goes back.
LEMMA ReturnImplements ==
  ASSUME TypeOK, LifecycleInv, NEW p \in Process, ReleaseLock(p) \/ SignalEnds(p)
  PROVE  Tree!Return(p)
<1>1. /\ lock = p /\ lock' = None /\ UNCHANGED <<disk, stuck, tool>>
      /\ pc[p] \in {"release", "sigRelease"}
      /\ pc'[p] = (IF pc[p] = "release" THEN "done" ELSE "ended")
      /\ \A q \in Process \ {p} : pc'[q] = pc[q]
  BY DEF ReleaseLock, SignalEnds, Goto, TypeOK, LifecycleInv, LockIsHeld, Running
<1>2. Writers' = Writers /\ Blocked' = Blocked
  BY <1>1, SameFiles
<1>3. p \in Writers => p \in Late \/ Blocked
  <2> SUFFICES ASSUME p \in Writers, p \notin Late PROVE Blocked
    OBVIOUS
  <2>1. Left(p) # {} /\ Left(p) \subseteq OnDisk /\ tool[p] # "stray"
    BY LifecycleAssumption DEF Writers, Left, OnDisk, Late, Outlived
  <2>2. OnDisk \cap stuck = {} => Left(p) = {}
    BY <1>1, <2>1 DEF LifecycleInv, ExitIsSwept
  <2> QED
    BY <2>1, <2>2 DEF Blocked
<1>4. GoneSet' \in {GoneSet, GoneSet \cup {p}}
  BY <1>1 DEF GoneSet, IsGone, Gone
<1>5. Late' = Late
  BY <1>1 DEF Late, Outlived
<1> QED
  BY <1>1, <1>2, <1>3, <1>4, <1>5 DEF Tree!Return, Writers, Blocked, GoneSet, Late

\* A process disappears, or what it started becomes or stops being late.
LEMMA FateImplements ==
  ASSUME TypeOK, LifecycleInv, NEW p \in Process, LeaderExits(p) \/ ToolEnds(p) \/ Kill(p)
  PROVE  Tree!Fate(p)
<1>1. UNCHANGED <<lock, disk, stuck>>
      /\ \A q \in Process \ {p} : pc'[q] = pc[q] /\ tool'[q] = tool[q]
  BY DEF LeaderExits, ToolEnds, Kill, TypeOK
<1>2. Writers' = Writers /\ Blocked' = Blocked
  BY <1>1, SameFiles
<1>3. IsGone(p) => IsGone(p)'
  BY DEF LeaderExits, ToolEnds, Kill, IsGone, Gone, TypeOK
<1>4. GoneSet' \in {GoneSet, GoneSet \cup {p}}
  BY <1>1, <1>3 DEF GoneSet, IsGone
<1>5. Late' \in {Late \cup {p}, Late \ {p}}
  BY <1>1 DEF Late, Outlived
<1> QED
  BY <1>1, <1>2, <1>4, <1>5 DEF Tree!Fate, Writers, Blocked, GoneSet, Late

LEMMA StepImplements ==
  ASSUME TypeOK, LifecycleInv, [Next]_vars
  PROVE  [Tree!Next]_(Tree!vars)
<1>1. UNCHANGED <<lock, Writers, GoneSet, Late, Blocked>> => UNCHANGED Tree!vars
  BY DEF Tree!vars, Writers, Blocked, GoneSet, Late
<1>2. CASE UNCHANGED vars
  <2>1. UNCHANGED <<lock, Writers, GoneSet, Late, Blocked>>
    BY <1>2 DEF vars, Writers, Blocked, GoneSet, Late, OnDisk, IsGone, Outlived
  <2> QED
    BY <1>1, <2>1
<1>3. CASE ~UNCHANGED vars
  BY <1>1, <1>3, Steps, ClaimImplements, InsideImplements, UseImplements, WriteImplements,
     ReturnImplements, FateImplements DEF Tree!Next
<1> QED
  BY <1>2, <1>3

LEMMA InitImplements == Init => Tree!Init
  BY DEF Init, Tree!Init, OnDisk, IsGone, Gone, Outlived

\* Every step of locks, guards, sweeps and tools is a step of WorkingTree: one
\* run at a time owns the tree, nobody else writes to it except what outlived
\* its driver, and the tree goes back without a file of its owner.
THEOREM LifecycleImplementsTree == Spec => ImplementsWorkingTree
  BY LifecycleInvariant, InitImplements, StepImplements, PTL
     DEF Spec, ImplementsWorkingTree, Tree!Spec

-----------------------------------------------------------------------------
(***************************************************************************)
(* The lock file of RunLock, which the lifecycle takes in one step. What   *)
(* it promises in spite of the races that the runs exhibit: a file that    *)
(* names a live process names one that is inside its run, for any number   *)
(* of processes and kills.                                                 *)
(*                                                                         *)
(* LockNamesARun is inductive with the types. The reason is the creating   *)
(* handle: a text reaches the path only while the path names the file of   *)
(* the writer, and that writer enters its run in the same step.            *)
(***************************************************************************)
\* The lock is free and every process is idle at the start.
LEMMA LockInitSound == L!Init => L!LockIsSound
<1> SUFFICES ASSUME L!Init PROVE L!LockIsSound
  OBVIOUS
<1>1. L!TypeOK
  BY LockAssumption DEF L!Init, L!TypeOK, L!Steps
<1>2. L!LockNamesARun
  BY DEF L!Init, L!LockNamesARun, L!OwnerOf
<1> QED
  BY <1>1, <1>2 DEF L!LockIsSound

\* The types of a step that moves one process and leaves the file alone.
LEMMA LockMoveTypeOK ==
  ASSUME L!TypeOK, NEW p \in Contender, NEW step \in L!Steps, L!Goto(p, step),
         file' \in L!File \cup {Nobody},
         seen' \in [Contender -> Contender \cup {Nobody}],
         retried' \in [Contender -> BOOLEAN], lockKills' \in 0 .. MaxLockKills
  PROVE  L!TypeOK'
BY DEF L!TypeOK, L!Goto

\* Every call of the operating system keeps the types.
LEMMA LockStepTypeOK ==
  ASSUME L!TypeOK, [L!Next]_(L!vars)
  PROVE  L!TypeOK'
<1>1. CASE UNCHANGED L!vars
  BY <1>1 DEF L!TypeOK, L!vars
<1>2. ASSUME NEW p \in Contender, L!Start(p) \/ L!Run(p) \/ L!WriteFails(p) \/ L!Kill(p)
      PROVE  L!TypeOK'
  <2> USE DEF L!Steps
  <2>1. CASE L!Start(p)
    BY <2>1, LockMoveTypeOK DEF L!Start, L!TypeOK
  <2>2. CASE L!Create(p)
    <3>1. file' \in L!File \cup {Nobody}
      BY <2>2 DEF L!Create, L!TypeOK, L!File
    <3>2. \E step \in L!Steps : L!Goto(p, step)
      BY <2>2 DEF L!Create, L!ClaimFailed
    <3> QED
      BY <2>2, <3>1, <3>2, LockMoveTypeOK DEF L!Create, L!TypeOK
  <2>3. CASE L!Write(p)
    <3>1. file' \in L!File \cup {Nobody}
      BY <2>3 DEF L!Write, L!TypeOK, L!File
    <3> QED
      BY <2>3, <3>1, LockMoveTypeOK DEF L!Write, L!TypeOK
  <2>4. CASE L!ReadOwner(p)
    <3>1. L!OwnerOf \in Contender \cup {Nobody}
      BY DEF L!OwnerOf, L!TypeOK, L!File
    <3> QED
      BY <2>4, <3>1, LockMoveTypeOK DEF L!ReadOwner, L!TypeOK
  <2>5. CASE L!Probe(p)
    BY <2>5, LockMoveTypeOK DEF L!Probe, L!TypeOK
  <2>6. CASE L!Unlink(p)
    BY <2>6, LockMoveTypeOK DEF L!Unlink, L!TypeOK
  <2>7. CASE L!Recheck(p)
    BY <2>7, LockMoveTypeOK DEF L!Recheck, L!TypeOK
  <2>8. CASE L!Release(p)
    BY <2>8, LockMoveTypeOK DEF L!Release, L!TypeOK
  <2>9. CASE L!WriteFails(p)
    BY <2>9, LockMoveTypeOK DEF L!WriteFails, L!ClaimFailed, L!TypeOK
  <2>10. CASE L!Kill(p)
    <3>1. lockKills' \in 0 .. MaxLockKills
      BY <2>10, LockAssumption DEF L!Kill, L!TypeOK
    <3> QED
      BY <2>10, <3>1, LockMoveTypeOK DEF L!Kill, L!TypeOK
  <2> QED
    BY <1>2, <2>1, <2>2, <2>3, <2>4, <2>5, <2>6, <2>7, <2>8, <2>9, <2>10 DEF L!Run
<1> QED
  BY <1>1, <1>2 DEF L!Next

\* A process that keeps the file leaves its run only when the file names
\* somebody else.
LEMMA LockSameFile ==
  ASSUME L!TypeOK, L!LockNamesARun, file' = file,
         NEW p \in Contender, NEW step, L!Goto(p, step),
         L!OwnerOf = p => step \in {"hold", "release", "dead"}
  PROVE  L!LockNamesARun'
BY DEF L!TypeOK, L!LockNamesARun, L!OwnerOf, L!IsAlive, L!Holders, L!Goto, L!File

\* A process outside its run is not named, unless it is dead.
LEMMA NamedIsInside ==
  ASSUME L!LockNamesARun, NEW p \in Contender, L!OwnerOf = p
  PROVE  lockPc[p] \in {"hold", "release", "dead"}
BY LockAssumption DEF L!LockNamesARun, L!IsAlive, L!Holders

\* Every call keeps the promise.
LEMMA LockStepNamesARun ==
  ASSUME L!TypeOK, L!LockNamesARun, [L!Next]_(L!vars)
  PROVE  L!LockNamesARun'
<1>1. CASE UNCHANGED L!vars
  BY <1>1 DEF L!vars, L!LockNamesARun, L!OwnerOf, L!IsAlive, L!Holders
<1>2. ASSUME NEW p \in Contender, L!Start(p) \/ L!Run(p) \/ L!WriteFails(p) \/ L!Kill(p)
      PROVE  L!LockNamesARun'
  <2>1. CASE L!Start(p)
    BY <2>1, LockSameFile, NamedIsInside DEF L!Start
  <2>2. CASE L!Create(p)
    <3>1. CASE file = Nobody
      <4>1. L!OwnerOf' = Nobody
        BY <2>2, <3>1 DEF L!Create, L!OwnerOf
      <4> QED
        BY <4>1 DEF L!LockNamesARun
    <3>2. CASE file # Nobody
      BY <2>2, <3>2, LockSameFile, NamedIsInside DEF L!Create, L!ClaimFailed
    <3> QED
      BY <3>1, <3>2
  <2>3. CASE L!Write(p)
    <3>1. CASE file # Nobody /\ file.creator = p
      <4>1. L!OwnerOf' \in {p, Nobody}
        <5>1. file \in L!File /\ file' = [file EXCEPT !.owner = p]
          BY <2>3, <3>1 DEF L!Write, L!TypeOK
        <5>2. file'.owner = p
          BY <5>1 DEF L!File
        <5> QED
          BY <5>2 DEF L!OwnerOf
      <4>2. lockPc'[p] = "hold"
        BY <2>3 DEF L!Write, L!Goto, L!TypeOK
      <4> QED
        BY <4>1, <4>2 DEF L!LockNamesARun, L!Holders
    <3>2. CASE ~(file # Nobody /\ file.creator = p)
      BY <2>3, <3>2, LockSameFile DEF L!Write
    <3> QED
      BY <3>1, <3>2
  <2>4. CASE L!ReadOwner(p)
    BY <2>4, LockSameFile, NamedIsInside DEF L!ReadOwner
  <2>5. CASE L!Probe(p)
    BY <2>5, LockSameFile, NamedIsInside DEF L!Probe
  <2>6. CASE L!Unlink(p)
    BY <2>6 DEF L!Unlink, L!LockNamesARun, L!OwnerOf
  <2>7. CASE L!Recheck(p)
    BY <2>7, LockSameFile DEF L!Recheck
  <2>8. CASE L!Release(p)
    BY <2>8 DEF L!Release, L!LockNamesARun, L!OwnerOf
  <2>9. CASE L!WriteFails(p)
    BY <2>9, LockSameFile, NamedIsInside DEF L!WriteFails, L!ClaimFailed
  <2>10. CASE L!Kill(p)
    BY <2>10, LockSameFile DEF L!Kill
  <2> QED
    BY <1>2, <2>1, <2>2, <2>3, <2>4, <2>5, <2>6, <2>7, <2>8, <2>9, <2>10 DEF L!Run
<1> QED
  BY <1>1, <1>2 DEF L!Next

\* runlock.ts: a lock file never outlives its run inside a live process, so a
\* refusal always points to a run that is going on, whatever processes race,
\* whatever writes fail and whoever is killed.
THEOREM LockStaysSound == LockSpec => []LockIsSound
<1>1. L!LockIsSound /\ [L!Next]_(L!vars) => L!LockIsSound'
  BY LockStepTypeOK, LockStepNamesARun DEF L!LockIsSound
<1> QED
  BY LockInitSound, <1>1, PTL DEF L!Spec, LockSpec, LockIsSound
==============================================================================
