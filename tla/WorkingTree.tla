----------------------------- MODULE WorkingTree -----------------------------
(***************************************************************************)
(* What the lifecycle of a proving run promises about the working tree,    *)
(* without locks, guards, tools or sweeps: one run at a time owns the      *)
(* tree, nobody else changes it, and the owner gives it back without a     *)
(* file of its own unless the operating system keeps one. A process that   *)
(* disappears loses the tree to the next owner, and what outlived its      *)
(* driver is the one writer that no owner controls.                        *)
(***************************************************************************)
EXTENDS FiniteSets

CONSTANTS Process, None

VARIABLES
  owner,    \* the run that owns the tree, or None
  writers,  \* processes that have a file in the tree
  gone,     \* processes that no longer exist
  late,     \* processes whose tools may write after their end
  blocked   \* whether the tree holds a file that cannot be removed

vars == <<owner, writers, gone, late, blocked>>

Init ==
  /\ owner = None
  /\ writers = {}
  /\ gone = {}
  /\ late = {}
  /\ blocked = FALSE

Claim(p) ==
  /\ owner \notin Process \ gone
  /\ owner' = p
  /\ UNCHANGED <<writers, gone, late, blocked>>

\* The owner removes files of anybody and writes its own.
Use(p) ==
  /\ owner = p
  /\ writers' \in SUBSET (writers \cup {p})
  /\ blocked' \in BOOLEAN
  /\ UNCHANGED <<owner, gone, late>>

\* The tree goes back, by a normal end or by the end of the process.
Return(p) ==
  /\ owner = p
  /\ p \in writers => p \in late \/ blocked
  /\ owner' = None
  /\ gone' \in {gone, gone \cup {p}}
  /\ UNCHANGED <<writers, late, blocked>>

\* A process disappears, or the fate of what it started changes.
Fate(p) ==
  /\ gone' \in {gone, gone \cup {p}}
  /\ late' \in {late \cup {p}, late \ {p}}
  /\ UNCHANGED <<owner, writers, blocked>>

LateWrite(p) ==
  /\ p \in late
  /\ writers' \in {w \cup {p} : w \in SUBSET writers}
  /\ blocked' \in BOOLEAN
  /\ UNCHANGED <<owner, gone, late>>

Next ==
  \E p \in Process :
    Claim(p) \/ Use(p) \/ Return(p) \/ Fate(p) \/ LateWrite(p)

Spec == Init /\ [][Next]_vars
==============================================================================
