------------------------------ MODULE MCRunLock ------------------------------
(***************************************************************************)
(* Instances of RunLock for TLC: contenders for one lock file, of which    *)
(* some can be killed. The names differ from those of RunLifecycle, so     *)
(* that RunLifecycleProofs can speak of the lock file beside the lifecycle *)
(* that takes it in one step.                                              *)
(***************************************************************************)
EXTENDS Naturals

CONSTANTS
  Contender,     \* processes that start runs on one working tree
  MaxLockKills,  \* bound: contenders killed
  WritesFail,    \* whether writeSync can fail
  Nobody         \* no file, or a file that names nobody

ASSUME LockAssumption ==
  /\ MaxLockKills \in Nat
  /\ WritesFail \in BOOLEAN
  /\ Nobody \notin Contender

VARIABLES lockPc, file, seen, retried, lockKills

L == INSTANCE RunLock WITH
  Process <- Contender, MaxKills <- MaxLockKills, None <- Nobody,
  pc <- lockPc, kills <- lockKills

LockSpec == L!Spec
FairLockSpec == L!FairSpec

\* runlock.ts: a lock file never outlives its run inside a live process.
LockIsSound == L!LockIsSound

\* runlock.ts: a stale lock is taken over, so it does not stop the machine.
StaleLockIsReplaced == L!StaleLockIsReplaced

\* runlock.ts lines 88-93: writing through the creating handle leaves no
\* moment in which the lock names nobody, so one run at a time holds it.
OneHolder == L!OneHolder
==============================================================================
