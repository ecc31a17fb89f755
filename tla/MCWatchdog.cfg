\* Three runs one after the other on two targets; MaxLedger is large enough for
\* a target to pass its grace, a deposit to expire and a target to grow too old.
SPECIFICATION Spec
CONSTANTS
  Run = {r1, r2, r3}
  LastTarget = 2
  Graces = {1}
  MaxAge = 3
  Lifetime = 1
  MaxLedger = 5
  MaxKills = 1
  Concurrent = 1
  None = None
SYMMETRY RunSymmetry
INVARIANTS JournalIsSound LiveDepositIsJournaled
  OnlyLatePackagesAreDisputed
PROPERTIES RetryOnlyAfterDeadDeposit QuietExitLeavesNothingInDoubt
CHECK_DEADLOCK FALSE
