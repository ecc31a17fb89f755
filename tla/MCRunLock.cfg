CONSTANTS
  Contender = {p1, p2, p3}
  MaxLockKills = 2
  WritesFail = TRUE
  Nobody = Nobody
SPECIFICATION FairLockSpec
INVARIANTS LockIsSound
PROPERTY StaleLockIsReplaced
