CONSTANTS
  Contender = {p1, p2}
  MaxLockKills = 0
  WritesFail = FALSE
  Nobody = Nobody
SPECIFICATION LockSpec
INVARIANT OneHolder
