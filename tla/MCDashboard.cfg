\* Two posts of a run and one answer, with a restart; the store remembers one
\* run, and the window of a snapshot can close before, during and after the
\* proof.
SPECIFICATION FairSpec
CONSTANTS
  Request = {q1, q2}
  Answer = {a1}
  MaxRemembered = 1
  MaxAge = 1
  Margin = 1
  MaxLedger = 3
  MaxRestarts = 1
  None = None
INVARIANTS StoreIsSound PagesAreTrue
PROPERTIES ResultsAreKept EveryRunEnds
CHECK_DEADLOCK FALSE
