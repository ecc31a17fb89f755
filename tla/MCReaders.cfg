\* The view of an asset that moved from an older registry to a newer one, read
\* while reserves, balances, ledgers and observations change; and the
\* queries of two registries with full pages, ledgers that hold two
\* attestations and a window that moves.
SPECIFICATION ReadersSpec
CONSTANTS
  Generations = 2
  Legacy = {1}
  r1 = r1
  r2 = r2
  ReserveSets <- MCReserveSets
  Kinds = {"page", "entry", "observe", "diagnose"}
  Window = 0
  MaxLedger = 2
  MaxObservations = 2
  HistoryGenerations = 2
  Limit = 1
  Scan = 2
  Retention = 2
  From = 0
  RangeCount = 1
  HistoryMaxLedger = 4
  MaxEvents = 2
  PerLedger = 2
INVARIANTS
  ViewIsSound CollectedIsSeamless ClaimsAreTrue
PROPERTIES WalkSkipsNothing RequestsAdvance
CHECK_DEADLOCK FALSE
