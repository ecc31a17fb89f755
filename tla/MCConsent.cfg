\* Two prepared calls with the consent of two addresses, so that an entry of one
\* call can be given to the other; the time bounds and the signatures expire.
SPECIFICATION Spec
CONSTANTS
  Call = {c1, c2}
  Address = {a1, a2}
  Lifetime = 1
  Validity = 2
  MaxLedger = 3
  MaxOther = 1
  None = None
SYMMETRY Symmetry
INVARIANTS SubmissionsAreSound AcceptedIsExecuted
CHECK_DEADLOCK FALSE
