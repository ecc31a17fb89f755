SPECIFICATION Spec
CONSTANTS
  Process = {p1, p2}
  Id = {c1, c2}
  Book = {b1}
  MaxRuns = 3
  MaxEdits = 2
  None = None
SYMMETRY Symmetry
CHECK_DEADLOCK FALSE
INVARIANTS PackagesAreSound RunsRestOnUnbrokenHistory
