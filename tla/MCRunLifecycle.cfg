SPECIFICATION Spec
CONSTANTS
  p1 = p1
  p2 = p2
  p3 = p3
  Process = {p1, p2}
  MaxKills = 1
  Strays = TRUE
  Stuck = {"inner"}
  None = None
SYMMETRY Symmetry
CHECK_DEADLOCK FALSE
INVARIANTS
  TreeIsSound
  ProofIsFromOwnFiles
PROPERTIES
  ImplementsWorkingTree
