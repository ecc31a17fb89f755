\* Trees of two and of four leaves in two registries of the configured network
\* and a third registry on another network; two attestations, of which the
\* second may come before, during or after a check, and a claim that lapses.
SPECIFICATION Spec
CONSTANTS
  Depth <- ThreeDepths
  Elsewhere = {3}
  Asset = {a1}
  Customer = {c1}
  NoAddress = NoAddress
  Padding = Padding
  Change = {"none", "format", "network", "registry", "asset", "snapshot", "context", "attestation", "index", "id", "balance", "siblings"}
  Window = 0
  MaxLedger = 2
  MaxAttestations = 2
INVARIANTS IncludedMeansCommitted CustomersAreAnswered
CHECK_DEADLOCK FALSE
