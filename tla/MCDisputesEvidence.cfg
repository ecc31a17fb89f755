CONSTANTS
  a1 = a1
  a2 = a2
  issuer = issuer
  operator = operator
  custody = custody
  customer = customer
  None = None
  NativeAsset = NativeAsset
  Contract = Contract
  Asset = {a1}
  Address <- MCAddress
  Signers <- MCAddress
  ClassicIssuer <- MCClassicIssuer
  Admins <- MCAdmins
  ReserveLists <- MCReserveLists
  MaxReserves = 1
  Balances = {0}
  MaxI128 = 1
  MaxU32 = 3
  MaxAge = 3
  Modulus = 2
  LeafSets <- MCLeafSets
  Totals = {1}
  MaxProofs = 2
  MaxAttestations = 2
  MaxObservations = 0
  MaxKeys = 1
  AnswerWindow = 1
  TargetMaxAge = 1
  Deposit = 1
  BondAmounts = {0, 1}
  InitialXlm <- MCXlm
  Disputers = {customer}
  EmailProofs <- MCEmailProofs
  MaxDisputes = 2
SPECIFICATION FairSpec
INVARIANTS
  DisputesTypeOK
  OneDisputePerCustomer
  DisputesRestOnEvidence
  OutcomesAreRight
PROPERTIES
  SettlementsArePermanent
  DisputesAreSettled
