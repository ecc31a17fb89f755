CONSTANTS
  a1 = a1
  a2 = a2
  issuer = issuer
  operator = operator
  custody = custody
  customer = customer
  None = None
  NativeAsset = NativeAsset
  Contract = Contract
  Asset = {a1, a2}
  Address <- MCAddress
  Signers <- MCAddress
  ClassicIssuer <- MCClassicIssuer
  Admins <- MCAdmins
  ReserveLists <- MCReserveLists
  MaxReserves = 1
  Balances = {0}
  MaxI128 = 2
  MaxU32 = 2
  MaxAge = 2
  Modulus = 3
  LeafSets = {{0, 1}}
  Totals = {1}
  MaxProofs = 2
  MaxAttestations = 1
  MaxObservations = 0
  MaxKeys = 1
  AnswerWindow = 0
  TargetMaxAge = 1
  Deposit = 1
  BondAmounts = {0, 1}
  InitialXlm <- MCEscrowXlm
  Disputers = {customer}
  EmailProofs <- MCTwoCustomers
  MaxDisputes = 2
SPECIFICATION Spec
INVARIANTS
  EscrowIsSound
  BalancesAreExplained
