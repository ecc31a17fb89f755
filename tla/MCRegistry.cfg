CONSTANTS
  a1 = a1
  issuer = issuer
  custody = custody
  cold = cold
  stranger = stranger
  None = None
  NativeAsset = NativeAsset
  Asset <- MCAsset
  Address <- MCAddress
  Signers <- MCSigners
  ClassicIssuer <- MCClassicIssuer
  Admins <- MCAdmins
  ReserveLists <- MCReserveLists
  MaxReserves = 2
  Balances <- MCBalances
  MaxI128 = 1
  MaxU32 = 2
  MaxAge = 1
  Modulus = 2
  LeafSets <- MCLeafSets
  Totals = {1}
  MaxProofs = 2
  MaxAttestations = 2
  MaxObservations = 2
SPECIFICATION RegistrySpec
INVARIANTS
  TypeOK
  SlotIsSound
  AttestationsAreProved
  ObservationsCompareSameReserves
  FirstLowIsLeast
  EntriesAreConsented
PROPERTY RecordsArePermanent
