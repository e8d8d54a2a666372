SPECIFICATION FairSpec
CONSTANTS
  Threads = {t1, t2}
  k1 = k1
  k2 = k2
  p1 = p1
  p2 = p2
  Accounts = {k1, k2}
  Key = k1
  Ed25519 = {k1, k2}
  Prefixes = {p1, p2}
  Allowed = {p1}
  MinFee = 2
  MaxFee = 4
  MaxNote = 3
  Txns <- MCTxns
  None = None
  Garbled = Garbled
  GarbledCrc = GarbledCrc
INVARIANTS
  TypeOK
  AddressIsTheKeys
  SignatureFits
  SentMovesNothing
PROPERTIES
  AddressStays
  UseEnds
