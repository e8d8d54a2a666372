SPECIFICATION IssuerSpec
CONSTANTS
  Calls = {c1, c2}
  Hashes = {h1, h2}
  ProfileLens = {28}
  SingleProfile = 28
  Modes = {"DRAFT", "DEMO"}
  Validity = 1
  MaxRound = 2
  None = None
  Absent = Absent
  Empty = Empty
  Garbled = Garbled
  Placeholder = Placeholder
  OtherPayload = OtherPayload
  Unprefixed = Unprefixed
CONSTRAINTS OneNetwork NoEvidenceOption
SYMMETRY Symmetry
INVARIANTS
  IssuerTypeOK
  ReceiptOnDiskIsTrue
  NoAnchorWithoutTimestamp
  SuccessMeansReceipt
  OrphansAreExplained
  WrittenReceiptVerifies
PROPERTY UsesAnchorOnce
