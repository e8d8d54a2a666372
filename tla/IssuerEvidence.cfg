SPECIFICATION IssuerSpec
CONSTANTS
  Calls = {c1}
  Hashes = {h1}
  ProfileLens = {28}
  SingleProfile = 28
  Modes = {"DRAFT", "DEMO"}
  Validity = 1
  MaxRound = 2
  None = None
  Absent = Absent
  Empty = Empty
  Garbled = Garbled
  Placeholder = Placeholder
  OtherPayload = OtherPayload
  Unprefixed = Unprefixed
CONSTRAINTS OneNetwork
INVARIANT EvidenceIsWritten
