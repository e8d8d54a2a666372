SPECIFICATION Spec
CONSTANTS
  Calls = {c1}
  Hashes = {h1}
  ProfileLens = {28}
  None = None
  Validity = 2
  MaxRound = 2
INVARIANT
  RecordNamesItsNetwork
