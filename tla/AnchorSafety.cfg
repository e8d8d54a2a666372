SPECIFICATION Spec
CONSTANTS
  Calls = {c1, c2}
  Hashes = {h1, h2}
  ProfileLens = {905, 906}
  None = None
  Validity = 2
  MaxRound = 3
CONSTRAINTS FewRounds FewClients
SYMMETRY Symmetry
INVARIANTS
  TypeOK
  RecordIsHonest
  WaitedRecordIsConfirmed
  SubmissionIsNamed
  DefaultClientRightNetwork
PROPERTY
  KeepsPromise
