SPECIFICATION Spec
CONSTANTS
  Verifiers = {v1, v2}
  Hashes = {h1, h2}
  Batchings = {b1}
  Ids = {x1}
  Rounds = {r1}
  OtherPayload = OtherPayload
  Unprefixed = Unprefixed
  None = None
  MaxChanges = 2
CONSTRAINT Constraint
SYMMETRY Symmetry
INVARIANTS
  TypeOK
  OkMeansBound
  VerdictsAgree
  IssuedNeverFails
