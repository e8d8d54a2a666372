SPECIFICATION Spec
CONSTANTS
  Verifiers = {v1}
  Hashes = {h1, h2}
  Batchings = {b1}
  Ids = {x1}
  Rounds = {r1, r2}
  OtherPayload = OtherPayload
  Unprefixed = Unprefixed
  None = None
  MaxChanges = 0
CONSTRAINT Constraint
SYMMETRY Symmetry
INVARIANTS
  RoundIsConfirmed
