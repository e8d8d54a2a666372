SPECIFICATION FiniteResponses
CONSTANTS
  Calls = {c1, c2}
  TSAs = {t1, t2}
  Digests = {d1, d2}
  t1 = t1
  t2 = t2
  d1 = d1
  c1 = c1
  None = None
  Algs = {"sha-256", "md5"}
  Sizes = {32, 64}
  Chains <- MCChains
  DefaultChain <- MCDefaultChain
CONSTRAINT FewRequests
INVARIANTS
  TypeOK
  FirstSuccessWins
  GivesUpAtTheEnd
PROPERTIES
  KeepsPromise
  AcquisitionEnds
