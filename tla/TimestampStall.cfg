SPECIFICATION FairSpec
CONSTANTS
  Calls = {c1}
  TSAs = {t1, t2}
  Digests = {d1}
  t1 = t1
  t2 = t2
  d1 = d1
  c1 = c1
  None = None
  Algs = {"sha-256"}
  Sizes = {32}
  Chains <- MCOneChain
  DefaultChain <- MCDefaultChain
PROPERTY AcquisitionEnds
