SPECIFICATION Spec
CONSTANTS
  Loaders = {l1, l2}
  Files = {1, 2, 3}
  Skipped = {3}
  Texts <- MCTexts
  ActTypes = {t1, t2}
  Fields = {f1}
  Labels = {e1}
  SchemaTexts = {s1, s2}
  Releases <- MCReleases
  t1 = t1
  t2 = t2
  f1 = f1
  e1 = e1
  s1 = s1
  s2 = s2
  Absent = Absent
  None = None
CONSTRAINT Constraint
ACTION_CONSTRAINT Upgrades
SYMMETRY Symmetry
INVARIANTS
  TypeOK
  CatalogueIsWhole
  DigestCoversEntries
  ValidMeansSatisfied
  NoFalseAlarm
