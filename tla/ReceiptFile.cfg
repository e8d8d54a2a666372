SPECIFICATION Spec
CONSTANTS
  Keys <- MCKeys
  BrokenKey = BrokenKey
  NumberKey = NumberKey
  NumberText = "7"
  Limit = 8
  Scales = {1, 2, 4}
  None = None
  BuildArgs <- MCBuildArgs
  InputDicts <- MCInputDicts
  Texts <- MCTexts
  EditPaths <- MCEditPaths
  EditNodes <- MCEditNodes
  MaxEdits = 2
CONSTRAINT FewEdits
INVARIANTS
  TypeOK
  ReceiptSurvives
  SubstitutionShows
  ReadingSettles
  StrictIsExact
  OneReading
