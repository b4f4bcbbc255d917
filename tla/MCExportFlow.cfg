SPECIFICATION Spec
CONSTANTS
  MaxSheetRows = 2
  Jobs <- FairAll
  Repeats <- FairRepeats
  MaxExports = 2
  SlugMax = 2
  PreviewRows = 2
INVARIANTS TypeOK
PROPERTIES ExistingKept ExportEnds
CHECK_DEADLOCK FALSE
