SPECIFICATION InterchangeSpec
CONSTANTS
  MaxSheetRows = 2
  Jobs <- AllJobs
  Repeats <- RepeatJobs
  MaxExports = 2
  SlugMax = 2
  PreviewRows = 2
  ImportBatch = 1
INVARIANTS EveryRowCounted ReadsBack NullToldFromEmpty ImportedIsExported
CHECK_DEADLOCK FALSE
