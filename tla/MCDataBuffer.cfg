SPECIFICATION Spec
CONSTANTS
  Keys <- SmallKeys
  Values <- SmallValues
  Width <- SmallWidth
  MaxCell = 2
  Tables <- SmallTables
  PageSize = 2
  NewLines <- SmallLines
  Others <- SmallOthers
  MaxSteps = 2
  MaxOthers = 1
  MaxAsked = 1
INVARIANTS TypeOK WriteMakesItSo UndoRestores FlagTellsUnsaved
PROPERTIES NoLostUpdate
CHECK_DEADLOCK FALSE
