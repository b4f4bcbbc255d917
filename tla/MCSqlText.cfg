SPECIFICATION Spec
CONSTANTS
  MaxLexemes = 6
  Symbols <- MCSymbols
  Texts <- MCTexts
  Leads <- MCLeads
  Targets <- MCTargets
  Values <- MCValues
  Filters <- MCFilters
  Tails <- MCTails
CHECK_DEADLOCK FALSE
INVARIANTS
  TypeOK
  Ordered
  MaskAligned
  LexersAgree
  KindIsFirstWord
  PreviewIsExact
