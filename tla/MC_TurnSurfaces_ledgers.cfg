SPECIFICATION PartSpec
CONSTANTS
  RetryCap = 1
  MaxTurns = 2
  Budgets <- CardsOrBubbles
  MaxText <- FewTexts
  MaxFailures = 1
  None = None
INVARIANTS NoStaleLedger UserTold NoOldAnswer QuietIsCurrent
PROPERTIES LedgerKept FinalStays
CHECK_DEADLOCK FALSE
