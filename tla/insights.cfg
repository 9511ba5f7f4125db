SPECIFICATION FairSpec
CHECK_DEADLOCK FALSE
INVARIANTS
  InsightsTypeOK
  AbandonedExplained
  RowsComplete
PROPERTIES
  StatementEnds
