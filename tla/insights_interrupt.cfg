SPECIFICATION InsightsSpec
CHECK_DEADLOCK FALSE
INVARIANTS
  InterruptStops
