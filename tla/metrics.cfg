SPECIFICATION MetricsSpec
CHECK_DEADLOCK FALSE
CONSTANTS
  Second = 2
  NowMs = 9
  Absent = Absent
  NaN = NaN
  BadJson = BadJson
  DatumBytes = 2
  DimensionBytes = 1
  MaxDatums = 2
  MaxRequestBytes = 5
  MaxDimensions = 2
  Vector = 1
  Chunks <- ChunksOf
  Settings <- SettingsOf
INVARIANTS
  SentOnce
  ReadExact
