SPECIFICATION Spec
CHECK_DEADLOCK FALSE
CONSTANTS
  null = null
  no_time = no_time
  Row <- Rows
  NullRow = null
  NoTime = no_time
  NowMs = 2
  MaxCount = 3
  MaxBytes = 10
  Overhead = 2
  MaxSpan = 3
  MinInt <- Lowest
  MaxInt = 5
  MaxChunk = 4
INVARIANTS
  RequestsValid
  RequestsFull
  StoredInOrder
  DoubtIsLastBatch
