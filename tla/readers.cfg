SPECIFICATION ReadersSpec
CHECK_DEADLOCK FALSE
CONSTANTS
  Time = {1, 2, 3}
  StartTime = 2
  EndTime = 4
  PageSize = 2
  MaxRowsChosen = {0, 3}
  VectorSize = 1
  NoToken = NoToken
  MaxEvents = 4
  MaxRestarts = 1
  Alarms <- AlarmsOf
  AlarmPageSize = 1
  ChunkSize = 2
  MaxMoves = 2
  Graphs <- GraphsOf
  NoId = None
  Times <- TimesOf
  MaxMs = 8
  Vector = 2
  StartNow = 3
  MaxNow = 5
  Names <- NamesOf
  Fold <- FoldOf
  Secrets = {"s", "t"}
  SecretType <- SecretTypeOf
  SecretRegion <- SecretRegionOf
  Regions = {"r1", "r2"}
  EnvRegion = None
  Offers <- OffersOf
  None = None
  GroupLimit = 1
  MaxChanges = 2
INVARIANTS
  TypeOK
  ScanExact
  InsertsNeverSkip
  DeletesNeverRepeat
  AlarmsExact
  GraphPagesIrrelevant
  CatalogFaithful
PROPERTIES
  ReadersEnd
