SPECIFICATION MCSpec
CONSTANTS
  put = put
  start = start
  create = create
  NoCall = NoCall
  Call = {put, start, create}
  Write = {put, create}
  Idempotent = {create}
  LimitRetried = {start}
  Retries = 1
INVARIANTS
  TypeOK
  RequestsBounded
  AtMostOnce
  OutcomeTruthful
  WritesSerialized
PROPERTIES
  ImplementsRemoteCall
  CallsEnd
