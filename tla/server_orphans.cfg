SPECIFICATION Spec
CONSTANTS
  w1 = w1
  w2 = w2
  s1 = s1
  g1 = g1
  st1 = st1
  d1 = d1
  Worker = {w1, w2}
  Server = {s1}
  ServerOf <- OneServer
  NoWorker = NoWorker
  Group = {g1}
  Stream = {st1}
  NoStream = NoStream
  Malformed = Malformed
  Time = {1, Malformed}
  Days = {d1}
  NoDays = NoDays
  Request <- PutDelete
  MaxRequests = 2
  MaxRestarts = 0
INVARIANTS
  NoOrphans
