CONSTANTS
  a = a
  b = b
  i1 = i1
  i2 = i2
  u1 = u1
  u2 = u2
  c1 = c1
  Names <- TwoNames
  Clients <- OneClient
  Informers <- TwoInformers
  Callers <- TwoCallers
  Scopes <- AllOrOne
  Addresses = {m1, m2, m3, m4, m5, m6}
  MaxEvents = 2
  MaxCalls = 5
  Contents = {empty, full}
  Empty = empty
  NoObject = NoObject
  NoInformer = NoInformer
  Nobody = Nobody
SPECIFICATION FairSpec
INVARIANTS
  TypeOK
  Isolated
  RunOnce
  WaitCoversMine
  ListerFollows
PROPERTIES
  ImplementsObjectStore
  CallsReturn
CHECK_DEADLOCK FALSE
