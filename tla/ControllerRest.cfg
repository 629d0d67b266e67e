CONSTANTS
  t1 = t1
  t2 = t2
  c1 = c1
  c2 = c2
  p1 = p1
  p2 = p2
  w1 = w1
  w2 = w2
  Absent = Absent
  NoName = NoName
  NoOwner = NoOwner
  Dropped = Dropped
  Tampered = Tampered
  Pending = Pending
  NoTemplate = NoTemplate
  Templates = {t1}
  ConfigMaps = {c1}
  Pods = {p1}
  Workers = {w1}
  NS <- OneNamespace
  DataKeys = {k1, k2}
  Texts = {"pods", "bad"}
  PodStates = {"a"}
  InitialServers <- EmptyServer
  EnvOps = {"createTemplate", "editTemplate", "deleteTemplate", "createForeign", "tamper", "deleteConfigMap", "pod"}
  MaxChanges = 3
  MaxLag = 1
  MaxBacklog = 1
  MaxWaiting = 1
  MaxFaults = 1
  MaxRestarts = 1
  MaxDisturbances = 3
SPECIFICATION Spec
INVARIANTS
  TypeOK
  CacheFollows
  RestMeansConverged
SYMMETRY KeySymmetry
CHECK_DEADLOCK FALSE
