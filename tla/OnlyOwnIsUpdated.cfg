CONSTANTS
  t1 = t1
  t2 = t2
  c1 = c1
  c2 = c2
  p1 = p1
  p2 = p2
  w1 = w1
  w2 = w2
  Absent = Absent
  NoName = NoName
  NoOwner = NoOwner
  Dropped = Dropped
  Tampered = Tampered
  Pending = Pending
  NoTemplate = NoTemplate
  Templates = {t1}
  ConfigMaps = {c1}
  Pods = {}
  Workers = {w1}
  NS <- OneNamespace
  DataKeys = {"k"}
  Texts = {"plain"}
  PodStates = {"a"}
  InitialServers <- OneTemplate
  EnvOps = {"tamper", "deleteConfigMap", "createForeign"}
  MaxChanges = 3
  MaxLag = 0
  MaxBacklog = 2
  MaxWaiting = 1
  MaxFaults = 0
  MaxRestarts = 0
  MaxDisturbances = 3
SPECIFICATION Spec
PROPERTIES
  OnlyOwnIsUpdated
CHECK_DEADLOCK FALSE
