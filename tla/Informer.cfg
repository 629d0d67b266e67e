CONSTANTS
  a = a
  b = b
  Keys <- TwoKeys
  NoKey = NoKey
  MaxChanges = 2
  MaxLists = 2
SPECIFICATION FairSpec
INVARIANTS
  TypeOK
  FifoInv
  PipelineFollows
  DeletionsMatter
  SyncedMeansHandled
  DeletionsAreTold
PROPERTIES
  EventuallyCaughtUp
CHECK_DEADLOCK FALSE
