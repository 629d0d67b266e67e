CONSTANTS
  i1 = i1
  i2 = i2
  w1 = w1
  w2 = w2
  p1 = p1
  NoItem = NoItem
  Items <- TwoItems
  Workers <- TwoWorkers
  Producers <- OneProducer
  ChanCap = 1
  BaseDelay = 2
  MaxDelay = 3
  BucketDelays <- NoBucketDelay
  MaxFailures = 1
SPECIFICATION Spec
SYMMETRY Symmetry
INVARIANTS
  TypeOK
  QueueInv
  Exclusive
  NoStranded
PROPERTIES
  DelayHonoured
  ImplementsKeyQueue
