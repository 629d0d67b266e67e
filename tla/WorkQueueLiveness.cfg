CONSTANTS
  i1 = i1
  i2 = i2
  w1 = w1
  w2 = w2
  p1 = p1
  NoItem = NoItem
  Items <- TwoItems
  Workers <- TwoWorkers
  Producers <- OneProducer
  ChanCap = 1
  BaseDelay = 1
  MaxDelay = 1
  BucketDelays <- NoBucketDelay
  MaxFailures = 0
SPECIFICATION FairSpec
PROPERTIES
  ShutDownCompletes
  SendersReleased
  ImplementsKeyQueueFairness
