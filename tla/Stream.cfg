SPECIFICATION FairSpec
CONSTANTS
  ItemCapacity = 2
  EventCapacity = 2
  MaxBatch = 2
  MaxEventsOfEntry = 2
  MaxRead = 5
INVARIANTS TypeOK NothingLost
PROPERTIES StopsAtFullQueue ImplementsLogDelivery ShutdownEndsPipeline HandleDropEndsPipeline OneShotEnds EveryEventArrives
