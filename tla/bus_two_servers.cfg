\* Two servers poll one queue, nothing fails.
CONSTANTS
  s1 = s1
  s2 = s2
  w1 = w1
  w2 = w2
  Servers = {s1, s2}
  Workers = {w1, w2}
  Home <- TwoServers
  Queues = {"events"}
  Subscribers = {}
  Source <- QueueOfHandler
  MaxMessages = 3
  MaxBatch = 3
  MaxStamp = 1
  MaxFailures = 0
  MaxCrashes = 0
SPECIFICATION FairSpec
INVARIANTS
  ReservationHasOwner
PROPERTIES
  EveryMessageElaborated
\* All messages handled and no more to send: the timers find nothing to do.
CHECK_DEADLOCK FALSE
