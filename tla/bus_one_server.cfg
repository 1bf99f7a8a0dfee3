\* One server, two queues, overlapping ticks, one failed statement, one crash.
CONSTANTS
  s1 = s1
  s2 = s2
  w1 = w1
  w2 = w2
  Servers = {s1}
  Workers = {w1, w2}
  Home <- OneServer
  Queues = {"commands", "events"}
  Subscribers = {"view"}
  Source <- QueueOfHandler
  MaxMessages = 3
  MaxBatch = 2
  MaxStamp = 1
  MaxFailures = 1
  MaxCrashes = 1
SPECIFICATION Spec
INVARIANTS
  CopiesAreAccountedFor
  DeliveredInOrder
\* All messages handled and no more to send: the timers find nothing to do.
CHECK_DEADLOCK FALSE
