\* Two servers start and poll one queue; two statements fail, each server
\* crashes once.  All time stamps are equal: any order may be read.
CONSTANTS
  s1 = s1
  s2 = s2
  w1 = w1
  w2 = w2
  Servers = {s1, s2}
  Workers = {w1, w2}
  Home <- TwoServers
  Queues = {"events"}
  Subscribers = {"view"}
  Source <- QueueOfHandler
  MaxMessages = 2
  MaxBatch = 2
  MaxStamp = 0
  MaxFailures = 2
  MaxCrashes = 1
SPECIFICATION FairSpec
INVARIANTS
  TypeOK
  ElaboratedWasDelivered
  CopiesAreAccountedFor
PROPERTIES
  FreeMessageIsTaken
\* All messages handled and no more to send: the timers find nothing to do.
CHECK_DEADLOCK FALSE
