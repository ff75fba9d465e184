SPECIFICATION FairSpec
CONSTANTS
  t1 = t1
  t2 = t2
  t3 = t3
  Threads <- ThreeThreads
  MaxHandle = 2
  LoopIds = {1, 2}
  Methods = {"refresh", "ready", "start", "stop"}
INVARIANTS TypeOK EveryRefresherReachable NoCallOutlivesClose EveryLoopHasAnOwner ClosedChildrenDropOut UnloadIsSafe
PROPERTY CloseAndStopReturn
CHECK_DEADLOCK FALSE
