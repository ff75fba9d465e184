SPECIFICATION Spec
CONSTANTS
  t1 = t1
  t2 = t2
  t3 = t3
  Threads <- TwoThreads
  MaxHandle = 2
  LoopIds = {1, 2}
  Methods = {"refresh", "ready", "start", "stop"}
CHECK_DEADLOCK FALSE
INVARIANT CloseEndsTheLoop
