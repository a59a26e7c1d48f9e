SPECIFICATION FairSpec
CONSTANTS
  t1 = t1
  t2 = t2
  t3 = t3
  Nobody = Nobody
  N = 2
  Task <- TwoTasks
  Home <- Apart
  Peers <- OnePair
  Locations <- AllTiles
  Remote <- None
  TaskOne = Nobody
  NSlots = 1
  StaleCmd <- Warm
CHECK_DEADLOCK FALSE
PROPERTIES ServersProceed
