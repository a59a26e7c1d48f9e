SPECIFICATION FairSpec
CONSTANTS
  t1 = t1
  t2 = t2
  t3 = t3
  Nobody = Nobody
  N = 5
  Task <- ThreeTasks
  Home <- TwoAway
  Peers <- ToC
  Locations <- AllTiles
  Remote <- None
  TaskOne = Nobody
  NSlots = 2
  StaleCmd <- Warm
CHECK_DEADLOCK FALSE
PROPERTIES ServersProceed PairsMeet
