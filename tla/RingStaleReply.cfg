SPECIFICATION Spec
CONSTANTS
  t1 = t1
  t2 = t2
  t3 = t3
  Nobody = Nobody
  N = 3
  Task <- ThreeTasks
  Home <- OneAway
  Peers <- BesideAndAway
  Locations <- AllTiles
  Remote <- JustA
  TaskOne = Nobody
  NSlots = 2
  StaleCmd <- Warm
CHECK_DEADLOCK FALSE
INVARIANTS OneTrace
