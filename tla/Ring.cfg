SPECIFICATION Spec
CONSTANTS
  t1 = t1
  t2 = t2
  t3 = t3
  Nobody = Nobody
  N = 3
  Task <- ThreeTasks
  Home <- OneAway
  Peers <- BesideAndAway
  Locations <- AllTiles
  Remote <- JustB
  TaskOne = Nobody
  NSlots = 2
  StaleCmd <- Warm
CHECK_DEADLOCK FALSE
INVARIANTS TypeOK RepliesInOrder OneTrace SenderWillBeTold NoMissedPair ChannelConnected
PROPERTIES TasksRendezvous
