SPECIFICATION FairSpec
CONSTANTS
  a = a
  b = b
  c = c
  d = d
  k1 = k1
  k2 = k2
  Nobody = Nobody
  Kernel <- TwoKernels
  Task <- ThreeTasks
  KernelOf <- OnTwoKernels
  Peers <- NoPeers
  Further <- OtherCalls
  TaskOne = a
  NSlots = 3
  StaleCmd <- WarmSlot
CHECK_DEADLOCK FALSE
PROPERTY CallsReturn
