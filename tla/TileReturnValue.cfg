SPECIFICATION Spec
CONSTANTS
  a = a
  b = b
  c = c
  d = d
  k1 = k1
  k2 = k2
  Nobody = Nobody
  Kernel <- TwoKernels
  Task <- TwoTasks
  KernelOf <- OneEach
  Peers <- BothWays
  Further <- NoCalls
  TaskOne = a
  NSlots = 2
  StaleCmd <- WarmSlots
CHECK_DEADLOCK FALSE
PROPERTY NotFoundIsTrue
