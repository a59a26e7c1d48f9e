SPECIFICATION Spec
CONSTANTS
  a = a
  b = b
  c = c
  d = d
  k1 = k1
  k2 = k2
  Nobody = Nobody
  Kernel <- TwoKernels
  Task <- FourTasks
  KernelOf <- TwoEach
  Peers <- Neighbours
  Further <- NoCalls
  TaskOne = a
  NSlots = 3
  StaleCmd <- WarmSlot
CHECK_DEADLOCK FALSE
INVARIANT OneTrace
