SPECIFICATION Spec
CONSTANTS
  a = a
  b = b
  c = c
  idle = idle
  NULL = NULL
  Idle = idle
  Task <- MCTask
  Prio <- MCPrio
  DelayArgs <- MCZeroDelay
  TimeMod = 16
  MaxTicks = 7
CHECK_DEADLOCK FALSE
INVARIANT ExpiredRemoved
