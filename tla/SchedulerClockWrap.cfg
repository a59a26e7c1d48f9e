SPECIFICATION Spec
CONSTANTS
  a = a
  b = b
  c = c
  idle = idle
  NULL = NULL
  Idle = idle
  Task <- MCTask
  Prio <- MCPrio
  DelayArgs <- MCShortDelays
  TimeMod = 8
  MaxTicks = 8
INVARIANT DelayListSorted
