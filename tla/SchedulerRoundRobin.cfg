SPECIFICATION FairSpec
CONSTANTS
  a = a
  b = b
  c = c
  idle = idle
  NULL = NULL
  Idle = idle
  Task <- MCTask
  Prio <- MCPrio
  DelayArgs <- MCShortDelays
  TimeMod = 4
  MaxTicks = 4
INVARIANT TypeOK
PROPERTY ReadyRuns
