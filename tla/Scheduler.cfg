SPECIFICATION Spec
CONSTANTS
  a = a
  b = b
  c = c
  idle = idle
  NULL = NULL
  Idle = idle
  Task <- MCTask
  Prio <- MCPrio
  DelayArgs <- MCDelayArgs
  TimeMod = 16
  MaxTicks = 7
CHECK_DEADLOCK FALSE
INVARIANTS OnePlace NeverNull ExpiredRemoved
PROPERTIES TasksSurvive InversionOnlyByCreation SleepsExactly
