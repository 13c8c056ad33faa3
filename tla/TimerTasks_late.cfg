CONSTANTS
  NTasks = 2
  Period <- MCPeriod
  Shift = 10
  MaxLoop = 2
  Delay = 4
SPECIFICATION TimerSpec
INVARIANT RegularIntervals
