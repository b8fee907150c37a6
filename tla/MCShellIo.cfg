SPECIFICATION ShellFairSpec
CONSTANTS
  Tasks = {Shell}
  Shell = Shell
  NoTask = NoTask
  NoWaker = NoWaker
  TaskQueueCap = 6
  ScancodeQueueCap = 2
  MaxCmds = 2
  SleepArgs = {0, 1, 2}
  TickModulus = 3
  MaxKeys = 4
  MaxTicks = 1
INVARIANTS
  ShellTypeOK
  NoLostWakeup
  HaltIsSafe
  BacklogBound
PROPERTIES
  KeysReachShell
  SleepEnds
