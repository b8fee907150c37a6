SPECIFICATION ShellSpec
CONSTANTS
  Tasks = {Shell}
  Shell = Shell
  NoTask = NoTask
  NoWaker = NoWaker
  TaskQueueCap = 3
  ScancodeQueueCap = 2
  MaxCmds = 1
  SleepArgs = {1}
  TickModulus = 3
  MaxKeys = 4
  MaxTicks = 1
INVARIANT NeverPanics
