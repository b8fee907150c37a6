SPECIFICATION ExecFairSpec
CONSTANTS
  Tasks = {t1, t2, t3}
  NoTask = NoTask
  TaskQueueCap = 3
INVARIANTS
  ExecTypeOK
  HaltOnlyWhenIdle
  CacheOnlyLiveTasks
PROPERTIES
  NoEntryDropped
  WokenIsPolled
