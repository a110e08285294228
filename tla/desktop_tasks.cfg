CONSTANTS
  Remote = {"connect"}
  AutoConnect = TRUE
  NoTray = FALSE
  Capacity = 1
  MaxTasks = 2
  MaxClicks = 2
  MaxChanges = 2
SPECIFICATION FairSpec
INVARIANTS
  TypeOK
  OneVisibleAttempt
PROPERTY TasksEnd
CHECK_DEADLOCK FALSE
