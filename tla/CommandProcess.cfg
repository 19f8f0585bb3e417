SPECIFICATION TimedSpec
INVARIANTS
  ScriptOnlyUnderJob
  QuietWhenTerminal
PROPERTIES
  DeadlineCoversStartup
  NothingLeft
CHECK_DEADLOCK FALSE
