SPECIFICATION FairSpec
CHECK_DEADLOCK FALSE
CONSTANTS
  Answers <- MCAnswers
  ToolOf <- MCToolOf
  WarnThreshold = 2
  HardLimit = 3
  WindowSize = 3
  FreqWarn = 1
  FreqHardLimit = 2
  MaxConcurrent = 1
  MaxReminders = 2
  Keep = 2
  MaxTurns = 2
  MaxCalls = 4
INVARIANTS IndInv RequestPaired ListSeen RepeatsStopped
PROPERTY RunEnds
