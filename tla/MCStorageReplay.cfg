CONSTANTS
  MaxAnswers = 2
  Logs <- MCLogs
  BufferSize = 2
SPECIFICATION FairSpec
INVARIANTS
  TypeOK
  FollowsLog
  CrashesOnlyBeforeBind
  WaitsOnlyForAbandoned
PROPERTIES
  ImplementsLogReplay
  OneLateWrite
  ReplayEnds
  CloseEndsRequest
CHECK_DEADLOCK FALSE
