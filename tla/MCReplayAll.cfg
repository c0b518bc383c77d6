CONSTANTS
  MaxAnswers = 2
  Logs <- MCLogs
  BufferSize = 2
SPECIFICATION Spec
INVARIANTS
  AllReadIsAnswered
CHECK_DEADLOCK FALSE
