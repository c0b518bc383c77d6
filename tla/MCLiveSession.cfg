CONSTANTS
  MaxEvents = 2
  BufferSize = 3
  Guests = {}
SPECIFICATION FairSpec
INVARIANTS
  TypeOK
  TaskCountSettled
  LogReplayable
PROPERTIES
  ImplementsReplyStream
  RequestServed
CHECK_DEADLOCK FALSE
