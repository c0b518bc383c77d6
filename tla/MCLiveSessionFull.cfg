CONSTANTS
  MaxEvents = 1
  BufferSize = 1
  Guests = {"guest"}
SPECIFICATION FairSpec
PROPERTIES
  ImplementsReplyStream
  WritesWhileServing
  
CHECK_DEADLOCK FALSE
