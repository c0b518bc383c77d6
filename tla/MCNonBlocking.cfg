CONSTANTS
  request = request
  event = event
  reply = reply
  storage = storage
  worker = worker
  reader = reader
  stream = stream
  consumer = consumer
  Actions <- MCActions
  Handlers <- MCHandlers
  Supports <- MCSupports
  Emits <- MCEmits
  Senders <- MCSenders
  Scripts <- MCShortScripts
  Tied <- MCTied
  Consumer = consumer
  Closers = {k1}
  BufferSize = 1
SPECIFICATION FairSpec
PROPERTIES
  SendDoesNotBlock
CHECK_DEADLOCK FALSE
