CONSTANTS
  request = request
  event = event
  reply = reply
  storage = storage
  worker = worker
  reader = reader
  stream = stream
  consumer = consumer
  Actions <- MCActions
  Handlers <- MCHandlers
  Supports <- MCSupports
  Emits <- MCEmits
  Senders <- MCSenders
  Scripts <- MCScripts
  Tied <- MCTied
  Consumer = consumer
  Closers = {k1}
  BufferSize = 1
SPECIFICATION FairSpec
INVARIANTS
  TypeOK
  CloseOrder
  NoHandlerCut
PROPERTIES
  ImplementsActionQueue
  CloseCompletes
  BlockedSendReleased
CHECK_DEADLOCK FALSE
