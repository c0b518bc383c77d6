CONSTANTS
  request = request
  event = event
  reply = reply
  storage = storage
  worker = worker
  reader = reader
  stream = stream
  consumer = consumer
  Actions <- MCActions
  Handlers <- MCWorker
  Supports <- MCSupports
  Emits <- MCEmits
  Senders <- MCSenders
  Scripts <- MCShortScripts
  Tied <- MCTied
  Consumer = consumer
  Closers = {k1, k2}
  BufferSize = 2
SPECIFICATION FairSpec
PROPERTIES
  ImplementsActionQueue
  ChannelGetsShut
CHECK_DEADLOCK FALSE
