SPECIFICATION Spec
CONSTANTS
  MaxStreamID = 2
  MaxUint32 = 7
  HeaderSize = 1
  WindowPayloadSize = 1
  InitialStreamWindow = 1
  DataChunk = 1
  MaxBatchFrames = 3
  MaxFramePayload = 1
  QueueItemCost = 1
  MaxStreamsPerSession = 1
  MaxClosedStreamIDs = 1
  MaxBodyBytes = 3
  CarrierBatchBytes = 3
  MaxPendingPerSession = 24
  MaxPendingItemsPerSession = 12
  ControlReserveExtraItems = 1
  ControlReserveItemsPerStream = 3
  CarrierLanes = TRUE
  h1 = h1
  h2 = h2
  Pollers = {h1, h2}
  Uppers = {h1}
  NoPoller = NoPoller
  PoolRefuses = {}
  MaxSeq = 2
  MaxCursor = 1
  LanesPolled = {1}
  LanesUsed = {1, 2}
  SocketBodies <- FirstBody
  MaxGeneration = 1
  OpenRefusals = FALSE
  Bodies <- FirstBody
INVARIANT
  NoStreamWithoutSocket
CHECK_DEADLOCK FALSE
