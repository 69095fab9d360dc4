SPECIFICATION Spec
CONSTANTS
  MaxStreamID = 2
  MaxUint32 = 7
  HeaderSize = 1
  WindowPayloadSize = 1
  InitialStreamWindow = 3
  DataChunk = 2
  MaxBatchFrames = 3
  MaxFramePayload = 2
  QueueItemCost = 1
  MaxStreamsPerSession = 1
  MaxClosedStreamIDs = 1
  MaxBodyBytes = 6
  CarrierBatchBytes = 4
  MaxPendingPerSession = 30
  MaxPendingItemsPerSession = 9
  ControlReserveExtraItems = 1
  ControlReserveItemsPerStream = 3
  CarrierLanes = FALSE
  Pollers = {p1}
  NoPoller = NoPoller
  PoolRefuses = {}
  Uppers = {u1}
  MaxSeq = 3
  MaxCursor = 0
  OpenRefusals = FALSE
  Bodies <- UplinkBodies
INVARIANTS
  NoHandlerPanics
CHECK_DEADLOCK FALSE
