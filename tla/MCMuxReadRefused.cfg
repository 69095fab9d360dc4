SPECIFICATION Spec
CONSTANTS
  MaxStreamID = 2
  MaxUint32 = 7
  HeaderSize = 1
  WindowPayloadSize = 1
  InitialStreamWindow = 1
  DataChunk = 2
  MaxBatchFrames = 4
  MaxFramePayload = 1
  QueueItemCost = 1
  MaxStreamsPerSession = 2
  MaxClosedStreamIDs = 2
  MaxBodyBytes = 4
  CarrierBatchBytes = 4
  MaxPendingPerSession = 23
  MaxPendingItemsPerSession = 10
  ControlReserveExtraItems = 1
  ControlReserveItemsPerStream = 1
  CarrierLanes = FALSE
  Pollers = {p1}
  NoPoller = NoPoller
  PoolRefuses = {}
  Uppers = {u1}
  MaxSeq = 1
  MaxCursor = 1
  OpenRefusals = FALSE
  Bodies <- BudgetBodies
INVARIANTS
  ReadsPause
