SPECIFICATION FairSpec
CONSTANTS
  MaxStreamID = 1
  MaxUint32 = 7
  HeaderSize = 1
  WindowPayloadSize = 1
  InitialStreamWindow = 1
  DataChunk = 2
  MaxBatchFrames = 3
  MaxFramePayload = 2
  QueueItemCost = 1
  MaxStreamsPerSession = 1
  MaxClosedStreamIDs = 2
  MaxBodyBytes = 4
  CarrierBatchBytes = 4
  MaxPendingPerSession = 22
  MaxPendingItemsPerSession = 9
  ControlReserveExtraItems = 1
  ControlReserveItemsPerStream = 3
  CarrierLanes = FALSE
  Pollers = {p1, p2}
  NoPoller = NoPoller
  PoolRefuses = {}
  Uppers = {u1}
  MaxSeq = 2
  MaxCursor = 1
  OpenRefusals = FALSE
  Bodies <- LivenessBodies
PROPERTIES
  PollServed
  BackendsWindDown
