SPECIFICATION Spec
CONSTANTS
  MaxStreamID = 2
  MaxUint32 = 7
  HeaderSize = 1
  WindowPayloadSize = 1
  InitialStreamWindow = 3
  DataChunk = 2
  MaxBatchFrames = 3
  MaxFramePayload = 2
  QueueItemCost = 1
  MaxStreamsPerSession = 1
  MaxClosedStreamIDs = 1
  MaxBodyBytes = 6
  CarrierBatchBytes = 4
  MaxPendingPerSession = 30
  MaxPendingItemsPerSession = 9
  ControlReserveExtraItems = 1
  ControlReserveItemsPerStream = 3
  CarrierLanes = FALSE
  Pollers = {p1}
  NoPoller = NoPoller
  PoolRefuses = {}
  Uppers = {u1, u2}
  MaxSeq = 2
  MaxCursor = 0
  OpenRefusals = FALSE
  Bodies <- UplinkBodies
SYMMETRY UpperSymmetry
INVARIANTS
  SingleUplink
  WindowConserved
  NoLostWriterWakeup
  NoOrphanBackend
PROPERTIES
  UplinkInOrder
CHECK_DEADLOCK FALSE
