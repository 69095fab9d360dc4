SPECIFICATION Spec
CONSTANTS
  MaxStreamID = 2
  MaxUint32 = 2
  HeaderSize = 1
  WindowPayloadSize = 1
  InitialStreamWindow = 2
  DataChunk = 2
  MaxBatchFrames = 3
  MaxFramePayload = 2
  QueueItemCost = 1
  MaxStreamsPerSession = 1
  MaxClosedStreamIDs = 2
  MaxBodyBytes = 4
  CarrierBatchBytes = 3
  MaxPendingPerSession = 22
  MaxPendingItemsPerSession = 9
  ControlReserveExtraItems = 1
  ControlReserveItemsPerStream = 3
  CarrierLanes = FALSE
  Pollers = {p1, p2}
  NoPoller = NoPoller
  PoolRefuses = {}
  Uppers = {u1}
  MaxSeq = 2
  MaxCursor = 2
  OpenRefusals = FALSE
  Bodies <- DownlinkBodies
SYMMETRY PollerSymmetry
INVARIANTS
  TypeOK
  NoLostPollWakeup
  PollOwnership
  CursorSound
  CloseIsLast
  Accounting
  WindowIndexSound
  NoLostReaderWakeup
  TombstonesAreDead
PROPERTIES
  DownlinkInOrder
