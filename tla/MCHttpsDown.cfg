SPECIFICATION FairSpec
CONSTANTS
  MaxUp = 0
  MaxDown = 4
  MaxAttempts = 3
INVARIANTS
  OnlyStaleRequestsFail
PROPERTIES
  DownlinkIsFifo
  DownlinkIsChannel
  BridgeLearns
CHECK_DEADLOCK FALSE
