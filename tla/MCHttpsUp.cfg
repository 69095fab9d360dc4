SPECIFICATION FairSpec
CONSTANTS
  MaxUp = 3
  MaxDown = 0
  MaxAttempts = 2
INVARIANTS
  OnlyStaleRequestsFail
PROPERTIES
  UplinkIsFifo
  UplinkIsChannel
CHECK_DEADLOCK FALSE
