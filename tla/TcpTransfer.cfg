CONSTANTS
  MaxWrites <- MCSenderWrites
  SynRetries = 2
  DataRetries = 2
  Window = 2
  Overtake = 0
  MaxLosses = 2
  MaxForks = 1
  MayShutdown = FALSE
SPECIFICATION TransferSpec
PROPERTIES ClientDataArrives BothEnd
CHECK_DEADLOCK FALSE
