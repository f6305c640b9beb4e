SPECIFICATION FairSpec
CONSTANTS
  NULL = NULL
  KEEPALIVE_CNT = 2
  CSEQ_MOD = 8
  Publics <- AllMethods
  Sdps <- VideoOnly
  Faults <- NoFault
  MaxFaults = 0
  Closes = TRUE
  Prompt = TRUE
PROPERTIES
  CloseStops
CHECK_DEADLOCK FALSE
