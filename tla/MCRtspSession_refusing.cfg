SPECIFICATION Spec
CONSTANTS
  NULL = NULL
  KEEPALIVE_CNT = 2
  CSEQ_MOD = 8
  Publics <- AnyMethods
  Sdps <- AnyMedia
  Faults <- Refusing
  MaxFaults = 2
  Closes = FALSE
  Prompt = FALSE
PROPERTIES
  AdvancesOnAnswer
  ProtocolSpec
CHECK_DEADLOCK FALSE
