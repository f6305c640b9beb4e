SPECIFICATION Spec
CONSTANTS
  NULL = NULL
  KEEPALIVE_CNT = 1
  CSEQ_MOD = 8
  Publics <- AllMethods
  Sdps <- Both
  Faults <- Lossy
  MaxFaults = 1
  Closes = TRUE
  Prompt = FALSE
INVARIANTS
  TypeOK
  Lockstep
  MediaSetUp
  SetupHasDescription
  SessionInv
CHECK_DEADLOCK FALSE
