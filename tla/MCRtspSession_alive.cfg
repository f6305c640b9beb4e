SPECIFICATION FairSpec
CONSTANTS
  NULL = NULL
  KEEPALIVE_CNT = 2
  CSEQ_MOD = 8
  Publics <- AllMethods
  Sdps <- Both
  Faults <- Deadly
  MaxFaults = 2
  Closes = FALSE
  Prompt = TRUE
INVARIANTS
  KeepalivesUnanswered
PROPERTIES
  StartsPlaying
  DeadPeerDetected
CHECK_DEADLOCK FALSE
