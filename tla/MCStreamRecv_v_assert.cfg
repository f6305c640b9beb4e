SPECIFICATION Spec
CONSTANTS
  RECV_BUF_SZ = 40
  Messages <- AllKinds
  MaxMessages = 3
  Cuts <- InHeader
  MaxResets = 0
INVARIANTS
  AssertHolds
CHECK_DEADLOCK FALSE
