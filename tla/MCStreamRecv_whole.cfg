SPECIFICATION FairSpec
CONSTANTS
  RECV_BUF_SZ = 40
  Messages <- AllKinds
  MaxMessages = 5
  Cuts <- InPayload
  MaxResets = 0
INVARIANTS
  NothingLeftOver
PROPERTIES
  StreamSpec
  AllHandedOver
CHECK_DEADLOCK FALSE
