SPECIFICATION Spec
CONSTANTS
  RECV_BUF_SZ = 40
  Messages <- OneOfEach
  MaxMessages = 3
  Cuts <- InBoth
  MaxResets = 1
INVARIANTS
  TypeOK
  PacketsFiltered
CHECK_DEADLOCK FALSE
