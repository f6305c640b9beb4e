SPECIFICATION FairSpec
CONSTANTS
  MAX_FRM_SZ = 8
  FRM_HDR_SZ = 2
  Frames <- Three
  Extras <- AllKinds
  MaxExtras = 1
  Marked = FALSE
  Faults <- AllFaults
  MaxFaults = 2
INVARIANTS
  TypeOK
  FrameFits
  Resynchronises
PROPERTIES
  FrameSpec
  EveryFrameStored
CHECK_DEADLOCK FALSE
