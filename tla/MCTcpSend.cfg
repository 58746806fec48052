SPECIFICATION Spec
CONSTANTS
  MSS = 2
  SndBuf = 3
  QueueMax = 2
  MaxRtx = 1
  MaxBytes = 3
  MaxWnd = 2
  DataMax = 1
  AckMax = 2
INVARIANTS
  TypeOK
  NothingLost
  QueuesSound
  WindowRespected
  NoStall
  PeerInStep
CHECK_DEADLOCK FALSE
