SPECIFICATION Spec
CONSTANTS
  WND = 5
  Step = 2
  Threshold = 3
  SegMax = 3
  MaxBytes = 7
  MaxRead = 2
INVARIANTS TypeOK StreamInOrder WindowHonest PeerIsTold
PROPERTIES EdgeNeverShrinks
CHECK_DEADLOCK FALSE
