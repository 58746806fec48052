SPECIFICATION LockFairSpec
CONSTANTS
  Threads = {t1, t2, t3}
  NoThread = none
INVARIANTS
  LockSound
PROPERTIES
  SomeoneEnters
  ImplementsLock
