SPECIFICATION FairSpec
CONSTANTS
  Stacks = {s1, s2}
  Clients = {c1, c2}
  Packets = {p1, p2}
  QueueLen = 1
  Null = Null
INVARIANTS
  TypeOK
  OutputSafe
  NoLostWakeup
  StackDelivers
PROPERTY
  AcceptedIsInput
