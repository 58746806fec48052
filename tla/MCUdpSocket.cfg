SPECIFICATION Spec
CONSTANTS
  Sockets = {s1, s2}
  Sender = Sender
  Pcbs = {q1, q2}
  QueueLen = 1
  MaxPbufs = 1
  Overlaps = {{}, {"input"}, {"send"}, {"make"}}
  Null = Null
INVARIANTS
  TypeOK
  InputSafe
  ListSane
SYMMETRY Alike
