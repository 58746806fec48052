SPECIFICATION Spec
CONSTANTS
  Pcbs = {p1, p2}
  Streams = {s1, s2}
  Listeners = {l1, l2}
  Conns = {c1, c2}
  Null = Null
  MaxListen = 1
  SynRcvdTicks = 1
  MslTicks = 1
  RtxTicks = 1
  PromptDrop = TRUE
SYMMETRY Symmetry
INVARIANTS
  TypeOK
  UniqueTuple
  StreamsOwnPcbs
  AcceptArgLive
  ClosesKept
  TimerArmed
