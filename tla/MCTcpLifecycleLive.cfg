SPECIFICATION FairSpec
CONSTANTS
  Pcbs = {p1}
  Streams = {s1}
  Listeners = {l1}
  Conns = {c1}
  Null = Null
  MaxListen = 1
  SynRcvdTicks = 1
  MslTicks = 2
  RtxTicks = 2
  PromptDrop = TRUE
PROPERTIES
  WaitsEnd
