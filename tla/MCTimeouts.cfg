SPECIFICATION Spec
CONSTANTS
  reass = reass
  nd6 = nd6
  lwip_cyclic_timers <- TwoTimers
  Tcp = Tcp
  CyclicInterval = 2
  TcpInterval = 1
  Wrap = 12
  MaxLate = 2
  MaxSteps = 1
  Null = Null
INVARIANTS
  TypeOK
  EachTimerOnce
  Punctual
PROPERTIES
  TimersRun
