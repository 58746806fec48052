SPECIFICATION Spec
CONSTANTS
  MEM_SIZE_ALIGNED = 9
  SIZEOF_STRUCT_MEM = 1
  MIN_SIZE_ALIGNED = 1
  SIZEOF_STRUCT_PBUF = 1
  Offsets = {1}
  Lengths = {0, 1}
  RefPbufs = {r1}
  FragPbufs = {f1}
  MaxHeld = 2
  MaxPbufs = 3
  Null = Null
INVARIANTS
  TypeOK
  BuffersSound
PROPERTIES
  ImplementsHeap
