SPECIFICATION Spec
CONSTANTS
  Sizes <- SomeSizes
  IdSpaces = {2, 3}
  IP_REASS_MAX_PBUFS = 4
  MEMP_NUM_REASSDATA = 2
  IP_REASS_MAXAGE = 1
  MaxDgrams = 3
  Null = Null
INVARIANTS
  TypeOK
  Accounted
  WholeDatagrams
PROPERTIES
  GivenUp
CHECK_DEADLOCK FALSE
