CONSTANTS
  Procs = {p1, p2}
  First = p1
  Memory = 10
  Frames = {1,2,3,4,5,6,7,8,9}
  UserSpaces = {s1, s2, s3}
  Pages = {1, 2, 3}
  KPages = {8, 9}
  Table <- MCTable
  KernelRoot = kernel
  None = none
  Image <- MCImage
  BootAreas <- MCAreas
  AreaFlags <- MCFlags
  Hints = {0, 1}
  MaxLen = 2
  MaxCalls = 4
  AnonProcs = {p1}
SPECIFICATION Spec
INVARIANTS
  TypeOK
  RefsExact
  TablesExact
  WritableByOne
  AreasDisjoint
PROPERTIES
  OthersUntouched
CHECK_DEADLOCK FALSE
