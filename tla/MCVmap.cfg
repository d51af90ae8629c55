CONSTANTS
  Tasks = {t1, t2}
  SpacePages = 4
  Frames = 3
  MaxPages = 2
  Fallible = {"remain", "vm", "record"}
  Garbage = Garbage
SPECIFICATION Spec
INVARIANTS
  AreasPartition
  OneHolder
  FramesExact
PROPERTIES
  ImplementsPageAlloc
SYMMETRY Symmetric
