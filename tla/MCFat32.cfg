CONSTANTS
  Last = 6
  ClusBytes = 2
  Slots = 1
  Names = {a, b}
  Fds = {f1}
  MaxEnd = 4
  None = None
SPECIFICATION Spec
INVARIANT LengthHasClusters
