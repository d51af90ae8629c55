CONSTANTS
  MaxOrder = 2
  BlockPages <- MCBlockPages
  TotalPages = 8
  KernelPages = 3
  DmaEndPfn = 6
  MaxRef = 2
SPECIFICATION Spec
INVARIANTS
  TypeOK
  BlocksDisjoint
  NoFrameLost
  FreeListsAgree
  BlocksAligned
  FullyMerged
PROPERTIES
  ImplementsPageAlloc
