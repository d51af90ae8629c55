CONSTANTS
  Tasks = {t1, t2}
  PageSize = 2
  FirstPage = 4
  Pages = 4
  MaxOrder = 1
  SlabSizes <- MCSizes
  SZ_8K = 3
  SZ_4M = 4
  MAX_SLAB_PAGES = 2
  MAX_LARGE_ALLOCS = 1
  LARGE_THRESHOLD = 4
  MAX_PAGE_ALLOCS = 2
  Sizes = {1, 2, 4, 5}
  RustSizes = {1, 4, 5}
  NULL = NULL
SPECIFICATION Spec
INVARIANTS
  SlabPagesExact
  BlocksExact
PROPERTIES
  ImplementsPageAlloc
CONSTRAINT NotConfused
SYMMETRY Symmetric
