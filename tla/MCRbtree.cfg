CONSTANT N = 7
SPECIFICATION Spec
INVARIANTS
  TreeExact
  RedBlack
  SearchExact
PROPERTY CallsEnd
