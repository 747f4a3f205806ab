SPECIFICATION DatapathSpec
CONSTANTS
  XLEN = 4
INVARIANTS
  OneHandler
  ImmediatesFollowFormats
  ProductsAreExact
  DivisionsAgree
  ImmediatesAgree
  IntegersCohere
CHECK_DEADLOCK FALSE
