SPECIFICATION FairSpec
CONSTANTS
  w1 = w1
  DefaultLimit = 1
  Walks = {w1}
  Filters <- SmallFilters
  Pool <- SmallPool
INVARIANTS IInv WalkMissesNothing
PROPERTIES PagesGoBackward WalkEnds
CHECK_DEADLOCK FALSE
