\* Categories are written, cached and traversed on two web workers.
CONSTANTS
  Categories = {1, 2, 3}
  InitialRows <- RootAndChild
  Staff = {1}
  Readers = {2}
  MayCrash = TRUE
  Null = Null
  Unborn = Unborn
  Gone = Gone
  Empty = Empty
SPECIFICATION FairSpec
INVARIANTS TypeOK TraversalExact PreOrder StaleOnlyIfLate
PROPERTIES RecommendationEnds
