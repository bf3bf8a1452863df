CONSTANTS
  Writers = {w1, w2, w3}
  Txns = {x1, x2, x3}
  Dispatching = {x2, x3}
  QueryThreads = 2
  PoolThreads = 2
  MaxOps = 2
  Nobody = Nobody
SPECIFICATION FairSpec
INVARIANTS TypeOK NeverStuckUnlessStarved
PROPERTIES StarvedForEver CallsEndUnlessStarved
CHECK_DEADLOCK FALSE
