CONSTANTS
  Txns = {x1, x2, x3}
  Threads = {th1, th2}
  Tables = {a, b}
  Usage <- Concurrent
  NoTxn = NoTxn
  NoThread = NoThread
SPECIFICATION Spec
SYMMETRY MCSymmetry
INVARIANTS NothingUnfounded AllOrNothing OneTransactionAtATime
CHECK_DEADLOCK FALSE
