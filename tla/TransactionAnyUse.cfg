CONSTANTS
  Txns = {x1, x2, x3, x4}
  Threads = {th1, th2}
  Tables = {a}
  Usage <- Everything
  NoTxn = NoTxn
  NoThread = NoThread
SPECIFICATION Spec
SYMMETRY MCSymmetry
INVARIANT SessionsAndThreadsKept
CHECK_DEADLOCK FALSE
