CONSTANTS
  Txns = {x1, x2}
  Threads = {th1}
  Tables = {a, b}
  Usage <- Cancelling
  NoTxn = NoTxn
  NoThread = NoThread
SPECIFICATION Spec
INVARIANT AllOrNothing
CHECK_DEADLOCK FALSE
