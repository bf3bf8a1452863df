CONSTANTS
  Txns = {x1, x2, x3}
  Threads = {th1, th2}
  Tables = {a}
  Usage <- NoUsage
  NoTxn = NoTxn
  NoThread = NoThread
SPECIFICATION FairSpec
INVARIANTS TypeOK SessionsAreCallChains EveryChangeAnnounced
PROPERTIES ImplementsAtomic EveryCallEnds
CHECK_DEADLOCK FALSE
