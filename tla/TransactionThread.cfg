CONSTANTS
  x1 = x1  x2 = x2  x3 = x3  x4 = x4  j1 = j1  j2 = j2  j3 = j3
  Callers <- MCCallers
  Jobs <- MCJobs
  JobOf <- MCJobOf
  Threads = {th1}
  MaxNested = 1
  NoCaller = NoCaller
SPECIFICATION FairSpec
INVARIANTS TypeOK ThreadKeptWhileUsed ReleaseMatchesAcquire ControlJobInReach
PROPERTIES ThreadsComeBack CallersAreServed
CHECK_DEADLOCK FALSE
