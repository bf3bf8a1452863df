CONSTANTS
  a = a  b = b  c1 = c1  c2 = c2  w1 = w1  w2 = w2
  Tables <- MCTables
  Collectors = {c1}
  Writers = {w1, w2}
  QueryTables <- NarrowTables
  ChannelCapacity <- SoleChannels
  ExtraBufferCapacity = 1
  TriggerSets <- NarrowTriggers
  WriteKinds <- StatementsOnly
  MaxVersion = 2
SPECIFICATION Spec
INVARIANT SubscribedQueriesUpdate
CHECK_DEADLOCK FALSE
