CONSTANTS
  a = a  b = b  c1 = c1  c2 = c2  w1 = w1  w2 = w2
  Tables <- MCTables
  Collectors = {c1}
  Writers = {w1, w2}
  QueryTables <- SoleTables
  ChannelCapacity <- SoleChannels
  ExtraBufferCapacity = 1
  TriggerSets <- SoleTriggers
  WriteKinds <- StatementsOnly
  MaxVersion = 2
SPECIFICATION FairSpec
INVARIANT SubscribedQueriesUpdate
PROPERTIES ChangesAreEventuallyRead RoomComesBack
CHECK_DEADLOCK FALSE
