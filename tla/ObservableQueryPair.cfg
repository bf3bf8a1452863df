CONSTANTS
  a = a  b = b  c1 = c1  c2 = c2  w1 = w1  w2 = w2
  Tables <- MCTables
  Collectors = {c1, c2}
  Writers = {w1, w2}
  QueryTables <- PairTables
  ChannelCapacity <- PairChannels
  ExtraBufferCapacity = 1
  TriggerSets <- PairTriggers
  WriteKinds <- Kinds
  MaxVersion = 1
SPECIFICATION Spec
SYMMETRY MCSymmetry
INVARIANTS TypeOK StalenessExplained BoundedBacklog
PROPERTIES OneRunPerTrigger
CHECK_DEADLOCK FALSE
