CONSTANTS
  index = index  kite = kite  insert = insert  query = query
  Types = Types  Functions = Functions  Extensions = Extensions
  onIndex = onIndex  inTypes = inTypes  inFunctions = inFunctions  inExtensions = inExtensions
  mod = mod  pkg = pkg  KiteDatabase = KiteDatabase  SqlKite = SqlKite  dotQuery = dotQuery
  asRows = asRows  end = end  slash = slash
  Documents <- MCDocuments
  Keys <- MCKeys
  Tabs <- MCTabs
  Anchors <- MCAnchors
  AnchorsOf <- MCAnchorsOf
  AnchorTab <- MCAnchorTab
  Atoms <- MCAtoms
  Slash = slash
  PageId <- MCPageId
  Menu <- MCMenu
  MenuPart <- MCMenuPart
  MaxTimers = 2
  MaxPopups = 2
  NoTab = NoTab
  NoHash = NoHash
  NoDocument = NoDocument
SPECIFICATION FairSpec
INVARIANTS TypeOK ShownAsStored AnchorShown MenuOpensAtPage
PROPERTY MenuComesUp
CHECK_DEADLOCK FALSE
