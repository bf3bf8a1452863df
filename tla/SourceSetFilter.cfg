CONSTANTS
  common = common  jvm = jvm  js = js  test = test
  platforms = platforms  tests = tests  p1 = p1  p2 = p2
  Pages <- MCPages
  SourceSets <- MCSourceSets
  Buttons <- MCButtons
  Dependencies <- MCDependencies
  Rows <- MCRows
  Bookmarks <- MCBookmarks
  NoCache = NoCache
SPECIFICATION Spec
SYMMETRY MCSymmetry
INVARIANTS TypeOK ShownAsStored ArraysIntact PageMatchesFilters
CHECK_DEADLOCK FALSE
