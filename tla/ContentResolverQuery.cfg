CONSTANTS
  r1 = r1  bad = bad
  Rows <- MCRows
  BadRow = bad
  Contents <- MCContents
  Mappers <- MCMappers
  Capacity = 2
  MaxChanges = 4
  NoCursor = NoCursor
  Default = Default
SPECIFICATION FairSpec
INVARIANTS TypeOK StaleRunsAgain ShownIsCurrent
PROPERTIES ChangesAreRead ClosedIsQuiet
CHECK_DEADLOCK FALSE
