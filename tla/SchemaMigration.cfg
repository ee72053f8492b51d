\* One failing statement, or a second command beside the first, is enough.
CONSTANTS
  Processes = {s1, s2}
  Rows = {1}
  NoTable = NoTable
  MaxStops = 2
  MaxBegins = 3
SPECIFICATION SchemaSpec
INVARIANTS NoHistoryBlocksCleanup
CHECK_DEADLOCK FALSE
