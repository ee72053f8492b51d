CONSTANTS
  f1 = f1
  f2 = f2
  i1 = i1
  i2 = i2
  near = near
  far = far
  blank = blank
  c1 = c1
  c2 = c2
  unknown = unknown
  Files = {f1, f2}
  IndexOf <- MCIndexOf
  IndexOrder <- MCOrder
  Texts = {near, far, blank}
  Blank = {blank}
  Courses = {c1, c2}
  Distance <- MCDistance
  MaxId = 3
  BatchSize = 1
  Limit = 1
  Overfetch = 2
  Scopes <- MCScopes
  Start <- MCStart
  MaxEdits = 2
  MaxAborts = 1
  MaxSearches = 1
  None = None
SPECIFICATION Spec
INVARIANTS MappedVectorsAreCurrent RankedByItsText SearchIsExact
PROPERTIES UndisturbedSyncRepairs
CHECK_DEADLOCK FALSE
