SPECIFICATION LocalSpec
CONSTANTS
  f1 = f1
  f2 = f2
  c1 = c1
  c2 = c2
  Files = {f1, f2}
  Category <- MCCategory
  Contents = {c1, c2, c3}
  NoText = {c3}
  Gone = Gone
  None = None
  MaxEdits = 2
  MaxFaults = 1
  Roots = {"home", "algebra"}
  CourseDirs = {"algebra", "misc", "sets"}
  CourseFiles = {"index", "notes"}
  InRoot <- MCInRoot
  Below <- MCBelow
  NameOf <- MCNameOf
  General = "general"
  Reserved = {"general", "GENERAL"}
  NoCourse = NoCourse
  MaxPasses = 3
  MaxMoves = 2
SYMMETRY Texts
INVARIANTS StaleOnlyIfRaced MissingIsHidden CatalogIsHonest
PROPERTIES TransientFailuresHeal
