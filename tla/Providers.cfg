\* Three keys and two threads; three profiles, up to two texts and vectors of three lengths; two tabs, two saves and one edit of the file by hand; three documents in pages of two; four asks in pages of two and four loads.
CONSTANTS
  c1 = c1
  c2 = c2
  Calls = {c1, c2}
  N = 3
  NoKey = NoKey
  bge = bge
  gemini = gemini
  qwen = qwen
  geminiAlias = geminiAlias
  Unknown = Unknown
  Profiles <- MCProfiles
  Aliases <- MCAliases
  MaxTexts = 2
  Lengths = {0, 1, 2}
  NoStatus = NoStatus
  NoIndex = NoIndex
  Null = Null
  t1 = t1
  t2 = t2
  Tabs = {t1, t2}
  Absent = Absent
  Corrupt = Corrupt
  MaxSaves = 2
  MaxHandEdits = 1
  R = 3
  PageSize = 2
  MaxWrites = 2
  MaxDeletes = 1
  MaxClock = 4
  Asks = {1, 2, 3, 4}
  ReceivedAt <- MCReceivedAt
  PageLimit = 2
  MaxLoads = 4
  k1 = k1
  k2 = k2
  q1 = q1
  q2 = q2
  q3 = q3
  q4 = q4
  q5 = q5
  ClientOf <- MCClientOf
  MinuteLimit = 2
  ClientLimit = 3
  GlobalLimit = 3
  Minute = 2
  Day = 3
  Slots = 2
  NotReserved = NotReserved
  NoCall = NoCall
  MaxTime = 3
SPECIFICATION ProvidersSpec
SYMMETRY TabSymmetry
INVARIANTS NoQuotaErrorWhileAKeyIsGood VectorsMatchInputs RetriesOnlyWhatIsSafe IncrementalMissesNothing PagesShowEveryRecordOnce QuotaWindowsHold
PROPERTIES SaveChangesOnlyItsEdits SyncsAreExact
