CONSTANTS
  RrfK = 60
  RankUnit = 3782
  NoChunk = 0
  Nothing = "nothing"
  Courses = {"algebra", "logic"}
  NoCourse = "none"
  CourseOfSpelling <- MCCourseOfSpelling
  QueryLimit = 2
  TermLimit = 2
  MinConfidence = 50
  ContextLimit = 2
  TokensOf <- MCTokensOf
  NameTier <- MCNameTier
  Stopwords = {"the"}
  MetadataOnlyExtensions = {"zip"}
  SqlFoldedCourses = {"algebra", "logic"}
  PromptBudget = 8
  PromptBase = 2
  AnswerRetries = 1
  MarkerTexts = {"see [E1]"}
  Irregular <- MCIrregular
  Files = {1, 2}
  ChunkIds = {1, 2, 3, 4}
  FileInfo <- MCFileInfo
  Texts <- MCTexts
  TextInfo <- MCTextInfo
  InitialChunks <- MCInitialChunks
  QueryWords <- MCQueryWords
  QueryExtensions = {}
  CourseWords = {}
  Payloads <- MCPayloads
  Contexts <- MCContexts
  Replies <- MCReplies
  TopK = 2
  FinalTopK = 2
  MaxTokens = 10
  MaxEdits = 2
  p1 = p1
  p2 = p2
  Preparers = {p1, p2}
  First = First
  Missing = Missing
  NoItems = NoItems
  EvalSets <- MCEvalSets
  StripOf <- MCStripOf
  PathOf <- MCPathOf
  ItemTypes = {"lookup"}
  ItemIndexes = {"documents"}
  IndexOfType <- MCIndexOfType
  Packets <- MCPackets
  Answers <- MCGiven
  MaxCommits = 1
  MaxFaults = 1
  s1 = s1
  s2 = s2
  Processes = {s1, s2}
  Rows = {1}
  NoTable = NoTable
  MaxStops = 2
  MaxBegins = 3
SPECIFICATION LocalSpec
SYMMETRY Symmetry
CHECK_DEADLOCK FALSE
INVARIANTS RecordsAgree EvidenceIsRanked RefusedOnlyForWhiteSpace FusionIsSound
PROPERTIES FailureKeepsPrior ReportIsFaithful MigrationLosesNothing
