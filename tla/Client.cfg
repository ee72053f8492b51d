\* Three sessions, two asks and two resumes of one page.
CONSTANTS
  s1 = s1
  s2 = s2
  s3 = s3
  a1 = a1
  a2 = a2
  r1 = r1
  r2 = r2
  SessionIds = {s1, s2, s3}
  Asks = {a1, a2}
  Resumes = {r1, r2}
  Old = Old
  HistoryLimit = 2
  MaxTokens = 1
  MaxMishaps = 1
  MaxHandlers = 3
  Null = Null
SPECIFICATION ClientSpec
SYMMETRY Symmetry
INVARIANTS ContinuesWhatItShows RenewedTokenStartsNewSession HistoryIsHonest
CHECK_DEADLOCK FALSE
