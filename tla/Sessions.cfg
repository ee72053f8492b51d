\* Three session ids for two entries: expiry, eviction, refusal and sharing.
CONSTANTS
  a1 = a1
  a2 = a2
  a3 = a3
  a4 = a4
  s1 = s1
  s2 = s2
  s3 = s3
  Asks = {a1, a2, a3, a4}
  SessionIds = {s1, s2, s3}
  SessionOf <- MCSessionOf
  MaxSessions = 2
  TTL = 2
  MaxTurns = 1
  MaxClock = 3
  NoEntry = NoEntry
  NoAsk = NoAsk
SPECIFICATION FairSpec
INVARIANTS CheckedOutStays ContextIsCurrent
PROPERTIES EveryAskLeaves
