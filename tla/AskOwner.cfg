\* Two submissions of one token and one of another share a session id.
CONSTANTS
  a1 = a1
  a2 = a2
  a3 = a3
  r1 = r1
  n1 = n1
  n2 = n2
  s1 = s1
  Asks = {a1, a2, a3}
  RequestIds = {r1}
  Nonces = {n1, n2}
  Sessions = {s1}
  Payload <- MCSession
  Public = TRUE
  Capacity = 2
  QuotaLimit = 1
  NoId = NoId
  NoSession = NoSession
  NoAsk = NoAsk
  NoOwner = NoOwner
SPECIFICATION Spec
INVARIANTS RunningSessionOwned
