\* Two asks and two preparations of a profile whose construction may hang, beside an ask of another.
CONSTANTS
  a1 = a1
  a2 = a2
  a3 = a3
  r1 = r1
  r2 = r2
  gemma = gemma
  gemini = gemini
  Asks = {a1, a2, a3}
  Prepares = {r1, r2}
  Profiles = {gemma, gemini}
  ProfileOf <- MCProfileOf
  Slow = {gemma}
  NoCall = NoCall
SPECIFICATION FairRegistrySpec
INVARIANTS OneModelPerProfile NoStaleFailure
PROPERTIES OthersFinish
