SPECIFICATION FairSpec
CONSTANTS
  Session = {s1, s2}
  Desktop = {d1}
  Agent = {a1}
  Revoker = {r1}
  NoSession = NoSession
  NoKey = NoKey
  AmbiguousRevoke = FALSE
PROPERTY RacedHandshakeIsClosed
