SPECIFICATION CredSpec
CONSTANTS
  Session = {s1, s2}
  Desktop = {d1}
  Agent = {}
  Revoker = {r1}
  NoSession = NoSession
  NoKey = NoKey
  AmbiguousRevoke = FALSE
  Updater = {u1}
  Request = {q1}
  PlatformDevice = {p1}
  Secret = {k1}
  MaxTime = 1
  MaxCookies = 1
  NoCredential = NoCredential
  NoCookie = NoCookie
  NoSecret = NoSecret
SYMMETRY SessionSymmetry
VIEW CredView
INVARIANT RevokedStreamIsDoomed
INVARIANT CookieWithinCredential
PROPERTY UpdateStaysWithTunnel
