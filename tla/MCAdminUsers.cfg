SPECIFICATION ASpec
CONSTANTS
  admin = admin
  MaxUsers = 2
  Name = {admin, n1, n2}
  AdminName = admin
  Request = {q1, q2}
  Token = {t1}
  Keep = Keep
  NoOne = NoOne
  NoToken = NoToken
INVARIANT NoDeadlock
PROPERTY NobodyIsLockedOut
PROPERTY OnlyWhatWasAsked
SYMMETRY Symmetry
