CONSTANTS
  Session = {s1, s2, s3}
  Query = {q1}
  NoSession = none
SPECIFICATION ConnSpec
INVARIANTS NobodyIsLeftWaiting OnlyCurrentLives 
PROPERTY EverythingSettles
