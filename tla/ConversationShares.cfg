SPECIFICATION SFairSpec
CONSTANTS
  Share = {s1}
  Browser = {b1, b2}
  MaxMishaps = 1
  NoShare = NoShare
  NoBrowser = NoBrowser
INVARIANT PublishedHasFiles
INVARIANT MetadataOutlivesFiles
INVARIANT SingleReader
PROPERTY LeftoversGo
