SPECIFICATION ViewSpec
CONSTANTS
  c = c
  s = s
  c1 = c1
  s1 = s1
  s2 = s2
  s3 = s3
  Clusters = {{c1, s1, s2}, {s1, s2, s3}}
  RSOf <- MCRSOf
  Config = c
  Primaries = {c1, s1}
  Options <- MCOptions
  Faults = {"prepare", "shutdown", "move", "copy", "crash"}
  MaxFaults = 1
  Watched = {{s1, s2, s3}}
INVARIANTS DoneMeansRestored OldOrNew SameEnd ToldAsItIs
PROPERTY RestoreEnds
CHECK_DEADLOCK FALSE
