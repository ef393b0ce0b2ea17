SPECIFICATION ControlSpec
CONSTANTS
  p = p
  s = s
  t = t
  Agent = {p, s, t}
  Leader = p
  Plans <- const_Plans
  MaxNow = 7
  RenominationFrame = 2
  WaitActionStart = 6
  n1 = n1
  n2 = n2
  s1 = s1
  s2 = s2
  prof = prof
  x = x
  y = y
  z = z
  None = None
  Member = {n1, n2}
  Primary = n1
  Scripts <- const_Scripts
INVARIANTS BestNodeRuns ListedIsStored
PROPERTIES EveryCommandSeen BackupStarts SyncedIsListed ClientsEnd
