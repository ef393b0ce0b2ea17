SPECIFICATION Spec
CONSTANTS
  c = c
  s1 = s1
  s2 = s2
  t1 = t1
  t2 = t2
  t3 = t3
  RSs = {c, s1}
  Leader = c
  Txns = {t1, t2, t3}
  Cap = 1
  History <- MCHistory
  Faults = {"start", "lookup", "secondary", "fail", "crash", "setTxn"}
  MaxFaults = 1
INVARIANTS TxnAtomic FailureReported
PROPERTY RestoreEnds
CHECK_DEADLOCK FALSE
