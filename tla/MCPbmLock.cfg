\* Both collections, with and without the pace the takeover relies on.
CONSTANTS
    Node = {n1, n2}
    Op = {o1, o2}
    NoOpid = NoOpid
    Colls = {"pbmLock", "pbmLockOp"}
    Timing = {TRUE, FALSE}
    StaleSec = 1
    MaxTime = 4
SPECIFICATION Spec
SYMMETRY Symmetry
INVARIANTS RunOnce LostOnlyToTakeover Exclusive
\* Every attempt may be over: the run has no more commands.
CHECK_DEADLOCK FALSE
