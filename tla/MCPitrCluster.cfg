\* A cluster where nothing fails, and one with a failure.
SPECIFICATION FairSpec
CONSTANTS
    l = l
    a = a
    b = b
    cfg = cfg
    rs = rs
    Agent = {l, a, b}
    RS = {cfg, rs}
    rsOf <- MCrsOf
    FirstLeader = l
    Run = {g1}
    Nobody = Nobody
    Plans <- MCPlans
PROPERTIES AllSlice ErrorStopsAll
CHECK_DEADLOCK FALSE
