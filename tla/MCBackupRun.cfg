\* One backup of every type by two replica sets; agents keep pace.
CONSTANTS
    Shard = {cfg, rs1}
    Leader = cfg
    Types = {"logical", "physical", "external"}
    Faults = {"failure", "cancel", "crash", "takeover"}
SPECIFICATION Spec
INVARIANTS MetaFileIsLast DoneIsComplete SnapshotsMeet SnapshotsWithoutBalancer BalancerRestored
PROPERTY ContractSpec
\* All agents have left: the backup is over.
CHECK_DEADLOCK FALSE
