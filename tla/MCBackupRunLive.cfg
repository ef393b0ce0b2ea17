\* Agents may stall, fail and crash at any point; nobody cancels or takes over.
CONSTANTS
    Shard = {cfg, rs1}
    Leader = cfg
    Types = {"logical", "physical", "external"}
    Faults = {"failure", "crash", "stall"}
SPECIFICATION FairSpec
PROPERTY BackupEnds
\* All agents have left: the backup is over.
CHECK_DEADLOCK FALSE
