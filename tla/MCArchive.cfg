SPECIFICATION LifecycleSpec
CONSTANT Plans <- const_Plans
INVARIANTS TimelinesAgree ShownIsRestorable NoChunkAcrossRestore ChainsComplete
PROPERTIES CleanupKeeps PurgeKeeps
CHECK_DEADLOCK FALSE
