\* One agent that may be starting a job while another one is still ending; a
\* backup wakes up, a restore stops.
SPECIFICATION FairSpec
CONSTANTS
    Job = {j1, j2}
    Caller = {k1}
    NoJob = NoJob
    MainLoop = MainLoop
INVARIANTS OneStream OneLateJob
PROPERTY DisabledStops
\* A job that has ended with a wake-up on its way stops the agent for good.
CHECK_DEADLOCK FALSE
