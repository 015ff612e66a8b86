\* The same tasks as MCSched.cfg, and callers that keep the rules.
SPECIFICATION CarefulFairSpec
CONSTANTS
    MaxTask = 3
    MaxPid = 3
    Sleepers = {2}
PROPERTIES
    EveryTaskRuns
    ForkCompletes
    SleepCompletes
