\* init() forks the shell and lcd_task (slot 2, the only sleeper); the shell forks once more.
SPECIFICATION Spec
CONSTANTS
    MaxTask = 3
    MaxPid = 3
    Sleepers = {2}
INVARIANTS
    TypeOK
    RunQueueIntact
    NeverWild
    ForksDistinct
PROPERTIES
    DispatchRunnable
