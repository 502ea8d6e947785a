\* Violated: the sync that ended is not the one the write started.
CONSTANTS
    Runs = {r1}
    MaxSyncs = 3
    Interval = 2
    Timeout = 4
    MaxLatency = 1
SPECIFICATION Spec
INVARIANT OwnSyncEnded
CHECK_DEADLOCK FALSE
