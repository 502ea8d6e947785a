\* Two runs on a connection: what the result of a poll means.
CONSTANTS
    Runs = {r1, r2}
    MaxSyncs = 3
    Interval = 2
    Timeout = 4
    MaxLatency = 1
SPECIFICATION Spec
INVARIANTS
    TypeOK
    ResultIsNew
    FailureIsNotMasked
    TimedOutMissedNothing
PROPERTY
    WaitKept
SYMMETRY RunsAlike
CHECK_DEADLOCK FALSE
