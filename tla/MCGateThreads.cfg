\* Decisions from several threads: whose decision a gate takes, what locks it.
CONSTANTS
    Calls = {c1, c2, c3, c4}
    NoCall = nobody
    MaxEntries = 2
SPECIFICATION FairSpec
INVARIANTS
    TypeOK
    AnswersItsGate
    WedgeNeedsALateCall
PROPERTY OkMovesTheRun
CHECK_DEADLOCK FALSE
