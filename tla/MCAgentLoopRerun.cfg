\* Violated: a run is resolved with failed checks never re-run.
CONSTANTS
    core = core
    loans = loans
    secret = secret
    rows = rows
    fresh = fresh
    nulls = nulls
    sync_broken = sync_broken
    Runs = {r1}
    Names <- MCNames
    KnownTables <- MCKnownTables
    ModelOutputs <- MCModelOutputs
    Checks <- MCChecks
    TableOf <- MCTableOf
    FivetranIssues = {sync_broken}
    MAX_DIAGNOSIS_ATTEMPTS = 3
    MaxPolls = 2
SPECIFICATION Spec
INVARIANT EveryFailedCheckRerun
CHECK_DEADLOCK FALSE
