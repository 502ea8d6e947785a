\* Violated: a run lost with its process is not surfaced.
CONSTANTS
    core = core
    rows = rows
    r1 = r1
    r2 = r2
    Runs = {r1}
    Names = {core}
    KnownTables = {core}
    ModelOutputs <- MCModelOutputs
    Checks <- MCChecks
    TableOf <- MCTableOf
    FivetranIssues = {}
    MAX_DIAGNOSIS_ATTEMPTS = 1
    MaxPolls = 0
    MAX_ACTIVE_RUNS = 1
SPECIFICATION EngineSpec
INVARIANTS
    StrandedRunsSurface
CHECK_DEADLOCK FALSE
