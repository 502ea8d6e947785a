\* Violated: a refused edit leaves the next gate with disabled buttons.
CONSTANTS
    core = core
    rows = rows
    Runs = {r1}
    Names = {core}
    KnownTables = {core}
    ModelOutputs <- MCResync
    Checks <- MCChecks
    TableOf <- MCTableOf
    FivetranIssues = {}
    MAX_DIAGNOSIS_ATTEMPTS = 1
    MaxPolls = 0
    MAX_ACTIVE_RUNS = 1
    NoRun = no_run
    Edits = {{}}
    MaxReplies = 2
    MaxPosts = 1
SPECIFICATION BrowserSpec
INVARIANT ButtonsFollowTheGate
CHECK_DEADLOCK FALSE
