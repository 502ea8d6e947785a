\* One run through the whole loop: safety, the gate contract, and progress.
CONSTANTS
    core = core
    loans = loans
    secret = secret
    rows = rows
    fresh = fresh
    nulls = nulls
    sync_broken = sync_broken
    Runs = {r1}
    Names <- MCNames
    KnownTables <- MCKnownTables
    ModelOutputs <- MCModelOutputs
    Checks <- MCChecks
    TableOf <- MCTableOf
    FivetranIssues = {sync_broken}
    MAX_DIAGNOSIS_ATTEMPTS = 3
    MaxPolls = 2
SPECIFICATION FairSpec
INVARIANTS
    TypeOK
    WriteIsTheOneAnswered
    NoUnscopedResync
    ResolvedIsVerified
    PromptBudget
    ReportTellsOfWrites
PROPERTIES
    GateKept
    OnlyHumansStallRuns
CHECK_DEADLOCK FALSE
