\* Two runs in one process: its gates, history and restarts, and what moves them on.
CONSTANTS
    core = core
    rows = rows
    r1 = r1
    r2 = r2
    Runs = {r1, r2}
    Names = {core}
    KnownTables = {core}
    ModelOutputs <- MCModelOutputs
    Checks <- MCChecks
    TableOf <- MCTableOf
    FivetranIssues = {}
    MAX_DIAGNOSIS_ATTEMPTS = 1
    MaxPolls = 0
    MAX_ACTIVE_RUNS = 1
SPECIFICATION FairEngineSpec
INVARIANTS
    EngineTypeOK
    WriteWasPosted
    OneDecisionPerGate
    GateShowsTheProposal
    ActiveIsRunning
    MirrorAgrees
    OneHistoryEntryPerEndedRun
    StaleProposalIsInert
    SilentEntriesAreErrors
PROPERTIES
    AcceptedDecisionActs
    AttendedRunsEnd
    SlotsComeBack
CHECK_DEADLOCK FALSE
