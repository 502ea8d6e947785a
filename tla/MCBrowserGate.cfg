\* A page, its run and a faulty network between them.
CONSTANTS
    core = core
    rows = rows
    Runs = {r1}
    Names = {core}
    KnownTables = {core}
    ModelOutputs <- MCSync
    Checks <- MCChecks
    TableOf <- MCTableOf
    FivetranIssues = {}
    MAX_DIAGNOSIS_ATTEMPTS = 1
    MaxPolls = 0
    MAX_ACTIVE_RUNS = 1
    NoRun = no_run
    Edits = {{}}
    MaxReplies = 2
    MaxPosts = 1
SPECIFICATION FairBrowserSpec
INVARIANTS
    BrowserTypeOK
    PollsWhileLive
    WrongGateNeedsFault
    LatchMeansTaken
PROPERTIES
    EngineKept
    EndIsSeen
CHECK_DEADLOCK FALSE
