\* Seeding, inspecting and rechecking a table that changes.
CONSTANTS
    kyc = kyc
    apr = apr
    Columns = {kyc, apr}
    Contents <- MCContents
    Scale = 4
    FRESHNESS_SLA_MINUTES = 1
    DEFAULT_SLA_MINUTES = 2
    MaxAge = 3
    MaxSeeds = 2
SPECIFICATION Spec
INVARIANTS
    TypeOK
    OnlyUnstoredRatesFail
    SpikeIsSeen
    DataFixNeedsWrite
PROPERTY PassedMeansRepaired
CHECK_DEADLOCK FALSE
