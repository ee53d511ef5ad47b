SPECIFICATION FairSyncerSpec
CONSTANTS
    v1 = v1
    v2 = v2
    v3 = v3
    o1 = o1
    o2 = o2
    Validators = {v1, v2, v3}
    Operators = {o1, o2}
    NoRegistration = none
    NoOperator = noop
    MaxEpoch = 6
    Backend = "memory"
    SlotsPerEpoch = 2
    FaultsAllowed = FALSE
    Duties <- MCDuties
    Drafts <- MCDrafts
    SourceOperator <- MCSourceOperator
    ActiveValidators = {v1, v2, v3}
    ServedEpochs = {0, 1, 2, 3, 4, 5, 6, 7}
    CrashesAllowed = TRUE
INVARIANTS
    SyncerTypeOK
    NoEpochSkipped
    SyncedMeansSettled
    IdleMeansSynced
PROPERTIES
    SyncedWasRegistered
    SyncStateAscends
    SyncingEnds
CHECK_DEADLOCK FALSE
