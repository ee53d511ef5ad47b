SPECIFICATION ServiceSpec
CONSTANTS
    v1 = v1
    v2 = v2
    v3 = v3
    o1 = o1
    o2 = o2
    r1 = r1
    r3 = r3
    r2 = r2
    Validators = {v1, v2, v3}
    Operators = {o1, o2}
    NoRegistration = none
    NoOperator = noop
    MaxEpoch = 1
    Backend = "memory"
    SlotsPerEpoch = 1
    FaultsAllowed = FALSE
    Duties <- MCDuties
    Drafts <- MCDrafts
    SourceOperator <- MCSourceOperator
    ActiveValidators = {v1, v2}
    ServedEpochs = {0, 1, 2}
    CrashesAllowed = FALSE
    Requests = {r1, r2}
    Calls <- MCLiveCalls
    NoCall = nocall
    NoRequest = norequest
    ActionBuffer = 1
PROPERTIES
    FailsWithSyncer
CHECK_DEADLOCK FALSE
