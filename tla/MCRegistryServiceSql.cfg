SPECIFICATION ServiceSpec
CONSTANTS
    v1 = v1
    v2 = v2
    v3 = v3
    o1 = o1
    o2 = o2
    r1 = r1
    r2 = r2
    r3 = r3
    Validators = {v1, v2, v3}
    Operators = {o1, o2}
    NoRegistration = none
    NoOperator = noop
    MaxEpoch = 2
    Backend = "sql"
    SlotsPerEpoch = 1
    FaultsAllowed = TRUE
    Duties <- MCDuties
    Drafts <- MCDrafts
    SourceOperator <- MCSourceOperator
    ActiveValidators = {v1, v2}
    ServedEpochs = {0, 1, 2, 3}
    CrashesAllowed = TRUE
    Requests = {r1, r2}
    Calls <- MCSqlCalls
    NoCall = nocall
    NoRequest = norequest
    ActionBuffer = 1
SYMMETRY MCSymmetry
INVARIANTS
    RefusedIsNotApplied
    WaitingIsOnItsWay
    SyncedMeansSettled
PROPERTIES
    SyncedWasRegistered
    ImplementsAtomicRegistry
    ReadsSeeAcknowledgedWrites
CHECK_DEADLOCK FALSE
