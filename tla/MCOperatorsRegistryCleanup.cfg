SPECIFICATION Spec
CONSTANTS
    s1 = s1
    s2 = s2
    s3 = s3
    m1 = m1
    m2 = m2
    Signers = {s1, s2, s3, zero}
    ZeroAddress = zero
    Middlewares = {m1, m2}
    NoMiddleware = none
    Rpcs = {rpc, empty}
    EmptyRpc = empty
    NoOperator = noop
    EPOCH_DURATION = 2
    START_TIMESTAMP = 2
    MaxTime = 7
PROPERTIES
    CleanupRemovesEveryExpired
CHECK_DEADLOCK FALSE
