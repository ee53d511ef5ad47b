SPECIFICATION RestakingSpec
CONSTANTS
    s1 = s1
    v1 = v1
    v2 = v2
    v3 = v3
    a1 = a1
    weth = weth
    am1 = am1
    am2 = am2
    AllocationManagers = {am1, am2}
    FirstManager = am1
    Signers = {s1, zero}
    ZeroAddress = zero
    Middlewares = {sym, el}
    NoMiddleware = none
    Rpcs = {rpc, empty}
    EmptyRpc = empty
    NoOperator = noop
    EPOCH_DURATION = 2
    START_TIMESTAMP = 4
    MaxTime = 6
    SymbioticAddress = sym
    SymbioticOperators = {s1}
    Vaults = {v1, v2, v3}
    ValidVaults = {v1, v2, v3}
    VaultCollateral <- MCVaultCollateral
    VaultStake <- MCVaultStake
    Tokens = {weth}
    EigenLayerAddress = el
    EigenLayerOperators = {s1}
    Strategies = {a1}
    StrategyToken <- MCStrategyToken
    StrategyStake <- MCStrategyStake
CONSTRAINT MCOneAtATime
INVARIANTS
    RestakingTypeOK
    PausedEntriesAreInactive
    ExcessStakeWasLost
PROPERTIES
    PastStakeIsFixed
    RemovalKeepsCollaterals
    RemovalKeepsStake
    LeavingEigenLayerDeactivates
    PausedComesBackOnlyByLeaving
CHECK_DEADLOCK FALSE
