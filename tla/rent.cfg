SPECIFICATION Spec
CONSTANTS
    adapterA = adapterA
    adapterB = adapterB
    Adapters = {adapterA, adapterB}
    FirstAdapter = adapterA
    Upgrades = {adapterB}
    Durations = {4}
    MaxLoad = 2
    MaxNow = 6
    MaxLapse = 1
    DAY_LEDGERS = 1
    USER_THRESHOLD = 0
    USER_TARGET = 1
    KEEPER_THRESHOLD = 2
    KEEPER_TARGET = 3
    PENDING_THRESHOLD = 2
    PENDING_TARGET = 3
    SHARED_FLOOR = 3
    POLICY_GRACE = 1
    CLAIM_HISTORY = 7
    KEEPER_SELECTS = 2
    MAX_TTL = 3
    MIN_TTL = 1
INVARIANT RentTypeOK
INVARIANT ContractsStayLive
INVARIANT OpenPolicyStaysLive
INVARIANT OpenDebtStaysLive
CHECK_DEADLOCK FALSE
