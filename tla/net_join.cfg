SPECIFICATION FairSpec
CONSTANTS
    S = S
    J = J
    K = K
    None = None
    PubKeys = {S, J}
    NoKey = None
    U32 = 65536
    tx_fee = 10
    mining_reward = 10
    hot_potato_penalty = 1
    KeyPrefix <- MCKeyPrefix
    NulAt <- MCNulAt
    SignForms = {"made"}
    MadeForm = "made"
    UpToNul <- MCUpToNul
    Tails <- MCTails
    Garbage = {"none"}
    NoTail = "none"
    Weighed <- MCWeighed
    HashBytes = {1, 2}
    Seed = S
    GenesisBalance = 1000
    SubTicks = 1
    DownloadLimit = 1
    Transfers <- MCTransfers
    CallsFail = TRUE
    Unsteady = {J}
    MaxHeight = 3
    MaxRestarts = 1
INVARIANTS
    PrefixUntilReady
PROPERTIES
    Joins
CHECK_DEADLOCK FALSE
