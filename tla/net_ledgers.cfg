SPECIFICATION Spec
CONSTANTS
    S = S
    J = J
    K = K
    None = None
    PubKeys = {S, J, K}
    NoKey = None
    U32 = 65536
    tx_fee = 10
    mining_reward = 10
    hot_potato_penalty = 1
    KeyPrefix <- MCKeyPrefix
    NulAt <- MCNulAt
    SignForms = {"made"}
    MadeForm = "made"
    UpToNul <- MCUpToNul
    Tails <- MCTails
    Garbage = {"full"}
    NoTail = "none"
    Weighed <- MCWeighed
    HashBytes = {1}
    Seed = S
    GenesisBalance = 1000
    SubTicks = 1
    DownloadLimit = 2
    Transfers <- MCTransfers
    CallsFail = TRUE
    Unsteady = {S, J, K}
    MaxHeight = 2
    MaxRestarts = 1
INVARIANTS
    TypeOK
    SameChainSameLedger
SYMMETRY Joiners
CHECK_DEADLOCK FALSE
