SPECIFICATION AuditSpec
CONSTANTS
    K1 = K1
    K2 = K2
    None = None
    h1 = h1
    h2 = h2
    PubKeys = {K1, K2}
    NoKey = None
    U32 <- MCWord
    tx_fee = 10
    mining_reward = 10
    hot_potato_penalty = 1
    KeyPrefix <- MCKeyPrefix
    NulAt <- MCNulAt
    SignForms = {"made", "other"}
    MadeForm = "made"
    UpToNul <- MCUpToNul
    Tails <- MCTails
    Garbage = {"none", "full"}
    NoTail = "none"
    Weighed <- MCWeighed
    GenesisBalance = 1000000
    Stray = {0}
    HashBytes = {1}
    Seed = TRUE
    MyKey = K1
    SubTicks = 1
    DownloadLimit = 0
    Handlers = {h1}
    Transfers <- LoneTransfers
    AddrTransfers <- LoneAddrTransfers
    PushedTxs <- LonePushedTxs
    KeySwitches = {}
    PushedBlocks = {}
    PeerHeights = {}
    PeerBlocks = {}
    PeerProposals = {}
    Shutdown = FALSE
    MaxHeight = 3
    MaxQueue = 2
INVARIANTS
    TypeOK
    Supply
    ReplayFree
    ProposalStillValid
    HeaderValidAtCommit
    ChainIds
CHECK_DEADLOCK FALSE
