SPECIFICATION AuditFairSpec
CONSTANTS
    K1 = K1
    K2 = K2
    None = None
    h1 = h1
    h2 = h2
    PubKeys = {K1, K2}
    NoKey = None
    U32 <- MCWord
    tx_fee = 10
    mining_reward = 10
    hot_potato_penalty = 1
    KeyPrefix <- MCKeyPrefix
    NulAt <- MCNulAt
    SignForms = {"made", "other"}
    MadeForm = "made"
    UpToNul <- MCUpToNul
    Tails <- MCTails
    Garbage = {"none"}
    NoTail = "none"
    Weighed <- MCWeighed
    GenesisBalance = 1000000
    Stray = {0}
    HashBytes = {1, 2}
    Seed = TRUE
    MyKey = K1
    SubTicks = 1
    DownloadLimit = 2
    Handlers = {h1}
    Transfers <- LargeTransfers
    AddrTransfers = {}
    PushedTxs = {}
    KeySwitches <- Switches
    PushedBlocks = {}
    PeerHeights = {1, 3}
    PeerBlocks <- MCPeerBlocks
    PeerProposals = {}
    Shutdown = TRUE
    MaxHeight = 3
    MaxQueue = 2
PROPERTIES
    ShutdownStops
    QueueCommits
CHECK_DEADLOCK FALSE
