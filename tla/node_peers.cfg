SPECIFICATION AuditSpec
CONSTANTS
    K1 = K1
    K2 = K2
    None = None
    h1 = h1
    h2 = h2
    PubKeys = {K1, K2}
    NoKey = None
    U32 <- MCWord
    tx_fee = 10
    mining_reward = 10
    hot_potato_penalty = 1
    KeyPrefix <- MCKeyPrefix
    NulAt <- MCNulAt
    SignForms = {"made", "other"}
    MadeForm = "made"
    UpToNul <- MCUpToNul
    Tails <- MCTails
    Garbage = {"none"}
    NoTail = "none"
    Weighed <- MCWeighed
    GenesisBalance = 1000000
    Stray = {0}
    HashBytes = {1, 2}
    Seed = FALSE
    MyKey = K1
    SubTicks = 1
    DownloadLimit = 2
    Handlers = {h1, h2}
    Transfers = {}
    AddrTransfers = {}
    PushedTxs = {}
    KeySwitches = {}
    PushedBlocks <- MCPushedBlocks
    PeerHeights = {0, 1, 2}
    PeerBlocks <- MCPeerBlocks
    PeerProposals <- MCPeerProposals
    Shutdown = FALSE
    MaxHeight = 3
    MaxQueue = 1
SYMMETRY HandlerSymmetry
INVARIANTS
    CommitHasProposal
    AccountsMatchChain
PROPERTIES
    ImplementsLog
CHECK_DEADLOCK FALSE
