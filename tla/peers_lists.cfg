SPECIFICATION FairSpec
CONSTANTS
    S = S
    A = A
    B = B
    s1 = s1
    a1 = a1
    a2 = a2
    b1 = b1
    x = x
    Nodes = {S, A}
    own <- MCDouble
    seed_ip_port = s1
    Announced = {x}
    Behind <- MCBehind
    Threads = {1}
    Nobody = Nobody
INVARIANTS
    TypeOK
    OwnAddressesOnce
    StartsWithSelf
PROPERTIES
    EveryPeerAsked
CHECK_DEADLOCK FALSE
