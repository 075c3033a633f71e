\* Two states of one peer and one of another, with ids in common; a peer to connect
\* to with room for two descriptors.
CONSTANTS
    s1 = s1
    s2 = s2
    s3 = s3
    g1 = g1
    States = {s1, s2, s3}
    Outgoing = {s1}
    Groups = {g1}
    NoGroup = NoGroup
    MaxId = 4
    Users = {u1}
    NoState = NoState
    GroupOf <- MCGroupOf
    IdsOf <- MCIdsOf
    AddrOf <- MCAddrOf
    Addrs = {a1}
    NoAddr = NoAddr
    Configured = {a1}
    MaxFds = 2
    MaxFaults = 1
SPECIFICATION MCSpec
CHECK_DEADLOCK FALSE
INVARIANTS
    TableSearchable SearchNearest GroupRefs OwnersListed NoUseAfterFree
    ConnectionsKept
PROPERTIES
    OwnRoutesStable PeersRegained
