SPECIFICATION Spec
CONSTANTS
    s1 = s1
    s2 = s2
    s3 = s3
    s4 = s4
    alice = alice
    desk = desk
    lan = lan
    tor = tor
    NoSession = NoSession
    Sessions <- MCSessions
    Peers = {alice, desk}
    Families = {lan, tor}
    Devices = {desk}
    PeerOf <- MCPeerOf
    FamilyOf <- MCFamilyOf
    MaxCtr = 2
    MaxPieces = 2
    MaxClock = 2
INVARIANTS
    OneSends
    DiskMatchesMemory
    NonceFresh
PROPERTIES
    Grace
    RestartSendsOnLatest
SYMMETRY SlotSymmetry
