CONSTANTS
    Client = {k1, k2}
    p1 = p1
    p2 = p2
    relayIp = relayIp
    privateIp = privateIp
    alice = alice
    bob = bob
    Username <- TwoUsers
    Port = {p1, p2}
    Address <- MCAddress
    RelayAddress = relayIp
    RangeOf <- MCRangeOf
    Peer <- MCPeer
    Channel = {ch1, ch2}
    MaxPeers = 2
    MaxAllocs = 1
    MaxId = 3
    PermissionTTL = 1
    ChannelTTL = 2
    Nonce = {x1, x2}
    NonceTTL = 1
    MaxTime = 2
    NoUser = NoUser
SPECIFICATION TurnSpec
SYMMETRY Symmetric
INVARIANTS
    AllocTypeOK IndexesAgree QuotaHolds ChannelsInjective DeniedNeverPermitted
    ReverseChannelNamesSender
PROPERTY OwnerOnly
