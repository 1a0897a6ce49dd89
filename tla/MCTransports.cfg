CONSTANTS
    LenRadix = 6
    Key = {k1}
    Datagram = {u1, u2}
    Conn = {s1, s2}
    NoConn = NoConn
    Packets <- MCPackets
    MaxFrames = 2
    Missing = {0, 1}
SPECIFICATION TransportSpec
SYMMETRY Symmetric
INVARIANTS FramesIntact SessionsReachable
CHECK_DEADLOCK FALSE
