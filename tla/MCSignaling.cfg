CONSTANTS
    User = {u1, u2}
    CallId = {c1}
    RingTimeout = 0
    Conn = {k1, k2, k3}
    Timer = timer
    NoConn = NoConn
    NoCall = NoCall
    MaxWriteErr = 1
SPECIFICATION SigSpec
SYMMETRY Symmetric
INVARIANTS SigTypeOK EndNoticeOwed TerminalNoticeOnce ConfigAfterAnnouncement
CHECK_DEADLOCK FALSE
