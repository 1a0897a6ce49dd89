CONSTANTS
    User = {u1, u2}
    CallId = {c1}
    RingTimeout = 0
    Conn = {k1, k2}
    Timer = timer
    NoConn = NoConn
    NoCall = NoCall
    MaxWriteErr = 1
SPECIFICATION SigFairSpec
PROPERTY CallerLearnsOutcome
CHECK_DEADLOCK FALSE
