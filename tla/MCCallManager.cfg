CONSTANTS
    User = {u1, u2, u3, u4}
    CallId = {c1, c2, c3}
    RingTimeout = 1
SPECIFICATION CallFairSpec
INVARIANTS CallTypeOK OneCallPerUser
PROPERTIES ImplementsLines RingingEnds
CHECK_DEADLOCK FALSE
