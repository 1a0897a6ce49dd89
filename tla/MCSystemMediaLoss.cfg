CONSTANTS
    User = {a, b}
    CallId = {c1}
    NoCall = NoCall
    Timer = Timer
    RingTimeout = 0
    MaxPc = 1
    MaxInputs = 2
    MaxTerm = 2
SYMMETRY Symmetric
SPECIFICATION SystemSpec
INVARIANT IdleClientsAreFree
CHECK_DEADLOCK FALSE
