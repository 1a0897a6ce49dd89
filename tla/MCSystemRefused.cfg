CONSTANTS
    User = {a, b}
    CallId = {c1}
    NoCall = NoCall
    Timer = Timer
    RingTimeout = 0
    MaxPc = 1
    MaxInputs = 4
    MaxTerm = 0
SYMMETRY Symmetric
SPECIFICATION SystemSpec
INVARIANT RefusedCallersIdle
CHECK_DEADLOCK FALSE
