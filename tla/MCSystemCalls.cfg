CONSTANTS
    User = {a, b}
    CallId = {c1, c2}
    NoCall = NoCall
    Timer = Timer
    RingTimeout = 0
    MaxPc = 2
    MaxInputs = 4
    MaxTerm = 1
SYMMETRY Symmetric
SPECIFICATION SystemSpec
INVARIANTS SystemTypeOK RingingIsReal NamedCallsExist
CHECK_DEADLOCK FALSE
