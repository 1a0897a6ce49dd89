CONSTANTS
    Conn = {h1, h2, h3}
    Name = {n1}
    Password = {w1, w2}
    None = None
    Workers = 2
    Lazy = {h1}
    TokenTTL = 0
    TurnTTL = 1
    MaxTime = 1
SPECIFICATION AccountsFairSpec
INVARIANT AccessNeedsLogin
PROPERTIES ImplementsRegister RequestsAnswered
CHECK_DEADLOCK FALSE
