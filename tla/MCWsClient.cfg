CONSTANTS
    Id = {t1, t2, t3, t4}
    NoThread = NoThread
    Repl = Repl
    kMaxRetries = 2
    MaxLogins = 2
SPECIFICATION WsFairSpec
INVARIANTS WsTypeOK ThreadsWellUsed
PROPERTIES Recovers QuitEnds
CHECK_DEADLOCK FALSE
