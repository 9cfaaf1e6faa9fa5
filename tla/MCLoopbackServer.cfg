SPECIFICATION PeersCloseSpec
CONSTANTS
    Conns = {c1, c2}
    Backlog = 1
    Timeout = 2
    MaxCalls = 2
    Nobody = Nobody
INVARIANTS
    TypeOK
    PageMeansReturned
    TimedOutAlone
    RedirectNotLost
    NobodyLeftHanging
PROPERTIES
    WaitEnds
CHECK_DEADLOCK FALSE
