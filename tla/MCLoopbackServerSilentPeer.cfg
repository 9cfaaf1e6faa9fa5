SPECIFICATION Spec
CONSTANTS
    Conns = {c1, c2}
    Backlog = 1
    Timeout = 2
    MaxCalls = 2
    Nobody = Nobody
PROPERTIES
    WaitEnds
CHECK_DEADLOCK FALSE
