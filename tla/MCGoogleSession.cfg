SPECIFICATION Spec
CONSTANTS
    Chunks = 2
    LongMax = 32767
    Tokens = {"a1", "a2"}
    Statuses <- MCStatuses
    Timeouts <- MCTimeouts
    Keepers = {TRUE, FALSE}
INVARIANTS
    TypeOK
    WholeOrError
    ReturnsOnSuccessOnly
    RefusalsAreHttpErrors
    StaysSignedIn
PROPERTIES
    CallsEnd
