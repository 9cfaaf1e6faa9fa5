SPECIFICATION Spec
CONSTANTS
    Procs = {w, r}
    Writers = {w}
    Docs = {d1, d2}
    Inodes = {f1, f2, f3, f4}
    Faults = {"close", "rename", "open"}
    Missing = Missing
    Torn = Torn
    None = None
INVARIANTS
    NoTornRead
    SavedStateSurvives
    AckedIsWritten
    NeverReverts
PROPERTIES
    Implements
