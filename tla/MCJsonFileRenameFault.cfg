SPECIFICATION Spec
CONSTANTS
    Procs = {w, r}
    Writers = {w}
    Docs = {d1, d2}
    Inodes = {f1, f2, f3, f4}
    Faults = {"rename"}
    Missing = Missing
    Torn = Torn
    None = None
SYMMETRY Symmetry
INVARIANTS
    StatePersists
