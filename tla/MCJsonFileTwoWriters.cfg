SPECIFICATION Spec
CONSTANTS
    Procs = {w1, w2}
    Writers = {w1, w2}
    Docs = {d1, d2}
    Inodes = {f1, f2, f3, f4}
    Faults = {}
    Missing = Missing
    Torn = Torn
    None = None
SYMMETRY Symmetry
INVARIANTS
    StatePersists
