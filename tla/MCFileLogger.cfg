SPECIFICATION Spec
CONSTANTS
    Threads = {t1, t2}
    Entries = {e1, e2, e3, e4}
    Long = {e1, e2}
    Faults = {"crash", "full"}
    Newline = Newline
    Scrap = Scrap
SYMMETRY Symmetry
INVARIANTS
    TypeOK
    DamageIsLocal
    ThrownMeansAbsent
CHECK_DEADLOCK FALSE
