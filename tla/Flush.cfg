SPECIFICATION Spec
CONSTANTS
    Pids = {p1, p2, p3}
    Interval = 2
INVARIANTS OneWriter StaleOnlyEarly
PROPERTIES Flushes Halts
