SPECIFICATION Spec
CONSTANTS
    Conns = {m1, m2}
    Interval = 3
    InputSize = 1
    Slack = 1
INVARIANTS TypeOK ListExact Sorted OnlyStuckDropped
PROPERTIES Counted Dropped
