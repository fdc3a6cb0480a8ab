\* As many timers as in the code; three calls of process fit in the margin.
CONSTANTS
    Func = {f1, f2}
    Interval = {1, 3}
    MaxTimerNum = 4
    M = 24
    Pre = 1
    Post = 4
    WakeMax = 3
    MaxGap = 1
SPECIFICATION Spec
SYMMETRY Symmetry
INVARIANTS
    Ordered
    NeverMissed
