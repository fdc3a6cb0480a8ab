\* One key for each endpoint; the pointers run twice the range of the overflow test.
CONSTANTS
    NormalKey = {k1}
    SysKey = {}
    MediaKey = {m1}
    None = None
    FifoNum = 2
    Wrap = 8
SPECIFICATION Spec
INVARIANTS
    UndisturbedMirror
PROPERTIES
    ImplementsReportQueue
    Drains
