\* Safety: traffic both ways, a lost frame and a restart, over a line that keeps up.
CONSTANTS
    SeqSize = 2
    AutoSleep = {}
    OnTime = TRUE
    MaxPackets <- TwoEach
    MaxWire = 1
    MaxLosses = 1
    MaxResets = 1
SPECIFICATION Spec
INVARIANTS
    TimerRuns
    InStep
PROPERTIES
    ImplementsChannel
CHECK_DEADLOCK FALSE
