\* Liveness: a line that keeps up, one lost frame, a restart of the controller, which
\* lets the link sleep.
CONSTANTS
    SeqSize = 2
    AutoSleep = {2}
    OnTime = TRUE
    MaxPackets <- OneEach
    MaxWire = 1
    MaxLosses = 1
    MaxResets = 1
SPECIFICATION Spec
PROPERTIES
    LinkComesUp
    PacketResolves
CHECK_DEADLOCK FALSE
