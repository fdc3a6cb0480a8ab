\* Both FIFOs with two slots; the MCU uses both of spp_rx_fifo.
CONSTANTS
    RxNum = 2
    TxNum = 2
    Modulus = 4
    Window = 2
SPECIFICATION Spec
INVARIANTS
    InOrder
    SleepsClean
    McuWarned
PROPERTIES
    IdleSleeps
    CommandsAnswered
