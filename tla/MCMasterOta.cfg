\* Images of 0 and 3 blocks through a FIFO that holds back data at two.
CONSTANTS
    Sizes = {0, 3}
    TooBig = 4
    TxSize = 3
    TxHigh = 2
    BlinkSteps = 2
    MaxOwed = 1
    IndexMod = 65536
SPECIFICATION Spec
INVARIANTS
    BlocksInFlight
    OneConnection
PROPERTIES
    SuccessMeansDelivered
    TransferEnds
