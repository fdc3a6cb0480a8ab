\* An odd frame of one and a half USB packets, pointers that wrap after two rings.
CONSTANTS
    Frame = 3
    Modulus = 8
    ResetCount = 5
    AddPerPass = 2
    IrqPerPass = 2
SPECIFICATION Spec
INVARIANTS
    Lag
    PlaysFresh
