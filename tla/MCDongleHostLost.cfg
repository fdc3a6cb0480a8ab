\* A slave that connects while the discovery of another one runs.
CONSTANTS
    Device = {d1, d2}
    None = None
    MaxNum = 2
    Rounds = 2
    MaxQueue = 2
    TypeByteMatch = {d1}
SPECIFICATION Spec
INVARIANT
    NewSlaveDiscovered
