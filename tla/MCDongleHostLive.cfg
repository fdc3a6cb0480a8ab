\* Liveness, with two slaves.
CONSTANTS
    Device = {d1, d2}
    None = None
    MaxNum = 2
    Rounds = 2
    MaxQueue = 2
    TypeByteMatch = {d1}
SPECIFICATION Spec
PROPERTIES
    PendingEnds
    UnpairServed
