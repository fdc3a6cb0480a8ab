\* Safety: a third slave, so that a full table of two loses its oldest.
CONSTANTS
    Device = {d1, d2, d3}
    None = None
    MaxNum = 2
    Rounds = 2
    MaxQueue = 2
    TypeByteMatch = {d1}
INIT Init
NEXT Next
SYMMETRY Symmetry
INVARIANTS
    NoDuplicateBond
    PendingHasService
    UnpairLeavesNoBond
PROPERTIES
    AnswerIntoLiveBuffer
    DiscoveryCoherent
    UpdateForRequester
