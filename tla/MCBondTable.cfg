\* Two bonds, a sector of five areas cleaned from the third on.
CONSTANTS
    Device = {d1, d2, d3}
    NoDevice = NoDevice
    MaxNum = 2
    CleanSlot = 3
    SectorSlots = 5
    MaxAdds = 2
SPECIFICATION Spec
INVARIANTS
    TypeOK
    BootAccepts
    Durable
    OneRecordEach
    InSector
PROPERTIES
    LogDiscipline
    BootCompletes
    ImplementsBondStore
