CONSTANTS
    a = a
    b = b
    Dev = {a, b}
    Port = {0}
    Data = {1}
    Kind = {"receive"}
    BufLimit = 2
SPECIFICATION FairSpec
INVARIANTS
    TypeOK
PROPERTIES
    IsWire
    ArrivalIsSignalled
    TransmitterDrains
