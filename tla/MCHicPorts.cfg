CONSTANTS
    a = a
    b = b
    Dev = {a}
    Port = {0, 1}
    Data = {1, 2}
    Kind = {"transmit"}
    BufLimit = 2
SPECIFICATION Spec
INVARIANTS
    LeavesByItsPort
PROPERTIES
    IsWire
