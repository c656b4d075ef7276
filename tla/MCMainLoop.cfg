CONSTANTS
    a = a
    b = b
    x = x
    y = y
    Client = {a, b}
    Cpu = {x, y}
    Fd = {0, 1, 2}
    Server = Server
    Message <- Requests
    MaxSent = 2
SPECIFICATION FairSpec
INVARIANTS
    TypeOK
    IndexesInRange
    RunsOnce
    HandledOnce
PROPERTIES
    HelloFirst
    EveryCpuRuns
    ServedWhenAligned
