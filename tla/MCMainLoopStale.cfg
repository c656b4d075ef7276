CONSTANTS
    a = a
    b = b
    x = x
    y = y
    Client = {a, b}
    Cpu = {x}
    Fd = {0, 1, 2}
    Server = Server
    Message <- Echo
    MaxSent = 1
SPECIFICATION FairSpec
PROPERTIES
    Served
