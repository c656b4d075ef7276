CONSTANTS
    cpu = cpu
    bus = bus
    hic = hic
    ram = ram
    rom = rom
    NULL = NULL
    Garbage = Garbage
    Cpu = {cpu}
    Bus = {bus}
    Floppy = {}
    Disk = {}
    Hic = {hic}
    Card = {}
    Memory = {ram, rom}
    MaxIndex = 2
SPECIFICATION CarefulSpec
INVARIANTS
    TypeOK
    
    MemoryShared

    
