CONSTANTS
    Block = {0, 1}
    Sector = {0, 1}
    Value = {0, 1}
    Blank = 0
    QueueLimit = 2
    Backing = {"none", "file", "redis"}
    Fresh = {"file"}
    Faults = {"nowrite", "drop"}
SPECIFICATION FairSpec
CHECK_DEADLOCK FALSE
INVARIANTS
    TypeOK
    

    
    
