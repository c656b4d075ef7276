CONSTANTS
    Session = {s1, s2}
    Cemei = {c1, c2}
    NULL = NULL
    Key = {disk, card}
    Disk = {disk}
    Stored = {disk}
    RedisType = "ISIT_SESSION"
    QueueLimit = 3
    MaxObject = 3
SPECIFICATION FairSpec
INVARIANTS
    TypeOK
    
    OneCommandEach
PROPERTIES
    AnsweredTruly
    
