CONSTANTS
    Word = {0, 1, 2}
    QLimit = 4
SPECIFICATION FairSpec
INVARIANTS
    TypeOK
    QueueIsArmed
    WaitIsNotSkip
PROPERTIES
    SkippedHasNoEffect
    PendingIsServed
    
