CONSTANTS
    AccLimit = 2
    TimeLimit = 2
    Key = {1, 2}
    KeySlots = 2
    Rate = {0, 1, 2}
    Message = {0, 1}
    MaxDue = 1
    MaxPlace = 2
SPECIFICATION FairSpec
INVARIANTS
    TypeOK
    
    NothingMissed
    CountedIsReachable
PROPERTIES
    KeepsItsNumber
    QuietAfterReset
    EveryPeriod
    ClockTicks
