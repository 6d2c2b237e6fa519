SPECIFICATION FairSpec
CONSTANTS
    d1 = d1
    d2 = d2
    None = None
    Dbs <- ConstDbs
    First = d1
    Slots <- ConstSlots
    MaxLogin = 3
    MaxFaults = 1
INVARIANT CredentialsAreComing
INVARIANT DeletingIsTrue
PROPERTY SpinnersStop
CHECK_DEADLOCK FALSE
