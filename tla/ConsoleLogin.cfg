SPECIFICATION Spec
CONSTANTS
    d1 = d1
    d2 = d2
    None = None
    Dbs <- ConstDbs
    First = d1
    Slots <- ConstSlots
    MaxLogin = 2
    MaxFaults = 0
INVARIANT ShownLoginWorks
CHECK_DEADLOCK FALSE
