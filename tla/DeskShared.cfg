SPECIFICATION FairSpec
CONSTANTS
    c1 = c1 c2 = c2
    k1 = k1 k2 = k2 k3 = k3
    s1 = s1 s2 = s2
    alice = alice bob = bob
    None = None
    Slots <- ConstSlots
    MaxFaults = 1
    Cidrs <- ConstCidrs
    MaxAmount = 1
    KeyIds <- ConstKeys
    MockKeys <- ConstMock
    MaxTier = 2
    Stores <- ConstStores
    Schemas = 3
    Tables = 2
    PageSizes <- ConstSizes
    TablePage = 1
    Users <- ConstUsers
INVARIANT TypeOK
 
INVARIANT EmptyIsTrue
PROPERTY TypedIsKept
INVARIANT SwitchIsTrue
INVARIANT SecretKept
INVARIANT RangeIsOfSelected
INVARIANT ShownIsTheirs
PROPERTY WaitingEnds
CHECK_DEADLOCK FALSE
