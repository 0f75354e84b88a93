SPECIFICATION Spec
CONSTANTS
    Ids = {i1, i2}
    Tokens = {t1, t2, t3}
    Accounts = {x1, x2}
    EntryIds = {e1, e2}
    Labels = {phone, laptop}
    MaxEntries = 2
    MaxVersion = 7
SYMMETRY Symmetry
INVARIANTS
    LinkFindsItsOwner
    FileLoads
    MemoryIsOnDisk
    ShutLinksStayShut
PROPERTY
    NeverClobbers
