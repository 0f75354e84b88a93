SPECIFICATION Spec
CONSTANTS
    Admins = {alice, bob}
    Nobody = Nobody
    Devices = {d1, d2}
    Handles = {h1, h2}
    Creds = {c1, c2, c3}
    MaxPasskeys = 2
SYMMETRY Symmetry
INVARIANTS
    FileLoads
    EveryKeyWorks
    KeysAreTheirMakers
    RemovedKeysStayOut
PROPERTY
    PruneSparesTheLiving
