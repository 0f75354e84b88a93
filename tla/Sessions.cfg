SPECIFICATION Spec
CONSTANTS
    Keys = {k1, k2, k3}
    Owners = {a1, a2}
    Prints = {p1}
    Idle = 3
    Refresh = 2
    MaxSessions = 2
    StorageFails = TRUE
    Lag = 1
    MaxClock = 4
SYMMETRY Symmetry
INVARIANTS
    OnePerKey
    NeverOutlivesIdle
    NoEarlyDeath
    FileIsFaithful
    RevokedStaysOut
PROPERTY
    EvictsTheIdlest
