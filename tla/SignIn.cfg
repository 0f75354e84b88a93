SPECIFICATION Spec
CONSTANTS
    d1 = d1
    d2 = d2
    alice = alice
    bob = bob
    Clients = {c1, c2}
    Keys = {k1, k2}
    Draws = {d1, d2}
    Owners = {d1, d2}
    Prints = {d1, d2}
    Names = {alice}
    InitialFiles <- MCInitialFiles
    NoKey = NoKey
    Nobody = Nobody
    Idle = 2
    Refresh = 1
    MaxSessions = 2
    StorageFails = TRUE
    FileMoves = TRUE
SYMMETRY Symmetry
INVARIANTS
    SessionNeedsPassword
    RefusedForGood
