SPECIFICATION Spec
CONSTANTS
    Handlers = {h1, h2}
    Names = {alice}
    Owners = {admin}
    Nobody = Nobody
    PerUser = 1
    GlobalCap = 3
    Window = 2
    TTL = 2
    MaxChallenges = 7
    MaxEnrolments = 1
    MaxBegun = 8
    Lag = 1
    MaxClock = 3
SYMMETRY Symmetry
INVARIANTS
    GuessesBounded
    OnceAndOwn
PROPERTY
    FloodNeverEvicts
