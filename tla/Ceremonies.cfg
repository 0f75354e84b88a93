SPECIFICATION Spec
CONSTANTS
    Attempts = {c1, c2, c3}
    Admins = {alice, bob}
    None = None
SYMMETRY Symmetry
INVARIANTS
    StopStops
    NoGhostRequest
    NobodyWaitsForTheVisitor
    
