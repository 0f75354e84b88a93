SPECIFICATION FairQuietSpec
CONSTANTS
    d1 = d1
    d2 = d2
    d3 = d3
    d4 = d4
    alice = alice
    bob = bob
    Requests = {r1, r2}
    Commands = {c1}
    Panel = panel
    Draws = {d1, d2, d3}
    Names = {alice, bob}
    InitialFiles <- MCInitialFiles
    Tampers = {"missing", "bad"}
    NoThread = NoThread
    MaxVersion = 3
PROPERTIES
    ImplementsAdminList
    Converges
