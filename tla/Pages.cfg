SPECIFICATION Spec
CONSTANTS
    Nodes = {n1, n2}
    MaxAttempts = 2
    Accounts = {a1, a2}
    MaxSubmissions = 2
    MaxOthers = 1
    Entries = {e1}
    ShareNodes = {s1}
    States = {"active", "quota"}
    Fanout = 1
    MaxEvents = 2
    Nowhere = Nowhere
    Users = {u1}
    Notes = {}
    MaxRequests = 1
    MaxChanges = 2
    None = None
    NoData = NoData
INVARIANTS
    NoSecondEnrolment
    PicksLandOrStay
    CardsTellTheTruth
PROPERTIES
    PageFillsInTheEnd
    AgreesInTheEnd
