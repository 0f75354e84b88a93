SPECIFICATION ListSpec
CONSTANTS
    Users = {u1}
    Notes = {phone}
    MaxRequests = 2
    MaxChanges = 2
    None = None
    NoData = NoData
INVARIANTS
    NothingStaleUnderWay
    BannerUnlessOvertaken
    SettledIsTrue
