SPECIFICATION HouseSpec
CONSTANTS
    a = a
    b = b
    c = c
    r1 = r1
    r2 = r2
    w1 = w1
    w2 = w2
    User <- Users
    Creator = c
    AuctionType = "ENGLISH"
    StartPrice = 1
    OpeningPrice = 1
    MinIncrement = 1
    Tiers = {}
    ReservePrice = 0
    BuyNowPrice = 0
    EndDate = 3
    AntiSnipeMinutes = 1
    AntiSnipeExtension = 1
    RetractWindow = 1
    Request = {r1}
    Calls = {"placeBid"}
    Crashes = FALSE
    Kinds = {"MANUAL"}
    Offer = {1, 2}
    MaxBids = 1
    MaxTime = 4
    Worker = {w1, w2}
    StartDate = 2
    DutchDecrement = 0
    Manual = {"publish", "start", "end", "cancel"}
PROPERTY StatusFollowsMachine
CHECK_DEADLOCK FALSE
