SPECIFICATION Spec
CONSTANTS
    a = a
    b = b
    c = c
    r1 = r1
    r2 = r2
    User <- Users
    Creator = c
    AuctionType = "ENGLISH"
    StartPrice = 1
    OpeningPrice = 1
    MinIncrement = 1
    Tiers = {}
    ReservePrice = 0
    BuyNowPrice = 0
    EndDate = 2
    AntiSnipeMinutes = 1
    AntiSnipeExtension = 1
    RetractWindow = 1
    Request = {r1}
    Calls = {"placeBid", "setProxyBid"}
    Crashes = FALSE
    Kinds = {"MANUAL"}
    Offer = {1, 2, 3}
    MaxBids = 3
    MaxTime = 0
INVARIANT OneWinner
CHECK_DEADLOCK FALSE
