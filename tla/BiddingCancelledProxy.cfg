SPECIFICATION Spec
CONSTANTS
    a = a
    b = b
    c = c
    r1 = r1
    r2 = r2
    User <- Users
    Creator = c
    AuctionType = "ENGLISH"
    StartPrice = 1
    OpeningPrice = 1
    MinIncrement = 1
    Tiers = {}
    ReservePrice = 0
    BuyNowPrice = 0
    EndDate = 2
    AntiSnipeMinutes = 1
    AntiSnipeExtension = 1
    RetractWindow = 1
    Request = {r1}
    Calls = {"placeBid", "setProxyBid", "cancelProxyBid"}
    Crashes = FALSE
    Kinds = {"MANUAL"}
    Offer = {2, 3, 5}
    MaxBids = 4
    MaxTime = 0
PROPERTY CancelledProxyIsSilent
CHECK_DEADLOCK FALSE
