SPECIFICATION Spec
CONSTANTS
    a = a
    b = b
    c = c
    r1 = r1
    r2 = r2
    User <- Users
    Creator = c
    AuctionType = "ENGLISH"
    StartPrice = 1
    OpeningPrice = 1
    MinIncrement = 1
    Tiers = {}
    ReservePrice = 0
    BuyNowPrice = 4
    EndDate = 3
    AntiSnipeMinutes = 2
    AntiSnipeExtension = 1
    RetractWindow = 1
    Request = {r1}
    Calls = {"placeBid", "setProxyBid", "cancelProxyBid", "retractBid"}
    Crashes = FALSE
    Kinds = {"MANUAL", "PROXY", "BUY_NOW"}
    Offer = {1, 2, 4}
    MaxBids = 2
    MaxTime = 3
INVARIANT PriceCoversBook
INVARIANT BidCountIsExact
PROPERTY EndOnlyMovesLater
SYMMETRY BidderSymmetry
CHECK_DEADLOCK FALSE
