SPECIFICATION Spec
CONSTANTS
    a = a
    b = b
    c = c
    r1 = r1
    r2 = r2
    User <- Users
    Creator = c
    AuctionType = "ENGLISH"
    StartPrice = 1
    OpeningPrice = 1
    MinIncrement = 1
    Tiers <- OneTier
    ReservePrice = 2
    BuyNowPrice = 4
    EndDate = 1
    AntiSnipeMinutes = 1
    AntiSnipeExtension = 1
    RetractWindow = 1
    Request = {r1, r2}
    Calls = {"placeBid", "setProxyBid"}
    Crashes = TRUE
    Kinds = {"MANUAL", "BUY_NOW"}
    Offer = {1, 2, 4}
    MaxBids = 2
    MaxTime = 2
INVARIANT ProxyWithinMax
INVARIANT PriceIsABid
INVARIANT ExtensionsArePaidFor
INVARIANT ReserveMetIsTrue
SYMMETRY Symmetry
CHECK_DEADLOCK FALSE
