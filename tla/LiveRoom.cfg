SPECIFICATION RoomSpec
CONSTANTS
    a = a
    c = c
    r1 = r1
    d1 = d1
    d2 = d2
    User <- Users
    Creator = c
    AuctionType = "ENGLISH"
    StartPrice = 1
    OpeningPrice = 1
    MinIncrement = 1
    Tiers = {}
    ReservePrice = 0
    BuyNowPrice = 0
    EndDate = 1
    AntiSnipeMinutes = 0
    AntiSnipeExtension = 0
    RetractWindow = 0
    Request = {r1}
    Calls = {"setProxyBid", "cancelProxyBid"}
    Crashes = TRUE
    Kinds = {"MANUAL"}
    Offer = {2}
    MaxBids = 1
    MaxTime = 0
    LotCount = 2
    Desk = {d1, d2}
    Admin = {c}
    PhoneOffer = {3}
INVARIANT RoomTypeOK
INVARIANT HammerIsABid
INVARIANT PriceIsABid
INVARIANT BidCountNeverOverstates
PROPERTY HistoryIsKept
SYMMETRY DeskSymmetry
CHECK_DEADLOCK FALSE
