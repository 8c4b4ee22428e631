SPECIFICATION HouseSpec
CONSTANTS
    a = a
    b = b
    c = c
    r1 = r1
    r2 = r2
    w1 = w1
    w2 = w2
    User <- Users
    Creator = c
    AuctionType = "VICKREY"
    StartPrice = 1
    OpeningPrice = 1
    MinIncrement = 1
    Tiers = {}
    ReservePrice = 2
    BuyNowPrice = 0
    EndDate = 3
    AntiSnipeMinutes = 1
    AntiSnipeExtension = 1
    RetractWindow = 1
    Request = {r1}
    Calls = {"placeBid", "retractBid"}
    Crashes = FALSE
    Kinds = {"MANUAL"}
    Offer = {1, 2}
    MaxBids = 2
    MaxTime = 3
    Worker = {w1, w2}
    StartDate = 2
    DutchDecrement = 0
    Manual = {"publish", "start", "end", "cancel"}
INVARIANT OrdersMatchBook
INVARIANT BestSeenBidWins
INVARIANT SoldLotHasOrder
INVARIANT FateMatchesStatus
SYMMETRY HouseSymmetry
CHECK_DEADLOCK FALSE
