SPECIFICATION Spec
CONSTANTS
    r1 = r1
    r2 = r2
    k1 = k1
    MaxPayments = 2
    Request = {r1, r2}
    Clerk = {k1}
    Methods = {"CREDIT_CARD", "BANK_TRANSFER", "ESCROW"}
    HasProfile = TRUE
    AdminStatus = {"PENDING_PAYMENT"}
    Tracked = {"DELIVERED"}
    MaxCalls = 2
    Crashes = TRUE
INVARIANT TypeOK
INVARIANT PaidIsCharged
INVARIANT GoodsAreBacked
INVARIANT PayoutIsBacked
INVARIANT OneEscrowReleased
INVARIANT CompletedIsSeen
PROPERTY KeepsPromise
PROPERTY DeliveryIsFinal
SYMMETRY Symmetry
CHECK_DEADLOCK FALSE
